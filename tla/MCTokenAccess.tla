--------------------------- MODULE MCTokenAccess ---------------------------
(***************************************************************************)
(* Instances of TokenAccess for TLC: three requests and one call of the    *)
(* script, on a pool of two threads.                                       *)
(***************************************************************************)
EXTENDS TokenAccess, TLC

CONSTANTS a, b, c, s, i1

ProcessOf == [t \in Threads |-> IF t = s THEN "script" ELSE "server"]

Asks(op, credential) == [op |-> op, id |-> i1, credential |-> credential]

Changes == {Asks(op, "admin") : op \in {"generate", "import", "delete"}}

TokenRequests ==
  [t \in Threads |->
     CASE t = a -> Changes
       [] t = b -> Changes \cup {Asks("certs", "admin")}
       [] t = c -> {Asks("keys", "admin"), Asks("health", "other"),
                    Asks("generate", "api"), Asks("sign", "api")}
       [] t = s -> {Asks("build_cert", "other")}]
=============================================================================
