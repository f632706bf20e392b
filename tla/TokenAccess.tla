---------------------------- MODULE TokenAccess ----------------------------
(***************************************************************************)
(* How requests get to the token: the bearer token of their plane, a thread*)
(* of the server's pool, the process-wide reentrant lock _hsm_lock, and a  *)
(* PKCS#11 session per call.  What the other modules take for one step, a  *)
(* method of hsm.HSM, is here the steps it is made of.                     *)
(*                                                                         *)
(* The enrollment script imports app.hsm too: it runs the same methods in  *)
(* a process of its own, with a lock of its own.                           *)
(***************************************************************************)
EXTENDS Sequences, Naturals, FiniteSets

CONSTANTS
  Threads,     \* one per request, and per call of the script
  Process,     \* which process a thread belongs to: "server" or "script"
  Ids,         \* CKA_ID values
  Requests,    \* what a thread may be asked, see Request
  Configured,  \* the planes whose bearer token is set (config.py)
  PoolSize,    \* threads of the server's pool
  MaxHangs,    \* bound on the times the token stops answering
  None

VARIABLES
  stage,        \* per thread: how far its request got
  request,      \* per thread: the request
  todo,         \* per thread: calls of HSM its handler has still to make
  frames,       \* per thread: calls of HSM it is in, outermost first
  owner,        \* per process: the thread that holds _hsm_lock
  depth,        \* per process: how many times it holds it
  hung,         \* the token does not answer
  hangs,        \* how often it stopped
  pairs,        \* the token: key pairs and certificates by CKA_ID
  certificates

token == <<pairs, certificates>>
lock == <<owner, depth>>
trouble == <<hung, hangs>>
vars == <<stage, request, todo, frames, lock, trouble, token>>

Processes == {"server", "script"}

\* The token a request must bear, by endpoint.
Plane(op) ==
  CASE op = "health" -> "open"
    [] op \in {"sign", "verify"} -> "api"
    [] op \in {"ensure_key", "build_cert"} -> "script"
    [] OTHER -> "admin"

(***************************************************************************)
(* The calls of HSM a handler makes, when none of them raises: one entry   *)
(* per way through it that the registry or the body of the request decides.*)
(* integrity and certs call once more per row and per listed object; one   *)
(* such row or object stands for them.                                     *)
(***************************************************************************)
CallsListingProbes(op) ==  \* mutant: the listing asks for the token first
  CASE op \in {"keys", "retire", "health"} -> {<<"token">>}
    [] op = "generate" -> {<<"gen">>}
    [] OTHER -> {<<>>}

Calls(op) ==
  CASE op \in {"health", "token"} -> {<<"token">>}
    [] op = "mechanisms" -> {<<"mechanisms">>}
    [] op = "objects"    -> {<<"objects">>}
    [] op \in {"keys", "retire"} -> {<<>>}
    [] op = "generate"   -> {<<"gen">>}
    [] op = "register"   -> {<<>>, <<"key">>, <<"key", "cert">>}
    [] op = "update"     -> {<<>>, <<"key", "cert">>}
    [] op \in {"sign", "verify"} ->
         {<<>>, <<"key">>, <<"key", op>>, <<"key", "cert">>, <<"key", "cert", op>>}
    [] op = "integrity"  -> {<<"objects">>, <<"objects", "key">>, <<"objects", "key", "cert">>}
    [] op = "certs"      -> {<<"objects">>, <<"objects", "cert">>}
    [] op = "cert"       -> {<<"cert">>}
    [] op = "import"     -> {<<>>, <<"import_cert">>}
    [] op = "delete"     -> {<<>>, <<"cert", "delete_cert">>}
    [] op = "ensure_key" -> {<<"key">>}
    [] op = "build_cert" -> {<<"sign", "key">>}

Operation ==
  {"health", "token", "mechanisms", "objects", "keys", "retire", "generate",
   "register", "update", "sign", "verify", "integrity", "certs", "cert",
   "import", "delete", "ensure_key", "build_cert"}

Method ==
  {"token", "mechanisms", "objects", "key", "cert", "sign", "verify",
   "import_cert", "delete_cert", "gen", "_assert_unique"}

Request == [op: Operation, id: Ids, credential: {"admin", "api", "other"}]

(***************************************************************************)
(* A call of a method: the step it is at.  gen (gen_rsa, gen_ec) calls     *)
(* _assert_unique first and key last; token and mechanisms open no session.*)
(***************************************************************************)
At == {"unique", "open", "body", "close", "readback", "return"}

Frame == [method: Method, at: At]

FirstAt(method) ==
  CASE method = "gen" -> "unique"
    [] method \in {"token", "mechanisms"} -> "body"
    [] OTHER -> "open"

NextAt(method, at) ==
  CASE at = "unique"   -> "open"
    [] at = "open"     -> "body"
    [] at = "body"     -> IF method \in {"token", "mechanisms"} THEN "return" ELSE "close"
    [] at = "close"    -> IF method = "gen" THEN "readback" ELSE "return"
    [] OTHER           -> "return"

InSession(f) == f.at \in {"body", "close"} /\ f.method \notin {"token", "mechanisms"}

Stage == {"new", "arrived", "auth", "admitted", "handler", "answered", "lost"}

ASSUME ThreadsAssumption ==
  /\ Process \in [Threads -> Processes]
  /\ None \notin Threads
  /\ Requests \in [Threads -> SUBSET Request]
  /\ \A t \in Threads : \A r \in Requests[t] :
       (Plane(r.op) = "script") = (Process[t] = "script")

ASSUME BoundsAssumption == PoolSize \in Nat /\ MaxHangs \in Nat

----------------------------------------------------------------------------

TypeOK ==
  /\ stage \in [Threads -> Stage]
  /\ request \in [Threads -> Request \cup {None}]
  /\ todo \in [Threads -> Seq(Method)]
  /\ frames \in [Threads -> Seq(Frame)]
  /\ owner \in [Processes -> Threads \cup {None}]
  /\ depth \in [Processes -> Nat]
  /\ hung \in BOOLEAN
  /\ hangs \in 0..MaxHangs
  /\ pairs \in [Ids -> Nat]
  /\ certificates \in [Ids -> Nat]

Init ==
  /\ stage = [t \in Threads |-> "new"]
  /\ request = [t \in Threads |-> None]
  /\ todo = [t \in Threads |-> <<>>]
  /\ frames = [t \in Threads |-> <<>>]
  /\ owner = [p \in Processes |-> None]
  /\ depth = [p \in Processes |-> 0]
  /\ hung = FALSE
  /\ hangs = 0
  /\ pairs = [i \in Ids |-> 0]
  /\ certificates = [i \in Ids |-> 0]

----------------------------------------------------------------------------
\* From the network to the handler.  A dependency and a handler are plain
\* functions: each takes a thread of the pool while it runs.

SlotFree ==
  Cardinality({t \in Threads : Process[t] = "server" /\ stage[t] \in {"auth", "handler"}})
    < PoolSize

Move(t, s) == stage' = [stage EXCEPT ![t] = s]

Arrive(t) ==
  /\ stage[t] = "new"
  /\ \E r \in Requests[t] :
       /\ request' = [request EXCEPT ![t] = r]
       /\ CASE Plane(r.op) = "script" ->
                 /\ Move(t, "handler")
                 /\ \E calls \in Calls(r.op) : todo' = [todo EXCEPT ![t] = calls]
            [] Plane(r.op) = "open" -> Move(t, "admitted") /\ UNCHANGED todo
            [] OTHER -> Move(t, "arrived") /\ UNCHANGED todo
  /\ UNCHANGED <<frames, lock, trouble, token>>

StartAuth(t) ==
  /\ stage[t] = "arrived"
  /\ SlotFree
  /\ Move(t, "auth")
  /\ UNCHANGED <<request, todo, frames, lock, trouble, token>>

\* require_admin_auth, require_api_auth: 503 when the plane has no token set,
\* 401 when the credential is another.
Authenticate(t) ==
  /\ stage[t] = "auth"
  /\ LET plane == Plane(request[t].op) IN
     IF plane \in Configured /\ request[t].credential = plane
     THEN Move(t, "admitted")
     ELSE Move(t, "answered")
  /\ UNCHANGED <<request, todo, frames, lock, trouble, token>>

Start(t) ==
  /\ stage[t] = "admitted"
  /\ SlotFree
  /\ Move(t, "handler")
  /\ \E calls \in Calls(request[t].op) : todo' = [todo EXCEPT ![t] = calls]
  /\ UNCHANGED <<request, frames, lock, trouble, token>>

Answer(t) ==
  /\ stage[t] = "handler"
  /\ frames[t] = <<>>
  /\ todo[t] = <<>>
  /\ Move(t, "answered")
  /\ UNCHANGED <<request, todo, frames, lock, trouble, token>>

----------------------------------------------------------------------------
\* Calls of HSM.  The lock is reentrant: gen calls _assert_unique and key.

Top(t) == frames[t][Len(frames[t])]

AtStep(t, at) == frames[t] # <<>> /\ Top(t).at = at

\* The innermost of the calls goes on to its next step.
Advanced(calls) ==
  [calls EXCEPT ![Len(calls)].at = NextAt(calls[Len(calls)].method, @)]

Advance(t) == frames' = [frames EXCEPT ![t] = Advanced(@)]

\* Mutant: the method is not decorated with _hsm_locked.
AvailableUnlocked(t) == TRUE

\* Mutant: threading.Lock in place of RLock.
AvailableOnce(t) == owner[Process[t]] = None

Available(t) == owner[Process[t]] \in {None, t}

Enter(t, method) ==
  /\ Available(t)
  /\ owner' = [owner EXCEPT ![Process[t]] = t]
  /\ depth' = [depth EXCEPT ![Process[t]] = @ + 1]
  /\ frames' = [frames EXCEPT ![t] = Append(@, [method |-> method, at |-> FirstAt(method)])]

Call(t) ==
  /\ stage[t] = "handler"
  /\ frames[t] = <<>>
  /\ todo[t] # <<>>
  /\ Enter(t, Head(todo[t]))
  /\ todo' = [todo EXCEPT ![t] = Tail(@)]
  /\ UNCHANGED <<stage, request, trouble, token>>

\* gen refuses its parameters: it takes the lock and gives it back.
RefuseParameters(t) ==
  /\ stage[t] = "handler"
  /\ frames[t] = <<>>
  /\ todo[t] # <<>> /\ Head(todo[t]) = "gen"
  /\ Available(t)
  /\ todo' = [todo EXCEPT ![t] = <<>>]
  /\ UNCHANGED <<stage, request, frames, lock, trouble, token>>

NestedCall(t) ==
  /\ \/ AtStep(t, "unique") /\ Enter(t, "_assert_unique")
     \/ AtStep(t, "readback") /\ Enter(t, "key")
  /\ UNCHANGED <<stage, request, todo, trouble, token>>

Open(t) ==
  /\ AtStep(t, "open")
  /\ ~hung
  /\ Advance(t)
  /\ UNCHANGED <<stage, request, todo, lock, trouble, token>>

\* _assert_unique looks for any object with the id.
OnToken(i) == pairs[i] > 0 \/ certificates[i] > 0

\* What the method does on the token.  The token itself does not refuse a
\* second object under an id.
Effect(method, i) ==
  CASE method = "gen" ->
         pairs' = [pairs EXCEPT ![i] = @ + 1] /\ UNCHANGED certificates
    [] method = "import_cert" ->
         certificates' = [certificates EXCEPT ![i] = @ + 1] /\ UNCHANGED pairs
    [] method = "delete_cert" ->
         /\ certificates[i] > 0
         /\ certificates' = [certificates EXCEPT ![i] = @ - 1]
         /\ UNCHANGED pairs
    [] method = "_assert_unique" -> ~OnToken(i) /\ UNCHANGED token
    [] OTHER -> UNCHANGED token

Body(t) ==
  /\ AtStep(t, "body")
  /\ ~hung
  /\ Effect(Top(t).method, request[t].id)
  /\ Advance(t)
  /\ UNCHANGED <<stage, request, todo, lock, trouble>>

Close(t) ==
  /\ AtStep(t, "close")
  /\ ~hung
  /\ Advance(t)
  /\ UNCHANGED <<stage, request, todo, lock, trouble, token>>

\* Mutant: the first return gives the lock away, whoever called.
ReleaseOwner(t, holds) ==
  /\ depth' = [depth EXCEPT ![Process[t]] = @ - holds]
  /\ owner' = [owner EXCEPT ![Process[t]] = None]

\* Mutant: released by the with statement and once more by hand.
ReleaseTwice(t, holds) ==
  /\ depth' = [depth EXCEPT ![Process[t]] = @ - 2 * holds]
  /\ owner' = [owner EXCEPT ![Process[t]] = None]

\* Release so many holds of the lock; the last one frees it.
Release(t, holds) ==
  /\ depth' = [depth EXCEPT ![Process[t]] = @ - holds]
  /\ owner' = [owner EXCEPT ![Process[t]] = IF depth[Process[t]] = holds THEN None ELSE @]

\* The call returns; its caller, if any, goes on.
Return(t) ==
  /\ AtStep(t, "return")
  /\ Release(t, 1)
  /\ LET below == SubSeq(frames[t], 1, Len(frames[t]) - 1) IN
     frames' = [frames EXCEPT ![t] =
       IF below = <<>> THEN <<>> ELSE Advanced(below)]
  /\ UNCHANGED <<stage, request, todo, trouble, token>>

(***************************************************************************)
(* The token, slot() or session() raises, or there is no such object: all  *)
(* calls of the thread end, with statements close sessions and release the *)
(* lock.  Only certs goes on after a certificate it could not read.        *)
(***************************************************************************)
Raise(t) ==
  /\ AtStep(t, "open") \/ AtStep(t, "body")
  /\ ~hung
  /\ frames' = [frames EXCEPT ![t] = <<>>]
  /\ Release(t, Len(frames[t]))
  /\ todo' = [todo EXCEPT ![t] =
       IF request[t].op = "certs" /\ Top(t).method = "cert" THEN @ ELSE <<>>]
  /\ UNCHANGED <<stage, request, trouble, token>>

----------------------------------------------------------------------------
\* Trouble.

\* An operation on the token stops answering, and so does the token.
Hang ==
  /\ ~hung
  /\ hangs < MaxHangs
  /\ \E t \in Threads : AtStep(t, "open") \/ AtStep(t, "body")
  /\ hung' = TRUE
  /\ hangs' = hangs + 1
  /\ UNCHANGED <<stage, request, todo, frames, lock, token>>

\* "a server restart recovers": the server's threads end with their requests.
Restart ==
  /\ hung
  /\ hung' = FALSE
  /\ LET ended == {t \in Threads : Process[t] = "server"
                      /\ stage[t] \in {"arrived", "auth", "admitted", "handler"}} IN
     /\ stage' = [t \in Threads |-> IF t \in ended THEN "lost" ELSE stage[t]]
     /\ todo' = [t \in Threads |-> IF t \in ended THEN <<>> ELSE todo[t]]
     /\ frames' = [t \in Threads |-> IF t \in ended THEN <<>> ELSE frames[t]]
  /\ owner' = [owner EXCEPT !["server"] = None]
  /\ depth' = [depth EXCEPT !["server"] = 0]
  /\ UNCHANGED <<request, hangs, token>>

Run(t) ==
  \/ StartAuth(t) \/ Authenticate(t) \/ Start(t) \/ Answer(t)
  \/ Call(t) \/ RefuseParameters(t) \/ NestedCall(t) \/ Open(t) \/ Body(t) \/ Close(t) \/ Return(t)
  \/ Raise(t)

Next == (\E t \in Threads : Arrive(t) \/ Run(t)) \/ Hang \/ Restart

Spec == Init /\ [][Next]_vars

\* Every thread that can go on does; clients, the token and the operator who
\* restarts the server owe nothing.
FairSpec == Spec /\ \A t \in Threads : WF_vars(Run(t))

----------------------------------------------------------------------------
\* Properties.

\* The sessions a process has open: thread and call.
Sessions(p) ==
  {x \in Threads \X {1, 2} :
     LET t == x[1]
         n == x[2] IN
     Process[t] = p /\ n <= Len(frames[t]) /\ InSession(frames[t][n])}

(***************************************************************************)
(* A process has at most one session open on the token: the lock keeps its *)
(* threads apart, and no method opens a session inside another's.          *)
(***************************************************************************)
OneSession == \A p \in Processes : \A x, y \in Sessions(p) : x = y

(***************************************************************************)
(* Each method takes effect at once: whatever other threads and the script *)
(* do, gen puts a key pair only under an id that nothing has at that very  *)
(* moment, although it looked for the id in an earlier session.            *)
(***************************************************************************)
Store == INSTANCE TokenStore

StoreSpec == Store!Spec

(***************************************************************************)
(* The invariant both rest on.  A thread inside a method holds the lock of *)
(* its process, once per call; calls nest only where gen makes them; the   *)
(* script reads only; and from the moment _assert_unique found nothing     *)
(* until gen has generated, nothing is under the id.                       *)
(***************************************************************************)
Held(t) ==
  frames[t] # <<>> =>
    owner[Process[t]] = t /\ depth[Process[t]] = Len(frames[t])

LockKept(p) ==
  /\ owner[p] = None => depth[p] = 0
  /\ owner[p] # None => Process[owner[p]] = p /\ frames[owner[p]] # <<>>

Nested(outer, inner) ==
  /\ outer.method = "gen"
  /\ \/ outer.at = "unique" /\ inner.method = "_assert_unique"
     \/ outer.at = "readback" /\ inner.method = "key"

Shape(t) ==
  /\ Len(frames[t]) <= 2
  /\ Len(frames[t]) = 2 => Nested(frames[t][1], frames[t][2])
  /\ \A n \in 1..Len(frames[t]) :
       frames[t][n].at \in {"unique", "readback"} => frames[t][n].method = "gen"

Known(t) == stage[t] # "new" => request[t] \in Requests[t]

Reads == {"key", "sign"}

ScriptReads(t) ==
  Process[t] = "script" =>
    /\ todo[t] \in Seq(Reads)
    /\ \A n \in 1..Len(frames[t]) : frames[t][n].method \in Reads

Fresh(t) ==
  \/ /\ frames[t] # <<>>
     /\ frames[t][1].method = "gen"
     /\ frames[t][1].at \in {"open", "body"}
  \/ /\ Len(frames[t]) = 2
     /\ frames[t][2].method = "_assert_unique"
     /\ frames[t][2].at \in {"close", "return"}
  => Store!Unused(request[t].id)

Inductive ==
  /\ TypeOK
  /\ \A p \in Processes : LockKept(p)
  /\ \A t \in Threads :
       Held(t) /\ Shape(t) /\ Known(t) /\ ScriptReads(t) /\ Fresh(t)
       /\ (frames[t] # <<>> => stage[t] = "handler")

(***************************************************************************)
(* A request is answered, or lost with the server, unless the token stops  *)
(* answering for good: no thread waits for the lock forever.               *)
(***************************************************************************)
Ended(t) == stage[t] \in {"answered", "lost"}

EveryRequestEnds ==
  []<>~hung => \A t \in Threads : (stage[t] # "new") ~> Ended(t)

(***************************************************************************)
(* A request that makes no call of HSM, a listing of the registry or a     *)
(* retirement, is answered even when the token never answers again, as     *)
(* long as threads of the pool become free.                                *)
(***************************************************************************)
ListingAnswered ==
  []<>SlotFree =>
    \A t \in Threads :
      (stage[t] # "new" /\ request[t].op \in {"keys", "retire"}) ~> Ended(t)

(***************************************************************************)
(* "a process-wide reentrant lock ... around every HSM access, serializing *)
(* operations": never are two sessions open on the one token.              *)
(***************************************************************************)
OneSessionOnToken == \A p, q \in Processes : \A x \in Sessions(p), y \in Sessions(q) : x = y
=============================================================================
