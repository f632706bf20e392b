-------------------------- MODULE TokenAccessProofs --------------------------
(***************************************************************************)
(* Proofs about TokenAccess, for any number of threads, requests and ids:  *)
(* the lock keeps sessions apart, and makes each method take effect at one *)
(* instant.  A step of a thread re-establishes the invariant of that thread*)
(* (one lemma per kind of step); the others keep theirs because the lock   *)
(* keeps them out, or because they are of another process and only read.   *)
(***************************************************************************)
EXTENDS TokenAccess, SequenceTheorems, TLAPS

ThreadInv(t) ==
  /\ Held(t) /\ Shape(t) /\ Known(t) /\ ScriptReads(t) /\ Fresh(t)
  /\ frames[t] # <<>> => stage[t] = "handler"

LEMMA InductiveParts ==
  Inductive <=> /\ TypeOK
                /\ \A p \in Processes : LockKept(p)
                /\ \A t \in Threads : ThreadInv(t)
  BY DEF Inductive, ThreadInv

----------------------------------------------------------------------------
\* Lemmas on operators.

\* What a request is, and that the script's are not the server's.
LEMMA RequestFacts ==
  ASSUME NEW t \in Threads, NEW r \in Requests[t]
  PROVE  /\ r \in Request
         /\ r.id \in Ids
         /\ r.op \in Operation
         /\ Process[t] = "script" <=> r.op \in {"ensure_key", "build_cert"}
<1>1. r \in Request /\ (Plane(r.op) = "script" <=> Process[t] = "script")
  BY ThreadsAssumption
<1> QED BY <1>1 DEF Request, Plane, Operation

\* Handlers call methods; the script's calls only read.
LEMMA CallsAreMethods ==
  ASSUME NEW op \in Operation, NEW calls \in Calls(op)
  PROVE  /\ calls \in Seq(Method)
         /\ op \in {"ensure_key", "build_cert"} => calls \in Seq(Reads)
<1>1. CASE op \in {"ensure_key", "build_cert"}
  <2>1. calls \in {<<"key">>, <<"sign", "key">>}
    BY <1>1 DEF Calls
  <2>2. "key" \in Reads /\ "sign" \in Reads /\ "key" \in Method /\ "sign" \in Method
    BY DEF Method, Reads
  <2>3. <<"key">> \in Seq(Reads) /\ <<"sign", "key">> \in Seq(Reads)
    BY <2>2
  <2>4. <<"key">> \in Seq(Method) /\ <<"sign", "key">> \in Seq(Method)
    BY <2>2
  <2> QED BY <2>1, <2>3, <2>4
<1>2. CASE op \in {"sign", "verify"}
  <2>1. calls \in {<<>>, <<"key">>, <<"key", op>>, <<"key", "cert">>, <<"key", "cert", op>>}
    BY <1>2 DEF Calls
  <2>2. op \in Method /\ "key" \in Method /\ "cert" \in Method
    BY <1>2 DEF Method
  <2>3. {<<>>, <<"key">>, <<"key", op>>, <<"key", "cert">>, <<"key", "cert", op>>}
          \subseteq Seq(Method)
    BY <2>2
  <2> QED BY <1>2, <2>1, <2>3
<1>3. CASE op \in {"health", "token", "mechanisms", "objects", "keys", "retire", "generate"}
  <2>1. calls \in {<<"token">>, <<"mechanisms">>, <<"objects">>, <<>>, <<"gen">>}
    BY <1>3 DEF Calls
  <2>2. "token" \in Method /\ "mechanisms" \in Method /\ "objects" \in Method /\ "gen" \in Method
    BY DEF Method
  <2>3. {<<"token">>, <<"mechanisms">>, <<"objects">>, <<>>, <<"gen">>} \subseteq Seq(Method)
    BY <2>2
  <2> QED BY <1>3, <2>1, <2>3
<1>4. CASE op \in {"register", "update", "integrity", "certs", "cert", "import", "delete"}
  <2>1. calls \in {<<>>, <<"key">>, <<"key", "cert">>, <<"objects">>, <<"objects", "key">>,
                   <<"objects", "key", "cert">>, <<"objects", "cert">>, <<"cert">>,
                   <<"import_cert">>, <<"cert", "delete_cert">>}
    BY <1>4 DEF Calls
  <2>2. /\ "key" \in Method /\ "cert" \in Method /\ "objects" \in Method
        /\ "import_cert" \in Method /\ "delete_cert" \in Method
    BY DEF Method
  <2>3. {<<>>, <<"key">>, <<"key", "cert">>, <<"objects">>, <<"objects", "key">>} \subseteq Seq(Method)
    BY <2>2
  <2>4. {<<"objects", "key", "cert">>, <<"objects", "cert">>, <<"cert">>,
         <<"import_cert">>, <<"cert", "delete_cert">>} \subseteq Seq(Method)
    BY <2>2
  <2> QED BY <1>4, <2>1, <2>3, <2>4
<1> QED BY <1>1, <1>2, <1>3, <1>4 DEF Operation

LEMMA AtTypes ==
  ASSUME NEW f \in Frame, NEW m \in Method
  PROVE  /\ [f EXCEPT !.at = NextAt(f.method, f.at)] \in Frame
         /\ [method |-> m, at |-> FirstAt(m)] \in Frame
  BY DEF Frame, At, NextAt, FirstAt

\* Only the innermost call moves.
LEMMA AdvancedCalls ==
  ASSUME NEW s \in Seq(Frame), s # <<>>
  PROVE  /\ Len(s) \in 1..Len(s)
         /\ s[Len(s)] \in Frame
         /\ Advanced(s) \in Seq(Frame)
         /\ Advanced(s) # <<>>
         /\ Len(Advanced(s)) = Len(s)
         /\ \A n \in 1..Len(s) :
              /\ Advanced(s)[n].method = s[n].method
              /\ Advanced(s)[n].at = IF n = Len(s) THEN NextAt(s[n].method, s[n].at)
                                                   ELSE s[n].at
<1> DEFINE f == s[Len(s)]
<1> DEFINE g == [f EXCEPT !.at = NextAt(f.method, f.at)]
<1>1. Len(s) \in 1..Len(s) /\ f \in Frame
  BY EmptySeq, LenProperties
<1>2. g \in Frame
  BY <1>1, f.method \in Method, AtTypes DEF Frame
<1>3. Advanced(s) = [s EXCEPT ![Len(s)] = g]
  BY <1>1 DEF Advanced, Frame
<1>4. /\ Advanced(s) \in Seq(Frame)
      /\ Len(Advanced(s)) = Len(s)
      /\ \A n \in 1..Len(s) : Advanced(s)[n] = IF n = Len(s) THEN g ELSE s[n]
  BY <1>1, <1>2, <1>3, ExceptSeq
<1>5. g.method = f.method /\ g.at = NextAt(f.method, f.at)
  BY <1>1 DEF Frame
<1>6. Advanced(s) # <<>>
  BY <1>1, <1>4, Len(<<>>) = 0
<1> QED BY <1>1, <1>4, <1>5, <1>6

----------------------------------------------------------------------------
\* What a step of one thread leaves to the others.

\* Only u moves, and only the lock of its process.
Elsewhere(u) ==
  /\ \A t \in Threads : t # u =>
       /\ stage'[t] = stage[t]
       /\ request'[t] = request[t]
       /\ todo'[t] = todo[t]
       /\ frames'[t] = frames[t]
  /\ \A p \in Processes : p # Process[u] => owner'[p] = owner[p] /\ depth'[p] = depth[p]

LockMine(u) == UNCHANGED lock \/ owner[Process[u]] \in {None, u}

TokenMine(u) == UNCHANGED token \/ (frames[u] # <<>> /\ Process[u] = "server")

LEMMA Others ==
  ASSUME Inductive, NEW u \in Threads, Elsewhere(u), LockMine(u), TokenMine(u),
         NEW t \in Threads, t # u
  PROVE  ThreadInv(t)'
<1>1. ThreadInv(t) /\ ThreadInv(u)
  BY InductiveParts
<1>2. /\ stage'[t] = stage[t] /\ request'[t] = request[t]
      /\ todo'[t] = todo[t] /\ frames'[t] = frames[t]
  BY DEF Elsewhere
<1>3. Shape(t)' /\ Known(t)' /\ ScriptReads(t)' /\ (frames[t] # <<>> => stage[t] = "handler")'
  BY <1>1, <1>2 DEF ThreadInv, Shape, Known, ScriptReads
<1>4. Process[t] \in Processes /\ Process[u] \in Processes /\ t # None
  BY ThreadsAssumption
<1>5. Held(t)'
  <2>1. SUFFICES ASSUME frames[t] # <<>>
                 PROVE  owner'[Process[t]] = t /\ depth'[Process[t]] = Len(frames[t])
    BY <1>2 DEF Held
  <2>2. owner[Process[t]] = t /\ depth[Process[t]] = Len(frames[t])
    BY <1>1, <2>1 DEF ThreadInv, Held
  <2>3. CASE Process[t] = Process[u]
    <3>1. owner'[Process[t]] = owner[Process[t]] /\ depth'[Process[t]] = depth[Process[t]]
      BY <1>4, <2>2, <2>3 DEF LockMine, lock
    <3> QED BY <2>2, <3>1
  <2>4. CASE Process[t] # Process[u]
    BY <1>4, <2>2, <2>4 DEF Elsewhere
  <2> QED BY <2>3, <2>4
<1>6. Fresh(t)'
  <2>1. CASE UNCHANGED token
    BY <1>1, <1>2, <2>1 DEF ThreadInv, Fresh, token, Store!Unused
  <2>2. CASE frames[u] # <<>> /\ Process[u] = "server"
    <3>1. CASE frames[t] = <<>>
      BY <1>2, <3>1, Len(<<>>) = 0 DEF Fresh
    <3>2. CASE frames[t] # <<>>
      <4>1. Process[t] = "script"
        BY <1>1, <1>4, <2>2, <3>2 DEF ThreadInv, Held, Processes
      <4>2. frames[t] \in Seq(Frame) /\ Len(frames[t]) \in Nat \ {0}
        BY <3>2, EmptySeq DEF Inductive, TypeOK
      <4>3. frames[t][1].method # "gen" /\ Len(frames[t]) # 2
        BY <1>1, <4>1, <4>2 DEF ThreadInv, ScriptReads, Shape, Nested, Reads
      <4> QED BY <1>2, <4>3 DEF Fresh
    <3> QED BY <3>1, <3>2
  <2> QED BY <2>1, <2>2 DEF TokenMine
<1> QED BY <1>3, <1>5, <1>6 DEF ThreadInv

\* The locks of the other processes.
LEMMA OtherLocks ==
  ASSUME Inductive, NEW u \in Threads, Elsewhere(u),
         NEW p \in Processes, p # Process[u]
  PROVE  LockKept(p)'
<1>1. LockKept(p) /\ owner[p] \in Threads \cup {None}
  BY DEF Inductive, TypeOK
<1>2. owner'[p] = owner[p] /\ depth'[p] = depth[p]
  BY DEF Elsewhere
<1>3. owner[p] # None => owner[p] # u /\ frames'[owner[p]] = frames[owner[p]]
  BY <1>1 DEF LockKept, Elsewhere
<1> QED BY <1>1, <1>2, <1>3 DEF LockKept

\* A step of u that re-establishes the invariant of u keeps the whole.
LEMMA StepOfOne ==
  ASSUME Inductive, NEW u \in Threads, Elsewhere(u), LockMine(u), TokenMine(u),
         TypeOK', ThreadInv(u)', LockKept(Process[u])'
  PROVE  Inductive'
<1>1. \A t \in Threads : ThreadInv(t)'
  BY Others
<1>2. \A p \in Processes : LockKept(p)'
  BY OtherLocks
<1>3. TypeOK' /\ (\A p \in Processes : LockKept(p)') /\ (\A t \in Threads : ThreadInv(t)')
  BY <1>1, <1>2
<1> QED BY <1>3, InductiveParts DEF Inductive, ThreadInv

----------------------------------------------------------------------------
\* The steps of a thread.

\* Outside HSM: the request moves, no call is under way.
LEMMA QuietStep ==
  ASSUME Inductive, NEW u \in Threads, frames[u] = <<>>,
         UNCHANGED <<frames, lock, trouble, token>>,
         stage' \in [Threads -> Stage], request' \in [Threads -> Request \cup {None}],
         todo' \in [Threads -> Seq(Method)],
         \A t \in Threads : t # u =>
           stage'[t] = stage[t] /\ request'[t] = request[t] /\ todo'[t] = todo[t],
         Known(u)', Process[u] = "script" => todo'[u] \in Seq(Reads)
  PROVE  Inductive'
<1>1. Elsewhere(u) /\ LockMine(u) /\ TokenMine(u)
  BY DEF Elsewhere, LockMine, TokenMine, lock, token
<1>2. TypeOK'
  BY DEF Inductive, TypeOK, lock, trouble, token
<1>3. frames'[u] = <<>> /\ Len(<<>>) = 0
  OBVIOUS
<1>4. ThreadInv(u)'
  BY <1>3 DEF ThreadInv, Held, Shape, ScriptReads, Fresh
<1>5. Process[u] \in Processes
  BY ThreadsAssumption
<1>6. LockKept(Process[u])'
  BY <1>5 DEF Inductive, LockKept, lock
<1> QED BY <1>1, <1>2, <1>4, <1>6, StepOfOne

LEMMA ArriveStep ==
  ASSUME Inductive, NEW u \in Threads, Arrive(u)
  PROVE  Inductive'
<1>1. PICK r \in Requests[u] :
        /\ request' = [request EXCEPT ![u] = r]
        /\ CASE Plane(r.op) = "script" ->
                  /\ Move(u, "handler")
                  /\ \E calls \in Calls(r.op) : todo' = [todo EXCEPT ![u] = calls]
             [] Plane(r.op) = "open" -> Move(u, "admitted") /\ UNCHANGED todo
             [] OTHER -> Move(u, "arrived") /\ UNCHANGED todo
  BY DEF Arrive
<1>2. /\ stage \in [Threads -> Stage] /\ request \in [Threads -> Request \cup {None}]
      /\ todo \in [Threads -> Seq(Method)]
      /\ ScriptReads(u)
      /\ frames[u] = <<>>
  BY DEF Inductive, TypeOK, Arrive
<1>3. r \in Request /\ r.op \in Operation
      /\ (Process[u] = "script" <=> r.op \in {"ensure_key", "build_cert"})
  BY RequestFacts
<1>4. request' \in [Threads -> Request \cup {None}] /\ request'[u] = r
      /\ \A t \in Threads : t # u => request'[t] = request[t]
  BY <1>1, <1>2, <1>3
<1>5. CASE Plane(r.op) = "script"
  <2>1. Move(u, "handler")
    BY <1>1, <1>5
  <2>2. PICK calls \in Calls(r.op) : todo' = [todo EXCEPT ![u] = calls]
    BY <1>1, <1>5
  <2>3. calls \in Seq(Method) /\ (Process[u] = "script" => calls \in Seq(Reads))
    BY <1>3, CallsAreMethods
  <2>4. stage' \in [Threads -> Stage] /\ \A t \in Threads : t # u => stage'[t] = stage[t]
    BY <1>2, <2>1 DEF Move, Stage
  <2>5. /\ todo' \in [Threads -> Seq(Method)]
        /\ \A t \in Threads : t # u => todo'[t] = todo[t]
        /\ Process[u] = "script" => todo'[u] \in Seq(Reads)
    BY <1>2, <2>2, <2>3
  <2> QED BY <1>2, <1>4, <2>4, <2>5, QuietStep DEF Arrive, Known
<1>6. CASE Plane(r.op) # "script"
  <2>1. (Move(u, "admitted") \/ Move(u, "arrived")) /\ UNCHANGED todo
    BY <1>1, <1>6
  <2>2. stage' \in [Threads -> Stage] /\ \A t \in Threads : t # u => stage'[t] = stage[t]
    BY <1>2, <2>1 DEF Move, Stage
  <2>3. Process[u] = "script" => todo'[u] \in Seq(Reads)
    BY <1>2, <2>1 DEF ScriptReads
  <2> QED BY <1>2, <1>4, <2>1, <2>2, <2>3, QuietStep DEF Arrive, Known
<1> QED BY <1>5, <1>6

LEMMA PoolStep ==
  ASSUME Inductive, NEW u \in Threads,
         StartAuth(u) \/ Authenticate(u) \/ Start(u) \/ Answer(u)
  PROVE  Inductive'
<1>1. /\ stage \in [Threads -> Stage] /\ request \in [Threads -> Request \cup {None}]
      /\ todo \in [Threads -> Seq(Method)]
      /\ Known(u) /\ ScriptReads(u)
      /\ frames[u] = <<>>
      /\ stage[u] # "new"
  BY DEF Inductive, TypeOK, StartAuth, Authenticate, Start, Answer
<1>2. request' = request /\ UNCHANGED <<frames, lock, trouble, token>>
  BY DEF StartAuth, Authenticate, Start, Answer
<1>3. \E s \in Stage : Move(u, s)
  BY DEF StartAuth, Authenticate, Start, Answer, Stage
<1>4. stage' \in [Threads -> Stage] /\ \A t \in Threads : t # u => stage'[t] = stage[t]
  BY <1>1, <1>3 DEF Move
<1>5. request[u] \in Requests[u] /\ Known(u)'
  BY <1>1, <1>2 DEF Known
<1>6. CASE todo' = todo
  BY <1>1, <1>2, <1>4, <1>5, <1>6, QuietStep DEF ScriptReads
<1>7. CASE Start(u)
  <2>1. PICK calls \in Calls(request[u].op) : todo' = [todo EXCEPT ![u] = calls]
    BY <1>7 DEF Start
  <2>2. calls \in Seq(Method) /\ (Process[u] = "script" => calls \in Seq(Reads))
    BY <1>5, RequestFacts, CallsAreMethods
  <2>3. /\ todo' \in [Threads -> Seq(Method)]
        /\ \A t \in Threads : t # u => todo'[t] = todo[t]
        /\ Process[u] = "script" => todo'[u] \in Seq(Reads)
    BY <1>1, <2>1, <2>2
  <2> QED BY <1>1, <1>2, <1>4, <1>5, <2>3, QuietStep
<1> QED BY <1>6, <1>7 DEF StartAuth, Authenticate, Answer

LEMMA OneOrTwo ==
  ASSUME NEW n \in Nat, n # 0, n <= 2
  PROVE  n \in {1, 2}
  OBVIOUS

\* Calls nest at most twice.
LEMMA CallDepth ==
  ASSUME Inductive, NEW u \in Threads, frames[u] # <<>>
  PROVE  /\ Len(frames[u]) \in {1, 2}
         /\ Len(frames[u]) = 2 => Nested(frames[u][1], frames[u][2])
         /\ Top(u) = frames[u][Len(frames[u])]
         /\ Top(u).at \in {"unique", "readback"} => Top(u).method = "gen"
         /\ Len(frames[u]) = 2 => Top(u).method \in {"_assert_unique", "key"}
<1>1. frames[u] \in Seq(Frame) /\ Shape(u)
  BY InductiveParts DEF TypeOK, ThreadInv
<1>2. Len(frames[u]) \in Nat /\ Len(frames[u]) # 0
  BY <1>1, EmptySeq
<1>3. Len(frames[u]) \in {1, 2}
  <2>1. Len(frames[u]) <= 2
    BY <1>1 DEF Shape
  <2> QED BY <1>2, <2>1, OneOrTwo
<1>4. Len(frames[u]) \in 1..Len(frames[u])
  BY <1>3
<1>5. Top(u) = frames[u][Len(frames[u])]
  BY DEF Top
<1>6. Len(frames[u]) = 2 => Nested(frames[u][1], frames[u][2])
  BY <1>1 DEF Shape
<1>7. Top(u).at \in {"unique", "readback"} => Top(u).method = "gen"
  BY <1>1, <1>4, <1>5 DEF Shape
<1>8. Len(frames[u]) = 2 => Top(u).method \in {"_assert_unique", "key"}
  BY <1>5, <1>6 DEF Nested
<1> QED BY <1>3, <1>5, <1>6, <1>7, <1>8

\* A call of a method, from the handler or nested.
LEMMA EnterStep ==
  ASSUME Inductive, NEW u \in Threads, NEW m \in Method, Enter(u, m),
         UNCHANGED <<stage, request, trouble, token>>,
         stage[u] = "handler",
         todo' \in [Threads -> Seq(Method)],
         \A t \in Threads : t # u => todo'[t] = todo[t],
         Process[u] = "script" => todo'[u] \in Seq(Reads) /\ m \in Reads,
         \/ frames[u] = <<>>
         \/ Len(frames[u]) = 1 /\ Nested(frames[u][1], [method |-> m, at |-> FirstAt(m)])
  PROVE  Inductive'
<1> DEFINE f == [method |-> m, at |-> FirstAt(m)]
<1> DEFINE s == frames[u]
<1>1. /\ TypeOK /\ ThreadInv(u) /\ s \in Seq(Frame)
      /\ Process[u] \in Processes /\ LockKept(Process[u]) /\ u # None
  BY ThreadsAssumption, InductiveParts DEF TypeOK
<1>2. f \in Frame /\ f.method = m /\ f.at \in {"unique", "open", "body"}
      /\ (f.at = "unique" => m = "gen")
      /\ (m = "gen" => f.at = "unique")
  BY DEF Frame, At, FirstAt
<1>3. frames' = [frames EXCEPT ![u] = Append(s, f)]
  BY DEF Enter
<1>4. /\ Append(s, f) \in Seq(Frame) /\ Append(s, f) # <<>>
      /\ Len(Append(s, f)) = Len(s) + 1
      /\ \A n \in 1..Len(s) : Append(s, f)[n] = s[n]
      /\ Append(s, f)[Len(s) + 1] = f
  <2>1. s \in Seq(Frame) /\ f \in Frame
    BY <1>1, <1>2
  <2> HIDE DEF s, f
  <2> QED
    BY ONLY <2>1, AppendProperties
<1>5. frames'[u] = Append(s, f) /\ frames' \in [Threads -> Seq(Frame)]
      /\ \A t \in Threads : t # u => frames'[t] = frames[t]
  BY <1>1, <1>3, <1>4 DEF TypeOK
<1>6. /\ owner' \in [Processes -> Threads \cup {None}]
      /\ depth' \in [Processes -> Nat]
      /\ owner'[Process[u]] = u
      /\ depth'[Process[u]] = depth[Process[u]] + 1
      /\ \A p \in Processes : p # Process[u] => owner'[p] = owner[p] /\ depth'[p] = depth[p]
  BY <1>1 DEF TypeOK, Enter
<1>7. TypeOK'
  BY <1>1, <1>5, <1>6 DEF TypeOK, trouble, token
<1>8. Elsewhere(u) /\ LockMine(u) /\ TokenMine(u)
  BY <1>5, <1>6 DEF Elsewhere, LockMine, TokenMine, Enter, Available, token
<1>9. depth[Process[u]] = Len(s)
  <2>1. CASE s = <<>>
    <3>1. owner[Process[u]] # u
      BY <1>1, <2>1 DEF LockKept
    <3> QED BY <1>1, <2>1, <3>1, Len(<<>>) = 0 DEF LockKept, Enter, Available
  <2>2. CASE s # <<>>
    BY <1>1, <2>2 DEF ThreadInv, Held
  <2> QED BY <2>1, <2>2
<1>10. Held(u)'
  BY <1>4, <1>5, <1>6, <1>9 DEF Held
<1>11. Len(s) \in {0, 1}
  BY Len(<<>>) = 0
<1>12. Shape(u)'
  BY <1>1, <1>2, <1>4, <1>5, <1>11 DEF ThreadInv, Shape, Nested
<1>13. ScriptReads(u)' /\ Known(u)'
  BY <1>1, <1>2, <1>4, <1>5, <1>11 DEF ThreadInv, ScriptReads, Known
<1>14. Fresh(u)'
  BY <1>1, <1>2, <1>4, <1>5, <1>11 DEF ThreadInv, Fresh, Nested
<1>15. ThreadInv(u)'
  BY <1>10, <1>12, <1>13, <1>14 DEF ThreadInv
<1>16. LockKept(Process[u])'
  BY <1>1, <1>4, <1>5, <1>6 DEF LockKept
<1> QED BY <1>7, <1>8, <1>15, <1>16, StepOfOne

LEMMA CallStep ==
  ASSUME Inductive, NEW u \in Threads, Call(u) \/ NestedCall(u)
  PROVE  Inductive'
<1>1. /\ TypeOK /\ ThreadInv(u) /\ frames[u] \in Seq(Frame) /\ todo[u] \in Seq(Method)
      /\ frames[u] # <<>> => Len(frames[u]) \in Nat \ {0}
  BY InductiveParts, EmptySeq DEF TypeOK
<1>2. CASE Call(u)
  <2>1. todo[u] # <<>> /\ frames[u] = <<>> /\ stage[u] = "handler"
        /\ Enter(u, Head(todo[u])) /\ todo' = [todo EXCEPT ![u] = Tail(todo[u])]
    BY <1>2 DEF Call
  <2>2. Head(todo[u]) \in Method /\ Tail(todo[u]) \in Seq(Method)
    BY <1>1, <2>1, HeadTailProperties
  <2>3. Process[u] = "script" => Head(todo[u]) \in Reads /\ Tail(todo[u]) \in Seq(Reads)
    BY <1>1, <2>1, HeadTailProperties DEF ThreadInv, ScriptReads
  <2>4. /\ todo' \in [Threads -> Seq(Method)]
        /\ todo'[u] = Tail(todo[u])
        /\ \A t \in Threads : t # u => todo'[t] = todo[t]
    BY <1>1, <2>1, <2>2 DEF TypeOK
  <2> QED BY <1>2, <2>1, <2>2, <2>3, <2>4, EnterStep DEF Call
<1>3. CASE NestedCall(u)
  <2>1. /\ frames[u] # <<>> /\ UNCHANGED <<stage, request, todo, trouble, token>>
        /\ \/ Top(u).at = "unique" /\ Enter(u, "_assert_unique")
           \/ Top(u).at = "readback" /\ Enter(u, "key")
    BY <1>3 DEF NestedCall, AtStep
  <2>2. Top(u).method = "gen" /\ Len(frames[u]) = 1
    BY <2>1, CallDepth
  <2>3. Top(u) = frames[u][1] /\ stage[u] = "handler" /\ todo' \in [Threads -> Seq(Method)]
    BY <1>1, <2>1, <2>2 DEF Top, ThreadInv, TypeOK
  <2>4. Process[u] # "script"
    BY <1>1, <2>2, <2>3 DEF ThreadInv, ScriptReads, Reads
  <2>5. CASE Top(u).at = "unique" /\ Enter(u, "_assert_unique")
    BY <2>1, <2>2, <2>3, <2>4, <2>5, EnterStep DEF Nested, Method
  <2>6. CASE Top(u).at = "readback" /\ Enter(u, "key")
    BY <2>1, <2>2, <2>3, <2>4, <2>6, EnterStep DEF Nested, Method
  <2> QED BY <2>1, <2>5, <2>6
<1> QED BY <1>2, <1>3

\* A generation that takes the lock and gives it back has made no call.
LEMMA RefuseStep ==
  ASSUME Inductive, NEW u \in Threads, RefuseParameters(u)
  PROVE  Inductive'
<1>1. /\ stage \in [Threads -> Stage] /\ request \in [Threads -> Request \cup {None}]
      /\ todo \in [Threads -> Seq(Method)] /\ Known(u)
  BY DEF Inductive, TypeOK
<1>2. /\ frames[u] = <<>> /\ todo' = [todo EXCEPT ![u] = <<>>]
      /\ UNCHANGED <<stage, request, frames, lock, trouble, token>>
  BY DEF RefuseParameters
<1>3. /\ todo' \in [Threads -> Seq(Method)] /\ todo'[u] \in Seq(Reads)
      /\ \A t \in Threads : t # u => todo'[t] = todo[t]
  BY <1>1, <1>2, EmptySeq
<1> QED BY <1>1, <1>2, <1>3, QuietStep DEF Known

\* The innermost call goes on, whatever it does on the token.
LEMMA AdvanceStep ==
  ASSUME Inductive, NEW u \in Threads, frames[u] # <<>>, Advance(u),
         Top(u).at \in {"open", "body", "close"},
         UNCHANGED <<stage, request, todo, lock, trouble>>,
         pairs' \in [Ids -> Nat], certificates' \in [Ids -> Nat],
         TokenMine(u), Fresh(u)'
  PROVE  Inductive'
<1> DEFINE s == frames[u]
<1>1. /\ TypeOK /\ ThreadInv(u) /\ s \in Seq(Frame) /\ Process[u] \in Processes
      /\ LockKept(Process[u]) /\ u # None
  BY ThreadsAssumption, InductiveParts DEF TypeOK
<1>2. /\ Advanced(s) \in Seq(Frame) /\ Advanced(s) # <<>> /\ Len(Advanced(s)) = Len(s)
      /\ Len(s) \in 1..Len(s)
      /\ \A n \in 1..Len(s) :
           /\ Advanced(s)[n].method = s[n].method
           /\ Advanced(s)[n].at = IF n = Len(s) THEN NextAt(s[n].method, s[n].at)
                                                ELSE s[n].at
  BY <1>1, AdvancedCalls
<1>3. /\ frames'[u] = Advanced(s) /\ frames' \in [Threads -> Seq(Frame)]
      /\ \A t \in Threads : t # u => frames'[t] = frames[t]
  BY <1>1, <1>2 DEF TypeOK, Advance
<1>4. TypeOK'
  BY <1>1, <1>3 DEF TypeOK, lock, trouble
<1>5. Elsewhere(u) /\ LockMine(u)
  BY <1>3 DEF Elsewhere, LockMine, lock
<1>6. Held(u)'
  BY <1>1, <1>2, <1>3 DEF ThreadInv, Held, lock
<1>7. s[Len(s)].at \in {"open", "body", "close"}
  BY DEF Top
<1>8. Shape(u)'
  <2>1. Len(frames'[u]) <= 2
    BY <1>1, <1>2, <1>3 DEF ThreadInv, Shape
  <2>2. ASSUME Len(frames'[u]) = 2
        PROVE  Nested(frames'[u][1], frames'[u][2])
    BY <1>1, <1>2, <1>3, <2>2 DEF ThreadInv, Shape, Nested
  <2>3. ASSUME NEW n \in 1..Len(s), frames'[u][n].at \in {"unique", "readback"}
        PROVE  frames'[u][n].method = "gen"
    BY <1>1, <1>2, <1>3, <1>7, <2>3 DEF ThreadInv, Shape, NextAt
  <2> QED BY <1>2, <1>3, <2>1, <2>2, <2>3 DEF Shape
<1>9. ScriptReads(u)' /\ Known(u)'
  BY <1>1, <1>2, <1>3 DEF ThreadInv, ScriptReads, Known
<1>10. ThreadInv(u)'
  BY <1>1, <1>6, <1>8, <1>9 DEF ThreadInv
<1>11. LockKept(Process[u])'
  <2>1. owner[Process[u]] = u
    BY <1>1 DEF ThreadInv, Held
  <2> QED BY <1>1, <1>2, <1>3, <2>1 DEF LockKept, lock
<1> QED BY <1>4, <1>5, <1>10, <1>11, StepOfOne

\* Sessions open and close.
LEMMA SessionStep ==
  ASSUME Inductive, NEW u \in Threads, Open(u) \/ Close(u)
  PROVE  Inductive'
<1> DEFINE s == frames[u]
<1>1. /\ frames[u] # <<>> /\ Advance(u) /\ Top(u).at \in {"open", "close"}
      /\ UNCHANGED <<stage, request, todo, lock, trouble, token>>
  BY DEF Open, Close, AtStep
<1>2. TypeOK /\ ThreadInv(u) /\ s \in Seq(Frame)
  BY InductiveParts DEF TypeOK
<1>3. /\ Len(Advanced(s)) = Len(s) /\ Len(s) \in 1..Len(s)
      /\ \A n \in 1..Len(s) :
           /\ Advanced(s)[n].method = s[n].method
           /\ Advanced(s)[n].at = IF n = Len(s) THEN NextAt(s[n].method, s[n].at)
                                                ELSE s[n].at
  BY <1>1, <1>2, AdvancedCalls
<1>4. frames'[u] = Advanced(s)
  BY <1>1, <1>2 DEF TypeOK, Advance
<1>5. Store!Unused(request[u].id) => Store!Unused(request[u].id)'
  BY <1>1 DEF Store!Unused, token
<1>6. s[Len(s)].at \in {"open", "close"} /\ Len(s) \in {1, 2}
  BY <1>1, CallDepth
<1>7. Fresh(u)'
  <2>1. CASE Len(s) = 1
    BY <1>1, <1>2, <1>3, <1>4, <1>5, <1>6, <2>1 DEF ThreadInv, Fresh, NextAt
  <2>2. CASE Len(s) = 2
    <3>1. s[1].at \notin {"open", "body"} /\ Advanced(s)[1].at = s[1].at
      BY <1>2, <1>3, <2>2 DEF ThreadInv, Shape, Nested
    <3>2. Advanced(s)[2].at \in {"close", "return"} => s[2].at = "close"
      BY <1>3, <1>6, <2>2 DEF NextAt
    <3> QED BY <1>1, <1>2, <1>3, <1>4, <1>5, <2>2, <3>1, <3>2 DEF ThreadInv, Fresh
  <2> QED BY <1>6, <2>1, <2>2
<1> QED BY <1>1, <1>2, <1>7, AdvanceStep DEF TokenMine, TypeOK, token

\* gen generates where _assert_unique found nothing.
LEMMA GeneratesUnused ==
  ASSUME Inductive, NEW u \in Threads, AtStep(u, "body"), Top(u).method = "gen"
  PROVE  Store!Unused(request[u].id)
<1>1. ThreadInv(u) /\ frames[u] \in Seq(Frame)
  BY InductiveParts DEF TypeOK
<1>2. frames[u] # <<>> /\ Len(frames[u]) = 1
  BY CallDepth DEF AtStep
<1> QED BY <1>1, <1>2 DEF ThreadInv, Fresh, AtStep, Top

LEMMA BodyStep ==
  ASSUME Inductive, NEW u \in Threads, Body(u)
  PROVE  Inductive'
<1> DEFINE s == frames[u]
<1> DEFINE i == request[u].id
<1>1. /\ frames[u] # <<>> /\ Advance(u) /\ Top(u).at = "body"
      /\ UNCHANGED <<stage, request, todo, lock, trouble>>
      /\ Effect(Top(u).method, i)
  BY DEF Body, AtStep
<1>2. TypeOK /\ ThreadInv(u) /\ s \in Seq(Frame)
  BY InductiveParts DEF TypeOK
<1>3. i \in Ids
  BY <1>1, <1>2, RequestFacts DEF ThreadInv, Known
<1>4. /\ Len(Advanced(s)) = Len(s) /\ Len(s) \in 1..Len(s)
      /\ \A n \in 1..Len(s) :
           /\ Advanced(s)[n].method = s[n].method
           /\ Advanced(s)[n].at = IF n = Len(s) THEN NextAt(s[n].method, s[n].at)
                                                ELSE s[n].at
  BY <1>1, <1>2, AdvancedCalls
<1>5. frames'[u] = Advanced(s)
  BY <1>1, <1>2 DEF TypeOK, Advance
<1>6. pairs' \in [Ids -> Nat] /\ certificates' \in [Ids -> Nat]
  <2>1. /\ pairs \in [Ids -> Nat] /\ certificates \in [Ids -> Nat]
        /\ pairs[i] + 1 \in Nat /\ certificates[i] + 1 \in Nat
        /\ certificates[i] > 0 => certificates[i] - 1 \in Nat
    BY <1>2, <1>3 DEF TypeOK
  <2>2. \/ UNCHANGED token
        \/ pairs' = [pairs EXCEPT ![i] = @ + 1] /\ UNCHANGED certificates
        \/ certificates' = [certificates EXCEPT ![i] = @ + 1] /\ UNCHANGED pairs
        \/ /\ certificates[i] > 0
           /\ certificates' = [certificates EXCEPT ![i] = @ - 1]
           /\ UNCHANGED pairs
    BY <1>1 DEF Effect
  <2> QED BY <2>1, <2>2 DEF token
<1>7. TokenMine(u)
  <2>1. CASE Process[u] = "server"
    BY <1>1, <2>1 DEF TokenMine
  <2>2. CASE Process[u] # "server"
    <3>1. Process[u] = "script"
      BY <2>2, ThreadsAssumption DEF Processes
    <3>2. Top(u).method \in Reads
      BY <1>2, <1>4, <3>1 DEF ThreadInv, ScriptReads, Top
    <3> QED BY <1>1, <3>2 DEF Effect, Reads, TokenMine
  <2> QED BY <2>1, <2>2
<1>8. Fresh(u)'
  <2>1. s[Len(s)].at = "body" /\ Len(s) \in {1, 2}
    BY <1>1, CallDepth
  <2>2. CASE Len(s) = 1
    BY <1>4, <1>5, <2>1, <2>2 DEF Fresh, NextAt
  <2>3. CASE Len(s) = 2
    <3>1. Advanced(s)[1].at \notin {"open", "body"}
      BY <1>2, <1>4, <2>3 DEF ThreadInv, Shape, Nested
    <3>2. CASE s[2].method = "_assert_unique"
      <4>1. ~OnToken(i) /\ UNCHANGED token
        BY <1>1, <2>3, <3>2 DEF Effect, Top
      <4>2. Store!Unused(i)'
        <5>1. pairs[i] \in Nat /\ certificates[i] \in Nat
          BY <1>2, <1>3 DEF TypeOK
        <5>2. pairs[i] = 0 /\ certificates[i] = 0
          BY <4>1, <5>1 DEF OnToken
        <5> QED BY <1>1, <4>1, <5>2 DEF Store!Unused, token
      <4> QED BY <1>1, <4>2 DEF Fresh
    <3>3. CASE s[2].method # "_assert_unique"
      BY <1>4, <1>5, <2>3, <3>1, <3>3 DEF Fresh
    <3> QED BY <3>2, <3>3
  <2> QED BY <2>1, <2>2, <2>3
<1> QED BY <1>1, <1>6, <1>7, <1>8, AdvanceStep

\* The caller goes on.
LEMMA CallerAdvances ==
  ASSUME NEW s \in Seq(Frame), Len(s) = 1
  PROVE  /\ s # <<>>
         /\ Advanced(s) \in Seq(Frame) /\ Advanced(s) # <<>>
         /\ Len(Advanced(s)) = 1
         /\ Advanced(s)[1].method = s[1].method
         /\ Advanced(s)[1].at = NextAt(s[1].method, s[1].at)
<1>1. s # <<>>
  BY EmptySeq, Len(<<>>) = 0
<1>2. 1 \in 1..Len(s)
  OBVIOUS
<1> QED BY <1>1, <1>2, AdvancedCalls

\* What is left when the inner of two calls returns.
LEMMA OuterCall ==
  ASSUME NEW s \in Seq(Frame), Len(s) = 2
  PROVE  /\ SubSeq(s, 1, Len(s) - 1) \in Seq(Frame)
         /\ Len(SubSeq(s, 1, Len(s) - 1)) = 1
         /\ SubSeq(s, 1, Len(s) - 1)[1] = s[1]
<1>1. Len(s) - 1 = 1 /\ s[1] \in Frame
  BY LenProperties
<1>2. \A i \in 1..1 : s[i] \in Frame
  BY <1>1
<1>3. /\ SubSeq(s, 1, 1) \in Seq(Frame)
      /\ Len(SubSeq(s, 1, 1)) = IF 1 <= 1 THEN 1 - 1 + 1 ELSE 0
      /\ \A i \in 1..1 - 1 + 1 : SubSeq(s, 1, 1)[i] = s[1 + i - 1]
  BY <1>2, SubSeqProperties
<1> QED BY <1>1, <1>3

\* The innermost call returns.
LEMMA ReturnStep ==
  ASSUME Inductive, NEW u \in Threads, Return(u)
  PROVE  Inductive'
<1> DEFINE s == frames[u]
<1> DEFINE below == SubSeq(s, 1, Len(s) - 1)
<1> DEFINE P == Process[u]
<1>1. /\ TypeOK /\ ThreadInv(u) /\ s \in Seq(Frame) /\ P \in Processes
      /\ LockKept(P) /\ u # None /\ s # <<>>
  BY ThreadsAssumption, InductiveParts DEF TypeOK, Return, AtStep
<1>2. /\ Release(u, 1) /\ s[Len(s)].at = "return"
      /\ UNCHANGED <<stage, request, todo, trouble, token>>
      /\ frames' = [frames EXCEPT ![u] = IF below = <<>> THEN <<>> ELSE Advanced(below)]
  BY DEF Return, AtStep, Top
<1>3. owner[P] = u /\ depth[P] = Len(s) /\ stage[u] = "handler"
  BY <1>1 DEF ThreadInv, Held
<1>4. LockMine(u) /\ TokenMine(u)
  BY <1>2, <1>3 DEF LockMine, TokenMine, token
<1>5. Len(s) \in {1, 2} /\ (Len(s) = 2 => Nested(s[1], s[2]))
  BY <1>1, CallDepth
<1>6. /\ owner' = [owner EXCEPT ![P] = IF Len(s) = 1 THEN None ELSE u]
      /\ depth' = [depth EXCEPT ![P] = Len(s) - 1]
  BY <1>1, <1>2, <1>3 DEF Release, TypeOK
<1>7. /\ owner' \in [Processes -> Threads \cup {None}]
      /\ depth' \in [Processes -> Nat]
      /\ owner'[P] = IF Len(s) = 1 THEN None ELSE u
      /\ depth'[P] = Len(s) - 1
      /\ \A p \in Processes : p # P => owner'[p] = owner[p] /\ depth'[p] = depth[p]
  BY <1>1, <1>5, <1>6 DEF TypeOK
<1>8. CASE Len(s) = 1
  <2>1. below = <<>>
    BY <1>8
  <2>2. /\ frames'[u] = <<>> /\ frames' \in [Threads -> Seq(Frame)] /\ Len(<<>>) = 0
        /\ \A t \in Threads : t # u => frames'[t] = frames[t]
    BY <1>1, <1>2, <2>1 DEF TypeOK
  <2>3. TypeOK' /\ Elsewhere(u)
    BY <1>1, <1>2, <1>7, <2>2 DEF TypeOK, Elsewhere, trouble, token
  <2>4. ThreadInv(u)'
    BY <1>1, <1>2, <2>2 DEF ThreadInv, Held, Shape, Known, ScriptReads, Fresh
  <2>5. LockKept(P)'
    BY <1>7, <1>8 DEF LockKept
  <2> QED BY <1>4, <2>3, <2>4, <2>5, StepOfOne
<1>9. CASE Len(s) = 2
  <2>1. /\ below \in Seq(Frame) /\ Len(below) = 1 /\ below[1] = s[1]
    BY <1>1, <1>9, OuterCall
  <2>2. below # <<>>
    BY <2>1, CallerAdvances
  <2>3. /\ Advanced(below) \in Seq(Frame) /\ Advanced(below) # <<>>
        /\ Len(Advanced(below)) = 1
        /\ Advanced(below)[1].method = s[1].method
        /\ Advanced(below)[1].at = NextAt(s[1].method, s[1].at)
    <3> HIDE DEF below
    <3> QED BY <2>1, CallerAdvances
  <2>4. /\ frames'[u] = Advanced(below) /\ frames' \in [Threads -> Seq(Frame)]
        /\ \A t \in Threads : t # u => frames'[t] = frames[t]
    BY <1>1, <1>2, <2>2, <2>3 DEF TypeOK
  <2>5. TypeOK' /\ Elsewhere(u)
    BY <1>1, <1>2, <1>7, <2>4 DEF TypeOK, Elsewhere, trouble, token
  <2>6. s[1].method = "gen"
        /\ (\/ s[1].at = "unique" /\ s[2].method = "_assert_unique"
            \/ s[1].at = "readback")
    BY <1>5, <1>9 DEF Nested
  <2>7. Held(u)' /\ Shape(u)' /\ Known(u)'
    BY <1>1, <1>2, <1>7, <1>9, <2>3, <2>4, <2>6 DEF ThreadInv, Held, Shape, Known, NextAt
  <2>8. ScriptReads(u)'
    BY <1>1, <1>2, <1>9, <2>3, <2>4 DEF ThreadInv, ScriptReads
  <2>9. Fresh(u)'
    <3>1. CASE s[1].at = "unique" /\ s[2].method = "_assert_unique"
      <4>1. Store!Unused(request[u].id)
        BY <1>1, <1>2, <1>9, <3>1 DEF ThreadInv, Fresh
      <4> QED BY <1>2, <4>1 DEF Fresh, Store!Unused, token
    <3>2. CASE s[1].at = "readback"
      BY <2>3, <2>4, <3>2 DEF Fresh, NextAt
    <3> QED BY <2>6, <3>1, <3>2
  <2>10. ThreadInv(u)'
    BY <1>2, <1>3, <2>7, <2>8, <2>9 DEF ThreadInv
  <2>11. LockKept(P)'
    BY <1>7, <1>9, <1>1, <2>3, <2>4 DEF LockKept
  <2> QED BY <1>4, <2>5, <2>10, <2>11, StepOfOne
<1> QED BY <1>5, <1>8, <1>9

\* An exception ends all calls of the thread.
LEMMA RaiseStep ==
  ASSUME Inductive, NEW u \in Threads, Raise(u)
  PROVE  Inductive'
<1> DEFINE P == Process[u]
<1>1. /\ TypeOK /\ ThreadInv(u) /\ frames[u] \in Seq(Frame) /\ P \in Processes
      /\ u # None /\ frames[u] # <<>>
  BY ThreadsAssumption, InductiveParts DEF TypeOK, Raise, AtStep
<1>2. /\ Release(u, Len(frames[u]))
      /\ UNCHANGED <<stage, request, trouble, token>>
      /\ frames' = [frames EXCEPT ![u] = <<>>]
      /\ todo' = [todo EXCEPT ![u] =
           IF request[u].op = "certs" /\ Top(u).method = "cert" THEN @ ELSE <<>>]
  BY DEF Raise
<1>3. owner[P] = u /\ depth[P] = Len(frames[u])
  BY <1>1 DEF ThreadInv, Held
<1>4. /\ owner' = [owner EXCEPT ![P] = None]
      /\ depth' = [depth EXCEPT ![P] = 0]
  BY <1>1, <1>2, <1>3, LenProperties DEF Release, TypeOK
<1>5. /\ owner' \in [Processes -> Threads \cup {None}] /\ depth' \in [Processes -> Nat]
      /\ owner'[P] = None /\ depth'[P] = 0
      /\ \A p \in Processes : p # P => owner'[p] = owner[p] /\ depth'[p] = depth[p]
  BY <1>1, <1>4 DEF TypeOK
<1>6. /\ frames'[u] = <<>> /\ frames' \in [Threads -> Seq(Frame)] /\ Len(<<>>) = 0
      /\ \A t \in Threads : t # u => frames'[t] = frames[t]
  BY <1>1, <1>2, EmptySeq DEF TypeOK
<1>7. /\ todo' \in [Threads -> Seq(Method)]
      /\ todo'[u] \in {todo[u], <<>>}
      /\ \A t \in Threads : t # u => todo'[t] = todo[t]
  BY <1>1, <1>2, EmptySeq DEF TypeOK
<1>8. TypeOK' /\ Elsewhere(u)
  BY <1>1, <1>2, <1>5, <1>6, <1>7 DEF TypeOK, Elsewhere, trouble, token
<1>9. LockMine(u) /\ TokenMine(u) /\ LockKept(P)'
  BY <1>2, <1>3, <1>5 DEF LockMine, TokenMine, LockKept, token
<1>10. Process[u] = "script" => todo'[u] \in Seq(Reads)
  BY <1>1, <1>7, EmptySeq DEF ThreadInv, ScriptReads
<1>11. ThreadInv(u)'
  BY <1>1, <1>2, <1>6, <1>10 DEF ThreadInv, Held, Shape, Known, ScriptReads, Fresh
<1> QED BY <1>8, <1>9, <1>11, StepOfOne

----------------------------------------------------------------------------
\* The token stops answering; the server is restarted.

LEMMA HangStep ==
  ASSUME Inductive, Hang
  PROVE  Inductive'
<1>1. UNCHANGED <<stage, request, todo, frames, lock, token>>
  BY DEF Hang
<1>2. TypeOK'
  BY <1>1, BoundsAssumption DEF Inductive, TypeOK, Hang, lock, token
<1>3. \A p \in Processes : LockKept(p)'
  BY <1>1 DEF Inductive, LockKept, lock
<1>4. \A t \in Threads : ThreadInv(t)'
  BY <1>1, InductiveParts
     DEF ThreadInv, Held, Shape, Known, ScriptReads, Fresh, Store!Unused, lock, token
<1> QED BY <1>2, <1>3, <1>4 DEF Inductive, ThreadInv

LEMMA RestartStep ==
  ASSUME Inductive, Restart
  PROVE  Inductive'
<1> DEFINE Killed(t) == Process[t] = "server"
                         /\ stage[t] \in {"arrived", "auth", "admitted", "handler"}
<1>1. /\ UNCHANGED <<request, hangs, token>> /\ hung' = FALSE
      /\ stage' = [t \in Threads |-> IF Killed(t) THEN "lost" ELSE stage[t]]
      /\ todo' = [t \in Threads |-> IF Killed(t) THEN <<>> ELSE todo[t]]
      /\ frames' = [t \in Threads |-> IF Killed(t) THEN <<>> ELSE frames[t]]
      /\ owner' = [owner EXCEPT !["server"] = None]
      /\ depth' = [depth EXCEPT !["server"] = 0]
  BY DEF Restart
<1>2. TypeOK'
  BY <1>1, EmptySeq DEF Inductive, TypeOK, Processes, Stage, token
<1>3. ASSUME NEW t \in Threads
      PROVE  ThreadInv(t)'
  <2>1. ThreadInv(t) /\ Process[t] \in Processes
    BY InductiveParts, ThreadsAssumption
  <2>2. frames[t] # <<>> => stage[t] = "handler"
    BY <2>1 DEF ThreadInv
  <2>3. CASE Process[t] = "server"
    <3>1. frames'[t] = <<>> /\ Len(<<>>) = 0
      BY <1>1, <2>2, <2>3
    <3>2. Known(t)'
      BY <1>1, <2>1 DEF ThreadInv, Known
    <3> QED BY <2>3, <3>1, <3>2 DEF ThreadInv, Held, Shape, ScriptReads, Fresh
  <2>4. CASE Process[t] # "server"
    <3>1. /\ frames'[t] = frames[t] /\ stage'[t] = stage[t] /\ todo'[t] = todo[t]
          /\ owner'[Process[t]] = owner[Process[t]] /\ depth'[Process[t]] = depth[Process[t]]
      BY <1>1, <2>1, <2>4 DEF Inductive, TypeOK
    <3> QED BY <1>1, <2>1, <3>1
            DEF ThreadInv, Held, Shape, Known, ScriptReads, Fresh, Store!Unused, token
  <2> QED BY <2>3, <2>4
<1>4. ASSUME NEW p \in Processes
      PROVE  LockKept(p)'
  <2>1. LockKept(p) /\ owner[p] \in Threads \cup {None}
    BY DEF Inductive, TypeOK
  <2>2. CASE p = "server"
    BY <1>1, <2>2 DEF LockKept, Inductive, TypeOK
  <2>3. CASE p # "server"
    <3>1. owner'[p] = owner[p] /\ depth'[p] = depth[p]
      BY <1>1, <2>3 DEF Inductive, TypeOK
    <3>2. owner[p] # None => frames'[owner[p]] = frames[owner[p]]
      BY <1>1, <2>1, <2>3 DEF LockKept
    <3> QED BY <2>1, <3>1, <3>2 DEF LockKept
  <2> QED BY <2>2, <2>3
<1> QED BY <1>2, <1>3, <1>4 DEF Inductive, ThreadInv

----------------------------------------------------------------------------
\* The theorems.

LEMMA StartInductive ==
  ASSUME Init
  PROVE  Inductive
<1>1. TypeOK
  <2>1. <<>> \in Seq(Method) /\ <<>> \in Seq(Frame) /\ 0 \in 0..MaxHangs
    BY BoundsAssumption
  <2> QED BY <2>1 DEF Init, TypeOK, Stage
<1>2. \A p \in Processes : LockKept(p)
  BY DEF Init, LockKept
<1>3. \A t \in Threads : ThreadInv(t)
  BY EmptySeq, Len(<<>>) = 0
     DEF Init, ThreadInv, Held, Shape, Known, ScriptReads, Fresh
<1> QED BY <1>1, <1>2, <1>3, InductiveParts

LEMMA StepInductive ==
  ASSUME Inductive, [Next]_vars
  PROVE  Inductive'
<1>1. ASSUME NEW t \in Threads, Arrive(t) \/ Run(t)
      PROVE  Inductive'
  BY <1>1, ArriveStep, PoolStep, CallStep, RefuseStep, SessionStep, BodyStep, ReturnStep,
     RaiseStep DEF Run
<1>2. CASE UNCHANGED vars
  <2>1. TypeOK' /\ (\A p \in Processes : LockKept(p)')
    BY <1>2 DEF vars, lock, trouble, token, Inductive, TypeOK, LockKept
  <2>2. \A t \in Threads : ThreadInv(t)'
    BY <1>2, InductiveParts
       DEF vars, lock, token, ThreadInv, Held, Shape, Known, ScriptReads, Fresh, Store!Unused
  <2> QED BY <2>1, <2>2 DEF Inductive, ThreadInv
<1> QED BY <1>1, <1>2, HangStep, RestartStep DEF Next

(***************************************************************************)
(* The invariant of the lock, the calls and the token holds always.        *)
(***************************************************************************)
THEOREM InvariantHolds == Spec => []Inductive
<1>1. Init => Inductive
  BY StartInductive
<1>2. Inductive /\ [Next]_vars => Inductive'
  BY StepInductive
<1> QED BY <1>1, <1>2, PTL DEF Spec

(***************************************************************************)
(* Every variable has its type; no lock is released more often than taken. *)
(***************************************************************************)
THEOREM TypeCorrect == Spec => []TypeOK
<1>1. Inductive => TypeOK
  BY DEF Inductive
<1> QED BY <1>1, InvariantHolds, PTL

(***************************************************************************)
(* Threads of one process never have two sessions open, and a thread never *)
(* opens one inside another: _hsm_locked is on every method that opens one.*)
(***************************************************************************)
THEOREM SessionsApart == Spec => []OneSession
<1>1. ASSUME Inductive, NEW p \in Processes, NEW x \in Sessions(p), NEW y \in Sessions(p)
      PROVE  x = y
  <2>1. /\ x \in Threads \X {1, 2} /\ y \in Threads \X {1, 2}
        /\ Process[x[1]] = p /\ Process[y[1]] = p
        /\ x[2] <= Len(frames[x[1]]) /\ y[2] <= Len(frames[y[1]])
        /\ InSession(frames[x[1]][x[2]]) /\ InSession(frames[y[1]][y[2]])
    BY <1>1 DEF Sessions
  <2>2. frames[x[1]] # <<>> /\ frames[y[1]] # <<>>
    BY <2>1, Len(<<>>) = 0
  <2>3. x[1] = y[1]
    BY <1>1, <2>1, <2>2 DEF Inductive, Held
  <2>4. ASSUME NEW z \in Sessions(p)
        PROVE  z[2] = Len(frames[z[1]])
    <3>1. /\ z \in Threads \X {1, 2} /\ z[2] <= Len(frames[z[1]])
          /\ InSession(frames[z[1]][z[2]])
      BY <2>4 DEF Sessions
    <3>2. frames[z[1]] # <<>>
      BY <3>1, Len(<<>>) = 0
    <3>3. Len(frames[z[1]]) \in {1, 2}
          /\ (Len(frames[z[1]]) = 2 => Nested(frames[z[1]][1], frames[z[1]][2]))
      BY <1>1, <3>1, <3>2, CallDepth
    <3>4. Len(frames[z[1]]) = 2 => ~InSession(frames[z[1]][1])
      BY <3>3 DEF Nested, InSession
    <3>5. z[2] \in {1, 2}
      BY <3>1
    <3>6. CASE Len(frames[z[1]]) = 1
      BY <3>1, <3>5, <3>6
    <3>7. CASE Len(frames[z[1]]) = 2
      <4>1. z[2] # 1
        BY <3>1, <3>4, <3>7
      <4> QED BY <3>5, <3>7, <4>1
    <3> QED BY <3>3, <3>6, <3>7
  <2> QED BY <2>1, <2>3, <2>4
<1>2. Inductive => OneSession
  BY <1>1 DEF OneSession
<1> QED BY <1>2, InvariantHolds, PTL

(***************************************************************************)
(* HSM access implements TokenStore: each method takes effect at one       *)
(* instant, and a key pair is generated only under an unused id.           *)
(***************************************************************************)
THEOREM ImplementsStore == Spec => StoreSpec
<1>1. Init => Store!Init
  BY DEF Init, Store!Init
<1>2. ASSUME Inductive, [Next]_vars
      PROVE  [Store!Next]_<<pairs, certificates>>
  <2>1. CASE UNCHANGED token
    BY <2>1 DEF token
  <2>2. ASSUME NEW t \in Threads, Body(t)
        PROVE  [Store!Next]_<<pairs, certificates>>
    <3>1. Effect(Top(t).method, request[t].id) /\ AtStep(t, "body")
      BY <2>2 DEF Body
    <3>2. request[t].id \in Ids
      <4>1. stage[t] = "handler"
        BY <1>2, <3>1 DEF Inductive, AtStep
      <4>2. request[t] \in Requests[t]
        BY <1>2, <4>1 DEF Inductive, Known
      <4> QED BY <4>2, RequestFacts
    <3>3. CASE Top(t).method = "gen"
      <4>1. Store!Unused(request[t].id)
        BY <1>2, <3>1, <3>3, GeneratesUnused
      <4>2. pairs' = [pairs EXCEPT ![request[t].id] = 1] /\ UNCHANGED certificates
        BY <1>2, <3>1, <3>3, <4>1 DEF Effect, Store!Unused, Inductive, TypeOK
      <4> QED BY <3>2, <4>1, <4>2 DEF Store!Next, Store!Generate
    <3>4. CASE Top(t).method # "gen"
      BY <3>1, <3>2, <3>4 DEF Effect, Store!Next, Store!Import, Store!Delete, token
    <3> QED BY <3>3, <3>4
  <2> QED BY <1>2, <2>1, <2>2
          DEF Next, Run, Arrive, StartAuth, Authenticate, Start, Answer, Call,
              RefuseParameters, NestedCall,
              Open, Close, Return, Raise, Hang, Restart, vars
<1> QED BY <1>1, <1>2, InvariantHolds, PTL DEF Spec, StoreSpec, Store!Spec
=============================================================================
