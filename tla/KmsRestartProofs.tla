-------------------------- MODULE KmsRestartProofs --------------------------
(***************************************************************************)
(* The service over several lives of its process, for every set of         *)
(* threads, requests, rows and objects, and any number of crashes and      *)
(* losses.  The steps of the service are those of Kms, and their lemmas    *)
(* are cited.  A crash ends the requests in flight, a restart decides the  *)
(* flag, a loss leaves the registry alone: the first layer of the          *)
(* invariant stands through all three.  The second stands for the requests *)
(* that hold no description of a key that was lost.                        *)
(***************************************************************************)
EXTENDS KmsRestart, KmsCertificateProofs, KmsCustodyProofs

----------------------------------------------------------------------------
\* What a start decides.

\* An issue is of a row or of an object's id.
LEMMA InReport ==
  ASSUME NEW issue
  PROVE  issue \in Report(registry, keys, certs, now) <=>
           \/ \E row \in Rows(registry) : issue \in ReportedOfRow(row, keys, certs, now)
           \/ \E id \in Ids : issue \in ReportedOfId(registry, keys, certs, id)
BY DEF Report

\* A check that comes to an end reports an ACTIVE key that is missing.
LEMMA MissingIsReported ==
  ASSUME MissingKeys # {}, ~CheckAborts(registry, keys, certs, now)
  PROVE  StartupFailClosed(registry, keys, certs, now)
<1>1. PICK k \in KeyIds : /\ registry[k] # None
                          /\ registry[k].status = "ACTIVE"
                          /\ keys[registry[k].object] = None
  BY DEF MissingKeys
<1> DEFINE row == registry[k]
           issue == [type |-> "MISSING_HSM_KEY", subject |-> row.key, status |-> row.status]
<1>2. row \in Rows(registry)
  BY <1>1 DEF Rows
<1>3. "MISSING_HSM_KEY" \in KeyIssues(row, keys)
  BY <1>1 DEF KeyIssues
<1>4. issue \in Report(registry, keys, certs, now)
  <2>1. issue \in ReportedOfRow(row, keys, certs, now)
    BY <1>3 DEF ReportedOfRow
  <2> QED
    BY <1>2, <2>1, InReport
<1>5. issue.type = "MISSING_HSM_KEY" /\ issue.status = "ACTIVE"
  BY <1>1
<1> QED
  BY <1>4, <1>5 DEF StartupFailClosed

\* And it reports no other.
LEMMA ReportedIsMissing ==
  ASSUME TypeOK, StartupFailClosed(registry, keys, certs, now)
  PROVE  MissingKeys # {}
<1>1. PICK issue \in Report(registry, keys, certs, now) :
        issue.type = "MISSING_HSM_KEY" /\ issue.status = "ACTIVE"
  BY DEF StartupFailClosed
<1>2. \A id \in Ids : issue \notin ReportedOfId(registry, keys, certs, id)
  BY <1>1 DEF ReportedOfId
<1>3. PICK row \in Rows(registry) : issue \in ReportedOfRow(row, keys, certs, now)
  BY <1>1, <1>2, InReport
<1>4. row.status = "ACTIVE" /\ keys[row.object] = None
  <2>1. /\ issue.type \in KeyIssues(row, keys) \cup BindingIssues(row, keys, certs, now)
        /\ issue.status = row.status
    BY <1>3 DEF ReportedOfRow
  <2>2. "MISSING_HSM_KEY" \notin BindingIssues(row, keys, certs, now)
    BY DEF BindingIssues
  <2> QED
    BY <1>1, <2>1, <2>2 DEF KeyIssues
<1>5. PICK k \in KeyIds : row = registry[k] /\ registry[k] # None
  BY <1>3 DEF Rows
<1> QED
  BY <1>4, <1>5 DEF MissingKeys

LEMMA StartDecides ==
  ASSUME TypeOK
  PROVE  StartupFailClosed(registry, keys, certs, now) <=>
           MissingKeys # {} /\ ~CheckAborts(registry, keys, certs, now)
BY MissingIsReported, ReportedIsMissing DEF StartupFailClosed

\* A handler leaves the flag alone, and one that reads it set goes no further.
LEMMA FlagStays ==
  ASSUME NEW p \in Procs, Handle(p)
  PROVE  failClosed' = failClosed
BY DEF Handle, shared, Receive, Lookup, Validate_key, ValidateKeyObject, Unauthorized,
   Crypto, CheckCertificate, RegisterKeyObject, SelectKeyId, SelectObject, Insert, GetKey,
   UpdateKeyObject, SelectStatus, Commit, FindReferences, ReadCert, Destroy, Create,
   Generate, Finish, AccessFails

LEMMA FlagBinds ==
  ASSUME Inductive, NEW p \in Procs, Handle(p), failClosed, ~UsesKey(p)
  PROVE  ~UsesKey(p)'
<1> USE DEF Goto, Reply, Refuse, NotFound, Fail
<1>1. TypeOK /\ ThreadInv(p)
  BY DEF Inductive
<1>2. CASE Receive(p)
  <2>1. PICK r \in Requests : Goto(p, FirstStep(r.op))
    BY <1>2 DEF Receive
  <2>2. FirstStep(r.op) \in {"lookup", "getKey", "registerKey", "findReferences",
                             "create", "generate"}
    BY RequestsAssumption, RequestFields DEF FirstStep
  <2> QED
    BY <1>1, <2>1, <2>2 DEF TypeOK, UsesKey
<1>3. CASE ~Receive(p) /\ UsesKey(p)'
  <2>1. UNCHANGED req
    BY <1>3, Signers
  <2>2. Crypting(p) /\ pc[p] \notin {"validateKey", "certificate", "crypto"}
    BY <1>3, <2>1 DEF UsesKey, Crypting
  <2>3. pc[p] # "idle" => pc[p] \in {"lookup", "validate", "finish", "done"}
    BY <1>1, <2>2 DEF ThreadInv, RequestInPlace, InHandler, Crypting, TypeOK, Steps
  <2>4. Lookup(p) \/ Validate_key(p) \/ Finish(p) \/ AccessFails(p)
    BY <1>3, <2>3
       DEF Handle, ValidateKeyObject, Unauthorized, Crypto, CheckCertificate,
           RegisterKeyObject, SelectKeyId, SelectObject, Insert, GetKey, UpdateKeyObject,
           SelectStatus, Commit, FindReferences, ReadCert, Destroy, Create, Generate
  <2>5. pc'[p] \in {"validate", "done"}
    BY <1>1, <2>4 DEF TypeOK, Lookup, Validate_key, Finish, AccessFails
  <2> QED
    BY <2>5 DEF UsesKey
<1> QED
  BY <1>2, <1>3

----------------------------------------------------------------------------
\* The invariant over all lives.

LEMMA RestartInitially ==
  ASSUME RestartInit
  PROVE  RestartInductive
<1>1. Inductive /\ CertInductive
  BY CertInitially DEF RestartInit, CertInductive
<1>2. RestartTypeOK
  BY <1>1, RestartBoundsAssumption
     DEF RestartInit, RestartTypeOK, Inductive, MissingKeys, CheckAborts
<1>3. Started
  <2>1. up /\ \A p \in Procs : pc[p] = "idle"
    BY DEF RestartInit, Init
  <2>2. /\ failClosed = StartupFailClosed(registry, keys, certs, now)
        /\ missing = MissingKeys
        /\ aborted = CheckAborts(registry, keys, certs, now)
    BY DEF RestartInit, Init
  <2> QED
    BY <1>1, <2>1, <2>2, StartDecides DEF Started, UsesKey, Inductive
<1> QED
  BY <1>1, <1>2, <1>3 DEF RestartInductive, CertInductive

\* A step of the service.
LEMMA ServeStep ==
  ASSUME RestartInductive, up, Next, UNCHANGED lifeVars
  PROVE  RestartInductive'
<1>1. Inductive /\ SeesStored /\ Inductive' /\ SeesStored'
  BY Stepwise, StoredSeen DEF RestartInductive
<1>2. ASSUME NEW q \in Procs \ disturbed' PROVE CertThread(q)'
  BY <1>1, <1>2, CertThreadStep DEF RestartInductive, lifeVars
<1>3. RestartTypeOK'
  BY <1>1 DEF RestartInductive, RestartTypeOK, Inductive, lifeVars
<1>4. failClosed' = failClosed
  BY FlagStays DEF Next, Tick, Quiescent, vars, shared
<1>5. ASSUME failClosed, NEW q \in Procs PROVE ~UsesKey(q)'
  <2>1. ~UsesKey(q)
    BY <1>5 DEF RestartInductive, Started
  <2>2. ASSUME NEW p \in Procs, Handle(p) PROVE ~UsesKey(q)'
    <3>1. CASE p = q
      BY <1>1, <1>5, <2>1, <2>2, <3>1, FlagBinds
    <3>2. CASE p # q
      BY <1>1, <2>1, <2>2, <3>2, OthersStand
         DEF OthersStill, Still, UsesKey, Crypting, Inductive
    <3> QED
      BY <3>1, <3>2
  <2>3. CASE Tick \/ Quiescent
    BY <2>1, <2>3 DEF Tick, Quiescent, vars, UsesKey, Crypting
  <2> QED
    BY <2>2, <2>3 DEF Next
<1>6. Started'
  BY <1>4, <1>5 DEF RestartInductive, Started, lifeVars
<1> QED
  BY <1>1, <1>2, <1>3, <1>6 DEF RestartInductive

\* The requests in flight are lost, what they wrote is not.
LEMMA CrashStep ==
  ASSUME RestartInductive, Crash
  PROVE  RestartInductive'
<1> USE DEF shared, tokenVars, history
<1>1. /\ UNCHANGED <<registry, tokenVars, failClosed, now, req, answer, signed, retired,
                     seen, wrote, missing, aborted, disturbed>>
      /\ \A p \in Procs : /\ pc'[p] \in {"idle", "done"}
                          /\ pc'[p] = "idle" <=> pc[p] = "idle"
                          /\ pc'[p] # pc[p] => pc[p] \notin {"idle", "done"}
  BY DEF Crash, InFlight
<1>2. Inductive /\ SeesStored /\ TypeOK
  BY DEF RestartInductive, Inductive
<1>3. Evolves /\ RowsInPlace'
  BY <1>1, <1>2, StoresUnchanged
<1>4. RestartTypeOK'
  <2>1. /\ pc' \in [Procs -> Steps]
        /\ entry' \in [Procs -> Row \cup {None}]
        /\ hkey' \in [Procs -> KeyObject \cup {None}]
    BY <1>2 DEF Crash, TypeOK, Steps
  <2>2. TypeOK'
    BY <1>1, <1>2, <2>1 DEF TypeOK, Registry
  <2>3. restarts' \in 0..MaxRestarts
    BY RestartBoundsAssumption DEF Crash, RestartInductive, RestartTypeOK
  <2> QED
    BY <1>1, <2>2, <2>3 DEF Crash, RestartInductive, RestartTypeOK
<1>5. ASSUME NEW p \in Procs, NEW op, Written(p, op)' PROVE Written(p, op)
  BY <1>1, <1>5 DEF Written, Succeeded
<1>6. ASSUME NEW p \in Procs PROVE ThreadInv(p)'
  <2>1. ThreadInv(p)
    BY <1>2 DEF Inductive
  <2>2. RequestInPlace(p)'
    BY <1>1, <2>1 DEF ThreadInv, RequestInPlace, InHandler
  <2>3. EntryInPlace(p)' /\ KeyHeld(p)'
    BY <1>1 DEF EntryInPlace, EntrySteps, KeyHeld
  <2>4. RetiredBefore(p)'
    BY <1>1, <2>1 DEF ThreadInv, RetiredBefore, RetiredKeys
  <2>5. WriteHolds(p)'
    BY <1>1, <1>5, <2>1 DEF ThreadInv, WriteHolds, Succeeded
  <2>6. SignedInPlace(p)'
    BY <1>1, <2>1 DEF ThreadInv, SignedInPlace, PermittedFor, RequestInPlace
  <2> QED
    BY <2>2, <2>3, <2>4, <2>5, <2>6 DEF ThreadInv
<1>7. RegisterOnce'
  BY <1>1, <1>2, <1>5 DEF Inductive, RegisterOnce
<1>8. Inductive'
  BY <1>3, <1>4, <1>6, <1>7 DEF Inductive, RestartTypeOK
<1>9. SeesStored'
  BY <1>1 DEF SeesStored
<1>10. ASSUME NEW q \in Procs \ disturbed' PROVE CertThread(q)'
  <2>1. CertKnown(q) /\ ThreadInv(q)
    BY <1>1, <1>2 DEF CertKnown, RestartInductive, Inductive
  <2>2. Remembers
    BY <1>1, <1>3 DEF Remembers
  <2>3. WriteAccounted(q)'
    BY <1>1, <2>1
       DEF CertKnown, CertThread, WriteAccounted, Accounted, Late
  <2> QED
    BY <1>1, <2>1, <2>2, <2>3, CertElsewhere
<1>11. Started'
  BY <1>1 DEF RestartInductive, Started, InFlight, UsesKey
<1> QED
  BY <1>4, <1>8, <1>9, <1>10, <1>11 DEF RestartInductive

\* The stores and the threads are as the crash left them; the flag is decided.
LEMMA RestartStep ==
  ASSUME RestartInductive, Restart
  PROVE  RestartInductive'
<1>1. UNCHANGED <<registry, keys, certs, spent, now, pc, req, local, history, wrote,
                  disturbed>>
  BY DEF Restart, tokenVars
<1>2. Inductive /\ SeesStored /\ TypeOK
  BY DEF RestartInductive, Inductive
<1>3. RestartTypeOK'
  <2>1. failClosed' \in BOOLEAN /\ aborted' \in BOOLEAN
    BY DEF Restart, StartupFailClosed, CheckAborts
  <2>2. TypeOK'
    BY <1>1, <1>2, <2>1 DEF TypeOK, Registry, local, history
  <2> QED
    BY <1>1, <2>1, <2>2
       DEF Restart, RestartInductive, RestartTypeOK, MissingKeys
<1>4. Inductive'
  BY <1>1, <1>2, <1>3, StoresMove DEF RestartTypeOK, history
<1>5. SeesStored'
  BY <1>1, <1>2 DEF SeesStored, StoredAt, history
<1>6. ASSUME NEW q \in Procs \ disturbed' PROVE CertThread(q)'
  <2>1. CertKnown(q) /\ Still(q)
    BY <1>1, <1>2 DEF CertKnown, RestartInductive, Still, local, history
  <2>2. Advances
    BY <1>1, <1>2, StoresUnchanged DEF Advances, Remembers, history
  <2> QED
    BY <1>1, <2>1, <2>2, CertOthers
<1>7. Started'
  <2>1. \A p \in Procs : pc[p] \in {"idle", "done"}
    BY DEF Restart, RestartInductive, Started, InFlight
  <2>2. failClosed' <=> missing' # {} /\ ~aborted'
    BY <1>2, StartDecides DEF Restart
  <2> QED
    BY <1>1, <2>1, <2>2 DEF Restart, Started, UsesKey
<1> QED
  BY <1>3, <1>4, <1>5, <1>6, <1>7 DEF RestartInductive

\* An object leaves the token, or its private half does.
LEMMA LoseStep ==
  ASSUME RestartInductive, Lose
  PROVE  RestartInductive'
<1>1. UNCHANGED <<registry, spent, failClosed, now, pc, req, local, history, wrote,
                  up, restarts, missing, aborted>>
  BY DEF Lose
<1>2. Inductive /\ SeesStored /\ TypeOK
  BY DEF RestartInductive, Inductive
<1>3. PICK i \in Ids :
        \/ /\ keys[i] # None
           /\ \/ keys' = [keys EXCEPT ![i] = None]
              \/ keys' = [keys EXCEPT ![i].private = FALSE]
           /\ disturbed' = disturbed \cup InFlight
           /\ UNCHANGED certs
        \/ /\ certs[i] # <<>>
           /\ certs' = [certs EXCEPT ![i] = Tail(@)]
           /\ UNCHANGED <<keys, disturbed>>
  BY DEF Lose
<1>4. keys' \in KeyStore
  <2>1. CASE keys[i] # None /\ keys' = [keys EXCEPT ![i].private = FALSE]
    <3>1. keys \in KeyStore /\ keys[i] \in KeyObject
      BY <1>2, <2>1 DEF TypeOK, KeyStore
    <3>2. [keys[i] EXCEPT !.private = FALSE] \in KeyObject
      BY <3>1 DEF KeyObject
    <3>3. keys' = [keys EXCEPT ![i] = [keys[i] EXCEPT !.private = FALSE]]
      BY <2>1
    <3> QED
      BY <3>1, <3>2, <3>3 DEF KeyStore
  <2>2. CASE keys' = [keys EXCEPT ![i] = None] \/ UNCHANGED keys
    BY <1>2, <2>2 DEF TypeOK, KeyStore
  <2> QED
    BY <1>3, <2>1, <2>2
<1>5. certs' \in CertStore
  <2>1. CASE certs' = [certs EXCEPT ![i] = Tail(@)] /\ certs[i] # <<>>
    <3>1. Tail(certs[i]) \in Seq(Certs)
      BY <1>2, <2>1 DEF TypeOK, CertStore
    <3> QED
      BY <1>2, <2>1, <3>1 DEF TypeOK, CertStore
  <2>2. CASE UNCHANGED certs
    BY <1>2, <2>2 DEF TypeOK
  <2> QED
    BY <1>3, <2>1, <2>2
<1>6. TypeOK'
  BY <1>1, <1>2, <1>4, <1>5 DEF TypeOK, Registry, local, history
<1>7. RestartTypeOK'
  <2>1. disturbed' \in SUBSET Procs
    BY <1>3 DEF RestartInductive, RestartTypeOK, InFlight
  <2>2. losses' \in 0..MaxLosses
    BY RestartBoundsAssumption DEF Lose, RestartInductive, RestartTypeOK
  <2> QED
    BY <1>1, <1>6, <2>1, <2>2 DEF RestartInductive, RestartTypeOK
<1>8. Inductive'
  BY <1>1, <1>2, <1>6, StoresMove DEF history
<1>9. SeesStored'
  <2>1. ASSUME NEW j \in Ids PROVE StoredAt(j)' \subseteq StoredAt(j)
    <3>1. CASE UNCHANGED certs
      BY <1>1, <3>1 DEF StoredAt
    <3>2. CASE certs[i] # <<>> /\ certs' = [certs EXCEPT ![i] = Tail(@)]
      BY <1>1, <1>2, <3>2, TailStored DEF TypeOK
    <3> QED
      BY <1>3, <3>1, <3>2
  <2> QED
    BY <1>1, <1>2, <2>1 DEF SeesStored, history
<1>10. ASSUME NEW q \in Procs \ disturbed' PROVE CertThread(q)'
  <2>1. CertKnown(q) /\ Still(q)
    BY <1>1, <1>2, <1>3 DEF CertKnown, RestartInductive, Still, local, history
  <2>2. Remembers
    BY <1>1, <1>2, StoresUnchanged DEF Remembers, history
  <2>3. CASE UNCHANGED keys
    BY <1>1, <2>1, <2>2, <2>3, CertOthers DEF Advances
  <2>4. CASE disturbed' = disturbed \cup InFlight
    <3>1. pc'[q] \in {"idle", "done"}
      BY <1>1, <2>4 DEF InFlight
    <3>2. WriteAccounted(q)'
      BY <1>1, <2>1 DEF CertKnown, CertThread, WriteAccounted, Accounted, Late, local
    <3> QED
      BY <2>1, <2>2, <3>1, <3>2, CertElsewhere DEF Still
  <2> QED
    BY <1>3, <2>3, <2>4
<1>11. Started'
  BY <1>1 DEF RestartInductive, Started, InFlight, UsesKey, Crypting
<1> QED
  BY <1>7, <1>8, <1>9, <1>10, <1>11 DEF RestartInductive

LEMMA RestartStepwise ==
  ASSUME RestartInductive, [RestartNext]_allVars
  PROVE  RestartInductive'
<1>1. CASE up /\ Next /\ UNCHANGED lifeVars
  BY <1>1, ServeStep
<1>2. CASE Crash \/ Restart \/ Lose
  BY <1>2, CrashStep, RestartStep, LoseStep
<1>3. CASE UNCHANGED allVars
  <2>1. UNCHANGED <<registry, keys, certs, spent, failClosed, now, pc, req,
                    entry, hkey, answer, signed, retired, seen, wrote,
                    up, restarts, losses, missing, aborted, disturbed>>
    BY <1>3 DEF allVars, vars, shared, tokenVars, local, history, lifeVars
  <2>2. /\ Inductive' /\ SeesStored'
        /\ \A q \in Procs \ disturbed : CertThread(q)'
    BY <1>3, Stepwise, StoredSeen, CertThreadStep DEF allVars, RestartInductive
  <2> QED
    BY <2>1, <2>2 DEF RestartInductive, RestartTypeOK, Inductive, Started, InFlight,
       UsesKey, Crypting
<1> QED
  BY <1>1, <1>2, <1>3 DEF RestartNext

(***************************************************************************)
(* Over all lives of the service: the registry layer of the invariant of   *)
(* Kms, what a start has decided, and for every request that holds no      *)
(* description of a lost key the layer of keys and certificates.           *)
(***************************************************************************)
THEOREM RestartInvariantHolds == RestartSpec => []RestartInductive
<1>1. RestartInit => RestartInductive
  BY RestartInitially
<1>2. RestartInductive /\ [RestartNext]_allVars => RestartInductive'
  BY RestartStepwise
<1> QED
  BY <1>1, <1>2, PTL DEF RestartSpec

(***************************************************************************)
(* No crash, restart or loss gives a variable a value that is none.        *)
(***************************************************************************)
THEOREM RestartTypeCorrect == RestartSpec => []RestartTypeOK
<1>1. RestartInductive => RestartTypeOK
  BY DEF RestartInductive
<1> QED
  BY <1>1, RestartInvariantHolds, PTL

(***************************************************************************)
(* What a start decided stands for its whole life: the service is failed   *)
(* closed exactly when its check found an ACTIVE key missing, and while it *)
(* is no request is past the check of the flag.                            *)
(***************************************************************************)
THEOREM DecisionStands == RestartSpec => []Started
<1>1. RestartInductive => Started
  BY DEF RestartInductive
<1> QED
  BY <1>1, RestartInvariantHolds, PTL

(***************************************************************************)
(* A registration or retirement that was committed survives every crash,   *)
(* whatever was answered, and no later life undoes it.                     *)
(***************************************************************************)
THEOREM WritesSurvive == RestartSpec => []CommittedWritesHold
<1>1. RestartInductive => CommittedWritesHold
  BY Consequences DEF RestartInductive
<1> QED
  BY <1>1, RestartInvariantHolds, PTL

(***************************************************************************)
(* In all lives together at most one registration is committed for a       *)
(* key_id, and at most one for an object_id.                               *)
(***************************************************************************)
THEOREM RegisteredOnceAcrossLives == RestartSpec => []RegisterOnce
<1>1. RestartInductive => RegisterOnce
  BY Consequences DEF RestartInductive
<1> QED
  BY <1>1, RestartInvariantHolds, PTL

(***************************************************************************)
(* In no life does a key sign for a request that came after the key was    *)
(* retired, in whichever life that was.                                    *)
(***************************************************************************)
THEOREM RetirementSurvives == RestartSpec => []NoSignAfterRetire
<1>1. RestartInductive => NoSignAfterRetire
  BY Consequences DEF RestartInductive
<1> QED
  BY <1>1, RestartInvariantHolds, PTL

(***************************************************************************)
(* Every signature of every life is one that the row of its key permits:   *)
(* the object, the algorithm, the operation of the role, and, unless a key *)
(* was lost under the request, the size or curve.                          *)
(***************************************************************************)
THEOREM LawfulAcrossLives == RestartSpec => []SignatureLawfulAcrossLives
<1>1. RestartInductive => SignatureLawfulAcrossLives
  BY DEF RestartInductive, Inductive, ThreadInv, SignedInPlace, CertThread, SignedVetted,
     SignatureLawfulAcrossLives
<1> QED
  BY <1>1, RestartInvariantHolds, PTL

(***************************************************************************)
(* Crashes and lost certificates do not weaken what a signature says of    *)
(* its certificate; lost keys do so for the requests in flight only.       *)
(***************************************************************************)
THEOREM CertifiedAcrossLives == RestartSpec => []SignatureCertifiedAcrossLives
<1>1. RestartInductive => SignatureCertifiedAcrossLives
  BY DEF RestartInductive, CertThread, SignedVetted, SignatureCertifiedAcrossLives
<1> QED
  BY <1>1, RestartInvariantHolds, PTL

(***************************************************************************)
(* A life that began with an ACTIVE key missing from the token, and whose  *)
(* check came to an end, makes no signature with any key.                  *)
(***************************************************************************)
THEOREM NoSignatureWhenFailedClosed == RestartSpec => FailedClosedNeverSigns
<1>1. RestartInductive /\ [RestartNext]_allVars
        => [signed' # signed => missing = {} \/ aborted]_allVars
  <2> SUFFICES ASSUME RestartInductive, RestartNext, signed' # signed
               PROVE  missing = {} \/ aborted
    BY DEF allVars, vars, history
  <2>1. PICK p \in Procs : Crypto(p)
    BY Signers DEF RestartNext, Next, Tick, Quiescent, Crash, Restart, Lose, vars, history
  <2>2. UsesKey(p)
    BY <2>1, AtWork DEF Crypto, RestartInductive, InHandler, UsesKey
  <2> QED
    BY <2>2 DEF RestartInductive, Started
<1> QED
  BY <1>1, RestartInvariantHolds, PTL DEF RestartSpec, FailedClosedNeverSigns

(***************************************************************************)
(* The promise of KeyCustody is kept over all lives: to its clients a      *)
(* crash is the withdrawal of their grants, a restart and a loss are       *)
(* nothing.                                                                *)
(***************************************************************************)
THEOREM CustodyAcrossLives == RestartSpec => CustodySpec
<1>1. RestartInit => Custody!Init
  BY CustodyInitially DEF RestartInit
<1>2. RestartInductive /\ [RestartNext]_allVars => [Custody!Next]_(Custody!vars)
  <2> SUFFICES ASSUME RestartInductive, [RestartNext]_allVars
               PROVE  [Custody!Next]_(Custody!vars)
    OBVIOUS
  <2>1. CASE Next \/ UNCHANGED allVars
    BY <2>1, EveryStepMaps DEF RestartInductive, allVars
  <2>2. CASE Crash
    <3>1. UNCHANGED <<registry, signed>> /\ \A p \in Procs : pc'[p] \in {"idle", "done"}
      BY <2>2 DEF Crash, InFlight, shared, history
    <3>2. \A p \in Procs : Granted(p)' = None /\ SignedWith(p)' = SignedWith(p)
      BY <3>1 DEF Granted, SignedWith
    <3>3. Custody!Withdraw(Procs)
      BY <3>1, <3>2 DEF Custody!Withdraw
    <3> QED
      BY <3>3 DEF Custody!Next
  <2>3. CASE Restart \/ Lose
    <3>1. UNCHANGED <<registry, pc, req, entry, signed>>
      BY <2>3 DEF Restart, Lose, local, history
    <3> QED
      BY <3>1 DEF Custody!vars, Granted, SignedWith
  <2> QED
    BY <2>1, <2>2, <2>3 DEF RestartNext
<1> QED
  BY <1>1, <1>2, RestartInvariantHolds, PTL DEF RestartSpec, CustodySpec, Custody!Spec

----------------------------------------------------------------------------
\* The report and the checks of a request.

LEMMA KeyIssuesAgree ==
  ASSUME NEW row
  PROVE  KeyIssues(row, keys) = {} <=>
           keys[row.object] # None /\ MatchesRow(keys[row.object], row)
<1>1. CASE keys[row.object] = None
  BY <1>1 DEF KeyIssues
<1>2. CASE keys[row.object] # None
  <2> DEFINE obj == keys[row.object]
             Found(t) == \/ t = "KEY_ALGORITHM_MISMATCH" /\ obj.pair.alg # row.alg
                         \/ t = "KEY_PARAMETER_MISMATCH" /\ obj.pair.params # row.params
                         \/ t = "MISSING_PRIVATE_KEY"    /\ ~obj.private
             Kinds == {"KEY_ALGORITHM_MISMATCH", "KEY_PARAMETER_MISMATCH",
                       "MISSING_PRIVATE_KEY"}
  <2>1. KeyIssues(row, keys) = {t \in Kinds : Found(t)}
    BY <1>2 DEF KeyIssues
  <2>2. (\A t \in Kinds : ~Found(t)) <=> MatchesRow(obj, row)
    BY DEF MatchesRow
  <2>3. {t \in Kinds : Found(t)} = {} <=> \A t \in Kinds : ~Found(t)
    OBVIOUS
  <2> QED
    BY <1>2, <2>1, <2>2, <2>3
<1> QED
  BY <1>1, <1>2

LEMMA BindingIssuesAgree ==
  ASSUME NEW row, keys[row.object] # None
  PROVE  BindingIssues(row, keys, certs, now) = {} <=>
           (row.cert # None =>
              /\ certs[row.cert] # <<>>
              /\ LoadAndValidate(Head(certs[row.cert]), row.role,
                                 keys[row.object].pair.pub, now) = "ok")
BY DEF BindingIssues, BoundOutcome, LoadAndValidate

\* The issues that carry the key_id and status of a row are those of the row.
LEMMA IssuesOfRow ==
  ASSUME TypeOK, NEW row \in Rows(registry)
  PROVE  IssuesOf(row) = {} <=>
           KeyIssues(row, keys) = {} /\ BindingIssues(row, keys, certs, now) = {}
<1> DEFINE Types(r) == KeyIssues(r, keys) \cup BindingIssues(r, keys, certs, now)
<1>1. ASSUME NEW r \in Rows(registry) PROVE r \in Row /\ registry[r.key] = r
  BY DEF TypeOK, Registry, Rows
<1>2. ASSUME NEW issue \in IssuesOf(row) PROVE Types(row) # {}
  <2>1. /\ issue \in Report(registry, keys, certs, now)
        /\ issue.subject = row.key /\ issue.status = row.status
    BY DEF IssuesOf
  <2>2. row.status # "NONE"
    BY <1>1 DEF Row
  <2>3. \A id \in Ids : issue \notin ReportedOfId(registry, keys, certs, id)
    BY <2>1, <2>2 DEF ReportedOfId
  <2>4. PICK r \in Rows(registry) : issue \in ReportedOfRow(r, keys, certs, now)
    BY <2>1, <2>3, InReport
  <2>5. issue.subject = r.key /\ Types(r) # {}
    BY <2>4 DEF ReportedOfRow
  <2>6. r = row
    BY <1>1, <2>1, <2>5
  <2> QED
    BY <2>5, <2>6
<1>3. ASSUME NEW t \in Types(row) PROVE IssuesOf(row) # {}
  <2> DEFINE issue == [type |-> t, subject |-> row.key, status |-> row.status]
  <2>1. issue \in ReportedOfRow(row, keys, certs, now)
    BY DEF ReportedOfRow
  <2>2. issue \in Report(registry, keys, certs, now)
    BY <2>1, InReport
  <2> QED
    BY <2>2 DEF IssuesOf
<1>4. IssuesOf(row) = {} <=> Types(row) = {}
  BY <1>2, <1>3
<1> QED
  BY <1>4

(***************************************************************************)
(* The integrity report and the checks of a signing request agree on every *)
(* row of every reachable state: the report is silent of a row exactly     *)
(* when a request would be let through to the token.                       *)
(***************************************************************************)
THEOREM ReportAgrees == RestartSpec => []ReportAgreesWithUse
<1>1. RestartInductive => ReportAgreesWithUse
  <2> SUFFICES ASSUME TypeOK, NEW row \in Rows(registry)
               PROVE  IssuesOf(row) = {} <=> Usable(row)
    BY DEF RestartInductive, Inductive, ReportAgreesWithUse
  <2>1. CASE keys[row.object] = None
    BY <2>1, IssuesOfRow, KeyIssuesAgree DEF Usable
  <2>2. CASE keys[row.object] # None
    BY <2>2, IssuesOfRow, KeyIssuesAgree, BindingIssuesAgree DEF Usable
  <2> QED
    BY <2>1, <2>2
<1> QED
  BY <1>1, RestartInvariantHolds, PTL
=============================================================================
