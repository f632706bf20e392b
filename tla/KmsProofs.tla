----------------------------- MODULE KmsProofs -----------------------------
(***************************************************************************)
(* Proofs about Kms, for every set of threads, requests, keys and          *)
(* certificates.  The argument is of the rely-guarantee kind: a step of a  *)
(* thread re-establishes the invariant of that thread and leaves the       *)
(* locals of the others alone (one lemma per group of actions), and all it *)
(* does to the registry is an evolution under which the invariants of the  *)
(* others stand (lemma Interference).  Nothing is assumed of the token.    *)
(***************************************************************************)
EXTENDS KmsInvariant, TLAPS

\* What a step may do to the registry: rows are added and retired, never
\* removed or given another identity.
Evolves ==
  \A k \in KeyIds : registry[k] # None =>
    /\ registry'[k] # None
    /\ SameIdentity(registry'[k], registry[k])
    /\ registry[k].status = "RETIRED" => registry'[k].status = "RETIRED"

\* The thread q does not move.
Still(q) ==
  /\ pc'[q] = pc[q]
  /\ req'[q] = req[q]
  /\ entry'[q] = entry[q]
  /\ hkey'[q] = hkey[q]
  /\ answer'[q] = answer[q]
  /\ signed'[q] = signed[q]
  /\ retired'[q] = retired[q]
  /\ (q \in wrote' <=> q \in wrote)

\* The fields of a request, by operation.
LEMMA RequestFields ==
  ASSUME NEW r \in Request
  PROVE  /\ r.op \in {"sign", "verify", "retire", "update", "register",
                      "delete", "import", "generate"}
         /\ r.op \in {"sign", "verify"} => r.id \in Ids /\ r.alg \in SigningAlgorithm
         /\ r.op \in {"retire", "update", "register"} => r.key \in KeyIds
         /\ r.op = "update" => r.cert \in Ids
         /\ r.op = "register" =>
              r.id \in Ids /\ r.role \in Role /\ r.cert \in Ids \cup {None}
         /\ r.op \in {"delete", "import", "generate"} => r.id \in Ids
         /\ r.op = "import" => r.cert \in Certs
  BY DEF Request

\* What a thread relies on stands when another thread makes a step.
LEMMA Interference ==
  ASSUME TypeOK, NEW q \in Procs, ThreadInv(q), Evolves, Still(q)
  PROVE  ThreadInv(q)'
<1>1. RequestInPlace(q)'
  BY DEF ThreadInv, RequestInPlace, InHandler, Crypting, Still
<1>2. EntryInPlace(q)'
  BY DEF ThreadInv, EntryInPlace, EntrySteps, Crypting, Still, Evolves,
         SameIdentity, Row
<1>3. KeyHeld(q)'
  BY DEF ThreadInv, KeyHeld, CertificateId, Still
<1>4. RetiredBefore(q)'
  BY DEF ThreadInv, RetiredBefore, RetiredKeys, Crypting, Still, Evolves
<1>5. WriteHolds(q)'
  BY RequestFields DEF ThreadInv, RequestInPlace, WriteHolds, Written, Succeeded,
         Still, Evolves, SameIdentity
<1>6. SignedInPlace(q)'
  BY DEF ThreadInv, SignedInPlace, PermittedFor, Still, Evolves, SameIdentity,
         TypeOK, Signature, Registry, Row
<1> QED
  BY <1>1, <1>2, <1>3, <1>4, <1>5, <1>6 DEF ThreadInv

\* The other threads do not move.
OthersStill(p) == \A q \in Procs \ {p} : Still(q)

\* A registration that is written by this step was not written before.
Fresh(p) ==
  Written(p, "register")' =>
    /\ req'[p] = req[p]
    /\ \/ Written(p, "register")
       \/ \A q \in Procs \ {p} : Written(q, "register") =>
            req[p].key # req[q].key /\ req[p].id # req[q].id

\* What is left to show of a step of thread p.
LEMMA StepOfOne ==
  ASSUME Inductive, NEW p \in Procs,
         TypeOK', RowsInPlace', Evolves, OthersStill(p), ThreadInv(p)', Fresh(p)
  PROVE  Inductive'
<1>1. ASSUME NEW q \in Procs PROVE ThreadInv(q)'
  <2>1. CASE q = p
    BY <2>1
  <2>2. CASE q # p
    BY <2>2, Interference DEF Inductive, OthersStill
  <2> QED
    BY <2>1, <2>2
<1>2. RegisterOnce'
  <2>1. ASSUME NEW q \in Procs \ {p}
        PROVE  /\ req'[q] = req[q]
               /\ Written(q, "register")' = Written(q, "register")
    BY DEF OthersStill, Still, Written, Succeeded
  <2> QED
    BY <2>1 DEF Inductive, RegisterOnce, Fresh
<1> QED
  BY <1>1, <1>2 DEF Inductive

\* What is stored, and what the requests have seen of it, has its type.
LEMMA StoredTyped ==
  ASSUME certs \in CertStore, now \in 0..MaxNow, NEW i \in Ids
  PROVE  StoredAt(i) \in SUBSET (Certs \X (0..MaxNow))
<1>1. certs[i] \in Seq(Certs)
  BY DEF CertStore
<1>2. \A n \in DOMAIN certs[i] : certs[i][n] \in Certs
  BY <1>1
<1> QED
  BY <1>2 DEF StoredAt

LEMMA SeenTyped ==
  ASSUME TypeOK, Witness, certs' \in CertStore, now' \in 0..MaxNow
  PROVE  seen' \in [Procs -> [Ids -> SUBSET (Certs \X (0..MaxNow))]]
<1>1. ASSUME NEW i \in Ids PROVE StoredAt(i)' \in SUBSET (Certs \X (0..MaxNow))
  <2>1. certs'[i] \in Seq(Certs)
    BY DEF CertStore
  <2>2. \A n \in DOMAIN certs'[i] : certs'[i][n] \in Certs
    BY <2>1
  <2> QED
    BY <2>2 DEF StoredAt
<1> QED
  BY <1>1 DEF TypeOK, Witness

LEMMA Moves ==
  ASSUME TypeOK, NEW p \in Procs, NEW step \in Steps, Goto(p, step)
  PROVE  /\ pc' \in [Procs -> Steps]
         /\ pc'[p] = step
         /\ \A q \in Procs \ {p} : pc'[q] = pc[q]
  BY DEF TypeOK, Goto

LEMMA Replies ==
  ASSUME TypeOK, NEW p \in Procs,
         NEW code \in {200, 400, 404, 503}, NEW result \in AuditResult,
         Reply(p, code, result)
  PROVE  /\ pc' \in [Procs -> Steps]
         /\ entry' \in [Procs -> Row \cup {None}]
         /\ hkey' \in [Procs -> KeyObject \cup {None}]
         /\ answer' \in [Procs -> Answer \cup {None}]
         /\ pc'[p] = "done"
         /\ answer'[p] = [code |-> code, audit |-> result]
         /\ \A q \in Procs \ {p} : /\ pc'[q] = pc[q]
                                   /\ entry'[q] = entry[q]
                                   /\ hkey'[q] = hkey[q]
                                   /\ answer'[q] = answer[q]
<1>1. Goto(p, "done") /\ "done" \in Steps
  BY DEF Reply, Steps
<1>2. pc' \in [Procs -> Steps] /\ pc'[p] = "done"
      /\ \A q \in Procs \ {p} : pc'[q] = pc[q]
  BY <1>1, Moves
<1>3. /\ entry' \in [Procs -> Row \cup {None}]
      /\ \A q \in Procs \ {p} : entry'[q] = entry[q]
  BY DEF Reply, TypeOK
<1>4. /\ hkey' \in [Procs -> KeyObject \cup {None}]
      /\ \A q \in Procs \ {p} : hkey'[q] = hkey[q]
  BY DEF Reply, TypeOK
<1>5. [code |-> code, audit |-> result] \in Answer
  BY DEF Answer
<1>6. /\ answer' \in [Procs -> Answer \cup {None}]
      /\ answer'[p] = [code |-> code, audit |-> result]
      /\ \A q \in Procs \ {p} : answer'[q] = answer[q]
  BY <1>5 DEF Reply, TypeOK
<1> QED
  BY <1>2, <1>3, <1>4, <1>6

\* A step that leaves the stores alone.
LEMMA StoresUnchanged ==
  ASSUME Inductive, UNCHANGED registry
  PROVE  Evolves /\ RowsInPlace'
  BY DEF Inductive, Evolves, RowsInPlace, UniqueObjects, CscaBound, SameIdentity

\* A request that is answered with an error.
LEMMA Rejected ==
  ASSUME Inductive, NEW p \in Procs, pc[p] # "idle",
         NEW code \in {400, 404, 503}, NEW result \in AuditResult,
         Reply(p, code, result),
         UNCHANGED <<shared, req, history, wrote>>
  PROVE  Inductive'
<1> USE DEF shared, tokenVars, history
<1>0. /\ pc' \in [Procs -> Steps]
      /\ entry' \in [Procs -> Row \cup {None}]
      /\ hkey' \in [Procs -> KeyObject \cup {None}]
      /\ answer' \in [Procs -> Answer \cup {None}]
      /\ pc'[p] = "done"
      /\ answer'[p].code # 200
      /\ \A q \in Procs \ {p} : /\ pc'[q] = pc[q]
                                   /\ entry'[q] = entry[q]
                                   /\ hkey'[q] = hkey[q]
                                   /\ answer'[q] = answer[q]
  <2>1. TypeOK /\ code \in {200, 400, 404, 503}
    BY DEF Inductive
  <2>2. /\ pc' \in [Procs -> Steps]
        /\ entry' \in [Procs -> Row \cup {None}]
        /\ hkey' \in [Procs -> KeyObject \cup {None}]
        /\ answer' \in [Procs -> Answer \cup {None}]
        /\ pc'[p] = "done"
        /\ answer'[p] = [code |-> code, audit |-> result]
        /\ \A q \in Procs \ {p} : /\ pc'[q] = pc[q]
                                  /\ entry'[q] = entry[q]
                                  /\ hkey'[q] = hkey[q]
                                  /\ answer'[q] = answer[q]
    BY <2>1, Replies
  <2> QED
    BY <2>2
<1>1. TypeOK'
  BY <1>0 DEF Inductive, TypeOK, Registry
<1>2. RowsInPlace' /\ Evolves
  BY StoresUnchanged
<1>3. OthersStill(p)
  BY <1>0 DEF OthersStill, Still
<1>4. \A op \in {"register", "retire"} : Written(p, op)' <=> Written(p, op)
  BY DEF Written
<1>5. ThreadInv(p)'
  <2>0. ThreadInv(p)
    BY DEF Inductive
  <2>1. RequestInPlace(p)'
    BY <1>0, <2>0 DEF ThreadInv, RequestInPlace, InHandler
  <2>2. EntryInPlace(p)' /\ KeyHeld(p)'
    BY <1>0 DEF EntryInPlace, KeyHeld, EntrySteps
  <2>3. RetiredBefore(p)'
    BY <1>0, <2>0 DEF ThreadInv, RetiredBefore, RetiredKeys
  <2>4. WriteHolds(p)'
    BY <1>0, <1>4, <2>0 DEF ThreadInv, WriteHolds, Succeeded
  <2>5. SignedInPlace(p)'
    BY <1>0, <2>0 DEF ThreadInv, SignedInPlace, PermittedFor
  <2> QED
    BY <2>1, <2>2, <2>3, <2>4, <2>5 DEF ThreadInv
<1>6. Fresh(p)
  BY <1>4 DEF Fresh
<1> QED
  BY <1>1, <1>2, <1>3, <1>5, <1>6, StepOfOne

\* A handler that goes on to its next step, whatever the step did to the
\* stores: what is left to show is about the stores and the new locals.
LEMMA Proceeds ==
  ASSUME Inductive, NEW p \in Procs, pc[p] \notin {"idle", "finish", "done"},
         NEW step \in Steps, step \notin {"idle", "done"}, Goto(p, step),
         UNCHANGED <<req, answer, signed, retired>>,
         wrote' = wrote \/ wrote' = wrote \cup {p},
         \A q \in Procs \ {p} : entry'[q] = entry[q] /\ hkey'[q] = hkey[q],
         TypeOK', RowsInPlace', Evolves,
         InHandler(p)', EntryInPlace(p)', KeyHeld(p)',
         RetiredBefore(p)', WriteHolds(p)', Fresh(p)
  PROVE  Inductive'
<1>1. pc'[p] = step /\ \A q \in Procs \ {p} : pc'[q] = pc[q]
  BY DEF Inductive, TypeOK, Goto
<1>2. OthersStill(p)
  BY <1>1 DEF OthersStill, Still
<1>3. ThreadInv(p)
  BY DEF Inductive
<1>4. RequestInPlace(p)'
  BY <1>1, <1>3 DEF ThreadInv, RequestInPlace
<1>5. SignedInPlace(p)'
  BY <1>3 DEF ThreadInv, SignedInPlace
<1>6. ThreadInv(p)'
  BY <1>4, <1>5 DEF ThreadInv
<1> QED
  BY <1>2, <1>6, StepOfOne

\* The same for a step that only reads the stores.
LEMMA ReadsOn ==
  ASSUME Inductive, NEW p \in Procs, pc[p] \notin {"idle", "finish", "done"},
         NEW step \in Steps, step \notin {"idle", "finish", "done"}, Goto(p, step),
         UNCHANGED <<shared, req, answer, history, wrote>>,
         entry' \in [Procs -> Row \cup {None}],
         hkey' \in [Procs -> KeyObject \cup {None}],
         \A q \in Procs \ {p} : entry'[q] = entry[q] /\ hkey'[q] = hkey[q],
         InHandler(p)', EntryInPlace(p)', KeyHeld(p)',
         RetiredBefore(p)'
  PROVE  Inductive'
<1> USE DEF shared, tokenVars, history
<1>1. pc' \in [Procs -> Steps] /\ pc'[p] = step
  BY DEF Inductive, TypeOK, Goto
<1>2. TypeOK'
  BY <1>1 DEF Inductive, TypeOK, Registry
<1>3. RowsInPlace' /\ Evolves
  BY StoresUnchanged
<1>4. ThreadInv(p) /\ answer[p] = None
  BY DEF Inductive, ThreadInv, RequestInPlace
<1>5. WriteHolds(p)' /\ Fresh(p)
  BY <1>1, <1>4 DEF ThreadInv, WriteHolds, Fresh, Written, Succeeded
<1> QED
  BY <1>2, <1>3, <1>5, Proceeds

LEMMA Denied ==
  ASSUME Inductive, NEW p \in Procs, pc[p] # "idle",
         Refuse(p) \/ NotFound(p) \/ Fail(p),
         UNCHANGED <<shared, req, history, wrote>>
  PROVE  Inductive'
<1>1. RefusalAudit(p) \in AuditResult /\ MissingAudit(p) \in AuditResult
      /\ FailureAudit(p) \in AuditResult
  BY DEF RefusalAudit, MissingAudit, FailureAudit, AuditResult
<1>2. CASE Refuse(p)
  BY <1>1, <1>2, Rejected DEF Refuse
<1>3. CASE NotFound(p)
  BY <1>1, <1>3, Rejected DEF NotFound
<1>4. CASE Fail(p)
  BY <1>1, <1>4, Rejected DEF Fail
<1> QED
  BY <1>2, <1>3, <1>4

\* What a thread knows of its request and of the rows.
LEMMA AtWork ==
  ASSUME Inductive, NEW p \in Procs, pc[p] # "idle"
  PROVE  /\ ThreadInv(p)
         /\ InHandler(p)
         /\ req[p] \in Request
         /\ req[p].op \in {"sign", "verify"} =>
              req[p].id \in Ids /\ req[p].alg \in SigningAlgorithm
         /\ req[p].op \in {"retire", "update", "register"} => req[p].key \in KeyIds
         /\ req[p].op = "update" => req[p].cert \in Ids
         /\ req[p].op = "register" =>
              /\ req[p].id \in Ids
              /\ req[p].role \in Role
              /\ req[p].cert \in Ids \cup {None}
         /\ req[p].op \in {"delete", "import", "generate"} => req[p].id \in Ids
         /\ req[p].op = "import" => req[p].cert \in Certs
<1>1. ThreadInv(p) /\ req[p] \in Request /\ InHandler(p)
  BY DEF Inductive, ThreadInv, RequestInPlace
<1> QED
  BY <1>1, RequestFields

LEMMA RowTyped ==
  ASSUME Inductive, NEW k \in KeyIds, registry[k] # None
  PROVE  /\ registry[k] \in Row /\ registry[k].key = k
         /\ registry[k].role = "CSCA" => registry[k].cert # None
  BY DEF Inductive, TypeOK, Registry, RowsInPlace, CscaBound

----------------------------------------------------------------------------
\* The steps, one lemma each.

LEMMA LookupStep ==
  ASSUME Inductive, NEW p \in Procs, Lookup(p)
  PROVE  Inductive'
<1>1. pc[p] = "lookup" /\ UNCHANGED <<shared, req, history, wrote>>
  BY DEF Lookup
<1>2. ThreadInv(p) /\ Crypting(p)
  BY <1>1, AtWork DEF InHandler
<1>3. CASE NotFound(p)
  BY <1>1, <1>3, Denied
<1>4. CASE ~NotFound(p)
  <2>1. PICK row \in Rows(registry) :
          /\ row.object = req[p].id
          /\ entry' = [entry EXCEPT ![p] = row]
          /\ Goto(p, "validate")
          /\ UNCHANGED <<hkey, answer>>
    BY <1>4 DEF Lookup
  <2>2. /\ row \in Row /\ registry[row.key] = row
        /\ row.role = "CSCA" => row.cert # None
    BY RowTyped DEF Rows, Inductive, TypeOK
  <2>3. /\ entry' \in [Procs -> Row \cup {None}]
        /\ entry'[p] = row
        /\ \A q \in Procs \ {p} : entry'[q] = entry[q] /\ hkey'[q] = hkey[q]
        /\ hkey' \in [Procs -> KeyObject \cup {None}]
        /\ pc'[p] = "validate"
    BY <2>1, <2>2 DEF Inductive, TypeOK, Goto
  <2>4. InHandler(p)' /\ KeyHeld(p)' /\ RetiredBefore(p)'
    BY <1>1, <1>2, <2>3 DEF ThreadInv, InHandler, Crypting, KeyHeld,
       RetiredBefore, RetiredKeys, shared, history
  <2>5. EntryInPlace(p)'
    BY <1>1, <1>2, <2>1, <2>2, <2>3, NoneAssumption
       DEF EntryInPlace, Crypting, SameIdentity, shared
  <2> QED
    BY <1>1, <2>1, <2>3, <2>4, <2>5, ReadsOn DEF Steps
<1> QED
  BY <1>3, <1>4

LEMMA ValidateStep ==
  ASSUME Inductive, NEW p \in Procs, Validate_key(p)
  PROVE  Inductive'
<1>1. pc[p] = "validate" /\ UNCHANGED <<shared, req, history, wrote>>
  BY DEF Validate_key
<1>2. ThreadInv(p) /\ Crypting(p)
  BY <1>1, AtWork DEF InHandler
<1>3. CASE Reply(p, 503, "NONE")
  BY <1>1, <1>3, Rejected DEF AuditResult
<1>4. CASE Refuse(p)
  BY <1>1, <1>4, Denied
<1>5. CASE ~Reply(p, 503, "NONE") /\ ~Refuse(p)
  <2> DEFINE row == registry[entry[p].key]
  <2>1. /\ row.status = "ACTIVE"
        /\ entry' = [entry EXCEPT ![p] = row]
        /\ Goto(p, "validateKey")
        /\ UNCHANGED <<hkey, answer>>
    BY <1>5 DEF Validate_key
  <2>2. /\ row \in Row
        /\ row.key = entry[p].key
        /\ row.object = req[p].id
        /\ row.key \notin RetiredKeys
        /\ row.role = "CSCA" => row.cert # None
    BY <1>1, <1>2, <2>1, RowTyped
       DEF ThreadInv, EntryInPlace, EntrySteps, SameIdentity, Row, RetiredKeys, Crypting
  <2>3. /\ entry' \in [Procs -> Row \cup {None}]
        /\ entry'[p] = row
        /\ \A q \in Procs \ {p} : entry'[q] = entry[q] /\ hkey'[q] = hkey[q]
        /\ hkey' \in [Procs -> KeyObject \cup {None}]
        /\ pc'[p] = "validateKey"
    BY <2>1, <2>2 DEF Inductive, TypeOK, Goto
  <2>4. InHandler(p)' /\ KeyHeld(p)'
    BY <1>1, <1>2, <2>3 DEF InHandler, Crypting, KeyHeld
  <2>5. RetiredBefore(p)'
    BY <1>1, <1>2, <2>2, <2>3 DEF ThreadInv, RetiredBefore, RetiredKeys, shared, history
  <2>6. EntryInPlace(p)'
    BY <1>1, <1>2, <2>2, <2>3, NoneAssumption
       DEF EntryInPlace, Crypting, SameIdentity, shared
  <2> QED
    BY <1>1, <2>1, <2>3, <2>4, <2>5, <2>6, ReadsOn DEF Steps
<1> QED
  BY <1>3, <1>4, <1>5

LEMMA ValidateKeyObjectStep ==
  ASSUME Inductive, NEW p \in Procs, ValidateKeyObject(p)
  PROVE  Inductive'
<1>1. pc[p] = "validateKey" /\ UNCHANGED <<shared, req, history, wrote>>
  BY DEF ValidateKeyObject
<1>2. ThreadInv(p) /\ Crypting(p)
  BY <1>1, AtWork DEF InHandler
<1>3. CASE Refuse(p) \/ NotFound(p)
  BY <1>1, <1>3, Denied
<1>4. CASE ~Refuse(p) /\ ~NotFound(p)
  <2> DEFINE obj == keys[entry[p].object]
  <2>1. /\ obj # None
        /\ MatchesRow(obj, entry[p])
        /\ hkey' = [hkey EXCEPT ![p] = obj]
        /\ Goto(p, AfterKeyObject(p))
        /\ UNCHANGED <<entry, answer>>
    BY <1>4 DEF ValidateKeyObject
  <2>2. /\ entry[p] \in Row
        /\ entry[p].object \in Ids
        /\ obj \in KeyObject
    BY <1>1, <1>2, <2>1 DEF ThreadInv, EntryInPlace, EntrySteps, Crypting, Row,
       Inductive, TypeOK, KeyStore
  <2>3. /\ AfterKeyObject(p) \in {"crypto", "certificate"}
        /\ AfterKeyObject(p) = "certificate" => entry[p].cert \in Ids
    BY <2>2 DEF AfterKeyObject, Row
  <2>4. /\ hkey' \in [Procs -> KeyObject \cup {None}]
        /\ hkey'[p] = obj
        /\ entry' \in [Procs -> Row \cup {None}]
        /\ \A q \in Procs \ {p} : entry'[q] = entry[q] /\ hkey'[q] = hkey[q]
        /\ pc'[p] = AfterKeyObject(p)
    BY <2>1, <2>2 DEF Inductive, TypeOK, Goto
  <2>5. InHandler(p)'
    BY <1>1, <1>2, <2>3, <2>4 DEF InHandler, Crypting
  <2>6. KeyHeld(p)'
    BY <1>1, <1>2, <2>1, <2>2, <2>3, <2>4 DEF KeyHeld, CertificateId, Crypting
  <2>7. EntryInPlace(p)'
    BY <1>1, <1>2, <2>1, <2>4
       DEF ThreadInv, EntryInPlace, EntrySteps, Crypting, SameIdentity,
           MatchesRow, shared, tokenVars
  <2>8. RetiredBefore(p)'
    BY <1>1, <1>2, <2>1
       DEF ThreadInv, RetiredBefore, RetiredKeys, Crypting, shared, history
  <2> QED
    BY <1>1, <2>1, <2>3, <2>4, <2>5, <2>6, <2>7, <2>8, ReadsOn DEF Steps
<1> QED
  BY <1>3, <1>4

LEMMA UnauthorizedStep ==
  ASSUME Inductive, NEW p \in Procs, Unauthorized(p)
  PROVE  Inductive'
<1>1. pc[p] = "crypto" /\ UNCHANGED <<shared, req, history, wrote>>
  BY DEF Unauthorized
<1>2. CASE Reply(p, 400, "DENIED")
  BY <1>1, <1>2, Rejected DEF AuditResult
<1>3. CASE Reply(p, 400, "NONE")
  BY <1>1, <1>3, Rejected DEF AuditResult
<1> QED
  BY <1>2, <1>3 DEF Unauthorized

LEMMA CheckCertificateStep ==
  ASSUME Inductive, NEW p \in Procs, CheckCertificate(p)
  PROVE  Inductive'
<1>1. pc[p] = "certificate" /\ UNCHANGED <<shared, req, history, wrote>>
  BY DEF CheckCertificate
<1>2. /\ ThreadInv(p)
      /\ Crypting(p) \/ req[p].op = "update" \/ req[p].op = "register"
  BY <1>1, AtWork DEF InHandler
<1>3. CASE Refuse(p) \/ Fail(p)
  BY <1>1, <1>3, Denied
<1>4. CASE ~Refuse(p) /\ ~Fail(p)
  <2>1. Goto(p, AfterCertificate(req[p].op)) /\ UNCHANGED local
    BY <1>4 DEF CheckCertificate
  <2> DEFINE step == AfterCertificate(req[p].op)
  <2>2. /\ Crypting(p) => step = "crypto"
        /\ req[p].op = "update" => step = "selectStatus"
        /\ req[p].op = "register" => step = "selectKeyId"
        /\ step \in {"crypto", "selectStatus", "selectKeyId"}
    BY <1>2 DEF AfterCertificate, Crypting
  <2>3. /\ UNCHANGED <<entry, hkey, answer>>
        /\ pc'[p] = step
    BY <2>1 DEF Inductive, TypeOK, Goto, local
  <2>4. /\ hkey' \in [Procs -> KeyObject \cup {None}]
        /\ entry' \in [Procs -> Row \cup {None}]
        /\ \A q \in Procs \ {p} : entry'[q] = entry[q] /\ hkey'[q] = hkey[q]
    BY <2>3 DEF Inductive, TypeOK
  <2>5. InHandler(p)'
    BY <1>1, <1>2, <2>2, <2>3 DEF InHandler, Crypting
  <2>6. KeyHeld(p)'
    BY <1>1, <1>2, <2>2, <2>3 DEF ThreadInv, KeyHeld
  <2>7. EntryInPlace(p)'
    BY <1>1, <1>2, <2>2, <2>3
       DEF ThreadInv, EntryInPlace, EntrySteps, Crypting, SameIdentity,
           MatchesRow, shared, tokenVars
  <2>8. RetiredBefore(p)'
    BY <1>1, <1>2, <2>2, <2>3
       DEF ThreadInv, RetiredBefore, RetiredKeys, Crypting, shared, history
  <2> QED
    BY <1>1, <2>1, <2>2, <2>3, <2>4, <2>5, <2>6, <2>7, <2>8, ReadsOn DEF Steps
<1> QED
  BY <1>3, <1>4

LEMMA RegisterKeyObjectStep ==
  ASSUME Inductive, NEW p \in Procs, RegisterKeyObject(p)
  PROVE  Inductive'
<1>1. pc[p] = "registerKey" /\ UNCHANGED <<shared, req, history, wrote>>
  BY DEF RegisterKeyObject
<1>2. /\ ThreadInv(p)
      /\ req[p].op = "register"
      /\ req[p].id \in Ids
      /\ req[p].cert \in Ids \cup {None}
  BY <1>1, AtWork DEF InHandler
<1>3. CASE Refuse(p) \/ NotFound(p)
  BY <1>1, <1>3, Denied
<1>4. CASE ~Refuse(p) /\ ~NotFound(p)
  <2> DEFINE obj == keys[req[p].id]
             step == IF req[p].cert = None THEN "selectKeyId" ELSE "certificate"
  <2>1. /\ obj # None
        /\ req[p].role = "CSCA" => req[p].cert # None
        /\ hkey' = [hkey EXCEPT ![p] = obj]
        /\ Goto(p, step)
        /\ UNCHANGED <<entry, answer>>
    BY <1>4 DEF RegisterKeyObject
  <2>2. obj \in KeyObject
    BY <1>2, <2>1 DEF Inductive, TypeOK, KeyStore
  <2>3. /\ hkey' \in [Procs -> KeyObject \cup {None}]
        /\ hkey'[p] = obj
        /\ entry' \in [Procs -> Row \cup {None}]
        /\ \A q \in Procs \ {p} : entry'[q] = entry[q] /\ hkey'[q] = hkey[q]
        /\ pc'[p] = step
    BY <2>1, <2>2 DEF Inductive, TypeOK, Goto
  <2>4. InHandler(p)' /\ EntryInPlace(p)'
    BY <1>1, <1>2, <2>3 DEF InHandler, EntryInPlace, Crypting
  <2>5. KeyHeld(p)'
    BY <1>1, <1>2, <2>1, <2>2, <2>3 DEF KeyHeld, CertificateId
  <2>6. RetiredBefore(p)'
    BY <1>1, <1>2 DEF ThreadInv, RetiredBefore, RetiredKeys, Crypting, shared, history
  <2> QED
    BY <1>1, <2>1, <2>3, <2>4, <2>5, <2>6, ReadsOn DEF Steps
<1> QED
  BY <1>3, <1>4

\* Steps that look at the registry and change no local.
LEMMA LooksOn ==
  ASSUME Inductive, NEW p \in Procs,
         pc[p] \notin {"idle", "finish", "done"},
         pc[p] \in EntrySteps \/ req[p].op \in {"register", "delete"},
         ~Crypting(p),
         NEW step \in {"selectObject", "insert", "commit", "readCert", "destroy"},
         Goto(p, step),
         step \in {"selectObject", "insert"} =>
           req[p].op = "register" /\ pc[p] \in {"selectKeyId", "selectObject"},
         step = "commit" => req[p].op \in {"retire", "update"} /\ pc[p] = "selectStatus",
         step \in {"readCert", "destroy"} => req[p].op = "delete",
         UNCHANGED <<shared, req, local, history, wrote>>
  PROVE  Inductive'
<1>1. /\ UNCHANGED <<entry, hkey, answer>>
      /\ pc'[p] = step
      /\ hkey' \in [Procs -> KeyObject \cup {None}]
      /\ entry' \in [Procs -> Row \cup {None}]
      /\ \A q \in Procs \ {p} : entry'[q] = entry[q] /\ hkey'[q] = hkey[q]
  BY DEF Inductive, TypeOK, Goto, local
<1>2. ThreadInv(p)
  BY DEF Inductive
<1>3. InHandler(p)'
  BY <1>1 DEF InHandler
<1>4. KeyHeld(p)'
  BY <1>1, <1>2 DEF ThreadInv, KeyHeld
<1>5. EntryInPlace(p)'
  BY <1>1, <1>2 DEF ThreadInv, EntryInPlace, EntrySteps, Crypting,
     SameIdentity, shared
<1>6. RetiredBefore(p)'
  BY <1>1, <1>2 DEF ThreadInv, RetiredBefore, RetiredKeys, shared, history
<1> QED
  BY <1>1, <1>3, <1>4, <1>5, <1>6, ReadsOn DEF Steps

LEMMA LookingSteps ==
  ASSUME Inductive, NEW p \in Procs,
         SelectKeyId(p) \/ SelectObject(p) \/ SelectStatus(p)
           \/ FindReferences(p) \/ ReadCert(p)
  PROVE  Inductive'
<1>1. /\ pc[p] \in {"selectKeyId", "selectObject", "selectStatus",
                    "findReferences", "readCert"}
      /\ UNCHANGED <<shared, req, history, wrote>>
  BY DEF SelectKeyId, SelectObject, SelectStatus, FindReferences, ReadCert
<1>2. /\ pc[p] \in {"selectKeyId", "selectObject"} => req[p].op = "register"
      /\ pc[p] = "selectStatus" => req[p].op \in {"retire", "update"}
      /\ pc[p] \in {"findReferences", "readCert"} => req[p].op = "delete"
  BY <1>1, AtWork DEF InHandler
<1>3. CASE Refuse(p) \/ NotFound(p)
  BY <1>1, <1>3, Denied
<1>4. CASE ~Refuse(p) /\ ~NotFound(p)
  <2>1. UNCHANGED local /\ ~Crypting(p)
    BY <1>1, <1>2, <1>4 DEF SelectKeyId, SelectObject, SelectStatus, FindReferences,
       ReadCert, Crypting
  <2>2. CASE SelectKeyId(p)
    BY <1>1, <1>2, <1>4, <2>1, <2>2, LooksOn DEF SelectKeyId
  <2>3. CASE SelectObject(p)
    BY <1>1, <1>2, <1>4, <2>1, <2>3, LooksOn DEF SelectObject
  <2>4. CASE SelectStatus(p)
    BY <1>1, <1>2, <1>4, <2>1, <2>4, LooksOn DEF SelectStatus, EntrySteps
  <2>5. CASE FindReferences(p)
    BY <1>1, <1>2, <1>4, <2>1, <2>5, LooksOn DEF FindReferences
  <2>6. CASE ReadCert(p)
    BY <1>1, <1>2, <1>4, <2>1, <2>6, LooksOn DEF ReadCert
  <2> QED
    BY <2>2, <2>3, <2>4, <2>5, <2>6
<1> QED
  BY <1>3, <1>4

LEMMA GetKeyStep ==
  ASSUME Inductive, NEW p \in Procs, GetKey(p)
  PROVE  Inductive'
<1>1. pc[p] = "getKey" /\ UNCHANGED <<shared, req, history, wrote>>
  BY DEF GetKey
<1>2. ThreadInv(p) /\ req[p].op \in {"retire", "update"} /\ req[p].key \in KeyIds
  BY <1>1, AtWork DEF InHandler
<1>3. CASE Refuse(p) \/ NotFound(p)
  BY <1>1, <1>3, Denied
<1>4. CASE ~Refuse(p) /\ ~NotFound(p)
  <2> DEFINE row == registry[req[p].key]
             step == IF req[p].op = "retire" THEN "selectStatus" ELSE "updateKey"
  <2>1. /\ row # None
        /\ entry' = [entry EXCEPT ![p] = row]
        /\ Goto(p, step)
        /\ UNCHANGED <<hkey, answer>>
    BY <1>4 DEF GetKey
  <2>2. /\ row \in Row /\ row.key = req[p].key
        /\ row.role = "CSCA" => row.cert # None
    BY <1>2, <2>1, RowTyped
  <2>3. /\ entry' \in [Procs -> Row \cup {None}]
        /\ entry'[p] = row
        /\ \A q \in Procs \ {p} : entry'[q] = entry[q] /\ hkey'[q] = hkey[q]
        /\ hkey' \in [Procs -> KeyObject \cup {None}]
        /\ pc'[p] = step
    BY <2>1, <2>2 DEF Inductive, TypeOK, Goto
  <2>4. InHandler(p)' /\ KeyHeld(p)'
    BY <1>1, <1>2, <2>3 DEF InHandler, KeyHeld
  <2>5. RetiredBefore(p)'
    BY <1>1, <1>2, <2>3 DEF ThreadInv, RetiredBefore, RetiredKeys, shared, history
  <2>6. EntryInPlace(p)'
    BY <1>1, <1>2, <2>1, <2>2, <2>3 DEF EntryInPlace, Crypting, SameIdentity, shared
  <2> QED
    BY <1>1, <2>1, <2>3, <2>4, <2>5, <2>6, ReadsOn DEF Steps
<1> QED
  BY <1>3, <1>4

LEMMA UpdateKeyObjectStep ==
  ASSUME Inductive, NEW p \in Procs, UpdateKeyObject(p)
  PROVE  Inductive'
<1>1. pc[p] = "updateKey" /\ UNCHANGED <<shared, req, history, wrote>>
  BY DEF UpdateKeyObject
<1>2. ThreadInv(p) /\ req[p].op = "update" /\ req[p].cert \in Ids
  BY <1>1, AtWork DEF InHandler
<1>3. CASE NotFound(p)
  BY <1>1, <1>3, Denied
<1>4. CASE ~NotFound(p)
  <2> DEFINE obj == keys[entry[p].object]
  <2>1. /\ obj # None
        /\ hkey' = [hkey EXCEPT ![p] = obj]
        /\ Goto(p, "certificate")
        /\ UNCHANGED <<entry, answer>>
    BY <1>4 DEF UpdateKeyObject
  <2>2. obj \in KeyObject
    BY <1>1, <1>2, <2>1 DEF ThreadInv, EntryInPlace, EntrySteps, Row, Inductive,
       TypeOK, KeyStore
  <2>3. /\ hkey' \in [Procs -> KeyObject \cup {None}]
        /\ hkey'[p] = obj
        /\ entry' \in [Procs -> Row \cup {None}]
        /\ \A q \in Procs \ {p} : entry'[q] = entry[q] /\ hkey'[q] = hkey[q]
        /\ pc'[p] = "certificate"
    BY <2>1, <2>2 DEF Inductive, TypeOK, Goto
  <2>4. InHandler(p)' /\ KeyHeld(p)'
    BY <1>1, <1>2, <2>2, <2>3 DEF InHandler, KeyHeld, CertificateId, Crypting
  <2>5. EntryInPlace(p)'
    BY <1>1, <1>2, <2>1, <2>3
       DEF ThreadInv, EntryInPlace, EntrySteps, Crypting, SameIdentity, shared
  <2>6. RetiredBefore(p)'
    BY <1>1, <1>2 DEF ThreadInv, RetiredBefore, RetiredKeys, Crypting, shared, history
  <2> QED
    BY <1>1, <2>1, <2>3, <2>4, <2>5, <2>6, ReadsOn DEF Steps
<1> QED
  BY <1>3, <1>4

LEMMA InsertStep ==
  ASSUME Inductive, NEW p \in Procs, Insert(p)
  PROVE  Inductive'
<1>1. /\ pc[p] = "insert"
      /\ UNCHANGED <<tokenVars, failClosed, now, req, history>>
  BY DEF Insert
<1>2. /\ ThreadInv(p)
      /\ req[p].op = "register"
      /\ req[p].key \in KeyIds
      /\ req[p].id \in Ids
      /\ req[p].role \in Role
      /\ req[p].cert \in Ids \cup {None}
  BY <1>1, AtWork DEF InHandler
<1>3. CASE Fail(p) /\ UNCHANGED <<registry, wrote>>
  BY <1>1, <1>3, Denied DEF shared
<1>4. CASE ~(Fail(p) /\ UNCHANGED <<registry, wrote>>)
  <2> DEFINE k == req[p].key
  <2>1. /\ registry[k] = None
        /\ ~Registered(req[p].id)
        /\ registry' = [registry EXCEPT ![k] = NewRow(p)]
        /\ wrote' = wrote \cup {p}
        /\ Goto(p, "finish")
        /\ UNCHANGED local
    BY <1>4 DEF Insert, ViolatesSchema, Wrote
  <2>2. hkey[p] \in KeyObject
    BY <1>1, <1>2 DEF ThreadInv, KeyHeld
  <2>3. NewRow(p) \in Row
    <3>1. hkey[p].pair \in KeyPairs
      BY <2>2 DEF KeyObject
    <3>2. hkey[p].pair.alg \in KeyAlgorithm /\ hkey[p].pair.params \in Params
      BY <3>1, KeyPairsAssumption DEF Params
    <3> QED
      BY <1>2, <3>2 DEF NewRow, Row
  <2>4. /\ NewRow(p).key = k
        /\ NewRow(p).object = req[p].id
        /\ NewRow(p).role = req[p].role
        /\ NewRow(p).status = "ACTIVE"
        /\ NewRow(p) # None
    BY <2>3, NoneAssumption DEF NewRow
  <2>5. /\ registry' \in Registry
        /\ registry'[k] = NewRow(p)
        /\ \A j \in KeyIds \ {k} : registry'[j] = registry[j]
    BY <1>2, <2>1, <2>3 DEF Registry, Inductive, TypeOK
  <2>6. Evolves
    BY <1>1, <2>1, <2>5 DEF Evolves, SameIdentity, tokenVars
  <2>7. \A j \in KeyIds : registry[j] # None => registry[j].object # req[p].id
    BY <2>1 DEF Registered, Rows
  <2>8. RowsInPlace'
    <3>1. UniqueObjects'
      BY <2>4, <2>5, <2>7 DEF Inductive, RowsInPlace, UniqueObjects
    <3>2. NewRow(p).role = "CSCA" => NewRow(p).cert # None
      BY <1>1, <1>2 DEF NewRow, ThreadInv, KeyHeld
    <3>3. CscaBound'
      BY <2>5, <3>2 DEF Inductive, RowsInPlace, CscaBound
    <3> QED
      BY <3>1, <3>3 DEF RowsInPlace
  <2>9. /\ pc' \in [Procs -> Steps]
        /\ pc'[p] = "finish"
        /\ UNCHANGED <<entry, hkey, answer>>
    BY <2>1 DEF Inductive, TypeOK, Goto, local, Steps
  <2>10. TypeOK'
    BY <1>1, <2>1, <2>4, <2>5, <2>9 DEF Inductive, TypeOK, tokenVars, history
  <2>11. InHandler(p)' /\ EntryInPlace(p)' /\ KeyHeld(p)'
    BY <2>9 DEF InHandler, EntryInPlace, EntrySteps, KeyHeld
  <2>12. RetiredBefore(p)'
    BY <1>1, <1>2, <2>6, <2>9 DEF ThreadInv, RetiredBefore, RetiredKeys, Evolves, history
  <2>13. WriteHolds(p)'
    BY <1>1, <1>2, <2>1, <2>4, <2>5 DEF WriteHolds, Written
  <2>14. Fresh(p)
    <3>1. ASSUME NEW q \in Procs \ {p}, Written(q, "register")
          PROVE  k # req[q].key /\ req[p].id # req[q].id
      <4>1. ThreadInv(q) /\ req[q].key \in KeyIds
        <5>1. pc[q] # "idle" /\ req[q].op = "register"
          BY <3>1 DEF Written, Inductive, ThreadInv, RequestInPlace
        <5> QED
          BY <5>1, AtWork
      <4>2. registry[req[q].key] # None /\ registry[req[q].key].object = req[q].id
        BY <3>1, <4>1 DEF ThreadInv, WriteHolds
      <4> QED
        BY <2>1, <2>7, <4>1, <4>2
    <3> QED
      BY <1>1, <3>1 DEF Fresh
  <2> QED
    BY <1>1, <2>1, <2>6, <2>8, <2>9, <2>10, <2>11, <2>12, <2>13, <2>14, Proceeds
       DEF Steps, history
<1> QED
  BY <1>3, <1>4

LEMMA CommitStep ==
  ASSUME Inductive, NEW p \in Procs, Commit(p)
  PROVE  Inductive'
<1>1. /\ pc[p] = "commit"
      /\ wrote' = wrote \cup {p}
      /\ Goto(p, "finish")
      /\ UNCHANGED <<tokenVars, failClosed, now, req, local, history>>
  BY DEF Commit, Wrote
<1>2. /\ ThreadInv(p)
      /\ req[p].op \in {"retire", "update"}
      /\ req[p].key \in KeyIds
      /\ req[p].op = "update" => req[p].cert \in Ids
  BY <1>1, AtWork DEF InHandler
<1> DEFINE k == req[p].key
<1>3. registry[k] # None
  BY <1>1, <1>2 DEF ThreadInv, EntryInPlace, EntrySteps, Crypting
<1>4. registry[k] \in Row /\ registry[k].key = k
  BY <1>2, <1>3, RowTyped
<1> DEFINE new == IF req[p].op = "retire" THEN [registry[k] EXCEPT !.status = "RETIRED"]
                                          ELSE [registry[k] EXCEPT !.cert = req[p].cert]
<1>5. /\ new \in Row
      /\ SameIdentity(new, registry[k])
      /\ req[p].op = "retire" => new.status = "RETIRED"
      /\ registry[k].status = "RETIRED" => new.status = "RETIRED"
      /\ new # None
      /\ new.role = "CSCA" => new.cert # None
  <2>1. registry[k].role = "CSCA" => registry[k].cert # None
    BY <1>2, <1>3, RowTyped
  <2> QED
    BY <1>2, <1>4, <2>1, NoneAssumption DEF Row, SameIdentity
<1>6. /\ registry' \in Registry
      /\ registry'[k] = new
      /\ \A j \in KeyIds \ {k} : registry'[j] = registry[j]
  <2>1. registry' = [registry EXCEPT ![k] = new]
    BY DEF Commit
  <2> QED
    BY <1>2, <1>5, <2>1 DEF Registry, Inductive, TypeOK
<1>7. Evolves
  BY <1>1, <1>5, <1>6 DEF Evolves, SameIdentity, tokenVars
<1>8. RowsInPlace'
  <2>1. \A j \in KeyIds : registry'[j] # None =>
          registry[j] # None /\ registry'[j].object = registry[j].object
    <3>1. \A j \in KeyIds \ {k} : registry'[j] # None =>
            registry[j] # None /\ registry'[j].object = registry[j].object
      BY <1>6
    <3>2. registry'[k].object = registry[k].object
      BY <1>5, <1>6 DEF SameIdentity
    <3> QED
      BY <1>3, <3>1, <3>2
  <2>2. UniqueObjects'
    BY <2>1 DEF Inductive, RowsInPlace, UniqueObjects
  <2>3. CscaBound'
    BY <1>5, <1>6 DEF Inductive, RowsInPlace, CscaBound
  <2> QED
    BY <2>2, <2>3 DEF RowsInPlace
<1>9. /\ pc' \in [Procs -> Steps]
      /\ pc'[p] = "finish"
      /\ UNCHANGED <<entry, hkey, answer>>
  BY <1>1 DEF Inductive, TypeOK, Goto, local, Steps
<1>10. TypeOK'
  BY <1>1, <1>4, <1>5, <1>6, <1>9 DEF Inductive, TypeOK, SameIdentity, tokenVars, history
<1>11. InHandler(p)' /\ EntryInPlace(p)' /\ KeyHeld(p)'
  BY <1>9 DEF InHandler, EntryInPlace, EntrySteps, KeyHeld
<1>12. RetiredBefore(p)'
  BY <1>1, <1>2, <1>7, <1>9 DEF ThreadInv, RetiredBefore, RetiredKeys, Evolves, history
<1>13. WriteHolds(p)' /\ Fresh(p)
  BY <1>1, <1>2, <1>5, <1>6 DEF WriteHolds, Written, Fresh
<1> QED
  BY <1>1, <1>7, <1>8, <1>9, <1>10, <1>11, <1>12, <1>13, Proceeds DEF Steps, history

\* A step to "finish" that writes the token only.
LEMMA TokenStep ==
  ASSUME Inductive, NEW p \in Procs,
         pc[p] \in {"destroy", "create", "generate"},
         Goto(p, "finish"),
         UNCHANGED <<registry, failClosed, now, req, local, signed, retired>>,
         keys' \in KeyStore, certs' \in CertStore, spent' \in SUBSET KeyPairs,
         seen' \in [Procs -> [Ids -> SUBSET (Certs \X (0..MaxNow))]],
         wrote' = wrote \cup {p}
  PROVE  Inductive'
<1> USE DEF local, history
<1>1. /\ ThreadInv(p)
      /\ req[p].op \in {"delete", "import", "generate"}
  BY AtWork DEF InHandler
<1>2. /\ pc' \in [Procs -> Steps]
      /\ pc'[p] = "finish"
      /\ UNCHANGED <<entry, hkey, answer>>
  BY DEF Inductive, TypeOK, Goto, Steps
<1>3. TypeOK'
  BY <1>2 DEF Inductive, TypeOK, Registry
<1>4. Evolves /\ RowsInPlace'
  BY StoresUnchanged
<1>5. InHandler(p)' /\ EntryInPlace(p)' /\ KeyHeld(p)'
  BY <1>2 DEF InHandler, EntryInPlace, EntrySteps, KeyHeld
<1>6. RetiredBefore(p)'
  BY <1>1, <1>2 DEF ThreadInv, RetiredBefore, RetiredKeys
<1>7. WriteHolds(p)' /\ Fresh(p)
  BY <1>1 DEF WriteHolds, Written, Fresh, Succeeded
<1> QED
  BY <1>2, <1>3, <1>4, <1>5, <1>6, <1>7, Proceeds DEF Steps

LEMMA DestroyStep ==
  ASSUME Inductive, NEW p \in Procs, Destroy(p)
  PROVE  Inductive'
<1>1. /\ pc[p] = "destroy"
      /\ UNCHANGED <<registry, keys, spent, failClosed, now, req, history>>
  BY DEF Destroy
<1>2. req[p].id \in Ids
  BY <1>1, AtWork DEF InHandler
<1>3. CASE NotFound(p) /\ UNCHANGED <<certs, wrote>>
  BY <1>1, <1>3, Denied DEF shared, tokenVars
<1>4. CASE ~(NotFound(p) /\ UNCHANGED <<certs, wrote>>)
  <2>1. /\ certs[req[p].id] # <<>>
        /\ certs' = [certs EXCEPT ![req[p].id] = Tail(certs[req[p].id])]
        /\ wrote' = wrote \cup {p}
        /\ Goto(p, "finish")
        /\ UNCHANGED local
    BY <1>4 DEF Destroy, Wrote
  <2>2. certs' \in CertStore
    <3>1. certs[req[p].id] \in Seq(Certs)
      BY <1>2 DEF Inductive, TypeOK, CertStore
    <3>2. Tail(certs[req[p].id]) \in Seq(Certs)
      BY <2>1, <3>1
    <3> QED
      BY <1>2, <2>1, <3>2 DEF Inductive, TypeOK, CertStore
  <2>3. /\ keys' \in KeyStore /\ spent' \in SUBSET KeyPairs
        /\ seen' \in [Procs -> [Ids -> SUBSET (Certs \X (0..MaxNow))]]
    BY <1>1 DEF Inductive, TypeOK, history
  <2> QED
    BY <1>1, <2>1, <2>2, <2>3, TokenStep DEF history
<1> QED
  BY <1>3, <1>4

LEMMA CreateStep ==
  ASSUME Inductive, NEW p \in Procs, Create(p)
  PROVE  Inductive'
<1>1. /\ pc[p] = "create"
      /\ UNCHANGED <<registry, keys, spent, failClosed, now, req, signed, retired>>
  BY DEF Create
<1>2. req[p].id \in Ids /\ req[p].cert \in Certs
  BY <1>1, AtWork DEF InHandler
<1>3. CASE Refuse(p) /\ UNCHANGED <<certs, seen, wrote>>
  BY <1>1, <1>3, Denied DEF shared, tokenVars, history
<1>4. CASE ~(Refuse(p) /\ UNCHANGED <<certs, seen, wrote>>)
  <2> DEFINE old == certs[req[p].id]
             new == req[p].cert
  <2>1. /\ \/ certs' = [certs EXCEPT ![req[p].id] = Append(old, new)]
           \/ certs' = [certs EXCEPT ![req[p].id] = <<new>> \o old]
        /\ Witness
        /\ wrote' = wrote \cup {p}
        /\ Goto(p, "finish")
        /\ UNCHANGED local
    BY <1>4 DEF Create, Wrote
  <2>2. old \in Seq(Certs)
    BY <1>2 DEF Inductive, TypeOK, CertStore
  <2>3. Append(old, new) \in Seq(Certs) /\ <<new>> \o old \in Seq(Certs)
    BY <1>2, <2>2
  <2>4. certs' \in CertStore
    BY <1>2, <2>1, <2>3 DEF Inductive, TypeOK, CertStore
  <2>5. keys' \in KeyStore /\ spent' \in SUBSET KeyPairs /\ now' \in 0..MaxNow
    BY <1>1 DEF Inductive, TypeOK
  <2>6. seen' \in [Procs -> [Ids -> SUBSET (Certs \X (0..MaxNow))]]
    BY <2>1, <2>4, <2>5, SeenTyped DEF Inductive
  <2> QED
    BY <1>1, <2>1, <2>4, <2>5, <2>6, TokenStep
<1> QED
  BY <1>3, <1>4

LEMMA GenerateStep ==
  ASSUME Inductive, NEW p \in Procs, Generate(p)
  PROVE  Inductive'
<1>1. /\ pc[p] = "generate"
      /\ UNCHANGED <<registry, certs, failClosed, now, req, history>>
  BY DEF Generate
<1>2. ThreadInv(p) /\ req[p].op = "generate" /\ req[p].id \in Ids
  BY <1>1, AtWork DEF InHandler
<1>3. CASE Refuse(p) /\ UNCHANGED <<keys, spent, wrote>>
  BY <1>1, <1>3, Denied DEF shared, tokenVars
<1>4. CASE ~(Refuse(p) /\ UNCHANGED <<keys, spent, wrote>>)
  <2>1. ~OnToken(req[p].id) /\ wrote' = wrote \cup {p}
    BY <1>4 DEF Generate, Wrote
  <2>2. PICK kp \in KeyPairs :
          /\ keys' = [keys EXCEPT ![req[p].id] = [pair |-> kp, private |-> TRUE]]
          /\ spent' = spent \cup {kp}
    BY <1>4 DEF Generate
  <2>3. keys' \in KeyStore
    <3>1. [pair |-> kp, private |-> TRUE] \in KeyObject
      BY DEF KeyObject
    <3> QED
      BY <1>2, <2>2, <3>1 DEF Inductive, TypeOK, KeyStore
  <2>4. spent' \in SUBSET KeyPairs /\ wrote' \in SUBSET Procs
    BY <2>1, <2>2 DEF Inductive, TypeOK
  <2>5. /\ certs' \in CertStore
        /\ seen' \in [Procs -> [Ids -> SUBSET (Certs \X (0..MaxNow))]]
    BY <1>1 DEF Inductive, TypeOK, history
  <2>6. CASE Goto(p, "finish") /\ UNCHANGED local
    BY <1>1, <2>1, <2>3, <2>4, <2>5, <2>6, TokenStep DEF history
  <2>7. CASE Fail(p) \/ Refuse(p)
    <3>1. /\ TypeOK
          /\ {RefusalAudit(p), FailureAudit(p)} \subseteq AuditResult
      BY DEF Inductive, RefusalAudit, FailureAudit, AuditResult
    <3>2. /\ pc' \in [Procs -> Steps]
          /\ entry' \in [Procs -> Row \cup {None}]
          /\ hkey' \in [Procs -> KeyObject \cup {None}]
          /\ answer' \in [Procs -> Answer \cup {None}]
          /\ pc'[p] = "done"
          /\ \A q \in Procs \ {p} : /\ pc'[q] = pc[q]
                                    /\ entry'[q] = entry[q]
                                    /\ hkey'[q] = hkey[q]
                                    /\ answer'[q] = answer[q]
      <4>1. CASE Fail(p)
        <5>1. Reply(p, 503, FailureAudit(p)) /\ 503 \in {200, 400, 404, 503}
          BY <4>1 DEF Fail
        <5>2. /\ pc' \in [Procs -> Steps]
              /\ entry' \in [Procs -> Row \cup {None}]
              /\ hkey' \in [Procs -> KeyObject \cup {None}]
              /\ answer' \in [Procs -> Answer \cup {None}]
              /\ pc'[p] = "done"
              /\ answer'[p] = [code |-> 503, audit |-> FailureAudit(p)]
              /\ \A q \in Procs \ {p} : /\ pc'[q] = pc[q]
                                        /\ entry'[q] = entry[q]
                                        /\ hkey'[q] = hkey[q]
                                        /\ answer'[q] = answer[q]
          BY <3>1, <5>1, Replies
        <5> QED
          BY <5>2
      <4>2. CASE Refuse(p)
        <5>1. Reply(p, 400, RefusalAudit(p)) /\ 400 \in {200, 400, 404, 503}
          BY <4>2 DEF Refuse
        <5>2. /\ pc' \in [Procs -> Steps]
              /\ entry' \in [Procs -> Row \cup {None}]
              /\ hkey' \in [Procs -> KeyObject \cup {None}]
              /\ answer' \in [Procs -> Answer \cup {None}]
              /\ pc'[p] = "done"
              /\ answer'[p] = [code |-> 400, audit |-> RefusalAudit(p)]
              /\ \A q \in Procs \ {p} : /\ pc'[q] = pc[q]
                                        /\ entry'[q] = entry[q]
                                        /\ hkey'[q] = hkey[q]
                                        /\ answer'[q] = answer[q]
          BY <3>1, <5>1, Replies
        <5> QED
          BY <5>2
      <4> QED
        BY <2>7, <4>1, <4>2
    <3>3. TypeOK'
      BY <1>1, <2>3, <2>4, <2>5, <3>2 DEF Inductive, TypeOK, Registry, history
    <3>4. Evolves /\ RowsInPlace' /\ OthersStill(p)
      BY <1>1, <2>1, <3>2, StoresUnchanged DEF OthersStill, Still, history
    <3>5. Fresh(p) /\ WriteHolds(p)'
      BY <1>1, <1>2 DEF Fresh, Written, WriteHolds, Succeeded
    <3>6. RequestInPlace(p)' /\ SignedInPlace(p)'
      BY <1>1, <1>2, <3>2
         DEF ThreadInv, RequestInPlace, InHandler, SignedInPlace, history
    <3>7. EntryInPlace(p)' /\ KeyHeld(p)'
      BY <3>2 DEF EntryInPlace, KeyHeld, EntrySteps
    <3>8. RetiredBefore(p)'
      BY <1>1, <1>2, <3>2 DEF ThreadInv, RetiredBefore, RetiredKeys, history
    <3> QED
      BY <3>3, <3>4, <3>5, <3>6, <3>7, <3>8, StepOfOne DEF ThreadInv
  <2> QED
    BY <1>4, <2>6, <2>7 DEF Generate
<1> QED
  BY <1>3, <1>4

LEMMA CryptoStep ==
  ASSUME Inductive, NEW p \in Procs, Crypto(p)
  PROVE  Inductive'
<1>1. /\ pc[p] = "crypto"
      /\ Authorized(p)
      /\ UNCHANGED <<shared, req, retired, seen, wrote>>
  BY DEF Crypto
<1>2. ThreadInv(p) /\ Crypting(p)
  BY <1>1, AtWork DEF InHandler
<1>3. CASE (NotFound(p) \/ Fail(p)) /\ UNCHANGED signed
  BY <1>1, <1>3, Denied DEF history
<1>4. CASE ~((NotFound(p) \/ Fail(p)) /\ UNCHANGED signed)
  <2> DEFINE obj == keys[req[p].id]
             sig == [key |-> entry[p].key, cert |-> entry[p].cert, pair |-> obj.pair]
  <2>1. /\ Goto(p, "finish")
        /\ UNCHANGED local
        /\ obj # None
        /\ \/ UNCHANGED signed
           \/ /\ req[p].op = "sign" /\ signed' = [signed EXCEPT ![p] = sig]
              /\ req[p].alg \in AllowedAlgorithms(obj.pair.alg)
    BY <1>4 DEF Crypto
  <2>2. /\ pc' \in [Procs -> Steps]
        /\ pc'[p] = "finish"
        /\ \A q \in Procs \ {p} : pc'[q] = pc[q]
        /\ UNCHANGED <<entry, hkey, answer>>
    BY <2>1 DEF Inductive, TypeOK, Goto, Steps, local
  <2>3. /\ entry[p] \in Row
        /\ entry[p].object = req[p].id
        /\ registry[entry[p].key] # None
        /\ SameIdentity(registry[entry[p].key], entry[p])
        /\ entry[p].key \notin retired[p]
    BY <1>1, <1>2 DEF ThreadInv, EntryInPlace, EntrySteps, RetiredBefore,
       Crypting
  <2>4. sig \in Signature /\ sig # None
    <3>1. obj \in KeyObject
      BY <2>1, <2>3 DEF Inductive, TypeOK, KeyStore, Row
    <3>2. sig \in Signature
      BY <2>3, <3>1 DEF Signature, Row, KeyObject
    <3> QED
      BY <3>2, SignatureAssumption
  <2>5. /\ signed' \in [Procs -> Signature \cup {None}]
        /\ \A q \in Procs \ {p} : signed'[q] = signed[q]
    BY <2>1, <2>4 DEF Inductive, TypeOK
  <2>6. TypeOK'
    BY <1>1, <2>2, <2>5 DEF Inductive, TypeOK, Registry, shared, tokenVars
  <2>7. Evolves /\ RowsInPlace'
    BY <1>1, StoresUnchanged DEF shared, tokenVars
  <2>8. OthersStill(p)
    BY <1>1, <2>2, <2>5 DEF OthersStill, Still
  <2>9. Fresh(p) /\ WriteHolds(p)'
    BY <1>1, <1>2 DEF Fresh, Written, WriteHolds, Crypting, Succeeded
  <2>10. RequestInPlace(p)'
    BY <1>1, <1>2, <2>2 DEF ThreadInv, RequestInPlace, InHandler
  <2>11. EntryInPlace(p)' /\ KeyHeld(p)'
    BY <2>2 DEF EntryInPlace, KeyHeld, EntrySteps
  <2>12. RetiredBefore(p)'
    BY <1>1, <1>2, <2>2 DEF ThreadInv, RetiredBefore, RetiredKeys, shared
  <2>13. SignedInPlace(p)'
    <3>1. CASE UNCHANGED signed
      BY <1>1, <1>2, <2>2, <3>1 DEF ThreadInv, SignedInPlace, PermittedFor, shared, tokenVars
    <3>2. CASE ~UNCHANGED signed
      <4> DEFINE row == registry[entry[p].key]
      <4>1. /\ req[p].op = "sign"
            /\ signed'[p] = sig
            /\ req[p].alg \in AllowedAlgorithms(obj.pair.alg)
        BY <2>1, <3>2 DEF Inductive, TypeOK
      <4>2. /\ row.object = req[p].id
            /\ req[p].alg \in AllowedAlgorithms(row.alg)
            /\ req[p].use \in AllowedOperations(row.role)
        BY <1>1, <2>3, <4>1 DEF SameIdentity, Authorized
      <4>3. obj.pair.alg = row.alg
        <5>1. obj.pair.alg \in KeyAlgorithm /\ row.alg \in KeyAlgorithm
          BY <2>3, <2>4, KeyPairsAssumption DEF SameIdentity, Row, Signature
        <5> QED
          BY <4>1, <4>2, <5>1 DEF AllowedAlgorithms, KeyAlgorithm
      <4> QED
        BY <1>1, <2>2, <2>3, <4>1, <4>2, <4>3
           DEF SignedInPlace, PermittedFor, shared, tokenVars
    <3> QED
      BY <3>1, <3>2
  <2> QED
    BY <2>6, <2>7, <2>8, <2>9, <2>10, <2>11, <2>12, <2>13, StepOfOne DEF ThreadInv
<1> QED
  BY <1>3, <1>4

LEMMA ReceiveStep ==
  ASSUME Inductive, NEW p \in Procs, Receive(p)
  PROVE  Inductive'
<1>1. /\ pc[p] = "idle"
      /\ retired' = [retired EXCEPT ![p] = RetiredKeys]
      /\ seen' = [seen EXCEPT ![p] = [i \in Ids |-> StoredAt(i)]]
      /\ UNCHANGED <<shared, local, signed, wrote>>
  BY DEF Receive
<1>2. PICK r \in Request : req' = [req EXCEPT ![p] = r] /\ Goto(p, FirstStep(r.op))
  BY RequestsAssumption DEF Receive
<1>3. /\ FirstStep(r.op) \in {"lookup", "getKey", "registerKey", "findReferences",
                              "create", "generate"}
      /\ FirstStep(r.op) = "lookup" => r.op \in {"sign", "verify"}
      /\ FirstStep(r.op) = "getKey" => r.op \in {"retire", "update"}
      /\ FirstStep(r.op) = "registerKey" => r.op = "register"
      /\ FirstStep(r.op) = "findReferences" => r.op = "delete"
      /\ FirstStep(r.op) = "create" => r.op = "import"
      /\ FirstStep(r.op) = "generate" => r.op = "generate"
  <2>1. r.op \in {"sign", "verify", "retire", "update", "register",
                  "delete", "import", "generate"}
    BY RequestFields
  <2> QED
    BY <2>1 DEF FirstStep
<1>4. /\ pc' \in [Procs -> Steps]
      /\ pc'[p] = FirstStep(r.op)
      /\ \A q \in Procs \ {p} : pc'[q] = pc[q]
  BY <1>2, <1>3 DEF Inductive, TypeOK, Goto, Steps
<1>5. /\ req' \in [Procs -> Request \cup {None}]
      /\ req'[p] = r
      /\ \A q \in Procs \ {p} : req'[q] = req[q]
  BY <1>2 DEF Inductive, TypeOK
<1>6. /\ retired' \in [Procs -> SUBSET KeyIds]
      /\ retired'[p] = RetiredKeys
      /\ \A q \in Procs \ {p} : retired'[q] = retired[q]
      /\ seen' \in [Procs -> [Ids -> SUBSET (Certs \X (0..MaxNow))]]
  <2>1. RetiredKeys \in SUBSET KeyIds
    BY DEF RetiredKeys
  <2>2. [i \in Ids |-> StoredAt(i)] \in [Ids -> SUBSET (Certs \X (0..MaxNow))]
    BY StoredTyped DEF Inductive, TypeOK
  <2> QED
    BY <1>1, <2>1, <2>2 DEF Inductive, TypeOK
<1>7. TypeOK'
  BY <1>1, <1>4, <1>5, <1>6 DEF Inductive, TypeOK, Registry, shared, tokenVars, local
<1>8. Evolves /\ RowsInPlace'
  BY <1>1, StoresUnchanged DEF shared, tokenVars
<1>9. OthersStill(p)
  BY <1>1, <1>4, <1>5, <1>6 DEF OthersStill, Still, local
<1>10. signed'[p] = None /\ answer'[p] = None /\ p \notin wrote'
  BY <1>1 DEF Inductive, ThreadInv, RequestInPlace, local
<1>11. Fresh(p) /\ WriteHolds(p)'
  BY <1>3, <1>4, <1>10 DEF Fresh, WriteHolds, Written, Succeeded
<1>12. RequestInPlace(p)'
  BY <1>3, <1>4, <1>5, <1>10 DEF RequestInPlace, InHandler, Crypting
<1>13. EntryInPlace(p)' /\ KeyHeld(p)' /\ SignedInPlace(p)'
  BY <1>3, <1>4, <1>10 DEF EntryInPlace, KeyHeld, EntrySteps, SignedInPlace
<1>14. RetiredBefore(p)'
  BY <1>1, <1>3, <1>4, <1>6 DEF RetiredBefore, RetiredKeys, shared
<1> QED
  BY <1>7, <1>8, <1>9, <1>11, <1>12, <1>13, <1>14, StepOfOne DEF ThreadInv

LEMMA FinishStep ==
  ASSUME Inductive, NEW p \in Procs, Finish(p)
  PROVE  Inductive'
<1>1. pc[p] = "finish" /\ UNCHANGED <<shared, req, history, wrote>>
  BY DEF Finish
<1>2. CASE Fail(p) \/ Refuse(p)
  BY <1>1, <1>2, Denied
<1>4. CASE Reply(p, 400, "SUCCESS")
  BY <1>1, <1>4, Rejected DEF AuditResult
<1>3. CASE Reply(p, 200, "SUCCESS")
  <2>1. TypeOK /\ ThreadInv(p) /\ "SUCCESS" \in AuditResult
    BY DEF Inductive, AuditResult
  <2>2. /\ pc' \in [Procs -> Steps]
        /\ entry' \in [Procs -> Row \cup {None}]
        /\ hkey' \in [Procs -> KeyObject \cup {None}]
        /\ answer' \in [Procs -> Answer \cup {None}]
        /\ pc'[p] = "done"
        /\ answer'[p] = [code |-> 200, audit |-> "SUCCESS"]
        /\ \A q \in Procs \ {p} : /\ pc'[q] = pc[q]
                                  /\ entry'[q] = entry[q]
                                  /\ hkey'[q] = hkey[q]
                                  /\ answer'[q] = answer[q]
    BY <1>3, <2>1, Replies
  <2>3. TypeOK'
    BY <1>1, <2>2 DEF Inductive, TypeOK, Registry, shared, tokenVars, history
  <2>4. Evolves /\ RowsInPlace'
    BY <1>1, StoresUnchanged DEF shared, tokenVars
  <2>5. OthersStill(p)
    BY <1>1, <2>2 DEF OthersStill, Still, history
  <2>6. Fresh(p) /\ WriteHolds(p)'
    BY <1>1, <2>1 DEF Fresh, ThreadInv, WriteHolds, Written, Succeeded, shared
  <2>7. RequestInPlace(p)' /\ SignedInPlace(p)'
    BY <1>1, <2>1, <2>2
       DEF ThreadInv, RequestInPlace, InHandler, SignedInPlace, PermittedFor,
           shared, tokenVars, history
  <2>8. EntryInPlace(p)' /\ KeyHeld(p)'
    BY <2>2 DEF EntryInPlace, KeyHeld, EntrySteps
  <2>9. RetiredBefore(p)'
    BY <1>1, <2>1, <2>2 DEF ThreadInv, RetiredBefore, RetiredKeys, shared, history
  <2> QED
    BY <2>3, <2>4, <2>5, <2>6, <2>7, <2>8, <2>9, StepOfOne DEF ThreadInv
<1> QED
  BY <1>2, <1>3, <1>4 DEF Finish

LEMMA AccessFailsStep ==
  ASSUME Inductive, NEW p \in Procs, AccessFails(p)
  PROVE  Inductive'
<1>1. pc[p] # "idle"
  BY DEF AccessFails, Accesses
<1> QED
  BY <1>1, Denied DEF AccessFails

\* Steps that move no thread and leave the registry alone.
LEMMA StoresMove ==
  ASSUME Inductive, TypeOK', UNCHANGED <<registry, pc, req, local, signed, retired, wrote>>
  PROVE  Inductive'
<1> USE DEF local
<1>1. Evolves /\ RowsInPlace'
  BY StoresUnchanged
<1>2. ASSUME NEW q \in Procs PROVE ThreadInv(q)'
  BY <1>1, Interference DEF Inductive, Still
<1>3. RegisterOnce'
  BY DEF Inductive, RegisterOnce, Written
<1> QED
  BY <1>1, <1>2, <1>3 DEF Inductive

\* The clock, and steps that change nothing.
LEMMA NobodyMoves ==
  ASSUME Inductive, Tick \/ UNCHANGED vars
  PROVE  Inductive'
<1> USE DEF shared, tokenVars, local, history
<1>1. UNCHANGED <<registry, keys, certs, spent, failClosed, pc, req,
                  entry, hkey, answer, signed, retired, wrote>>
  BY DEF Tick, vars
<1>2. now' \in 0..MaxNow
  BY BoundsAssumption DEF Inductive, TypeOK, Tick, vars
<1>3. certs' \in CertStore
  BY <1>1 DEF Inductive, TypeOK
<1>4. seen' \in [Procs -> [Ids -> SUBSET (Certs \X (0..MaxNow))]]
  <2>1. CASE Witness
    BY <1>2, <1>3, <2>1, SeenTyped DEF Inductive
  <2>2. CASE UNCHANGED seen
    BY <2>2 DEF Inductive, TypeOK
  <2> QED
    BY <2>1, <2>2 DEF Tick, vars
<1>5. TypeOK'
  BY <1>1, <1>2, <1>4 DEF Inductive, TypeOK, Registry
<1> QED
  BY <1>1, <1>5, StoresMove

\* A handler changes no locals but its own.
LEMMA OthersStand ==
  ASSUME TypeOK, NEW p \in Procs, Handle(p)
  PROVE  OthersStill(p)
<1> USE DEF TypeOK, Goto, Reply, Refuse, NotFound, Fail, Wrote, local, history,
       OthersStill, Still
<1>1. CASE Receive(p)
  BY <1>1 DEF Receive
<1>2. CASE Lookup(p)
  BY <1>2 DEF Lookup
<1>3. CASE Validate_key(p) \/ ValidateKeyObject(p) \/ Unauthorized(p)
  BY <1>3 DEF Validate_key, ValidateKeyObject, Unauthorized
<1>4. CASE Crypto(p)
  BY <1>4 DEF Crypto
<1>5. CASE CheckCertificate(p)
  BY <1>5 DEF CheckCertificate
<1>6. CASE RegisterKeyObject(p) \/ SelectKeyId(p) \/ SelectObject(p)
  BY <1>6 DEF RegisterKeyObject, SelectKeyId, SelectObject
<1>7. CASE Insert(p)
  BY <1>7 DEF Insert
<1>8. CASE GetKey(p) \/ UpdateKeyObject(p) \/ SelectStatus(p)
  BY <1>8 DEF GetKey, UpdateKeyObject, SelectStatus
<1>9. CASE Commit(p)
  BY <1>9 DEF Commit
<1>10. CASE FindReferences(p) \/ ReadCert(p)
  BY <1>10 DEF FindReferences, ReadCert
<1>11. CASE Destroy(p) \/ Create(p)
  BY <1>11 DEF Destroy, Create
<1>12. CASE Generate(p)
  BY <1>12 DEF Generate
<1>13. CASE Finish(p) \/ AccessFails(p)
  BY <1>13 DEF Finish, AccessFails
<1> QED
  BY <1>1, <1>2, <1>3, <1>4, <1>5, <1>6, <1>7, <1>8, <1>9, <1>10, <1>11, <1>12, <1>13
     DEF Handle

----------------------------------------------------------------------------
\* The invariant.

LEMMA Initially ==
  ASSUME Init
  PROVE  Inductive
<1>1. /\ registry \in Registry
      /\ \A k \in KeyIds : registry[k] # None => registry[k].key = k
      /\ keys \in KeyStore
      /\ certs \in CertStore
  BY InitAssumption DEF Init
<1>2. spent \in SUBSET KeyPairs
  BY InitAssumption DEF Init, KeyStore, KeyObject
<1>3. failClosed \in BOOLEAN
  BY DEF Init, StartupFailClosed
<1>5. /\ now \in 0..MaxNow
      /\ pc \in [Procs -> Steps]
      /\ retired \in [Procs -> SUBSET KeyIds]
      /\ seen \in [Procs -> [Ids -> SUBSET (Certs \X (0..MaxNow))]]
  BY BoundsAssumption DEF Init, Steps
<1>6. TypeOK
  BY <1>1, <1>2, <1>3, <1>5 DEF TypeOK, Init
<1>7. UniqueObjects
  <2>1. ASSUME NEW j \in KeyIds, NEW k \in KeyIds,
               registry[j] # None, registry[k] # None,
               registry[j].object = registry[k].object
        PROVE  j = k
    <3>1. registry[j] \in Rows(registry) /\ registry[k] \in Rows(registry)
      BY <2>1 DEF Rows
    <3>2. registry[j] = registry[k]
      BY <2>1, <3>1, InitAssumption DEF Init
    <3> QED
      BY <1>1, <2>1, <3>2
  <2> QED
    BY <2>1 DEF UniqueObjects
<1>8. CscaBound
  BY InitAssumption DEF CscaBound, Init, Rows
<1>9. ASSUME NEW p \in Procs PROVE ThreadInv(p)
  <2>1. /\ pc[p] = "idle"
        /\ answer[p] = None
        /\ signed[p] = None
        /\ retired[p] = {}
        /\ p \notin wrote
    BY DEF Init
  <2> QED
    BY <2>1 DEF ThreadInv, RequestInPlace, InHandler, EntryInPlace, EntrySteps, KeyHeld,
       RetiredBefore, WriteHolds, Written, Succeeded, SignedInPlace
<1>10. RegisterOnce
  BY DEF RegisterOnce, Written, Init
<1> QED
  BY <1>6, <1>7, <1>8, <1>9, <1>10 DEF Inductive, RowsInPlace

LEMMA Stepwise ==
  ASSUME Inductive, [Next]_vars
  PROVE  Inductive'
<1>1. ASSUME NEW p \in Procs, Handle(p) PROVE Inductive'
  <2>1. CASE Receive(p)
    BY <2>1, ReceiveStep
  <2>2. CASE Lookup(p) \/ Validate_key(p) \/ ValidateKeyObject(p)
    BY <2>2, LookupStep, ValidateStep, ValidateKeyObjectStep
  <2>3. CASE Unauthorized(p) \/ Crypto(p) \/ CheckCertificate(p)
    BY <2>3, UnauthorizedStep, CryptoStep, CheckCertificateStep
  <2>4. CASE RegisterKeyObject(p) \/ Insert(p)
    BY <2>4, RegisterKeyObjectStep, InsertStep
  <2>5. CASE SelectKeyId(p) \/ SelectObject(p) \/ SelectStatus(p)
               \/ FindReferences(p) \/ ReadCert(p)
    BY <2>5, LookingSteps
  <2>6. CASE GetKey(p) \/ UpdateKeyObject(p) \/ Commit(p)
    BY <2>6, GetKeyStep, UpdateKeyObjectStep, CommitStep
  <2>7. CASE Destroy(p) \/ Create(p) \/ Generate(p)
    BY <2>7, DestroyStep, CreateStep, GenerateStep
  <2>8. CASE Finish(p) \/ AccessFails(p)
    BY <2>8, FinishStep, AccessFailsStep
  <2> QED
    BY <1>1, <2>1, <2>2, <2>3, <2>4, <2>5, <2>6, <2>7, <2>8 DEF Handle
<1>2. CASE Tick \/ Quiescent \/ UNCHANGED vars
  BY <1>2, NobodyMoves DEF Quiescent
<1> QED
  BY <1>1, <1>2 DEF Next

(***************************************************************************)
(* What every thread relies on at each of its steps holds in every         *)
(* reachable state, however the handlers of app/main.py interleave.        *)
(***************************************************************************)
THEOREM InvariantHolds == Spec => []Inductive
<1>1. Init => Inductive
  BY Initially
<1>2. Inductive /\ [Next]_vars => Inductive'
  BY Stepwise
<1> QED
  BY <1>1, <1>2, PTL DEF Spec

(***************************************************************************)
(* Every variable of the model has its type in every reachable state: no   *)
(* handler writes a row, a key or a certificate that is none.              *)
(***************************************************************************)
THEOREM TypeCorrect == Spec => []TypeOK
<1>1. Inductive => TypeOK
  BY DEF Inductive
<1> QED
  BY <1>1, InvariantHolds, PTL

\* What the first layer says of requests that were answered or have signed.
LEMMA Consequences ==
  ASSUME Inductive
  PROVE  RegisterOnce /\ CommittedWritesHold /\ NoSignAfterRetire
<1>2. RegisterOnce
  BY DEF Inductive
<1>3. CommittedWritesHold
  BY DEF Inductive, ThreadInv, WriteHolds, CommittedWritesHold
<1>4. NoSignAfterRetire
  BY DEF Inductive, ThreadInv, SignedInPlace, NoSignAfterRetire
<1> QED
  BY <1>2, <1>3, <1>4

(***************************************************************************)
(* Of any number of concurrent registrations at most one is committed for  *)
(* a key_id, and at most one for an object_id.                             *)
(***************************************************************************)
THEOREM RegistersOnce == Spec => []RegisterOnce
BY Consequences, InvariantHolds, PTL

(***************************************************************************)
(* A registration or retirement that was committed is never undone, and    *)
(* none is acknowledged that was not committed.                            *)
(***************************************************************************)
THEOREM WritesHold == Spec => []CommittedWritesHold
BY Consequences, InvariantHolds, PTL

(***************************************************************************)
(* A key retired before a signing request arrived never signs for it.      *)
(***************************************************************************)
THEOREM RetirementBindsLaterRequests == Spec => []NoSignAfterRetire
BY Consequences, InvariantHolds, PTL

\* Only the generation of a key writes the key pairs of the token.
LEMMA KeysOnlyGenerated ==
  ASSUME [Next]_vars
  PROVE  UNCHANGED keys \/ \E p \in Procs : Generate(p) /\ ~OnToken(req[p].id)
<1> USE DEF shared, tokenVars, vars
<1>1. ASSUME NEW p \in Procs, Handle(p)
      PROVE  UNCHANGED keys \/ (Generate(p) /\ ~OnToken(req[p].id))
  BY <1>1 DEF Handle, Receive, Lookup, Validate_key, ValidateKeyObject, Unauthorized,
     Crypto, CheckCertificate, RegisterKeyObject, SelectKeyId, SelectObject, Insert,
     GetKey, UpdateKeyObject, SelectStatus, Commit, FindReferences, ReadCert, Destroy,
     Create, Generate, Finish, AccessFails
<1> QED
  BY <1>1 DEF Next, Tick, Quiescent

(***************************************************************************)
(* No step removes a key pair from the token or puts another in its place. *)
(***************************************************************************)
THEOREM KeysNeverReplaced == Spec => KeysStable
<1>1. Inductive /\ [Next]_vars => [\A i \in Ids : keys[i] # None => keys'[i] = keys[i]]_vars
  <2> SUFFICES ASSUME Inductive, [Next]_vars, NEW i \in Ids, keys[i] # None
               PROVE  keys'[i] = keys[i]
    OBVIOUS
  <2>1. CASE UNCHANGED keys
    BY <2>1
  <2>2. ASSUME NEW p \in Procs, Generate(p), ~OnToken(req[p].id)
        PROVE  keys'[i] = keys[i]
    BY <2>2 DEF Generate, OnToken, Inductive, TypeOK, KeyStore
  <2> QED
    BY <2>1, <2>2, KeysOnlyGenerated
<1> QED
  BY <1>1, InvariantHolds, PTL DEF Spec, KeysStable
=============================================================================
