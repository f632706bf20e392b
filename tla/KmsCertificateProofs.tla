----------------------- MODULE KmsCertificateProofs -----------------------
(***************************************************************************)
(* What Kms guarantees of certificates, for every set of threads, requests,*)
(* keys and certificates: the second layer of the invariant, over the first*)
(* (KmsProofs).  What a request in flight has seen stored it has seen for  *)
(* good: what it found out of a certificate stays true although others     *)
(* delete and import certificates and the clock advances.                  *)
(***************************************************************************)
EXTENDS KmsProofs

\* Besides the evolution of the rows: no request forgets what it has seen.
Remembers ==
  /\ Evolves
  /\ \A p \in Procs : pc[p] # "idle" => \A i \in Ids : seen[p][i] \subseteq seen'[p][i]

\* Nor does a key leave the token.
Advances ==
  /\ Remembers
  /\ \A i \in Ids : keys[i] # None => keys'[i] = keys[i]

\* All that the lemmas about one thread need to know of the others.
CertKnown(p) == Inductive /\ SeesStored /\ CertThread(p)

LEMMA Witnessed ==
  ASSUME TypeOK, Witness, NEW p \in Procs, NEW i \in Ids
  PROVE  /\ seen[p][i] \subseteq seen'[p][i]
         /\ pc[p] \notin {"idle", "done"} => StoredAt(i)' \subseteq seen'[p][i]
  BY DEF Witness, TypeOK

\* Who writes what is shared.
LEMMA Writers ==
  ASSUME NEW p \in Procs, Handle(p)
  PROVE  /\ UNCHANGED registry \/ Insert(p) \/ Commit(p)
         /\ UNCHANGED keys \/ Generate(p)
         /\ UNCHANGED certs \/ Create(p) \/ Destroy(p)
         /\ UNCHANGED seen \/ Receive(p) \/ Create(p)
         /\ UNCHANGED wrote \/ Wrote(p)
         /\ UNCHANGED now
<1> USE DEF shared, tokenVars, history
<1>1. CASE Receive(p) \/ Lookup(p) \/ Validate_key(p) \/ ValidateKeyObject(p)
  BY <1>1 DEF Receive, Lookup, Validate_key, ValidateKeyObject
<1>2. CASE Unauthorized(p) \/ Crypto(p) \/ CheckCertificate(p)
  BY <1>2 DEF Unauthorized, Crypto, CheckCertificate
<1>3. CASE RegisterKeyObject(p) \/ SelectKeyId(p) \/ SelectObject(p) \/ Insert(p)
  BY <1>3 DEF RegisterKeyObject, SelectKeyId, SelectObject, Insert
<1>4. CASE GetKey(p) \/ UpdateKeyObject(p) \/ SelectStatus(p) \/ Commit(p)
  BY <1>4 DEF GetKey, UpdateKeyObject, SelectStatus, Commit
<1>5. CASE FindReferences(p) \/ ReadCert(p) \/ Destroy(p) \/ Create(p) \/ Generate(p)
  BY <1>5 DEF FindReferences, ReadCert, Destroy, Create, Generate
<1>6. CASE Finish(p) \/ AccessFails(p)
  BY <1>6 DEF Finish, AccessFails
<1> QED
  BY <1>1, <1>2, <1>3, <1>4, <1>5, <1>6 DEF Handle

\* The row an UPDATE writes.
LEMMA Committed ==
  ASSUME Inductive, NEW p \in Procs, Commit(p)
  PROVE  /\ ThreadInv(p)
         /\ req[p].op \in {"retire", "update"} /\ req[p].key \in KeyIds
         /\ registry[req[p].key] \in Row
         /\ req[p].op = "update" => req[p].cert \in Ids
         /\ registry' = [registry EXCEPT ![req[p].key] =
              IF req[p].op = "retire" THEN [registry[req[p].key] EXCEPT !.status = "RETIRED"]
                                      ELSE [registry[req[p].key] EXCEPT !.cert = req[p].cert]]
<1>1. pc[p] = "commit"
  BY DEF Commit
<1>2. /\ ThreadInv(p) /\ req[p].op \in {"retire", "update"} /\ req[p].key \in KeyIds
      /\ req[p].op = "update" => req[p].cert \in Ids
  BY <1>1, AtWork DEF InHandler
<1>3. registry[req[p].key] # None
  BY <1>1, <1>2 DEF ThreadInv, EntryInPlace, EntrySteps, Crypting
<1>4. registry[req[p].key] \in Row
  BY <1>2, <1>3, RowTyped
<1> QED
  BY <1>2, <1>4 DEF Commit

LEMMA Advancing ==
  ASSUME Inductive, [Next]_vars
  PROVE  Advances
<1>1. CASE Tick \/ Quiescent \/ UNCHANGED vars
  <2>1. UNCHANGED <<registry, keys>> /\ (UNCHANGED seen \/ Witness)
    BY <1>1 DEF Tick, Quiescent, vars, shared, tokenVars, history
  <2> QED
    BY <2>1, Witnessed DEF Advances, Remembers, Evolves, SameIdentity, Inductive
<1>2. ASSUME NEW p \in Procs, Handle(p) PROVE Advances
  <2>1. ASSUME NEW q \in Procs, pc[q] # "idle", NEW i \in Ids
        PROVE  seen[q][i] \subseteq seen'[q][i]
    <3>1. CASE Create(p)
      BY <3>1, Witnessed DEF Create, Inductive
    <3>2. CASE Receive(p)
      <4>1. q # p
        BY <2>1, <3>2 DEF Receive
      <4> QED
        BY <3>2, <4>1 DEF Receive, Inductive, TypeOK
    <3>3. CASE UNCHANGED seen
      BY <3>3
    <3> QED
      BY <1>2, <3>1, <3>2, <3>3, Writers
  <2>2. ASSUME NEW i \in Ids, keys[i] # None PROVE keys'[i] = keys[i]
    <3>1. CASE Generate(p)
      BY <2>2, <3>1 DEF Generate, OnToken, Inductive, TypeOK, KeyStore
    <3> QED
      BY <1>2, <3>1, Writers
  <2>3. ASSUME NEW k \in KeyIds, registry[k] # None
        PROVE  /\ registry'[k] # None
               /\ SameIdentity(registry'[k], registry[k])
               /\ registry[k].status = "RETIRED" => registry'[k].status = "RETIRED"
    <3>1. CASE Insert(p) /\ ~UNCHANGED registry
      <4>1. registry' = [registry EXCEPT ![req[p].key] = NewRow(p)] /\ registry[req[p].key] = None
        BY <3>1 DEF Insert, ViolatesSchema
      <4>2. registry'[k] = registry[k]
        BY <2>3, <4>1 DEF Inductive, TypeOK, Registry
      <4> QED
        BY <2>3, <4>2 DEF SameIdentity
    <3>2. CASE Commit(p)
      <4> DEFINE r == registry[req[p].key]
      <4>1. k # req[p].key => registry'[k] = registry[k]
        BY <3>2, Committed DEF Inductive, TypeOK, Registry
      <4>2. k = req[p].key =>
              registry'[k] = IF req[p].op = "retire" THEN [r EXCEPT !.status = "RETIRED"]
                                                     ELSE [r EXCEPT !.cert = req[p].cert]
        BY <3>2, Committed DEF Inductive, TypeOK, Registry
      <4>3. k = req[p].key => registry'[k] # None
        <5>1. [r EXCEPT !.status = "RETIRED"] \in Row
          BY <3>2, Committed DEF Row
        <5>2. req[p].op = "update" => [r EXCEPT !.cert = req[p].cert] \in Row
          BY <3>2, Committed DEF Row
        <5> QED
          BY <3>2, <4>2, <5>1, <5>2, Committed, NoneAssumption
      <4>4. k = req[p].key => SameIdentity(registry'[k], r)
        BY <3>2, <4>2, Committed DEF Row, SameIdentity
      <4>5. k = req[p].key /\ r.status = "RETIRED" => registry'[k].status = "RETIRED"
        BY <3>2, <4>2, Committed DEF Row
      <4> QED
        BY <2>3, <4>1, <4>3, <4>4, <4>5 DEF SameIdentity
    <3>3. CASE UNCHANGED registry
      BY <2>3, <3>3 DEF SameIdentity
    <3> QED
      BY <1>2, <3>1, <3>2, <3>3, Writers
  <2> QED
    BY <2>1, <2>2, <2>3 DEF Advances, Remembers, Evolves
<1> QED
  BY <1>1, <1>2 DEF Next

----------------------------------------------------------------------------
\* What is left to show of the thread that moves, and of those that do not.

LEMMA VettedStays ==
  ASSUME NEW p \in Procs, Remembers, pc[p] # "idle", NEW id \in Ids, NEW role, NEW pub,
         Vetted(p, id, role, pub)
  PROVE  \E w \in seen'[p][id] : Validate(w[1], role, pub, w[2]) = "ok"
  BY DEF Vetted, Remembers

\* The signature of a thread stays certified.
LEMMA SignatureStays ==
  ASSUME NEW p \in Procs, CertKnown(p), Remembers,
         signed'[p] = signed[p]
  PROVE  SignedVetted(p)'
<1> SUFFICES ASSUME signed[p] # None
             PROVE  /\ signed[p].pair.params = registry'[signed[p].key].params
                    /\ CertifiedFor(p)'
  BY DEF SignedVetted
<1>1. /\ CertifiedFor(p) /\ signed[p] \in Signature
      /\ registry[signed[p].key] # None /\ pc[p] # "idle"
      /\ signed[p].pair.params = registry[signed[p].key].params
  BY DEF CertKnown, CertThread, SignedVetted, Inductive, ThreadInv, SignedInPlace,
     PermittedFor, TypeOK
<1>2. signed[p].key \in KeyIds /\ signed[p].cert \in Ids \cup {None}
  BY <1>1 DEF Signature
<1>3. SameIdentity(registry'[signed[p].key], registry[signed[p].key])
  BY <1>1, <1>2 DEF Remembers, Evolves
<1>4. signed[p].cert # None =>
        \E w \in seen'[p][signed[p].cert] :
          Validate(w[1], registry[signed[p].key].role, signed[p].pair.pub, w[2]) = "ok"
  BY <1>1, <1>2, VettedStays DEF CertifiedFor
<1> QED
  BY <1>1, <1>3, <1>4 DEF CertifiedFor, SameIdentity, Vetted

LEMMA CertStep ==
  ASSUME NEW p \in Procs, CertKnown(p), Remembers,
         signed'[p] = signed[p],
         KeyInPlace(p)', RegistrationVetted(p)', UpdateVetted(p)', UseVetted(p)',
         WriteAccounted(p)'
  PROVE  CertThread(p)'
  BY SignatureStays DEF CertThread

\* A handler that is at none of the steps the layer speaks of.
LEMMA CertElsewhere ==
  ASSUME NEW p \in Procs, CertKnown(p), Remembers,
         signed'[p] = signed[p],
         pc'[p] \notin {"certificate", "crypto", "selectKeyId", "selectObject", "insert",
                        "selectStatus", "commit"},
         WriteAccounted(p)'
  PROVE  CertThread(p)'
  BY CertStep DEF KeyInPlace, RegistrationVetted, UpdateVetted, UseVetted

LEMMA NotWritten ==
  ASSUME NEW p \in Procs, CertKnown(p), pc[p] \notin {"finish", "done"}, UNCHANGED wrote
  PROVE  p \notin wrote /\ WriteAccounted(p)'
  BY DEF CertKnown, CertThread, WriteAccounted

LEMMA CertRefused ==
  ASSUME NEW p \in Procs, CertKnown(p), Remembers, pc[p] \notin {"finish", "done"},
         NEW code, NEW result, Reply(p, code, result),
         UNCHANGED <<signed, wrote>>
  PROVE  CertThread(p)'
<1>1. pc'[p] = "done"
  BY DEF Reply, Goto, CertKnown, Inductive, TypeOK
<1> QED
  BY <1>1, NotWritten, CertElsewhere

LEMMA CertDenied ==
  ASSUME NEW p \in Procs, CertKnown(p), Remembers, pc[p] \notin {"finish", "done"},
         Refuse(p) \/ NotFound(p) \/ Fail(p),
         UNCHANGED <<signed, wrote>>
  PROVE  CertThread(p)'
  BY CertRefused DEF Refuse, NotFound, Fail

\* A thread that does not move.
LEMMA CertOthers ==
  ASSUME NEW q \in Procs, CertKnown(q), Advances, Still(q)
  PROVE  CertThread(q)'
<1>1. CertThread(q) /\ ThreadInv(q) /\ TypeOK
  BY DEF CertKnown, Inductive
<1>2. pc[q] # "idle" => /\ req[q].op = "register" =>
                             req[q].id \in Ids /\ req[q].cert \in Ids \cup {None}
                        /\ req[q].op = "update" => req[q].cert \in Ids
  BY AtWork DEF CertKnown
<1>3. RegistrationVetted(q)'
  <2>1. CASE pc[q] \in {"certificate", "selectKeyId", "selectObject", "insert"}
             /\ req[q].op = "register"
    <3>1. keys[req[q].id] = hkey[q] /\ hkey[q] # None
      BY <1>1, <2>1, NoneAssumption DEF CertThread, RegistrationVetted, ThreadInv, KeyHeld
    <3>2. keys'[req[q].id] = hkey[q]
      BY <1>2, <2>1, <3>1 DEF Advances
    <3>3. ASSUME pc[q] \in {"selectKeyId", "selectObject", "insert"}, req[q].cert # None
          PROVE  \E w \in seen'[q][req[q].cert] :
                   Validate(w[1], req[q].role, hkey[q].pair.pub, w[2]) = "ok"
      BY <1>1, <1>2, <2>1, <3>3, VettedStays DEF Advances, CertThread, RegistrationVetted
    <3> QED
      BY <2>1, <3>2, <3>3 DEF RegistrationVetted, Vetted, Still
  <2>2. CASE pc[q] \in {"selectKeyId", "selectObject", "insert"} /\ req[q].op # "register"
    BY <1>1, <2>2 DEF ThreadInv, RequestInPlace, InHandler
  <2> QED
    BY <2>1, <2>2 DEF RegistrationVetted, Still
<1>4. pc[q] \in EntrySteps /\ req[q].op # "register" =>
        entry[q].object \in Ids /\ entry[q].cert \in Ids \cup {None}
  BY <1>1 DEF ThreadInv, EntryInPlace, Row
<1>5. UpdateVetted(q)'
  <2>1. CASE pc[q] = "certificate" /\ req[q].op = "update"
    BY <1>1, <1>4, <2>1, NoneAssumption
       DEF CertThread, UpdateVetted, Still, Advances, ThreadInv, KeyHeld, EntrySteps
  <2>2. CASE pc[q] \in {"selectStatus", "commit"} /\ req[q].op = "update"
    <3>1. keys'[entry[q].object] = keys[entry[q].object] /\ keys[entry[q].object] # None
      BY <1>1, <1>4, <2>2 DEF CertThread, UpdateVetted, Advances, EntrySteps
    <3>2. \E w \in seen'[q][req[q].cert] :
            Validate(w[1], entry[q].role, keys[entry[q].object].pair.pub, w[2]) = "ok"
      BY <1>1, <1>2, <2>2, VettedStays DEF Advances, CertThread, UpdateVetted
    <3> QED
      BY <2>2, <3>1, <3>2 DEF UpdateVetted, Vetted, Still
  <2> QED
    BY <2>1, <2>2 DEF UpdateVetted, Still
<1>6. UseVetted(q)'
  <2>1. pc[q] = "crypto" => Crypting(q)
    BY <1>1 DEF ThreadInv, RequestInPlace, InHandler
  <2>2. pc[q] = "certificate" /\ Crypting(q) => keys'[entry[q].object] = hkey[q]
    BY <1>1, <1>4, NoneAssumption
       DEF CertThread, UseVetted, Advances, ThreadInv, KeyHeld, EntrySteps, Crypting
  <2>3. CASE pc[q] = "crypto" /\ entry[q].cert # None
    <3>1. keys'[entry[q].object] = keys[entry[q].object]
      BY <1>1, <1>4, <2>1, <2>3
         DEF Advances, EntrySteps, CertThread, KeyInPlace, Crypting
    <3>2. \E w \in seen'[q][entry[q].cert] :
            Validate(w[1], entry[q].role, keys[entry[q].object].pair.pub, w[2]) = "ok"
      BY <1>1, <1>4, <2>1, <2>3, VettedStays DEF Advances, CertThread, UseVetted, EntrySteps, Crypting
    <3> QED
      BY <1>1, <2>3, <3>1, <3>2 DEF CertThread, UseVetted, Vetted, Still, Crypting
  <2>4. CASE ~(pc[q] = "crypto" /\ entry[q].cert # None)
    BY <1>1, <2>2, <2>4 DEF CertThread, UseVetted, Still, Crypting
  <2> QED
    BY <2>3, <2>4
<1>7. KeyInPlace(q)'
  BY <1>1, <1>4 DEF CertThread, KeyInPlace, Still, Advances, EntrySteps, Crypting
<1>8. WriteAccounted(q)'
  BY <1>1 DEF CertThread, WriteAccounted, Accounted, Late, Still
<1> QED
  BY <1>3, <1>5, <1>6, <1>7, <1>8, CertStep DEF Still, Advances

----------------------------------------------------------------------------
\* The thread that moves.

\* sign and verify, up to the certificate stage.
LEMMA CertValidating ==
  ASSUME NEW p \in Procs, CertKnown(p), Advances,
         Lookup(p) \/ Validate_key(p) \/ ValidateKeyObject(p)
  PROVE  CertThread(p)'
<1>1. /\ pc[p] \in {"lookup", "validate", "validateKey"}
      /\ UNCHANGED <<shared, req, signed, wrote>>
  BY DEF Lookup, Validate_key, ValidateKeyObject, history
<1>2. Crypting(p) /\ ThreadInv(p) /\ CertThread(p) /\ TypeOK
  BY <1>1, AtWork DEF InHandler, CertKnown, Inductive
<1>3. WriteAccounted(p)'
  BY <1>1, NotWritten
<1>4. RegistrationVetted(p)' /\ UpdateVetted(p)'
  BY <1>1, <1>2 DEF RegistrationVetted, UpdateVetted, Crypting,
     Lookup, Validate_key, ValidateKeyObject, Reply, Refuse, NotFound, Goto, TypeOK,
     AfterKeyObject
<1>5. CASE Lookup(p)
  <2>1. CASE NotFound(p)
    BY <1>1, <2>1, CertDenied DEF Advances
  <2>2. CASE ~NotFound(p)
    <3>1. Goto(p, "validate")
      BY <1>5, <2>2 DEF Lookup
    <3>2. pc'[p] = "validate"
      BY <1>2, <3>1 DEF Goto, TypeOK
    <3> QED
      BY <1>1, <1>3, <3>2, CertElsewhere DEF Advances
  <2> QED
    BY <2>1, <2>2
<1>6. CASE Validate_key(p)
  <2>1. CASE Reply(p, 503, "NONE") \/ Refuse(p)
    BY <1>1, <2>1, CertRefused, CertDenied DEF Advances
  <2>2. CASE ~Reply(p, 503, "NONE") /\ ~Refuse(p)
    <3>1. Goto(p, "validateKey")
      BY <1>6, <2>2 DEF Validate_key
    <3>2. pc'[p] = "validateKey"
      BY <1>2, <3>1 DEF Goto, TypeOK
    <3> QED
      BY <1>1, <1>3, <3>2, CertElsewhere DEF Advances
  <2> QED
    BY <2>1, <2>2
<1>7. CASE ValidateKeyObject(p)
  <2>1. CASE Refuse(p) \/ NotFound(p)
    BY <1>1, <2>1, CertDenied DEF Advances
  <2>2. CASE ~Refuse(p) /\ ~NotFound(p)
    <3>1. /\ hkey' = [hkey EXCEPT ![p] = keys[entry[p].object]]
          /\ Goto(p, AfterKeyObject(p))
          /\ entry' = entry
      BY <1>7, <2>2 DEF ValidateKeyObject
    <3>2. UseVetted(p)'
      BY <1>1, <1>2, <1>7, <3>1 DEF UseVetted, Goto, TypeOK, AfterKeyObject,
         Crypting, ValidateKeyObject, shared, tokenVars
    <3>3. keys[entry[p].object] # None /\ MatchesRow(keys[entry[p].object], entry[p])
      BY <1>7, <2>2 DEF ValidateKeyObject
    <3>4. KeyInPlace(p)'
      BY <1>1, <3>1, <3>3 DEF KeyInPlace, MatchesRow, shared, tokenVars
    <3> QED
      BY <1>1, <1>3, <1>4, <3>2, <3>4, CertStep DEF Advances
  <2> QED
    BY <2>1, <2>2
<1> QED
  BY <1>5, <1>6, <1>7

\* The first certificate look-ups find has been stored and meets the policy.
LEMMA PolicyMet ==
  ASSUME NEW p \in Procs, CertKnown(p), pc[p] = "certificate", PolicyOutcome(p) = "ok"
  PROVE  Vetted(p, CertificateId(p), RoleOf(p), hkey[p].pair.pub)
<1> DEFINE id == CertificateId(p)
<1>1. id \in Ids
  BY DEF CertKnown, Inductive, ThreadInv, KeyHeld
<1>2. certs[id] \in Seq(Certs) /\ certs[id] # <<>>
  BY <1>1 DEF PolicyOutcome, CertKnown, Inductive, TypeOK, CertStore
<1>3. <<Head(certs[id]), now>> \in StoredAt(id)
  <2>1. 1 \in DOMAIN certs[id] /\ Head(certs[id]) = certs[id][1]
    BY <1>2
  <2> QED
    BY <2>1 DEF StoredAt
<1>4. <<Head(certs[id]), now>> \in seen[p][id]
  BY <1>1, <1>3 DEF CertKnown, SeesStored
<1>5. Validate(Head(certs[id]), RoleOf(p), hkey[p].pair.pub, now) = "ok"
  BY <1>2 DEF PolicyOutcome, LoadAndValidate
<1> QED
  BY <1>4, <1>5 DEF Vetted

LEMMA CertChecking ==
  ASSUME NEW p \in Procs, CertKnown(p), Advances, CheckCertificate(p)
  PROVE  CertThread(p)'
<1>1. /\ pc[p] = "certificate"
      /\ UNCHANGED <<shared, req, signed, wrote>>
  BY DEF CheckCertificate, history
<1>2. ThreadInv(p) /\ CertThread(p) /\ TypeOK
  BY DEF CertKnown, Inductive
<1>3. CASE Refuse(p) \/ Fail(p)
  BY <1>1, <1>3, CertDenied DEF Advances
<1>4. CASE ~Refuse(p) /\ ~Fail(p)
  <2>1. PolicyOutcome(p) = "ok" /\ Goto(p, AfterCertificate(req[p].op)) /\ UNCHANGED local
    BY <1>4 DEF CheckCertificate
  <2>2. pc'[p] = AfterCertificate(req[p].op)
    BY <1>2, <2>1 DEF Goto, TypeOK
  <2>3. Vetted(p, CertificateId(p), RoleOf(p), hkey[p].pair.pub)
    BY <1>1, <2>1, PolicyMet
  <2>4. UNCHANGED seen
    BY DEF CheckCertificate, history
  <2>5. CASE req[p].op = "register"
    <3>1. pc'[p] = "selectKeyId"
      BY <2>2, <2>5 DEF AfterCertificate
    <3>2. Vetted(p, req[p].cert, req[p].role, hkey[p].pair.pub)
      BY <2>3, <2>5 DEF CertificateId, RoleOf
    <3>3. RegistrationVetted(p)'
      BY <1>1, <1>2, <2>1, <2>4, <2>5, <3>1, <3>2
         DEF RegistrationVetted, CertThread, Vetted, shared, tokenVars, local
    <3> QED
      BY <1>1, <3>1, <3>3, NotWritten, CertStep
         DEF Advances, KeyInPlace, UpdateVetted, UseVetted
  <2>6. CASE req[p].op = "update"
    <3>1. pc'[p] = "selectStatus"
      BY <2>2, <2>6 DEF AfterCertificate
    <3>2. keys[entry[p].object] = hkey[p] /\ hkey[p] # None
      BY <1>1, <1>2, <2>6, NoneAssumption DEF CertThread, UpdateVetted, ThreadInv, KeyHeld
    <3>3. Vetted(p, req[p].cert, entry[p].role, hkey[p].pair.pub)
      BY <2>3, <2>6 DEF CertificateId, RoleOf
    <3>4. UpdateVetted(p)'
      BY <1>1, <2>1, <2>4, <3>1, <3>2, <3>3 DEF UpdateVetted, Vetted, shared, tokenVars, local
    <3> QED
      BY <1>1, <3>1, <3>4, NotWritten, CertStep
         DEF Advances, KeyInPlace, RegistrationVetted, UseVetted
  <2>7. CASE Crypting(p)
    <3>1. pc'[p] = "crypto"
      BY <2>2, <2>7 DEF AfterCertificate, Crypting
    <3>2. keys[entry[p].object] = hkey[p]
      BY <1>1, <1>2, <2>7 DEF CertThread, UseVetted
    <3>3. Vetted(p, entry[p].cert, entry[p].role, hkey[p].pair.pub)
      BY <2>3, <2>7 DEF CertificateId, RoleOf, Crypting
    <3>4. UseVetted(p)'
      BY <1>1, <1>2, <2>1, <2>4, <2>7, <3>1, <3>2, <3>3
         DEF UseVetted, CertThread, Vetted, Crypting, shared, tokenVars, local
    <3>5. KeyInPlace(p)'
      BY <1>1, <1>2, <2>1, <2>7
         DEF KeyInPlace, CertThread, MatchesRow, Crypting, shared, tokenVars, local
    <3> QED
      BY <1>1, <3>1, <3>4, <3>5, NotWritten, CertStep
         DEF Advances, RegistrationVetted, UpdateVetted
  <2> QED
    BY <1>1, <1>2, <2>5, <2>6, <2>7 DEF ThreadInv, RequestInPlace, InHandler
<1> QED
  BY <1>3, <1>4

LEMMA CertCrypto ==
  ASSUME NEW p \in Procs, CertKnown(p), Advances, Unauthorized(p) \/ Crypto(p)
  PROVE  CertThread(p)'
<1>1. pc[p] = "crypto" /\ UNCHANGED <<shared, req, seen, wrote>>
  BY DEF Unauthorized, Crypto, history
<1>2. Crypting(p) /\ ThreadInv(p) /\ CertThread(p) /\ TypeOK
  BY <1>1, AtWork DEF InHandler, CertKnown, Inductive
<1>3. CASE signed'[p] = signed[p] /\ pc'[p] \in {"finish", "done"}
  <2>1. p \notin wrote'
    BY <1>1, NotWritten
  <2> QED
    BY <1>1, <1>3, <2>1, CertElsewhere DEF WriteAccounted, Advances
<1>4. CASE signed'[p] # signed[p] \/ pc'[p] \notin {"finish", "done"}
  <2>1. /\ Crypto(p) /\ req[p].op = "sign"
        /\ signed' = [signed EXCEPT ![p] =
             [key |-> entry[p].key, cert |-> entry[p].cert, pair |-> keys[req[p].id].pair]]
        /\ pc'[p] = "finish"
    BY <1>2, <1>4 DEF Unauthorized, Crypto, history, TypeOK, Goto, Reply, NotFound, Fail
  <2>2. signed'[p] = [key |-> entry[p].key, cert |-> entry[p].cert,
                      pair |-> keys[req[p].id].pair]
    BY <1>2, <2>1 DEF TypeOK
  <2>3. /\ entry[p].object = req[p].id
        /\ registry[entry[p].key].role = entry[p].role
        /\ registry[entry[p].key].params = entry[p].params
        /\ entry[p].role = "CSCA" => entry[p].cert # None
    BY <1>1, <1>2 DEF ThreadInv, EntryInPlace, EntrySteps, Crypting, SameIdentity
  <2>4. keys[req[p].id].pair.params = entry[p].params
    BY <1>1, <1>2, <2>3 DEF CertThread, KeyInPlace, MatchesRow
  <2>5. entry[p].cert # None =>
          Vetted(p, entry[p].cert, entry[p].role, keys[req[p].id].pair.pub)
    BY <1>1, <1>2, <2>3 DEF CertThread, UseVetted
  <2>6. SignedVetted(p)'
    BY <1>1, <2>2, <2>3, <2>4, <2>5
       DEF SignedVetted, CertifiedFor, Vetted, shared, tokenVars
  <2>7. /\ KeyInPlace(p)' /\ RegistrationVetted(p)' /\ UpdateVetted(p)' /\ UseVetted(p)'
    BY <1>1, <2>1 DEF KeyInPlace, RegistrationVetted, UpdateVetted, UseVetted
  <2>8. WriteAccounted(p)'
    BY <1>1, NotWritten
  <2> QED
    BY <2>6, <2>7, <2>8 DEF CertThread
<1> QED
  BY <1>3, <1>4

\* register, up to its INSERT.
LEMMA CertRegistering ==
  ASSUME NEW p \in Procs, CertKnown(p), Advances,
         RegisterKeyObject(p) \/ SelectKeyId(p) \/ SelectObject(p)
  PROVE  CertThread(p)'
<1>1. /\ pc[p] \in {"registerKey", "selectKeyId", "selectObject"}
      /\ UNCHANGED <<shared, req, signed, seen, wrote>>
  BY DEF RegisterKeyObject, SelectKeyId, SelectObject, history
<1>2. req[p].op = "register" /\ CertThread(p) /\ TypeOK
  BY <1>1, AtWork DEF InHandler, CertKnown, Inductive
<1>3. CASE Refuse(p) \/ NotFound(p)
  BY <1>1, <1>3, CertDenied DEF Advances
<1>4. CASE ~Refuse(p) /\ ~NotFound(p) /\ RegisterKeyObject(p)
  <2>1. /\ req[p].role = "CSCA" => req[p].cert # None
        /\ hkey'[p] = keys[req[p].id]
        /\ pc'[p] = IF req[p].cert = None THEN "selectKeyId" ELSE "certificate"
    BY <1>2, <1>4 DEF RegisterKeyObject, Goto, TypeOK
  <2>2. RegistrationVetted(p)'
    BY <1>1, <2>1 DEF RegistrationVetted, shared, tokenVars
  <2> QED
    BY <1>1, <1>2, <2>1, <2>2, NotWritten, CertStep
       DEF Advances, KeyInPlace, UpdateVetted, UseVetted, Crypting
<1>5. CASE ~Refuse(p) /\ ~NotFound(p) /\ ~RegisterKeyObject(p)
  <2>1. UNCHANGED local /\ pc'[p] \in {"selectObject", "insert"}
        /\ pc[p] \in {"selectKeyId", "selectObject"}
    BY <1>2, <1>5 DEF SelectKeyId, SelectObject, Goto, TypeOK
  <2>2. RegistrationVetted(p)'
    BY <1>1, <1>2, <2>1
       DEF RegistrationVetted, CertThread, Vetted, local, shared, tokenVars
  <2> QED
    BY <1>1, <2>1, <2>2, NotWritten, CertStep
       DEF Advances, KeyInPlace, UpdateVetted, UseVetted
<1> QED
  BY <1>3, <1>4, <1>5

\* update and retire, up to their UPDATE.
LEMMA CertUpdating ==
  ASSUME NEW p \in Procs, CertKnown(p), Advances,
         GetKey(p) \/ UpdateKeyObject(p) \/ SelectStatus(p)
  PROVE  CertThread(p)'
<1>1. /\ pc[p] \in {"getKey", "updateKey", "selectStatus"}
      /\ UNCHANGED <<shared, req, signed, seen, wrote>>
  BY DEF GetKey, UpdateKeyObject, SelectStatus, history
<1>2. req[p].op \in {"retire", "update"} /\ CertThread(p) /\ TypeOK
  BY <1>1, AtWork DEF InHandler, CertKnown, Inductive
<1>3. CASE Refuse(p) \/ NotFound(p)
  BY <1>1, <1>3, CertDenied DEF Advances
<1>4. CASE ~Refuse(p) /\ ~NotFound(p)
  <2>1. CASE GetKey(p)
    <3>1. req[p].op = "update" => pc'[p] = "updateKey"
      BY <1>2, <1>4, <2>1 DEF GetKey, Goto, TypeOK
    <3>2. req[p].op = "retire" => pc'[p] = "selectStatus"
      BY <1>2, <1>4, <2>1 DEF GetKey, Goto, TypeOK
    <3> QED
      BY <1>1, <1>2, <3>1, <3>2, NotWritten, CertStep
         DEF Advances, KeyInPlace, RegistrationVetted, UpdateVetted, UseVetted
  <2>2. CASE UpdateKeyObject(p)
    <3>1. /\ hkey'[p] = keys[entry[p].object]
          /\ entry' = entry
          /\ pc'[p] = "certificate"
          /\ req[p].op = "update"
      BY <1>2, <1>4, <2>2, AtWork DEF UpdateKeyObject, Goto, TypeOK, InHandler, CertKnown
    <3> QED
      BY <1>1, <3>1, NotWritten, CertStep
         DEF Advances, KeyInPlace, RegistrationVetted, UpdateVetted, UseVetted, Crypting,
             shared, tokenVars
  <2>3. CASE SelectStatus(p)
    <3>1. UNCHANGED local /\ pc'[p] = "commit"
      BY <1>2, <1>4, <2>3 DEF SelectStatus, Goto, TypeOK
    <3>2. UpdateVetted(p)'
      BY <1>1, <1>2, <2>3, <3>1
         DEF UpdateVetted, CertThread, Vetted, local, shared, tokenVars, SelectStatus
    <3> QED
      BY <1>1, <3>1, <3>2, NotWritten, CertStep
         DEF Advances, KeyInPlace, RegistrationVetted, UseVetted
  <2> QED
    BY <2>1, <2>2, <2>3
<1> QED
  BY <1>3, <1>4

\* The writes of a handler end it: only a generation is answered in the same
\* step, when its read-back fails.
LEMMA CertWriting ==
  ASSUME NEW p \in Procs, CertKnown(p), Advances,
         Insert(p) \/ Commit(p) \/ Destroy(p) \/ Create(p) \/ Generate(p)
  PROVE  CertThread(p)'
<1>1. /\ pc[p] \in {"insert", "commit", "destroy", "create", "generate"}
      /\ UNCHANGED <<req, signed>>
  BY DEF Insert, Commit, Destroy, Create, Generate, history
<1>2. TypeOK /\ ThreadInv(p) /\ answer[p] = None
  BY <1>1 DEF CertKnown, Inductive, ThreadInv, RequestInPlace
<1>3. CASE UNCHANGED wrote /\ (Refuse(p) \/ NotFound(p) \/ Fail(p))
  BY <1>1, <1>3, CertDenied DEF Advances
<1>4. CASE Goto(p, "finish") /\ UNCHANGED local
  <2>1. pc'[p] = "finish" /\ answer'[p] = None
    BY <1>2, <1>4 DEF Goto, TypeOK, local
  <2> QED
    BY <1>1, <2>1, CertElsewhere DEF WriteAccounted, Accounted, Advances
<1>5. CASE Generate(p) /\ (Fail(p) \/ Refuse(p))
  <2>1. pc[p] = "generate" /\ req[p].op = "generate"
    BY <1>1, <1>2, <1>5 DEF Generate, ThreadInv, RequestInPlace, InHandler
  <2>2. RefusalAudit(p) = "NONE" /\ FailureAudit(p) = "NONE"
    BY <2>1 DEF RefusalAudit, FailureAudit
  <2>3. pc'[p] = "done" /\ answer'[p].audit = "NONE" /\ req'[p].op = "generate"
    BY <1>1, <1>2, <1>5, <2>1, <2>2 DEF Fail, Refuse, Reply, Goto, TypeOK
  <2> QED
    BY <1>1, <2>3, CertElsewhere DEF WriteAccounted, Accounted, Advances
<1> QED
  BY <1>3, <1>4, <1>5 DEF Insert, Commit, Destroy, Create, Generate

LEMMA CertReceiving ==
  ASSUME NEW p \in Procs, CertKnown(p), Advances, Receive(p)
  PROVE  CertThread(p)'
<1>1. /\ pc[p] = "idle" /\ signed[p] = None
      /\ UNCHANGED <<signed, wrote>>
  BY DEF Receive, CertKnown, Inductive, ThreadInv, RequestInPlace
<1>2. PICK r \in Requests : Goto(p, FirstStep(r.op))
  BY DEF Receive
<1>3. pc'[p] \in {"lookup", "getKey", "registerKey", "findReferences", "create", "generate"}
  BY <1>2, RequestsAssumption, RequestFields
     DEF Goto, CertKnown, Inductive, TypeOK, FirstStep
<1>4. p \notin wrote'
  BY <1>1, NotWritten
<1> QED
  BY <1>1, <1>3, <1>4
     DEF CertThread, KeyInPlace, RegistrationVetted, UpdateVetted, UseVetted, SignedVetted,
         WriteAccounted

LEMMA CertLooking ==
  ASSUME NEW p \in Procs, CertKnown(p), Advances, FindReferences(p) \/ ReadCert(p)
  PROVE  CertThread(p)'
<1>1. /\ pc[p] \in {"findReferences", "readCert"}
      /\ UNCHANGED <<signed, wrote>>
  BY DEF FindReferences, ReadCert, history
<1>2. CASE Refuse(p) \/ NotFound(p)
  BY <1>1, <1>2, CertDenied DEF Advances
<1>3. CASE ~Refuse(p) /\ ~NotFound(p)
  <2>1. pc'[p] \in {"readCert", "destroy"}
    BY <1>3 DEF FindReferences, ReadCert, Goto, CertKnown, Inductive, TypeOK
  <2> QED
    BY <1>1, <2>1, NotWritten, CertElsewhere DEF Advances
<1> QED
  BY <1>2, <1>3

LEMMA CertEnding ==
  ASSUME NEW p \in Procs, CertKnown(p), Advances, Finish(p) \/ AccessFails(p)
  PROVE  CertThread(p)'
<1>1. UNCHANGED <<req, signed, wrote>>
  BY DEF Finish, AccessFails, history
<1>2. TypeOK /\ CertThread(p)
  BY DEF CertKnown, Inductive
<1>3. pc'[p] = "done"
  BY <1>2 DEF Finish, AccessFails, Fail, Refuse, Reply, Goto, TypeOK
<1>4. WriteAccounted(p)'
  <2>1. CASE p \notin wrote
    BY <1>1, <2>1 DEF WriteAccounted
  <2>2. CASE p \in wrote
    <3>1. pc[p] \in {"finish", "done"}
      BY <1>2, <2>2 DEF CertThread, WriteAccounted
    <3>2. Late(p) # "none" => req[p].op = "import"
      BY DEF Late
    <3>3. Late(p)' = Late(p) /\ req'[p] = req[p]
      BY <1>1 DEF Late
    <3>4. FailureAudit(p) # "DENIED"
      BY DEF FailureAudit
    <3>5. CASE Fail(p) \/ Reply(p, 200, "SUCCESS")
      <4>1. answer'[p].code \in {200, 503} /\ answer'[p].audit # "DENIED"
        BY <1>2, <3>4, <3>5 DEF Fail, Reply, TypeOK
      <4> QED
        BY <1>3, <4>1 DEF WriteAccounted, Accounted
    <3>6. CASE Late(p) \in {"ValueError", "names"} /\ (Refuse(p) \/ Reply(p, 400, "SUCCESS"))
      <4>1. RefusalAudit(p) = "NONE"
        BY <3>2, <3>6 DEF RefusalAudit
      <4>2. answer'[p].audit # "DENIED"
        BY <1>2, <3>6, <4>1 DEF Refuse, Reply, TypeOK
      <4> QED
        BY <1>3, <3>3, <3>6, <4>2 DEF WriteAccounted, Accounted
    <3> QED
      BY <3>1, <3>5, <3>6 DEF Finish, AccessFails, Accesses
  <2> QED
    BY <2>1, <2>2
<1> QED
  BY <1>1, <1>3, <1>4, CertElsewhere DEF Advances

LEMMA CertMover ==
  ASSUME NEW p \in Procs, CertKnown(p), Advances, Handle(p)
  PROVE  CertThread(p)'
BY CertReceiving, CertValidating, CertChecking, CertCrypto, CertRegistering,
   CertUpdating, CertWriting, CertLooking, CertEnding DEF Handle

----------------------------------------------------------------------------
\* The stores.

\* Only hsm.sign signs, and only a request that comes in is written to req.
LEMMA Signers ==
  ASSUME NEW p \in Procs, Handle(p)
  PROVE  /\ UNCHANGED signed \/ Crypto(p)
         /\ UNCHANGED req \/ Receive(p)
<1> USE DEF history
<1>1. CASE Receive(p) \/ Crypto(p)
  BY <1>1 DEF Receive, Crypto
<1>2. CASE Lookup(p) \/ Validate_key(p) \/ ValidateKeyObject(p) \/ Unauthorized(p)
             \/ CheckCertificate(p)
  BY <1>2 DEF Lookup, Validate_key, ValidateKeyObject, Unauthorized, CheckCertificate
<1>3. CASE RegisterKeyObject(p) \/ SelectKeyId(p) \/ SelectObject(p) \/ Insert(p)
  BY <1>3 DEF RegisterKeyObject, SelectKeyId, SelectObject, Insert
<1>4. CASE GetKey(p) \/ UpdateKeyObject(p) \/ SelectStatus(p) \/ Commit(p)
  BY <1>4 DEF GetKey, UpdateKeyObject, SelectStatus, Commit
<1>5. CASE FindReferences(p) \/ ReadCert(p) \/ Destroy(p) \/ Create(p) \/ Generate(p)
  BY <1>5 DEF FindReferences, ReadCert, Destroy, Create, Generate
<1>6. CASE Finish(p) \/ AccessFails(p)
  BY <1>6 DEF Finish, AccessFails
<1> QED
  BY <1>1, <1>2, <1>3, <1>4, <1>5, <1>6 DEF Handle

\* A request that was written stays written, and is the request it was.
LEMMA WrittenStays ==
  ASSUME Inductive, [Next]_vars, NEW p \in Procs, p \in wrote
  PROVE  pc[p] # "idle" /\ p \in wrote' /\ req'[p] = req[p]
<1>1. pc[p] # "idle"
  BY DEF Inductive, ThreadInv, RequestInPlace
<1>2. ASSUME NEW q \in Procs, Handle(q) PROVE p \in wrote' /\ req'[p] = req[p]
  <2>1. p \in wrote'
    BY <1>2, Writers DEF Wrote
  <2>2. CASE q = p
    BY <1>1, <1>2, <2>1, <2>2, Signers DEF Receive
  <2>3. CASE q # p
    BY <1>2, <2>1, <2>3, OthersStand DEF OthersStill, Still, Inductive
  <2> QED
    BY <2>2, <2>3
<1> QED
  BY <1>1, <1>2 DEF Next, Tick, Quiescent, vars

\* What BindingVetted says of a row after the step.
Binder(p, row) ==
  /\ p \in wrote' /\ req'[p].op \in {"register", "update"}
  /\ req'[p].key = row.key
  /\ req'[p].cert = row.cert
  /\ keys'[row.object] # None
  /\ \E w \in seen'[p][row.cert] :
       Validate(w[1], row.role, keys'[row.object].pair.pub, w[2]) = "ok"

Sound(row) ==
  /\ row.role = "CSCA" => row.cert # None
  /\ row.cert # None => BoundBefore(row) \/ \E p \in Procs : Binder(p, row)

\* A row that stays bound as it was stays vetted.
LEMMA RowStaysVetted ==
  ASSUME CertInductive, Advances, [Next]_vars, NEW k \in KeyIds, registry[k] # None,
         registry'[k].cert = registry[k].cert
  PROVE  Sound(registry'[k])
<1> DEFINE row == registry[k]
<1>1. row \in Row /\ row \in Rows(registry)
  BY RowTyped DEF CertInductive, Rows
<1>2. /\ registry'[k].role = row.role
      /\ registry'[k].object = row.object
      /\ registry'[k].key = row.key
  BY DEF Advances, Remembers, Evolves, SameIdentity
<1>3. row.object \in Ids /\ row.cert \in Ids \cup {None}
  BY <1>1 DEF Row
<1>4. row.role = "CSCA" => row.cert # None
  BY <1>1 DEF CertInductive, BindingVetted
<1>5. CASE row.cert = None \/ BoundBefore(row)
  BY <1>2, <1>4, <1>5 DEF Sound, BoundBefore
<1>6. ASSUME row.cert # None, NEW p \in Procs, BoundBy(p, row)
      PROVE  Sound(registry'[k])
  <2>1. pc[p] # "idle" /\ p \in wrote' /\ req'[p] = req[p]
    BY <1>6, WrittenStays DEF BoundBy, Written, CertInductive
  <2>2. keys'[row.object] = keys[row.object] /\ keys[row.object] # None
    BY <1>3, <1>6 DEF BoundBy, Advances
  <2>3. \E w \in seen'[p][row.cert] :
          Validate(w[1], row.role, keys[row.object].pair.pub, w[2]) = "ok"
    BY <1>3, <1>6, <2>1, VettedStays DEF BoundBy, Advances
  <2>4. Binder(p, registry'[k])
    BY <1>2, <1>6, <2>1, <2>2, <2>3 DEF Binder, BoundBy, Written
  <2> QED
    BY <1>2, <1>4, <2>4 DEF Sound
<1> QED
  BY <1>1, <1>5, <1>6 DEF CertInductive, BindingVetted

LEMMA BindingsVetted ==
  ASSUME CertInductive, Inductive', Advances, [Next]_vars
  PROVE  BindingVetted'
<1>1. SUFFICES ASSUME NEW k \in KeyIds, registry'[k] # None
               PROVE  Sound(registry'[k])
  <2>1. ASSUME NEW row \in Rows(registry)' PROVE Sound(row)
    <3>1. PICK k \in KeyIds : row = registry'[k] /\ registry'[k] # None
      BY <2>1 DEF Rows
    <3> QED
      BY <1>1, <3>1
  <2> QED
    BY <2>1 DEF BindingVetted, Sound, Binder, BoundBy, BoundBefore, Written, Vetted
<1>2. ASSUME registry[k] # None, registry'[k].cert = registry[k].cert
      PROVE  Sound(registry'[k])
  BY <1>2, RowStaysVetted
<1>3. CASE UNCHANGED registry
  BY <1>1, <1>2, <1>3
<1>4. ASSUME NEW p \in Procs, Insert(p), ~UNCHANGED registry
      PROVE  Sound(registry'[k])
  <2>1. /\ pc[p] = "insert"
        /\ registry' = [registry EXCEPT ![req[p].key] = NewRow(p)]
        /\ p \in wrote' /\ UNCHANGED <<keys, req, seen>>
    BY <1>4 DEF Insert, Wrote, tokenVars, history
  <2>2. /\ req[p].op = "register" /\ req[p].key \in KeyIds
        /\ req[p].cert \in Ids \cup {None}
        /\ req[p].role = "CSCA" => req[p].cert # None
        /\ CertThread(p)
        /\ hkey[p] # None
    BY <2>1, AtWork, NoneAssumption DEF InHandler, CertInductive, ThreadInv, KeyHeld
  <2>3. CASE k # req[p].key
    BY <1>1, <1>2, <2>1, <2>3 DEF CertInductive, Inductive, TypeOK, Registry
  <2>4. CASE k = req[p].key
    <3>1. registry'[k] = NewRow(p)
      BY <2>1, <2>4 DEF CertInductive, Inductive, TypeOK, Registry
    <3>2. req[p].cert # None => Binder(p, NewRow(p))
      BY <2>1, <2>2 DEF NewRow, CertThread, RegistrationVetted, Vetted, Binder
    <3>3. Sound(NewRow(p))
      BY <2>2, <3>2 DEF NewRow, Sound
    <3> QED
      BY <3>1, <3>3
  <2> QED
    BY <2>3, <2>4
<1>5. ASSUME NEW p \in Procs, Commit(p) PROVE Sound(registry'[k])
  <2> DEFINE row == registry[req[p].key]
  <2>1. /\ pc[p] = "commit" /\ p \in wrote' /\ UNCHANGED <<keys, req, seen>>
        /\ CertThread(p) /\ ThreadInv(p)
        /\ registry' = [registry EXCEPT ![req[p].key] =
              IF req[p].op = "retire" THEN [row EXCEPT !.status = "RETIRED"]
                                      ELSE [row EXCEPT !.cert = req[p].cert]]
        /\ req[p].op \in {"retire", "update"} /\ req[p].key \in KeyIds /\ row \in Row
        /\ req[p].op = "update" => req[p].cert \in Ids
    BY <1>5, Committed DEF Commit, Wrote, tokenVars, history, CertInductive, Inductive
  <2>2. CASE k # req[p].key
    BY <1>1, <1>2, <2>1, <2>2 DEF CertInductive, Inductive, TypeOK, Registry
  <2>3. CASE k = req[p].key /\ req[p].op = "retire"
    <3>1. registry'[k].cert = row.cert /\ row # None
      BY <2>1, <2>3, NoneAssumption DEF CertInductive, Inductive, TypeOK, Registry, Row
    <3> QED
      BY <1>2, <2>3, <3>1
  <2>4. CASE k = req[p].key /\ req[p].op = "update"
    <3>1. registry'[k] = [row EXCEPT !.cert = req[p].cert]
      BY <2>1, <2>4 DEF CertInductive, Inductive, TypeOK, Registry
    <3>2. /\ registry'[k].cert = req[p].cert
          /\ registry'[k].role = row.role
          /\ registry'[k].object = row.object
          /\ registry'[k].key = req[p].key
      BY <1>1, <2>1, <2>4, <3>1 DEF Row, Inductive, TypeOK
    <3>3. row.role = entry[p].role /\ row.object = entry[p].object
      BY <2>1, <2>4 DEF ThreadInv, EntryInPlace, EntrySteps, SameIdentity, Crypting
    <3>4. /\ keys[row.object] # None
          /\ Vetted(p, req[p].cert, row.role, keys[row.object].pair.pub)
      BY <2>1, <2>4, <3>3 DEF CertThread, UpdateVetted
    <3>5. req[p].cert # None
      BY <2>1, <2>4, NoneAssumption
    <3>6. Binder(p, registry'[k])
      BY <2>1, <2>4, <3>2, <3>4 DEF Vetted, Binder
    <3> QED
      BY <3>2, <3>5, <3>6 DEF Sound
  <2> QED
    BY <2>1, <2>2, <2>3, <2>4
<1>6. UNCHANGED registry \/ \E p \in Procs : (Insert(p) /\ ~UNCHANGED registry) \/ Commit(p)
  BY Writers DEF Next, Tick, Quiescent, vars, shared
<1> QED
  BY <1>3, <1>4, <1>5, <1>6

LEMMA TailElements ==
  ASSUME NEW S, NEW s \in Seq(S), s # <<>>, NEW n \in DOMAIN Tail(s)
  PROVE  n + 1 \in DOMAIN s /\ Tail(s)[n] = s[n + 1]
  OBVIOUS

\* A certificate less is on the token.
LEMMA TailStored ==
  ASSUME certs \in CertStore, NEW id \in Ids, certs[id] # <<>>,
         certs' = [certs EXCEPT ![id] = Tail(@)], now' = now, NEW i \in Ids
  PROVE  StoredAt(i)' \subseteq StoredAt(i)
<1>1. ASSUME NEW n \in DOMAIN certs'[i]
      PROVE  \E m \in DOMAIN certs[i] : certs'[i][n] = certs[i][m]
  <2>1. CASE i = id
    <3>1. certs[i] \in Seq(Certs) /\ certs[i] # <<>> /\ certs'[i] = Tail(certs[i])
      BY <2>1 DEF CertStore
    <3>2. n + 1 \in DOMAIN certs[i] /\ certs'[i][n] = certs[i][n + 1]
      BY <1>1, <3>1, TailElements
    <3> QED
      BY <3>2
  <2>2. CASE i # id
    BY <1>1, <2>2 DEF CertStore
  <2> QED
    BY <2>1, <2>2
<1> QED
  BY <1>1 DEF StoredAt

\* Only a request that comes in goes into flight.
LEMMA TakesOff ==
  ASSUME Inductive, [Next]_vars, NEW p \in Procs,
         pc[p] \in {"idle", "done"}, pc'[p] \notin {"idle", "done"}
  PROVE  Receive(p)
<1>1. ASSUME NEW q \in Procs, Handle(q) PROVE Receive(p)
  <2>1. q = p
    BY <1>1, OthersStand DEF OthersStill, Still, Inductive
  <2> QED
    BY <1>1, <2>1 DEF Handle, Lookup, Validate_key, ValidateKeyObject, Unauthorized,
       Crypto, CheckCertificate, RegisterKeyObject, SelectKeyId, SelectObject, Insert,
       GetKey, UpdateKeyObject, SelectStatus, Commit, FindReferences, ReadCert, Destroy,
       Create, Generate, Finish, AccessFails, Accesses
<1> QED
  BY <1>1 DEF Next, Tick, Quiescent, vars

\* A request in flight sees what is stored, whoever stores it.
LEMMA StoredSeen ==
  ASSUME Inductive, SeesStored, [Next]_vars
  PROVE  SeesStored'
<1>1. SUFFICES ASSUME NEW p \in Procs, pc'[p] \notin {"idle", "done"}, NEW i \in Ids
               PROVE  StoredAt(i)' \subseteq seen'[p][i]
  BY DEF SeesStored
<1>2. Advances /\ TypeOK
  BY Advancing DEF Inductive
<1>3. CASE pc[p] \in {"idle", "done"}
  <2>1. Receive(p)
    BY <1>1, <1>3, TakesOff
  <2>2. seen'[p][i] = StoredAt(i) /\ UNCHANGED <<certs, now>>
    BY <1>2, <2>1 DEF Receive, TypeOK, shared, tokenVars
  <2> QED
    BY <2>2 DEF StoredAt
<1>4. CASE pc[p] \notin {"idle", "done"} /\ Witness
  BY <1>2, <1>4, Witnessed
<1>5. CASE pc[p] \notin {"idle", "done"} /\ ~Witness
  <2>1. now' = now
    BY <1>5, Writers DEF Next, Tick, Quiescent, vars, shared
  <2>2. StoredAt(i)' \subseteq StoredAt(i)
    <3>1. CASE UNCHANGED certs
      BY <2>1, <3>1 DEF StoredAt
    <3>2. ASSUME NEW q \in Procs, Create(q) \/ Destroy(q), ~UNCHANGED certs
          PROVE  StoredAt(i)' \subseteq StoredAt(i)
      <4>1. Destroy(q) /\ certs' = [certs EXCEPT ![req[q].id] = Tail(@)]
            /\ certs[req[q].id] # <<>>
        BY <1>5, <3>2 DEF Create, Destroy
      <4>2. req[q].id \in Ids
        BY <4>1, AtWork DEF Destroy, InHandler
      <4> QED
        BY <1>2, <2>1, <4>1, <4>2, TailStored DEF TypeOK
    <3>3. UNCHANGED certs \/ \E q \in Procs : Create(q) \/ Destroy(q)
      BY Writers DEF Next, Tick, Quiescent, vars, shared, tokenVars
    <3> QED
      BY <3>1, <3>2, <3>3
  <2>3. StoredAt(i) \subseteq seen[p][i] /\ seen[p][i] \subseteq seen'[p][i]
    BY <1>2, <1>5 DEF SeesStored, Advances, Remembers
  <2> QED
    BY <2>2, <2>3
<1> QED
  BY <1>3, <1>4, <1>5

----------------------------------------------------------------------------
LEMMA CertInitially == Init => CertInductive
<1> SUFFICES ASSUME Init PROVE CertInductive
  OBVIOUS
<1>1. Inductive
  BY Initially
<1>2. SeesStored
  BY DEF Init, SeesStored
<1>3. BindingVetted
  <2>1. ASSUME NEW row \in Rows(registry) PROVE BoundBefore(row)
    <3>1. PICK k \in KeyIds : row = InitRegistry[k] /\ row # None
      BY <2>1 DEF Rows, Init
    <3> QED
      BY <3>1, InitAssumption DEF BoundBefore
  <2> QED
    BY <2>1, InitAssumption DEF BindingVetted, Init
<1>4. ASSUME NEW p \in Procs PROVE CertThread(p) /\ SignerStays(p)
  <2>1. pc[p] = "idle" /\ signed[p] = None /\ p \notin wrote
    BY DEF Init
  <2> QED
    BY <2>1 DEF CertThread, KeyInPlace, RegistrationVetted, UpdateVetted, UseVetted,
       SignedVetted, WriteAccounted, SignerStays
<1> QED
  BY <1>1, <1>2, <1>3, <1>4 DEF CertInductive

\* What is known of one thread stands whoever makes the step.
LEMMA CertThreadStep ==
  ASSUME Inductive, SeesStored, [Next]_vars, NEW q \in Procs, CertThread(q)
  PROVE  CertThread(q)'
<1>1. Advances /\ CertKnown(q)
  BY Advancing DEF CertKnown
<1>2. ASSUME NEW p \in Procs, Handle(p) PROVE CertThread(q)'
  <2>1. CASE q = p
    BY <1>1, <1>2, <2>1, CertMover
  <2>2. CASE q # p
    BY <1>1, <1>2, <2>2, OthersStand, CertOthers DEF OthersStill, Inductive
  <2> QED
    BY <2>1, <2>2
<1>3. CASE Tick \/ Quiescent \/ UNCHANGED vars
  BY <1>1, <1>3, CertOthers DEF Tick, Quiescent, vars, Still, local, history
<1> QED
  BY <1>2, <1>3 DEF Next

\* The key pair that signed stays on the token.
LEMMA SignerStep ==
  ASSUME Inductive, Advances, [Next]_vars, NEW q \in Procs, SignerStays(q)
  PROVE  SignerStays(q)'
<1>1. TypeOK /\ ThreadInv(q)
  BY DEF Inductive
<1>2. CASE signed'[q] = signed[q] /\ (req'[q] = req[q] \/ signed[q] = None)
  <2>1. signed[q] # None => req[q].id \in Ids
    BY <1>1, AtWork DEF ThreadInv, SignedInPlace
  <2> QED
    BY <1>2, <2>1 DEF SignerStays, Advances
<1>3. CASE ~(signed'[q] = signed[q] /\ (req'[q] = req[q] \/ signed[q] = None))
  <2>1. PICK p \in Procs : Handle(p)
    BY <1>3 DEF Next, Tick, Quiescent, vars, history
  <2>2. q = p
    BY <1>1, <1>3, <2>1, OthersStand DEF OthersStill, Still
  <2>3. ~Receive(p)
    BY <1>1, <1>3, <2>2 DEF Receive, ThreadInv, RequestInPlace
  <2>4. Crypto(p) /\ ~UNCHANGED signed
    BY <1>3, <2>1, <2>2, <2>3, Signers
  <2>5. /\ keys[req[p].id] # None
        /\ signed' = [signed EXCEPT ![p] =
             [key |-> entry[p].key, cert |-> entry[p].cert, pair |-> keys[req[p].id].pair]]
        /\ UNCHANGED <<keys, req>>
    BY <2>4 DEF Crypto, shared, tokenVars
  <2> QED
    BY <1>1, <2>2, <2>5 DEF SignerStays, TypeOK
<1> QED
  BY <1>2, <1>3

LEMMA CertStepwise ==
  ASSUME CertInductive, [Next]_vars
  PROVE  CertInductive'
<1>1. Inductive /\ SeesStored /\ Inductive' /\ Advances
  BY Stepwise, Advancing DEF CertInductive
<1>2. BindingVetted' /\ SeesStored'
  BY <1>1, BindingsVetted, StoredSeen
<1>3. ASSUME NEW q \in Procs PROVE CertThread(q)' /\ SignerStays(q)'
  BY <1>1, CertThreadStep, SignerStep DEF CertInductive
<1> QED
  BY <1>1, <1>2, <1>3 DEF CertInductive

(***************************************************************************)
(* What every thread knows of certificates at each of its steps holds in   *)
(* every reachable state, whoever imports and deletes them meanwhile.      *)
(***************************************************************************)
THEOREM CertificateInvariantHolds == Spec => []CertInductive
<1>1. Init => CertInductive
  BY CertInitially
<1>2. CertInductive /\ [Next]_vars => CertInductive'
  BY CertStepwise
<1> QED
  BY <1>1, <1>2, PTL DEF Spec

(***************************************************************************)
(* A row is bound as an earlier life left it, or by a request during which *)
(* a certificate was stored there that met the policy for the row's role   *)
(* and key; and a CSCA row is always bound.                                *)
(***************************************************************************)
THEOREM BindingsAreVetted == Spec => []BindingVetted
<1>1. CertInductive => BindingVetted
  BY DEF CertInductive
<1> QED
  BY <1>1, CertificateInvariantHolds, PTL

(***************************************************************************)
(* A signature under a bound certificate is made with the key pair of one  *)
(* that met the policy at some moment of the request; a CSCA key never     *)
(* signs unbound.                                                          *)
(***************************************************************************)
THEOREM SignaturesCertified == Spec => []SignatureCertified
<1>1. CertInductive => SignatureCertified
  BY DEF CertInductive, CertThread, SignedVetted, SignatureCertified
<1> QED
  BY <1>1, CertificateInvariantHolds, PTL

(***************************************************************************)
(* Every signature is one that the row of its key permits, with the object *)
(* and the kind of key that were registered, and by the key pair that is   *)
(* still there.                                                            *)
(***************************************************************************)
THEOREM SignaturesLawful == Spec => []SignatureLawful
<1>1. CertInductive => SignatureLawful
  BY DEF CertInductive, Inductive, ThreadInv, SignedInPlace, PermittedFor, CertThread,
     SignedVetted, SignerStays, SignatureLawful, LawfulFor
<1> QED
  BY <1>1, CertificateInvariantHolds, PTL

(***************************************************************************)
(* A request refused with 400 or 404 has written to neither store, but for *)
(* a generated key that cannot be read back and an imported certificate    *)
(* whose key or names cannot be read; and no write is audited as DENIED.   *)
(***************************************************************************)
THEOREM RefusalsAreAccounted == Spec => []RefusalsAccounted
<1>1. CertInductive => RefusalsAccounted
  BY DEF CertInductive, Inductive, TypeOK, CertThread, WriteAccounted, RefusalsAccounted
<1> QED
  BY <1>1, CertificateInvariantHolds, PTL

----------------------------------------------------------------------------
\* The token as TokenStore sees it.

PairsNow == [i \in Ids |-> IF keys[i] = None THEN 0 ELSE 1]
CertificatesNow == [i \in Ids |-> Len(certs[i])]

LEMMA UsesTheToken ==
  ASSUME Inductive, [Next]_vars
  PROVE  \/ UNCHANGED <<PairsNow, CertificatesNow>>
         \/ TokenUse!Next
<1>0. /\ certs \in CertStore
      /\ keys \in KeyStore
      /\ \A i \in Ids : certs[i] \in Seq(Certs)
  BY DEF Inductive, TypeOK, CertStore
<1>1. CASE UNCHANGED <<keys, certs>>
  BY <1>1 DEF PairsNow, CertificatesNow
<1>2. ASSUME NEW p \in Procs, Generate(p), ~UNCHANGED keys PROVE TokenUse!Next
  <2>0. PICK id \in Ids : id = req[p].id
    BY <1>2, AtWork DEF Generate, InHandler
  <2>1. /\ certs' = certs /\ ~OnToken(id)
        /\ \E kp \in KeyPairs : keys' = [keys EXCEPT ![id] = [pair |-> kp, private |-> TRUE]]
    BY <1>2, <2>0 DEF Generate
  <2>2. PICK kp \in KeyPairs : keys' = [keys EXCEPT ![id] = [pair |-> kp, private |-> TRUE]]
    BY <2>1
  <2>3. [pair |-> kp, private |-> TRUE] # None
    <3>1. [pair |-> kp, private |-> TRUE] \in KeyObject
      BY DEF KeyObject
    <3> QED
      BY <3>1, NoneAssumption
  <2>4. PairsNow[id] = 0 /\ CertificatesNow[id] = 0
    BY <2>1 DEF OnToken, PairsNow, CertificatesNow
  <2>5. PairsNow' = [PairsNow EXCEPT ![id] = 1] /\ CertificatesNow' = CertificatesNow
    <3>1. keys'[id] # None /\ \A i \in Ids \ {id} : keys'[i] = keys[i]
      BY <1>0, <2>2, <2>3 DEF KeyStore
    <3> QED
      BY <2>1, <3>1 DEF PairsNow, CertificatesNow
  <2>6. TokenUse!Generate(id)
    BY <2>4, <2>5 DEF TokenUse!Generate, TokenUse!Unused, PairsNow, CertificatesNow
  <2> QED
    BY <2>6 DEF TokenUse!Next
<1>3. ASSUME NEW p \in Procs, Create(p), ~UNCHANGED certs PROVE TokenUse!Next
  <2>0. PICK id \in Ids : id = req[p].id
    BY <1>3, AtWork DEF Create, InHandler
  <2> DEFINE old == certs[id]
             new == req[p].cert
  <2>1. /\ new \in Certs /\ keys' = keys
        /\ \/ certs' = [certs EXCEPT ![id] = Append(old, new)]
           \/ certs' = [certs EXCEPT ![id] = <<new>> \o old]
    BY <1>3, <2>0, AtWork DEF Create, InHandler
  <2>2. Len(Append(old, new)) = Len(old) + 1 /\ Len(<<new>> \o old) = Len(old) + 1
    BY <1>0, <2>1
  <2>3. PairsNow' = PairsNow
        /\ CertificatesNow' = [CertificatesNow EXCEPT ![id] = @ + 1]
    BY <1>0, <2>1, <2>2 DEF PairsNow, CertificatesNow, CertStore
  <2>4. TokenUse!Import(id)
    BY <2>3 DEF TokenUse!Import, PairsNow, CertificatesNow
  <2> QED
    BY <2>4 DEF TokenUse!Next
<1>4. ASSUME NEW p \in Procs, Destroy(p), ~UNCHANGED certs PROVE TokenUse!Next
  <2>0. PICK id \in Ids : id = req[p].id
    BY <1>4, AtWork DEF Destroy, InHandler
  <2>1. /\ keys' = keys /\ certs[id] # <<>>
        /\ certs' = [certs EXCEPT ![id] = Tail(@)]
    BY <1>4, <2>0 DEF Destroy
  <2>2. Len(Tail(certs[id])) = Len(certs[id]) - 1 /\ Len(certs[id]) > 0
    BY <1>0, <2>1
  <2>3. PairsNow' = PairsNow
        /\ CertificatesNow' = [CertificatesNow EXCEPT ![id] = @ - 1]
        /\ CertificatesNow[id] > 0
    BY <1>0, <2>1, <2>2 DEF PairsNow, CertificatesNow, CertStore
  <2>4. TokenUse!Delete(id)
    BY <2>3 DEF TokenUse!Delete, PairsNow, CertificatesNow
  <2> QED
    BY <2>4 DEF TokenUse!Next
<1>5. \/ UNCHANGED <<keys, certs>>
      \/ \E p \in Procs : \/ Generate(p) /\ ~UNCHANGED keys
                          \/ (Create(p) \/ Destroy(p)) /\ ~UNCHANGED certs
  <2>1. ASSUME NEW p \in Procs, Handle(p)
        PROVE  \/ UNCHANGED <<keys, certs>>
               \/ Generate(p) /\ ~UNCHANGED keys
               \/ (Create(p) \/ Destroy(p)) /\ ~UNCHANGED certs
    BY <2>1, Writers
  <2> QED
    BY <2>1 DEF Next, Tick, Quiescent, vars, shared, tokenVars
<1> QED
  BY <1>1, <1>2, <1>3, <1>4, <1>5

(***************************************************************************)
(* The handlers together use the token only as TokenStore allows: a key is *)
(* generated under an id that no object has at that instant, a certificate *)
(* is deleted only where there is one.                                     *)
(***************************************************************************)
THEOREM UsesTokenAsPromised == Spec => TokenSpec
<1>1. Init => TokenUse!Init
  <2>1. ASSUME Init, NEW i \in Ids PROVE Len(certs[i]) \in Nat
    BY <2>1, Initially DEF Inductive, TypeOK, CertStore
  <2> QED
    BY <2>1 DEF TokenUse!Init
<1>2. Inductive /\ [Next]_vars => [TokenUse!Next]_<<PairsNow, CertificatesNow>>
  BY UsesTheToken
<1>3. QED
  BY <1>1, <1>2, InvariantHolds, PTL
     DEF Spec, TokenSpec, TokenUse!Spec, PairsNow, CertificatesNow

=============================================================================
