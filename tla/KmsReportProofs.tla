-------------------------- MODULE KmsReportProofs --------------------------
(***************************************************************************)
(* The integrity report while requests run, for every set of threads,      *)
(* requests, rows, keys and certificates.  The invariant is Reporting: it  *)
(* follows the check through its stages.  Steps of the requests preserve   *)
(* it because they write down in touched what they change; steps of the    *)
(* check because it changes only its own locals.                           *)
(***************************************************************************)
EXTENDS KmsReport, KmsProofs

\* What is found of a row depends on its own key and certificate only.
LEMMA SameIssues ==
  ASSUME NEW r, NEW ks1, NEW ks2, NEW cs1, NEW cs2, NEW t1, NEW t2,
         ks2[r.object] = ks1[r.object],
         r.cert # None => cs2[r.cert] = cs1[r.cert] /\ t2 = t1
  PROVE  /\ KeyIssues(r, ks2) = KeyIssues(r, ks1)
         /\ BindingIssues(r, ks2, cs2, t2) = BindingIssues(r, ks1, cs1, t1)
  BY DEF KeyIssues, BindingIssues, BoundOutcome

LEMMA FoundAdds ==
  ASSUME NEW types, NEW s, NEW r, Found(types, s)
  PROVE  /\ r.key # s.key => IssuesOf(r)' = IssuesOf(r)
         /\ r.key = s.key => IssuesOf(r)' = IssuesOf(r) \cup types
<1>1. issues' = issues \cup {[type |-> t, subject |-> s.key, status |-> s.status] : t \in types}
  BY DEF Found
<1>2. CASE r.key # s.key
  BY <1>1, <1>2 DEF IssuesOf
<1>3. CASE r.key = s.key
  <2> DEFINE new == {[type |-> t, subject |-> s.key, status |-> s.status] : t \in types}
  <2>1. \A x \in new : x.subject = r.key /\ x.type \in types
    BY <1>3
  <2>2. ASSUME NEW t \in types PROVE \E x \in new : x.subject = r.key /\ x.type = t
    <3>1. [type |-> t, subject |-> s.key, status |-> s.status] \in new
      OBVIOUS
    <3> QED
      BY <1>3, <3>1
  <2>3. issues' = issues \cup new
    BY <1>1
  <2> HIDE DEF new
  <2>4. ASSUME NEW t PROVE t \in IssuesOf(r)' <=> t \in IssuesOf(r) \cup types
    BY <2>1, <2>2, <2>3 DEF IssuesOf
  <2> QED
    BY <1>3, <2>4
<1> QED
  BY <1>2, <1>3

LEMMA RowsTyped ==
  ASSUME TypeOK, NEW r \in Rows(registry)
  PROVE  /\ r \in Row /\ r # None /\ r.key \in KeyIds /\ registry[r.key] = r
         /\ r.object \in Ids /\ r.cert \in Ids \cup {None}
<1>1. PICK k \in KeyIds : registry[k] = r /\ r # None
  BY DEF Rows
<1>2. r \in Row /\ r.key = k
  BY <1>1 DEF TypeOK, Registry
<1> QED
  BY <1>1, <1>2 DEF Row

LEMMA RowFields ==
  ASSUME NEW r \in Row
  PROVE  /\ r.key \in KeyIds /\ r.object \in Ids /\ r.cert \in Ids \cup {None}
         /\ r.status \in {"ACTIVE", "RETIRED"}
  BY DEF Row

\* Two rows bound to one certificate.
LEMMA BothRefer ==
  ASSUME NEW r \in Rows(registry), NEW s \in Rows(registry), NEW i \in Ids,
         r.cert = i, s.cert = i, r.key # s.key
  PROVE  i \in SharedIds(registry)
  BY DEF SharedIds

----------------------------------------------------------------------------
\* Steps of the requests.

LEMMA RequestsPreserve ==
  ASSUME Reporting, Inductive, Inductive', Note, UNCHANGED <<stage, locals, unread>>
  PROVE  Reporting'
<1> USE DEF locals
<1>0. TypeOK /\ TypeOK'
  BY DEF Inductive
<1>1. CASE stage = "objects"
  <2>1. touched' = touched /\ doubly' = doubly /\ ~Looking
    BY <1>1 DEF Note, Looking
  <2> QED
    BY <1>0, <1>1, <2>1 DEF Reporting, ReportTypeOK, StagesInOrder, Looking, CertificatesListed,
       RowsListed, Pending, RowsFollowed, ReferencesFollowed, DuplicatesSeen, MayRefer,
       IssuesOf
<1>2. CASE stage # "objects"
  <2>1. /\ touched' =
              [rows  |-> touched.rows \cup {k \in KeyIds : registry'[k] # registry[k]},
               keys  |-> touched.keys \cup {i \in Ids : keys'[i] # keys[i]},
               certs |-> touched.certs \cup {i \in Ids : certs'[i] # certs[i]},
               time  |-> touched.time \/ now' # now]
        /\ doubly' = doubly \cup SharedIds(registry')
    BY <1>2 DEF Note
  <2>2. touched \in [rows: SUBSET KeyIds, keys: SUBSET Ids, certs: SUBSET Ids, time: BOOLEAN]
    BY DEF Reporting, ReportTypeOK
  <2>3. /\ \A k \in KeyIds \ touched'.rows : k \notin touched.rows /\ registry'[k] = registry[k]
        /\ \A i \in Ids \ touched'.keys : i \notin touched.keys /\ keys'[i] = keys[i]
        /\ \A i \in Ids \ touched'.certs : i \notin touched.certs /\ certs'[i] = certs[i]
        /\ ~touched'.time => ~touched.time /\ now' = now
    BY <2>1, <2>2
  <2>4. ReportTypeOK'
    <3>1. /\ touched'.rows \in SUBSET KeyIds
          /\ touched'.keys \in SUBSET Ids
          /\ touched'.certs \in SUBSET Ids
      BY <2>1, <2>2
    <3>2. touched'.time \in BOOLEAN
      BY <2>1
    <3>3. touched' \in [rows: SUBSET KeyIds, keys: SUBSET Ids, certs: SUBSET Ids, time: BOOLEAN]
      BY <2>1, <3>1, <3>2
    <3>4. doubly' \in SUBSET Ids
      BY <2>1 DEF SharedIds, Reporting, ReportTypeOK
    <3> QED
      BY <1>0, <3>3, <3>4 DEF Reporting, ReportTypeOK
  <2>5. StagesInOrder'
    BY <1>2 DEF Reporting, StagesInOrder, Looking
  <2>6. CertificatesListed'
    BY <1>2, <2>3 DEF Reporting, CertificatesListed
  <2>7. RowsListed'
    <3>1. \A r \in Pending : r.key \in KeyIds
      BY RowFields DEF Reporting, ReportTypeOK, StagesInOrder, Pending
    <3> QED
      BY <2>3, <3>1 DEF Reporting, RowsListed, Pending, IssuesOf
  <2>8. RowsFollowed'
    <3> SUFFICES ASSUME Looking, NEW r \in Rows(registry)', AsItWas(r)'
                 PROVE  (r \in todo \/ AtCertificate(r) \/ Done(r))'
      BY DEF RowsFollowed, Looking
    <3>1. /\ r \in Row /\ r # None /\ r.key \in KeyIds /\ registry'[r.key] = r
          /\ r.object \in Ids /\ r.cert \in Ids \cup {None}
      <4>1. PICK k \in KeyIds : registry'[k] = r /\ r # None
        BY DEF Rows
      <4>2. r \in Row /\ r.key = k
        BY <1>0, <4>1 DEF TypeOK, Registry
      <4> QED
        BY <4>1, <4>2 DEF Row
    <3>2. registry[r.key] = r /\ r \in Rows(registry)
      BY <2>3, <3>1 DEF AsItWas, Rows
    <3>3. /\ keys'[r.object] = keys[r.object]
          /\ r.cert # None => certs'[r.cert] = certs[r.cert] /\ now' = now
      BY <2>3, <3>1 DEF AsItWas
    <3>4. AsItWas(r)
      BY <2>3, <3>1 DEF AsItWas
    <3>5. /\ KeyIssues(r, keys') = KeyIssues(r, keys)
          /\ BindingIssues(r, keys', certs', now') = BindingIssues(r, keys, certs, now)
      BY <3>3, SameIssues
    <3>6. r \in todo \/ AtCertificate(r) \/ Done(r)
      BY <3>2, <3>4 DEF Reporting, RowsFollowed
    <3>7. AtCertificate(r) => AtCertificate(r)'
      <4>1. AtCertificate(r) => r.cert # None
        BY NoneAssumption DEF AtCertificate, Reporting, StagesInOrder
      <4> QED
        BY <3>3, <3>5, <4>1 DEF AtCertificate, IssuesOf
    <3>8. Done(r) => Done(r)'
      BY <3>5 DEF Done, Expected, IssuesOf
    <3> QED
      BY <3>6, <3>7, <3>8
  <2>9. ReferencesFollowed'
    <3> SUFFICES ASSUME Looking, touched'.rows = {}, touched'.keys = {}, NEW i \in Ids
                 PROVE  (ReferredTo(i) = Referencing(registry, keys, i))'
      BY DEF ReferencesFollowed, Looking
    <3>1. registry' = registry
      BY <1>0, <2>3 DEF TypeOK, Registry
    <3>2. keys' = keys
      BY <1>0, <2>3 DEF TypeOK, KeyStore
    <3>3. touched.rows = {} /\ touched.keys = {}
      BY <2>1
    <3>4. ReferredTo(i) = Referencing(registry, keys, i)
      BY <3>3 DEF Reporting, ReferencesFollowed
    <3> QED
      BY <3>1, <3>2, <3>4 DEF ReferredTo, Referencing, Rows
  <2>10. DuplicatesSeen'
    BY <1>2, <2>1 DEF Reporting, DuplicatesSeen, MayRefer
  <2> QED
    BY <2>4, <2>5, <2>6, <2>7, <2>8, <2>9, <2>10 DEF Reporting
<1> QED
  BY <1>1, <1>2

----------------------------------------------------------------------------
\* Steps of the check.

LEMMA OverPreserves ==
  ASSUME Reporting, Over, UNCHANGED vars
  PROVE  Reporting'
<1>1. TypeOK'
  BY DEF Reporting, ReportTypeOK, TypeOK, Registry, vars, shared, tokenVars, local, history
<1>2. ReportTypeOK'
  BY <1>1 DEF Over, Reporting, ReportTypeOK, Untouched, NoneReferenced
<1>3. \A i \in Ids : MayRefer(i)' = {}
  BY DEF Over, MayRefer, NoneReferenced
<1> QED
  BY <1>2, <1>3 DEF Over, Reporting, StagesInOrder, Looking, CertificatesListed, RowsListed, Pending,
     RowsFollowed, ReferencesFollowed, DuplicatesSeen

LEMMA ListObjectsPreserves ==
  ASSUME Reporting, ListObjects
  PROVE  Reporting'
<1>0. UNCHANGED <<registry, keys, certs, now>>
  BY DEF ListObjects, vars, shared, tokenVars
<1>1. TypeOK'
  BY DEF ListObjects, Reporting, ReportTypeOK, TypeOK, Registry, vars, shared, tokenVars, local, history
<1>2. ReportTypeOK'
  BY <1>1 DEF ListObjects, Reporting, ReportTypeOK, SharedIds
<1>3. \A i \in Ids : MayRefer(i)' = {}
  BY DEF ListObjects, MayRefer, NoneReferenced, Reporting, StagesInOrder, Looking
<1> QED
  BY <1>0, <1>2, <1>3 DEF ListObjects, Reporting, StagesInOrder, Looking, CertificatesListed, RowsListed,
     Pending, RowsFollowed, ReferencesFollowed, DuplicatesSeen

LEMMA ListKeysPreserves ==
  ASSUME Reporting, ListKeys
  PROVE  Reporting'
<1>0. /\ UNCHANGED <<registry, keys, certs, now, hsm_certs, referenced, issues, touched, unread,
                    doubly>>
      /\ todo' = Rows(registry) /\ row' = None /\ key' = None
      /\ stage = "list" /\ stage' \in {"key", "summary"}
      /\ stage' = "summary" => todo' = {}
      /\ referenced = NoneReferenced /\ issues = {} /\ unread = {}
  BY DEF ListKeys, GoOn, vars, shared, tokenVars, Reporting, StagesInOrder, Looking
<1>1. TypeOK /\ TypeOK'
  BY DEF ListKeys, Reporting, ReportTypeOK, TypeOK, Registry, vars, shared, tokenVars, local, history
<1>2. ReportTypeOK'
  <2>1. Rows(registry) \subseteq Row
    BY <1>1, RowsTyped
  <2> QED
    BY <1>0, <1>1, <2>1 DEF Reporting, ReportTypeOK
<1>3. StagesInOrder' /\ CertificatesListed'
  BY <1>0 DEF StagesInOrder, CertificatesListed, Looking, Reporting
<1>4. RowsListed'
  BY <1>0, <1>1, RowsTyped DEF RowsListed, Pending, IssuesOf
<1>5. RowsFollowed'
  BY <1>0 DEF RowsFollowed, Rows
<1>7. ReferencesFollowed'
  <2>1. ASSUME NEW i \in Ids PROVE ReferredTo(i)' = Referencing(registry, keys, i)
    BY <1>0, <2>1 DEF ReferredTo, Referencing, NoneReferenced
  <2>2. ASSUME NEW i \in Ids PROVE Referencing(registry, keys, i)' = Referencing(registry, keys, i)
    BY <1>0 DEF Referencing, Rows
  <2> QED
    BY <2>1, <2>2 DEF ReferencesFollowed
<1>8. DuplicatesSeen'
  <2>1. SharedIds(registry) \subseteq doubly
    BY <1>0 DEF Reporting, DuplicatesSeen
  <2>2. SharedIds(registry)' = SharedIds(registry)
    BY <1>0 DEF SharedIds, Rows
  <2>3. ASSUME NEW i \in Ids, NEW j \in MayRefer(i)', NEW k \in MayRefer(i)', j # k
        PROVE  i \in doubly
    <3>1. MayRefer(i)' = {r.key : r \in {s \in Rows(registry) : s.cert = i}}
      BY <1>0 DEF MayRefer, NoneReferenced
    <3>2. PICK r \in Rows(registry) : r.cert = i /\ r.key = j
      BY <2>3, <3>1
    <3>3. PICK s \in Rows(registry) : s.cert = i /\ s.key = k
      BY <2>3, <3>1
    <3> QED
      BY <2>1, <2>3, <3>2, <3>3, BothRefer
  <2> QED
    BY <1>0, <2>1, <2>2, <2>3 DEF DuplicatesSeen
<1> QED
  BY <1>2, <1>3, <1>4, <1>5, <1>7, <1>8 DEF Reporting
\* One row looked at, with what was found of it.
LEMMA FoundTyped ==
  ASSUME Reporting, NEW types, NEW s \in Row, Found(types, s),
         types \subseteq {"MISSING_HSM_KEY", "KEY_PARAMETER_MISMATCH", "MISSING_PRIVATE_KEY",
                          "MISSING_HSM_CERTIFICATE", "UNPARSEABLE_CERTIFICATE",
                          "CERTIFICATE_POLICY_VIOLATION"}
  PROVE  issues' \in SUBSET Issue
<1>1. s.key \in KeyIds /\ s.status \in {"ACTIVE", "RETIRED"}
  BY RowFields
<1> QED
  BY <1>1 DEF Found, Issue, Reporting, ReportTypeOK

\* The stores are as they were.
LEMMA ReadOnly ==
  ASSUME Reporting, UNCHANGED vars
  PROVE  /\ TypeOK'
         /\ UNCHANGED <<registry, keys, certs, now>>
         /\ Rows(registry)' = Rows(registry)
         /\ SharedIds(registry)' = SharedIds(registry)
         /\ \A i : Referencing(registry, keys, i)' = Referencing(registry, keys, i)
         /\ \A r : KeyIssues(r, keys)' = KeyIssues(r, keys)
         /\ \A r : BindingIssues(r, keys, certs, now)' = BindingIssues(r, keys, certs, now)
<1>1. UNCHANGED <<registry, keys, certs, now>>
  BY DEF vars, shared, tokenVars
<1>2. TypeOK'
  BY DEF Reporting, ReportTypeOK, TypeOK, Registry, vars, shared, tokenVars, local, history
<1> QED
  BY <1>1, <1>2 DEF Rows, SharedIds, Referencing, KeyIssues, BindingIssues, BoundOutcome

\* A row of which the check reads the key, unless it ends the check.
LEMMA LookedAt ==
  ASSUME Reporting, UNCHANGED vars, stage = "key", NEW r \in todo,
         ~OtherAlgorithm(r, keys[r.object]),
         \/ KeyOnly(r, keys[r.object])
         \/ StaleBinding(r, keys[r.object])
         \/ Bound(r, keys[r.object]),
         UNCHANGED <<hsm_certs, touched, unread, doubly>>
  PROVE  Reporting'
<1> DEFINE obj == keys[r.object]
<1>0. /\ TypeOK' /\ UNCHANGED <<registry, keys, certs, now>>
      /\ Rows(registry)' = Rows(registry)
      /\ SharedIds(registry)' = SharedIds(registry)
      /\ \A i : Referencing(registry, keys, i)' = Referencing(registry, keys, i)
      /\ \A q : KeyIssues(q, keys)' = KeyIssues(q, keys)
      /\ \A q : BindingIssues(q, keys, certs, now)' = BindingIssues(q, keys, certs, now)
  BY ReadOnly
<1>1. /\ r \in Row /\ todo \in SUBSET Row
      /\ r.key \in KeyIds /\ r.object \in Ids /\ r.cert \in Ids \cup {None}
      /\ obj \in KeyObject \cup {None}
      /\ referenced \in [Ids -> SUBSET KeyIds]
  BY RowFields DEF Reporting, ReportTypeOK, TypeOK, KeyStore
<1>2. /\ todo' = todo \ {r}
      /\ stage' \in {"key", "cert", "summary"}
      /\ stage' = "summary" => todo' = {}
      /\ stage' = "cert" <=> Bound(r, obj)
      /\ row' = IF Bound(r, obj) THEN r ELSE None
      /\ key' = IF Bound(r, obj) THEN obj ELSE None
  BY DEF KeyOnly, StaleBinding, Bound, GoOn
<1>3. PICK types : /\ Found(types, r)
                   /\ types = IF StaleBinding(r, obj)
                              THEN KeyIssues(r, keys) \cup {"MISSING_HSM_CERTIFICATE"}
                              ELSE KeyIssues(r, keys)
  BY DEF KeyOnly, StaleBinding, Bound
<1>4. referenced' = IF obj = None \/ r.cert = None THEN referenced
                    ELSE [referenced EXCEPT ![r.cert] = @ \cup {r.key}]
  BY DEF KeyOnly, StaleBinding, Bound, Refer
<1>5. ReportTypeOK'
  <2>1. KeyIssues(r, keys) \subseteq {"MISSING_HSM_KEY", "KEY_PARAMETER_MISMATCH", "MISSING_PRIVATE_KEY"}
    BY DEF KeyIssues, OtherAlgorithm
  <2>2. issues' \in SUBSET Issue
    BY <1>1, <1>3, <2>1, FoundTyped
  <2>3. referenced' \in [Ids -> SUBSET KeyIds]
    BY <1>1, <1>4
  <2>4. row' \in Row \cup {None} /\ key' \in KeyObject \cup {None}
    BY <1>1, <1>2
  <2>5. todo' \in SUBSET Row
    BY <1>1, <1>2
  <2> QED
    BY <1>0, <1>2, <2>2, <2>3, <2>4, <2>5 DEF Reporting, ReportTypeOK
<1>6. StagesInOrder' /\ CertificatesListed'
  <2>1. Bound(r, obj) => obj \in KeyObject /\ r.cert \in Ids
    BY <1>1 DEF Bound
  <2> QED
    BY <1>0, <1>1, <1>2, <2>1 DEF Reporting, StagesInOrder, CertificatesListed, Looking
<1>7. /\ \A q \in todo' : q \in todo /\ q.key # r.key
      /\ \A q : q.key # r.key => IssuesOf(q)' = IssuesOf(q)
      /\ \A q : q.key = r.key => IssuesOf(q)' = IssuesOf(q) \cup types
      /\ \A q \in todo : IssuesOf(q) = {}
  BY <1>2, <1>3, FoundAdds DEF Reporting, RowsListed
<1>8. RowsListed'
  <2>1. \A q \in todo : q.key \in touched.rows \/ registry[q.key] = q
    BY DEF Reporting, RowsListed, Pending
  <2> QED
    BY <1>0, <1>2, <1>7, <2>1 DEF Reporting, RowsListed, Pending
<1>9. RowsFollowed'
  <2> SUFFICES ASSUME NEW q \in Rows(registry), AsItWas(q)
               PROVE  (q \in todo \/ AtCertificate(q) \/ Done(q))'
    BY <1>0 DEF RowsFollowed, AsItWas
  <2>0. registry[q.key] = q /\ q \in Row
    BY RowsTyped DEF Reporting, ReportTypeOK
  <2>1. q \in todo \/ Done(q)
    BY DEF Reporting, RowsFollowed, Looking, AtCertificate
  <2>2. q.key = r.key => q = r
    BY <2>0 DEF AsItWas, Reporting, RowsListed, Pending
  <2>3. CASE q.key # r.key
    <3>1. q # r /\ IssuesOf(q)' = IssuesOf(q)
      BY <1>7, <2>3
    <3> QED
      BY <1>0, <1>2, <2>1, <3>1 DEF Done, Expected
  <2>4. CASE q = r
    <3>1. IssuesOf(r)' = types /\ r.key \notin unread
      BY <1>7 DEF Reporting, RowsListed, Pending
    <3>2. r.cert # None => (r.cert \in hsm_certs <=> certs[r.cert] # <<>>)
      BY <1>1, <2>4 DEF AsItWas, Reporting, CertificatesListed
    <3>3. CASE Bound(r, obj)
      BY <1>0, <1>2, <1>3, <2>4, <3>1, <3>2, <3>3 DEF AtCertificate, Bound, StaleBinding
    <3>4. CASE StaleBinding(r, obj)
      <4>1. BindingIssues(r, keys, certs, now) = {"MISSING_HSM_CERTIFICATE"}
        BY <3>2, <3>4 DEF StaleBinding, BindingIssues
      <4> QED
        BY <1>0, <1>2, <1>3, <2>4, <3>1, <3>4, <4>1 DEF Done, Expected, Bound, StaleBinding
    <3>5. CASE KeyOnly(r, obj)
      <4>1. BindingIssues(r, keys, certs, now) = {}
        BY <3>5 DEF KeyOnly, BindingIssues
      <4> QED
        BY <1>0, <1>2, <1>3, <2>4, <3>1, <3>5, <4>1
           DEF Done, Expected, Bound, StaleBinding, KeyOnly
    <3> QED
      BY <3>3, <3>4, <3>5
  <2> QED
    BY <2>2, <2>3, <2>4
<1>10. ReferencesFollowed'
  <2> SUFFICES ASSUME touched.rows = {}, touched.keys = {}, NEW i \in Ids
               PROVE  ReferredTo(i)' = ReferredTo(i)
    BY <1>0 DEF Reporting, ReferencesFollowed, Looking
  <2> DEFINE Left(rs) == {q.key : q \in {s \in rs : s.cert = i /\ keys[s.object] # None}}
  <2>1. ReferredTo(i) = referenced[i] \cup Left(todo)
        /\ ReferredTo(i)' = referenced'[i] \cup Left(todo')
    BY <1>0 DEF ReferredTo
  <2>2. CASE r.cert = i /\ obj # None
    <3>1. referenced'[i] = referenced[i] \cup {r.key}
      BY <1>1, <1>4, <2>2, NoneAssumption
    <3>2. Left(todo) = Left(todo') \cup {r.key}
      BY <1>2, <2>2
    <3> QED
      BY <2>1, <3>1, <3>2
  <2>3. CASE ~(r.cert = i /\ obj # None)
    <3>1. referenced'[i] = referenced[i]
      BY <1>1, <1>4, <2>3
    <3>2. Left(todo) = Left(todo')
      BY <1>2, <2>3
    <3> QED
      BY <2>1, <3>1, <3>2
  <2> QED
    BY <2>2, <2>3
<1>11. DuplicatesSeen'
  <2>1. ASSUME NEW i \in Ids PROVE MayRefer(i)' \subseteq MayRefer(i)
    <3> DEFINE Left(rs) == {q.key : q \in {s \in rs : s.cert = i}}
    <3>1. Left(todo') \subseteq Left(todo)
      BY <1>2
    <3>2. referenced'[i] \subseteq referenced[i] \cup Left(todo)
      BY <1>1, <1>4
    <3> QED
      BY <3>1, <3>2 DEF MayRefer
  <2> QED
    BY <1>0, <2>1 DEF Reporting, DuplicatesSeen
<1> QED
  BY <1>5, <1>6, <1>8, <1>9, <1>10, <1>11 DEF Reporting

LEMMA ReadKeyPreserves ==
  ASSUME Reporting, ReadKey
  PROVE  Reporting'
  BY LookedAt, OverPreserves DEF ReadKey

\* What is found of the certificate of a row, and the loop goes on.
LEMMA Followed ==
  ASSUME Reporting, UNCHANGED vars, stage = "cert", GoOn(todo),
         NEW types, Found(types, row),
         types \subseteq {"UNPARSEABLE_CERTIFICATE", "CERTIFICATE_POLICY_VIOLATION"},
         UNCHANGED <<hsm_certs, referenced, touched, doubly>>,
         \/ unread' = unread \cup {row.key} /\ types = {"UNPARSEABLE_CERTIFICATE"}
         \/ /\ unread' = unread
            /\ key = keys[row.object] /\ certs[row.cert] # <<>> =>
                 types = BindingIssues(row, keys, certs, now)
  PROVE  Reporting'
<1>0. /\ TypeOK' /\ UNCHANGED <<registry, keys, certs, now>>
      /\ Rows(registry)' = Rows(registry)
      /\ SharedIds(registry)' = SharedIds(registry)
      /\ \A i : Referencing(registry, keys, i)' = Referencing(registry, keys, i)
      /\ \A q : KeyIssues(q, keys)' = KeyIssues(q, keys)
      /\ \A q : BindingIssues(q, keys, certs, now)' = BindingIssues(q, keys, certs, now)
  BY ReadOnly
<1>1. PICK r \in Row : r = row
  BY DEF Reporting, StagesInOrder
<1>2. /\ todo' = todo /\ row' = None /\ key' = None
      /\ stage' \in {"key", "summary"}
      /\ stage' = "summary" => todo' = {}
      /\ r.key \in KeyIds
  BY <1>1, RowFields DEF GoOn
<1>3. \A q : q.key # r.key => Expected(q)' = Expected(q)
  BY <1>0, <1>1 DEF Expected
<1>4. AtCertificate(r) => KeyIssues(r, keys) \cup types = Expected(r)'
  <2>1. r.key \notin unread
    BY <1>1 DEF Reporting, RowsListed, Pending
  <2> QED
    BY <1>0, <1>1, <2>1 DEF AtCertificate, Expected
<1>5. ReportTypeOK'
  <2>1. issues' \in SUBSET Issue
    BY <1>1, FoundTyped
  <2> QED
    BY <1>0, <1>1, <1>2, <2>1 DEF Reporting, ReportTypeOK
<1>6. StagesInOrder' /\ CertificatesListed'
  BY <1>0, <1>2 DEF Reporting, StagesInOrder, CertificatesListed, Looking
<1>7. /\ \A q : q.key # r.key => IssuesOf(q)' = IssuesOf(q)
      /\ \A q : q.key = r.key => IssuesOf(q)' = IssuesOf(q) \cup types
      /\ \A q \in todo : q.key # r.key
  BY <1>1, FoundAdds DEF Reporting, RowsListed
<1>8. RowsListed'
  BY <1>0, <1>1, <1>2, <1>7 DEF Reporting, RowsListed, Pending
<1>9. RowsFollowed'
  <2> SUFFICES ASSUME NEW q \in Rows(registry), AsItWas(q)'
               PROVE  (q \in todo \/ AtCertificate(q) \/ Done(q))'
    BY <1>0 DEF RowsFollowed
  <2>0. registry[q.key] = q /\ q \in Row
    BY RowsTyped DEF Reporting, ReportTypeOK
  <2>1. AsItWas(q)
    BY DEF AsItWas
  <2>2. q \in todo \/ AtCertificate(q) \/ Done(q)
    BY <2>1 DEF Reporting, RowsFollowed, Looking
  <2>3. CASE q.key # r.key
    BY <1>0, <1>1, <1>2, <1>3, <1>7, <2>2, <2>3 DEF Done, AtCertificate
  <2>4. CASE q.key = r.key
    <3>1. q = r
      BY <1>1, <2>0, <2>1, <2>4 DEF AsItWas, Reporting, RowsListed, Pending
    <3>2. AtCertificate(r)
      BY <1>1, <1>7, <2>2, <3>1 DEF Done
    <3>3. KeyIssues(r, keys) \cup types = Expected(r)'
      BY <1>4, <3>2
    <3>4. IssuesOf(r)' = IssuesOf(r) \cup types
      BY <1>7
    <3> QED
      BY <1>0, <1>2, <3>1, <3>2, <3>3, <3>4 DEF Done, AtCertificate
  <2> QED
    BY <2>3, <2>4
<1>10. ReferencesFollowed'
  <2>1. \A i \in Ids : ReferredTo(i)' = ReferredTo(i)
    BY <1>0, <1>2 DEF ReferredTo
  <2> QED
    BY <1>0, <2>1 DEF Reporting, ReferencesFollowed, Looking
<1>11. DuplicatesSeen'
  <2>1. \A i \in Ids : MayRefer(i)' = MayRefer(i)
    BY <1>2 DEF MayRefer
  <2> QED
    BY <1>0, <2>1 DEF Reporting, DuplicatesSeen
<1> QED
  BY <1>5, <1>6, <1>8, <1>9, <1>10, <1>11 DEF Reporting

LEMMA ReadCertificatePreserves ==
  ASSUME Reporting, ReadCertificate
  PROVE  Reporting'
<1> DEFINE outcome == CertOutcome(row, key)
           types == CASE outcome = "ok" -> {}
                      [] outcome = "CertificatePolicyError" -> {"CERTIFICATE_POLICY_VIOLATION"}
                      [] OTHER -> {outcome}
<1>1. UNCHANGED vars /\ stage = "cert" /\ row \in Row /\ key \in KeyObject /\ row.cert \in Ids
  BY DEF ReadCertificate, Reporting, StagesInOrder
<1>2. CASE Over
  BY <1>1, <1>2, OverPreserves
<1>3. CASE ~Over
  <2>1. /\ outcome \in Handled
        /\ Found(types, row)
        /\ GoOn(todo)
        /\ UNCHANGED <<hsm_certs, referenced, touched, unread, doubly>>
    BY <1>3 DEF ReadCertificate
  <2>2. outcome \in {"ok", "CertificatePolicyError", "UNPARSEABLE_CERTIFICATE"}
    BY <2>1 DEF Handled
  <2>3. types \subseteq {"UNPARSEABLE_CERTIFICATE", "CERTIFICATE_POLICY_VIOLATION"}
    BY <2>2
  <2>4. ASSUME key = keys[row.object], certs[row.cert] # <<>>
        PROVE  types = BindingIssues(row, keys, certs, now)
    <3>1. keys[row.object] # None /\ row.cert # None
      BY <1>1, <2>4, NoneAssumption
    <3>2. CASE Head(certs[row.cert]).keyType = "garbage"
      BY <2>4, <3>1, <3>2 DEF CertOutcome, BindingIssues
    <3>3. CASE Head(certs[row.cert]).keyType # "garbage"
      <4>1. outcome = BoundOutcome(row, keys, certs, now)
        BY <2>4, <3>3 DEF CertOutcome, BoundOutcome
      <4>2. outcome \in {"ok", "CertificatePolicyError"}
        BY <2>2, <2>4, <3>3 DEF CertOutcome, Validate, PublicKeyError, SelfSignedError,
             ExtensionsError
      <4> QED
        BY <2>4, <3>1, <3>3, <4>1, <4>2 DEF BindingIssues
    <3> QED
      BY <3>2, <3>3
  <2> QED
    BY <1>1, <2>1, <2>3, <2>4, Followed
<1> QED
  BY <1>2, <1>3

LEMMA ReportFailsPreserves ==
  ASSUME Reporting, ReportFails
  PROVE  Reporting'
<1>1. CASE Over
  BY <1>1, OverPreserves DEF ReportFails
<1>2. CASE ~Over
  BY <1>2, Followed DEF ReportFails
<1> QED
  BY <1>1, <1>2

----------------------------------------------------------------------------
LEMMA ReportInitially == ReportInit => Inductive /\ Reporting
<1> SUFFICES ASSUME ReportInit PROVE Inductive /\ Reporting
  OBVIOUS
<1>1. Inductive /\ TypeOK
  BY Initially DEF ReportInit, Inductive
<1>2. \A i \in Ids : MayRefer(i) = {}
  BY DEF ReportInit, MayRefer, NoneReferenced
<1>3. ReportTypeOK
  BY <1>1 DEF ReportInit, ReportTypeOK, NoneReferenced, Untouched
<1> QED
  BY <1>1, <1>2, <1>3 DEF ReportInit, Reporting, StagesInOrder, Looking, CertificatesListed,
     RowsListed, Pending, RowsFollowed, ReferencesFollowed, DuplicatesSeen

LEMMA ReportStepwise ==
  ASSUME Inductive, Reporting, [ReportNext]_reportVars
  PROVE  Inductive' /\ Reporting'
<1>1. CASE Check
  <2>1. UNCHANGED vars
    BY <1>1 DEF Check, ListObjects, ListKeys, ReadKey, ReadCertificate, Summary, ReportFails
  <2>2. Inductive'
    BY <2>1, Stepwise
  <2>3. Reporting'
    BY <1>1, ListObjectsPreserves, ListKeysPreserves, ReadKeyPreserves,
       ReadCertificatePreserves, OverPreserves, ReportFailsPreserves DEF Check, Summary
  <2> QED
    BY <2>2, <2>3
<1>2. CASE Next /\ Note /\ UNCHANGED <<stage, locals, unread>>
  <2>1. Inductive'
    BY <1>2, Stepwise
  <2> QED
    BY <1>2, <2>1, RequestsPreserve
<1>3. CASE UNCHANGED reportVars
  <2>1. UNCHANGED vars /\ Inductive'
    BY <1>3, Stepwise DEF reportVars
  <2>2. /\ TypeOK' /\ UNCHANGED <<registry, keys, certs, now>>
        /\ Rows(registry)' = Rows(registry)
        /\ SharedIds(registry)' = SharedIds(registry)
        /\ \A i : Referencing(registry, keys, i)' = Referencing(registry, keys, i)
        /\ \A q : KeyIssues(q, keys)' = KeyIssues(q, keys)
        /\ \A q : BindingIssues(q, keys, certs, now)' = BindingIssues(q, keys, certs, now)
    BY <2>1, ReadOnly
  <2>3. UNCHANGED <<stage, locals, touched, unread, doubly>>
    BY <1>3 DEF reportVars
  <2>4. ReportTypeOK' /\ StagesInOrder' /\ CertificatesListed' /\ RowsListed'
    BY <2>2, <2>3 DEF locals, Reporting, ReportTypeOK, StagesInOrder, Looking,
       CertificatesListed, RowsListed, Pending, IssuesOf
  <2>5. RowsFollowed'
    BY <2>2, <2>3 DEF locals, Reporting, RowsFollowed, Looking, AsItWas, AtCertificate, Done,
       Expected, IssuesOf
  <2>6. ReferencesFollowed' /\ DuplicatesSeen'
    BY <2>2, <2>3 DEF locals, Reporting, ReferencesFollowed, Looking, ReferredTo,
       DuplicatesSeen, MayRefer
  <2> QED
    BY <2>1, <2>4, <2>5, <2>6 DEF Reporting
<1> QED
  BY <1>1, <1>2, <1>3 DEF ReportNext

LEMMA ReportInvariant == ReportSpec => [](Inductive /\ Reporting)
<1>1. ReportInit => Inductive /\ Reporting
  BY ReportInitially
<1>2. (Inductive /\ Reporting) /\ [ReportNext]_reportVars => (Inductive /\ Reporting)'
  BY ReportStepwise
<1> QED
  BY <1>1, <1>2, PTL DEF ReportSpec

(***************************************************************************)
(* At each of its stages, what check_integrity holds in its locals is true *)
(* of whatever no request has touched since it began.                      *)
(***************************************************************************)
THEOREM ReportingHolds == ReportSpec => []Reporting
<1> QED
  BY ReportInvariant, PTL

(***************************************************************************)
(* Every variable of the check has its type.                               *)
(***************************************************************************)
THEOREM ReportTyped == ReportSpec => []ReportTypeOK
<1>1. Reporting => ReportTypeOK
  BY DEF Reporting
<1> QED
  BY <1>1, ReportInvariant, PTL

(***************************************************************************)
(* Of a row that no request touched the report says exactly what is true,  *)
(* unless the token failed to give its certificate.                        *)
(***************************************************************************)
THEOREM ReportExactOnRows == ReportSpec => []UntouchedRowsExact
<1>1. Reporting => UntouchedRowsExact
  BY DEF Reporting, StagesInOrder, RowsFollowed, Looking, AtCertificate, Done, UntouchedRowsExact
<1> QED
  BY <1>1, ReportInvariant, PTL

(***************************************************************************)
(* And of a certificate id that no request touched, while no row and no    *)
(* key changed, whether it is unreferenced or referenced twice.            *)
(***************************************************************************)
THEOREM ReportExactOnInventory == ReportSpec => []UntouchedInventoryExact
<1>1. ASSUME Reporting, stage = "summary", touched.rows = {}, touched.keys = {},
             NEW i \in Ids \ touched.certs
      PROVE  /\ i \in hsm_certs <=> certs[i] # <<>>
             /\ referenced[i] = Referencing(registry, keys, i)
  <2>1. i \in hsm_certs <=> certs[i] # <<>>
    BY <1>1 DEF Reporting, CertificatesListed
  <2>2. ReferredTo(i) = referenced[i]
    BY <1>1 DEF Reporting, StagesInOrder, ReferredTo
  <2>3. ReferredTo(i) = Referencing(registry, keys, i)
    BY <1>1 DEF Reporting, ReferencesFollowed, Looking
  <2> QED
    BY <2>1, <2>2, <2>3
<1>2. Reporting => UntouchedInventoryExact
  BY <1>1 DEF UntouchedInventoryExact, InventoryIssues, Duplicates
<1> QED
  BY <1>2, ReportInvariant, PTL

(***************************************************************************)
(* Two rows reported to share a certificate have shared it at one moment   *)
(* of the report.                                                          *)
(***************************************************************************)
THEOREM DuplicatesAreReal == ReportSpec => []DuplicatesGrounded
<1>1. Reporting => DuplicatesGrounded
  BY DEF Reporting, DuplicatesSeen, MayRefer, DuplicatesGrounded, Duplicates
<1> QED
  BY <1>1, ReportInvariant, PTL

=============================================================================
