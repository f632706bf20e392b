----------------------------- MODULE KmsReport -----------------------------
(***************************************************************************)
(* GET /v1/integrity and GET /v1/integrity/certificates while the other    *)
(* requests run: check_integrity access by access.  It lists the           *)
(* certificates of the token, then the rows of the registry, then asks the *)
(* token for the key and the certificate of each row, and holds what it    *)
(* learned in locals meanwhile.  Integrity has the same check as a function*)
(* of one state.                                                           *)
(***************************************************************************)
EXTENDS Kms

VARIABLES
  stage,        \* the next access of the check
  hsm_certs,    \* ids of the certificates it listed
  todo,         \* rows it listed and has not looked at yet
  row,          \* the row whose certificate it reads next
  key,          \* the key description of that row
  referenced,   \* keys it found bound, by certificate id
  issues,       \* what it has found so far
  touched,      \* history: what changed under it since its first access
  unread,       \* history: rows whose certificate the token failed to give
  doubly        \* history: ids that two rows were bound to at some moment

locals == <<hsm_certs, todo, row, key, referenced, issues>>
reportVars == <<vars, stage, locals, touched, unread, doubly>>

Issue == [type: {"MISSING_HSM_KEY", "KEY_PARAMETER_MISMATCH", "MISSING_PRIVATE_KEY",
                 "MISSING_HSM_CERTIFICATE", "UNPARSEABLE_CERTIFICATE",
                 "CERTIFICATE_POLICY_VIOLATION"},
          subject: KeyIds, status: {"ACTIVE", "RETIRED"}]

Untouched == [rows |-> {}, keys |-> {}, certs |-> {}, time |-> FALSE]

ReportTypeOK ==
  /\ TypeOK
  /\ stage \in {"objects", "list", "key", "cert", "summary"}
  /\ hsm_certs \in SUBSET Ids
  /\ todo \in SUBSET Row
  /\ row \in Row \cup {None}
  /\ key \in KeyObject \cup {None}
  /\ referenced \in [Ids -> SUBSET KeyIds]
  /\ issues \in SUBSET Issue
  /\ touched \in [rows: SUBSET KeyIds, keys: SUBSET Ids, certs: SUBSET Ids, time: BOOLEAN]
  /\ unread \in SUBSET KeyIds
  /\ doubly \in SUBSET Ids

NoneReferenced == [i \in Ids |-> {}]

ReportInit ==
  /\ Init
  /\ stage = "objects"
  /\ hsm_certs = {} /\ todo = {} /\ row = None /\ key = None
  /\ referenced = NoneReferenced
  /\ issues = {}
  /\ touched = Untouched /\ unread = {} /\ doubly = {}

\* Mutant: what was bound in the last report is remembered.
OverRemembering ==
  /\ stage' = "objects"
  /\ hsm_certs' = {} /\ todo' = {} /\ row' = None /\ key' = None
  /\ issues' = {}
  /\ touched' = Untouched /\ unread' = {} /\ doubly' = {}
  /\ UNCHANGED referenced

\* The answer, or an exception answered with 503: the locals are gone.
Over ==
  /\ stage' = "objects"
  /\ hsm_certs' = {} /\ todo' = {} /\ row' = None /\ key' = None
  /\ referenced' = NoneReferenced
  /\ issues' = {}
  /\ touched' = Untouched /\ unread' = {} /\ doubly' = {}

----------------------------------------------------------------------------
\* The check.  It changes nothing that is shared.

\* Ids that two rows are bound to.
SharedIds(reg) ==
  {i \in Ids : \E r, s \in Rows(reg) : r.key # s.key /\ r.cert = i /\ s.cert = i}

\* objects(1): one look at all certificates.
ListObjects ==
  /\ stage = "objects"
  /\ stage' = "list"
  /\ hsm_certs' = {i \in Ids : certs[i] # <<>>}
  /\ doubly' = SharedIds(registry)
  /\ UNCHANGED <<vars, todo, row, key, referenced, issues, touched, unread>>

\* The loop goes on to the next row; after the last one the summary asks the
\* registry once more how many rows it has.
GoOn(rest) ==
  /\ stage' = IF rest = {} THEN "summary" ELSE "key"
  /\ todo' = rest
  /\ row' = None
  /\ key' = None

ListKeys ==
  /\ stage = "list"
  /\ GoOn(Rows(registry))
  /\ UNCHANGED <<vars, hsm_certs, referenced, issues, touched, unread, doubly>>

Found(types, r) ==
  issues' = issues \cup {[type |-> t, subject |-> r.key, status |-> r.status] : t \in types}

\* Mutant: the object_id of the row instead of its key_id.
ReferObject(r) == referenced' = [referenced EXCEPT ![r.cert] = @ \cup {r.object}]

\* Mutant: the key found last replaces the ones found before.
ReferLast(r) == referenced' = [referenced EXCEPT ![r.cert] = {r.key}]

Refer(r) == referenced' = [referenced EXCEPT ![r.cert] = @ \cup {r.key}]

\* Mutant: a row without a certificate is left before its key is compared.
KeyOnlySkipping(r, obj) ==
  /\ obj = None \/ r.cert = None
  /\ Found(IF obj = None THEN {"MISSING_HSM_KEY"} ELSE {}, r)
  /\ GoOn(todo \ {r})
  /\ UNCHANGED referenced

\* The row has no key to look at, or no certificate.
KeyOnly(r, obj) ==
  /\ obj = None \/ r.cert = None
  /\ Found(KeyIssues(r, keys), r)
  /\ GoOn(todo \ {r})
  /\ UNCHANGED referenced

\* Mutant: the stale binding is reported before it is written down.
StaleBindingFirst(r, obj) ==
  /\ obj # None /\ r.cert # None
  /\ r.cert \notin hsm_certs
  /\ Found(KeyIssues(r, keys) \cup {"MISSING_HSM_CERTIFICATE"}, r)
  /\ GoOn(todo \ {r})
  /\ UNCHANGED referenced

\* The certificate is not on the list made at the beginning.
StaleBinding(r, obj) ==
  /\ obj # None /\ r.cert # None
  /\ r.cert \notin hsm_certs
  /\ Refer(r)
  /\ Found(KeyIssues(r, keys) \cup {"MISSING_HSM_CERTIFICATE"}, r)
  /\ GoOn(todo \ {r})

Bound(r, obj) ==
  /\ obj # None /\ r.cert # None
  /\ r.cert \in hsm_certs
  /\ Refer(r)
  /\ Found(KeyIssues(r, keys), r)
  /\ stage' = "cert"
  /\ todo' = todo \ {r}
  /\ row' = r
  /\ key' = obj

OtherAlgorithm(r, obj) == obj # None /\ obj.pair.alg # r.alg

\* hsm.key(object_id), rows by key_id; a key of another algorithm is described
\* by other fields than the ones read, a KeyError that nothing catches.
ReadKey ==
  /\ stage = "key"
  /\ \E r \in todo :
       LET obj == keys[r.object] IN
       \/ OtherAlgorithm(r, obj) /\ Over
       \/ /\ ~OtherAlgorithm(r, obj)
          /\ KeyOnly(r, obj) \/ StaleBinding(r, obj) \/ Bound(r, obj)
          /\ UNCHANGED <<hsm_certs, touched, unread, doubly>>
  /\ UNCHANGED vars

\* What becomes of the stored bytes: a certificate that is no longer there is
\* one that cannot be parsed.
CertOutcome(r, obj) ==
  IF certs[r.cert] = <<>> \/ Head(certs[r.cert]).keyType = "garbage"
  THEN "UNPARSEABLE_CERTIFICATE"
  ELSE Validate(Head(certs[r.cert]), r.role, obj.pair.pub, now)

\* What becomes an issue, or nothing; the check catches no other exception of
\* the policy.
Handled == {"ok", "CertificatePolicyError", "UNPARSEABLE_CERTIFICATE"}

\* hsm.cert(certificate_id), and the policy.
ReadCertificate ==
  /\ stage = "cert"
  /\ LET outcome == CertOutcome(row, key) IN
     \/ outcome \notin Handled /\ Over
     \/ /\ outcome \in Handled
        /\ Found(CASE outcome = "ok" -> {}
                   [] outcome = "CertificatePolicyError" -> {"CERTIFICATE_POLICY_VIOLATION"}
                   [] OTHER -> {outcome}, row)
        /\ GoOn(todo)
        /\ UNCHANGED <<hsm_certs, referenced, touched, unread, doubly>>
  /\ UNCHANGED vars

\* The second list_keys, for the summary; then the answer.
Summary ==
  /\ stage = "summary"
  /\ Over
  /\ UNCHANGED vars

\* Any access may fail; what hsm.cert raises is one more issue of the row.
ReportFails ==
  /\ Faults
  /\ \/ stage # "cert" /\ Over
     \/ /\ stage = "cert"
        /\ Found({"UNPARSEABLE_CERTIFICATE"}, row)
        /\ unread' = unread \cup {row.key}
        /\ GoOn(todo)
        /\ UNCHANGED <<hsm_certs, referenced, touched, doubly>>
  /\ UNCHANGED vars

Check == ListObjects \/ ListKeys \/ ReadKey \/ ReadCertificate \/ Summary \/ ReportFails

----------------------------------------------------------------------------
\* What a request's step changed under a check that is under way.
Note ==
  IF stage = "objects" THEN UNCHANGED <<touched, doubly>>
  ELSE /\ touched' =
            [rows  |-> touched.rows \cup {k \in KeyIds : registry'[k] # registry[k]},
             keys  |-> touched.keys \cup {i \in Ids : keys'[i] # keys[i]},
             certs |-> touched.certs \cup {i \in Ids : certs'[i] # certs[i]},
             time  |-> touched.time \/ now' # now]
       /\ doubly' = doubly \cup SharedIds(registry')

ReportNext ==
  \/ Check
  \/ Next /\ Note /\ UNCHANGED <<stage, locals, unread>>

ReportSpec == ReportInit /\ [][ReportNext]_reportVars

----------------------------------------------------------------------------
\* Properties, of the report that is about to be answered.

IssuesOf(r) == {issue.type : issue \in {x \in issues : x.subject = r.key}}

Duplicates == {i \in Ids : \E j, k \in referenced[i] : j # k}

\* Nothing the check reads of the row has changed since it began.
AsItWas(r) ==
  /\ r.key \notin touched.rows
  /\ r.object \notin touched.keys
  /\ r.cert # None => r.cert \notin touched.certs /\ ~touched.time

\* What there is to say of a row; a certificate that could not be read is one
\* that could not be parsed, whatever is stored.
Expected(r) ==
  KeyIssues(r, keys) \cup
    (IF r.key \in unread THEN {"UNPARSEABLE_CERTIFICATE"}
                          ELSE BindingIssues(r, keys, certs, now))

(***************************************************************************)
(* However requests interleave with the report, it says of a row that no   *)
(* one touched exactly what is true of it, neither more nor less; only     *)
(* when the token failed under hsm.cert it says UNPARSEABLE_CERTIFICATE of *)
(* a certificate that may be a good one.                                   *)
(***************************************************************************)
UntouchedRowsExact ==
  stage = "summary" =>
    \A r \in Rows(registry) : AsItWas(r) => IssuesOf(r) = Expected(r)

(***************************************************************************)
(* And of a certificate id that no one touched, while no row and no key    *)
(* changed, whether it is unreferenced or referenced twice.                *)
(***************************************************************************)
UntouchedInventoryExact ==
  stage = "summary" /\ touched.rows = {} /\ touched.keys = {} =>
    \A i \in Ids \ touched.certs :
      /\ i \in hsm_certs /\ referenced[i] = {} <=>
           "UNREFERENCED_CERTIFICATE" \in InventoryIssues(registry, keys, certs, i)
      /\ i \in Duplicates <=>
           "DUPLICATE_REFERENCE" \in InventoryIssues(registry, keys, certs, i)

(***************************************************************************)
(* A DUPLICATE_REFERENCE is real: although rows are bound anew meanwhile,  *)
(* two of them were bound to the certificate at one moment of the report.  *)
(***************************************************************************)
DuplicatesGrounded == Duplicates \subseteq doubly
----------------------------------------------------------------------------
(***************************************************************************)
(* Why, stage by stage: what the check holds in its locals is still true   *)
(* of whatever was not touched since it began.                             *)
(***************************************************************************)
Looking == stage \in {"key", "cert", "summary"}

StagesInOrder ==
  /\ ~Looking => todo = {} /\ referenced = NoneReferenced /\ issues = {}
  /\ ~Looking => unread = {}
  /\ stage = "objects" => touched = Untouched
  /\ stage = "summary" => todo = {}
  /\ stage = "cert" => row \in Row /\ key \in KeyObject /\ row.cert \in Ids

CertificatesListed ==
  stage # "objects" => \A i \in Ids \ touched.certs : i \in hsm_certs <=> certs[i] # <<>>

\* Rows listed and not done with.
Pending == IF stage = "cert" THEN todo \cup {row} ELSE todo

RowsListed ==
  /\ \A r \in Pending : r.key \in touched.rows \/ registry[r.key] = r
  /\ \A r, s \in todo : r.key = s.key => r = s
  /\ stage = "cert" => \A r \in todo : r.key # row.key
  /\ \A r \in Pending : r.key \notin unread
  /\ \A r \in todo : IssuesOf(r) = {}

\* A row is either not looked at yet, or half done, or done.
AtCertificate(r) ==
  /\ stage = "cert" /\ r = row
  /\ key = keys[r.object]
  /\ certs[r.cert] # <<>>
  /\ IssuesOf(r) = KeyIssues(r, keys)

Done(r) ==
  /\ stage = "cert" => r # row
  /\ IssuesOf(r) = Expected(r)

RowsFollowed ==
  Looking => \A r \in Rows(registry) :
               AsItWas(r) => r \in todo \/ AtCertificate(r) \/ Done(r)

\* Keys bound to a certificate, as far as the check has got or will get.
ReferredTo(i) ==
  referenced[i] \cup {r.key : r \in {s \in todo : s.cert = i /\ keys[s.object] # None}}

ReferencesFollowed ==
  Looking /\ touched.rows = {} /\ touched.keys = {} =>
    \A i \in Ids : ReferredTo(i) = Referencing(registry, keys, i)

MayRefer(i) == referenced[i] \cup {r.key : r \in {s \in todo : s.cert = i}}

DuplicatesSeen ==
  /\ stage # "objects" => SharedIds(registry) \subseteq doubly
  /\ \A i \in Ids : \A j, k \in MayRefer(i) : j # k => i \in doubly

Reporting ==
  /\ ReportTypeOK
  /\ StagesInOrder
  /\ CertificatesListed
  /\ RowsListed
  /\ RowsFollowed
  /\ ReferencesFollowed
  /\ DuplicatesSeen

=============================================================================
