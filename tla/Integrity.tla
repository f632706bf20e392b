----------------------------- MODULE Integrity -----------------------------
(***************************************************************************)
(* RegistryService.check_integrity, a comparison of the registry with the  *)
(* token, as a function of what it reads, and the fail-closed decision     *)
(* run_startup_integrity_check takes from it.                              *)
(***************************************************************************)
EXTENDS KmsData

\* The result of the policy on the certificate a row is bound to.
BoundOutcome(row, keys, certs, now) ==
  Validate(Head(certs[row.cert]), row.role, keys[row.object].pair.pub, now)

\* The row's key is on the token and the certificate it names can be parsed.
CertificateChecked(row, keys, certs) ==
  /\ keys[row.object] # None
  /\ row.cert # None
  /\ certs[row.cert] # <<>>
  /\ Head(certs[row.cert]).keyType # "garbage"

(***************************************************************************)
(* The check does not finish when a row and its key differ in algorithm    *)
(* (the RSA description of a key has no "curve", the EC one no "bits", and *)
(* the look-up is outside any handler), nor when the policy raises         *)
(* anything but CertificatePolicyError.                                    *)
(***************************************************************************)
CheckAborts(registry, keys, certs, now) ==
  \E row \in Rows(registry) :
    \/ /\ keys[row.object] # None
       /\ keys[row.object].pair.alg # row.alg
    \/ /\ CertificateChecked(row, keys, certs)
       /\ BoundOutcome(row, keys, certs, now) \notin {"ok", "CertificatePolicyError"}

\* Mutant: the RSA size and the EC curve are not compared.
KeyIssuesAnySize(row, keys) ==
  LET obj == keys[row.object] IN
  IF obj = None THEN {"MISSING_HSM_KEY"}
  ELSE {t \in {"KEY_ALGORITHM_MISMATCH", "MISSING_PRIVATE_KEY"} :
         \/ t = "KEY_ALGORITHM_MISMATCH" /\ obj.pair.alg # row.alg
         \/ t = "MISSING_PRIVATE_KEY"    /\ ~obj.private}

KeyIssues(row, keys) ==
  LET obj == keys[row.object] IN
  IF obj = None THEN {"MISSING_HSM_KEY"}
  ELSE {t \in {"KEY_ALGORITHM_MISMATCH", "KEY_PARAMETER_MISMATCH", "MISSING_PRIVATE_KEY"} :
         \/ t = "KEY_ALGORITHM_MISMATCH" /\ obj.pair.alg # row.alg
         \/ t = "KEY_PARAMETER_MISMATCH" /\ obj.pair.params # row.params
         \/ t = "MISSING_PRIVATE_KEY"    /\ ~obj.private}

\* A row whose key is missing is not looked at any further.
BindingIssues(row, keys, certs, now) ==
  IF keys[row.object] = None \/ row.cert = None THEN {}
  ELSE IF certs[row.cert] = <<>> THEN {"MISSING_HSM_CERTIFICATE"}
  ELSE IF Head(certs[row.cert]).keyType = "garbage" THEN {"UNPARSEABLE_CERTIFICATE"}
  ELSE IF BoundOutcome(row, keys, certs, now) = "ok" THEN {}
  ELSE {"CERTIFICATE_POLICY_VIOLATION"}

\* Keys bound to a certificate, as far as the check gets to them.
Referencing(registry, keys, id) ==
  {row.key : row \in {r \in Rows(registry) : r.cert = id /\ keys[r.object] # None}}

InventoryIssues(registry, keys, certs, id) ==
  LET refs == Referencing(registry, keys, id) IN
  {t \in {"UNREFERENCED_CERTIFICATE", "DUPLICATE_REFERENCE"} :
     \/ t = "UNREFERENCED_CERTIFICATE" /\ certs[id] # <<>> /\ refs = {}
     \/ t = "DUPLICATE_REFERENCE" /\ \E k1, k2 \in refs : k1 # k2}

\* The report: issues of a row carry its key_id and status, issues of the
\* inventory carry the certificate id.
ReportedOfRow(row, keys, certs, now) ==
  {[type |-> t, subject |-> row.key, status |-> row.status] :
     t \in KeyIssues(row, keys) \cup BindingIssues(row, keys, certs, now)}

ReportedOfId(registry, keys, certs, id) ==
  {[type |-> t, subject |-> id, status |-> "NONE"] :
     t \in InventoryIssues(registry, keys, certs, id)}

Report(registry, keys, certs, now) ==
  (UNION {ReportedOfRow(row, keys, certs, now) : row \in Rows(registry)})
  \cup (UNION {ReportedOfId(registry, keys, certs, id) : id \in Ids})

\* Mutant: the wrong kind of issue is taken for the critical one.
StartupFailClosedOnPrivate(registry, keys, certs, now) ==
  /\ ~CheckAborts(registry, keys, certs, now)
  /\ \E issue \in Report(registry, keys, certs, now) :
       issue.type = "MISSING_PRIVATE_KEY" /\ issue.status = "ACTIVE"

\* Crypto is refused when an ACTIVE key is reported missing.  An exception of
\* the check is swallowed by the lifespan hook: the flag then stays FALSE.
StartupFailClosed(registry, keys, certs, now) ==
  /\ ~CheckAborts(registry, keys, certs, now)
  /\ \E issue \in Report(registry, keys, certs, now) :
       issue.type = "MISSING_HSM_KEY" /\ issue.status = "ACTIVE"
=============================================================================
