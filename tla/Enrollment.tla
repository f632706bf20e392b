----------------------------- MODULE Enrollment -----------------------------
(***************************************************************************)
(* scripts/enroll_csca_ds_cvca.py against a running server.  The script    *)
(* walks over three entities; what it asks of the server is one step here  *)
(* (Kms has the steps inside the server), what it asks of the token it asks*)
(* itself, through app.hsm in its own process.  A request may fail without *)
(* effect, have its effect and fail, or time out and be carried out later: *)
(* the server does not stop when its client has gone.  A registration is   *)
(* two steps in the server, the validation and the commit, and so is a     *)
(* deletion: others come between.  The operator runs the script again when *)
(* it failed, and may retire keys and delete certificates meanwhile.       *)
(***************************************************************************)
EXTENDS CertificatePolicy, Sequences

CONSTANTS
  MaxFaults,   \* bound on failing requests
  MaxDeletes   \* bound on certificates the operator deletes

VARIABLES
  keys,        \* the token: is there a key pair under the entity's object_id
  certs,       \* the token: how many certificates are under it
  rows,        \* the registry: the entity's row, bound to its certificate
  step,        \* the next step of the script, or how its last run ended
  cur,         \* the entity it is at, an index of ENTITIES
  described,   \* per entity: what keys[...]["public_key_der"] is
  pending,     \* timed-out requests the server has still to carry out
  validated,   \* registrations past their validation whose client has gone
  deleting,    \* deletions that found no reference and have still to delete
  faults,
  deletes,
  overlapped   \* history: entities a registration and a deletion met over

stores == <<keys, certs, rows>>
script == <<step, cur, described>>
server == <<pending, validated, deleting, overlapped>>
vars == <<stores, script, server, faults, deletes>>

\* Entities go by their role: object_id, key_id and certificate_id are one.
ENTITIES == <<"CSCA", "DS", "CVCA">>

Entity == {"CSCA", "DS", "CVCA"}

here == ENTITIES[cur]

\* What the server carries out in one step, and all that is posted.
Whole == {"generate", "import"}
Post == Whole \cup {"register"}

Step == {"idle", "findKey", "generate", "build", "findCert", "import", "findRow",
         "register", "commit", "enrolled", "failed"}

ASSUME BoundsAssumption == MaxFaults \in Nat /\ MaxDeletes \in Nat

TypeOK ==
  /\ keys \in [Entity -> BOOLEAN]
  /\ certs \in [Entity -> Nat]
  /\ rows \in [Entity -> {"none", "ACTIVE", "RETIRED"}]
  /\ step \in Step
  /\ cur \in 1..3
  /\ described \in [Entity -> {"nothing", "der", "base64"}]
  /\ pending \in [Post -> [Entity -> Nat]]
  /\ validated \in [Entity -> Nat]
  /\ deleting \in [Entity -> Nat]
  /\ overlapped \subseteq Entity
  /\ faults \in 0..MaxFaults
  /\ deletes \in 0..MaxDeletes

Init ==
  /\ keys = [e \in Entity |-> FALSE]
  /\ certs = [e \in Entity |-> 0]
  /\ rows = [e \in Entity |-> "none"]
  /\ step = "idle"
  /\ cur = 1
  /\ described = [e \in Entity |-> "nothing"]
  /\ pending = [op \in Post |-> [e \in Entity |-> 0]]
  /\ validated = [e \in Entity |-> 0]
  /\ deleting = [e \in Entity |-> 0]
  /\ faults = 0
  /\ deletes = 0
  /\ overlapped = {}

----------------------------------------------------------------------------
\* The server.

\* The certificate build_cert makes for an entity, with the CSCA's signature.
Built(e) ==
  [pub |-> e,
   keyType |-> IF e = "CSCA" THEN "RSA" ELSE "EC",
   notBefore |-> 0, notAfter |-> 1,
   names |-> IF e = "CSCA" THEN "same" ELSE "differ",
   selfSignature |-> IF e = "CSCA" THEN "verifies" ELSE "fails",
   extensions |-> "parsed",
   basicConstraints |-> IF e = "DS" THEN "endEntity" ELSE "ca0",
   hasKeyUsage |-> TRUE,
   keyUsage |-> CASE e = "CSCA" -> {"digitalSignature", "keyCertSign", "cRLSign"}
                  [] e = "DS"   -> {"digitalSignature"}
                  [] e = "CVCA" -> {"digitalSignature", "keyCertSign"}]

\* What the server does not refuse, and what it then does (Generate, Create).
Accepts(op, e) == op = "generate" => ~keys[e] /\ certs[e] = 0

Apply(op, e) ==
  CASE op = "generate" -> keys' = [keys EXCEPT ![e] = TRUE] /\ UNCHANGED <<certs, rows>>
    [] op = "import"   -> certs' = [certs EXCEPT ![e] = @ + 1] /\ UNCHANGED <<keys, rows>>

\* register_hsm_key reads the key and the certificate and asks the policy ...
Valid(e) ==
  /\ keys[e]
  /\ certs[e] > 0
  /\ Validate(Built(e), e, e, 0) = "ok"

Validated(e) ==
  /\ Valid(e)
  /\ overlapped' = IF deleting[e] > 0 THEN overlapped \cup {e} ELSE overlapped

\* ... and commits the row later, unless the schema has one already.
Committed(e) ==
  /\ rows[e] = "none"
  /\ rows' = [rows EXCEPT ![e] = "ACTIVE"]
  /\ UNCHANGED <<keys, certs>>

\* A registration of the entity is between the two.
Registering(e) == validated[e] > 0 \/ (step = "commit" /\ here = e)

----------------------------------------------------------------------------
\* The script.

Goto(s) == step' = s

\* The loop of ensure_key goes on to the next entity, then to the certificates.
NextKey ==
  IF cur < 3 THEN cur' = cur + 1 /\ Goto("findKey") ELSE cur' = 1 /\ Goto("build")

\* Mutant: one entity too many.
NextEntityPastEnd == cur' = cur + 1 /\ Goto("build")

NextEntity ==
  IF cur < 3 THEN cur' = cur + 1 /\ Goto("build") ELSE cur' = 1 /\ Goto("enrolled")

\* An uncaught exception ends the run.
Die == Goto("failed") /\ cur' = 1

Fault == faults < MaxFaults /\ faults' = faults + 1

Run ==
  /\ step \in {"idle", "failed", "enrolled"}
  /\ Goto("findKey")
  /\ cur' = 1
  /\ described' = [e \in Entity |-> "nothing"]
  /\ UNCHANGED <<stores, server, faults, deletes>>

\* ensure_key asks the token; only KeyError means there is no key.
FindKey ==
  /\ step = "findKey"
  /\ \/ /\ keys[here]
        /\ described' = [described EXCEPT ![here] = "der"]
        /\ NextKey
        /\ UNCHANGED faults
     \/ ~keys[here] /\ Goto("generate") /\ UNCHANGED <<cur, described, faults>>
     \/ Fault /\ Die /\ UNCHANGED described
  /\ UNCHANGED <<stores, server, deletes>>

\* The request times out; the server has it still to carry out.
LeavePending(op, e) == pending' = [pending EXCEPT ![op][e] = @ + 1]

(***************************************************************************)
(* A POST: the server carries it out and says so, refuses it, or the       *)
(* request fails; what the script does with the answer is onward.          *)
(***************************************************************************)
Send(op, onward) ==
  /\ step = op
  /\ \/ Accepts(op, here) /\ Apply(op, here) /\ onward /\ UNCHANGED <<pending, faults>>
     \/ ~Accepts(op, here) /\ Die /\ UNCHANGED <<stores, described, pending, faults>>
     \/ /\ Fault /\ Die /\ UNCHANGED described
        /\ \/ UNCHANGED <<stores, pending>>
           \/ Accepts(op, here) /\ Apply(op, here) /\ UNCHANGED pending
           \/ LeavePending(op, here) /\ UNCHANGED stores
  /\ UNCHANGED <<validated, deleting, overlapped, deletes>>

\* The answer describes the key in Base64.
PostGenerate ==
  Send("generate", NextKey /\ described' = [described EXCEPT ![here] = "base64"])

\* build_cert loads the public key, which takes bytes, and has the token sign
\* with the CSCA key, whatever the registry says of that key.
Build ==
  /\ step = "build"
  /\ \/ described[here] = "der" /\ keys["CSCA"] /\ Goto("findCert") /\ UNCHANGED <<cur, faults>>
     \/ ~(described[here] = "der" /\ keys["CSCA"]) /\ Die /\ UNCHANGED faults
     \/ Fault /\ Die
  /\ UNCHANGED <<stores, described, server, deletes>>

\* Mutant: import_cert does not ask.
FindCertNever ==
  /\ step = "findCert"
  /\ Goto("import")
  /\ UNCHANGED <<stores, cur, described, server, faults, deletes>>

\* A GET that fails for whatever reason counts as "not there".
FindCert ==
  /\ step = "findCert"
  /\ \/ certs[here] > 0 /\ Goto("findRow") /\ UNCHANGED faults
     \/ certs[here] = 0 /\ Goto("import") /\ UNCHANGED faults
     \/ Fault /\ Goto("import")
  /\ UNCHANGED <<stores, cur, described, server, deletes>>

PostImport == Send("import", Goto("findRow") /\ UNCHANGED <<cur, described>>)

\* Mutant: register does not ask.
FindRowNever ==
  /\ step = "findRow"
  /\ Goto("register")
  /\ UNCHANGED <<stores, cur, described, server, faults, deletes>>

FindRow ==
  /\ step = "findRow"
  /\ \/ rows[here] # "none" /\ NextEntity /\ UNCHANGED faults
     \/ rows[here] = "none" /\ Goto("register") /\ UNCHANGED <<cur, faults>>
     \/ Fault /\ Goto("register") /\ UNCHANGED cur
  /\ UNCHANGED <<stores, described, server, deletes>>

\* Mutant: the POST is under the except clause of the GET.
PostRegisterLenient ==
  /\ step = "register"
  /\ \/ Validated(here) /\ Goto("commit") /\ UNCHANGED <<cur, faults>>
     \/ ~Valid(here) /\ NextEntity /\ UNCHANGED <<overlapped, faults>>
     \/ Fault /\ NextEntity /\ UNCHANGED overlapped
  /\ UNCHANGED <<stores, described, pending, validated, deleting, deletes>>

\* The POST up to its validation.
PostRegister ==
  /\ step = "register"
  /\ \/ Validated(here) /\ Goto("commit") /\ UNCHANGED <<cur, pending, faults>>
     \/ ~Valid(here) /\ Die /\ UNCHANGED <<pending, faults, overlapped>>
     \/ /\ Fault /\ Die /\ UNCHANGED overlapped
        /\ UNCHANGED pending \/ LeavePending("register", here)
  /\ UNCHANGED <<stores, described, validated, deleting, deletes>>

\* The rest of it; the client may go before the server commits.
Commit ==
  /\ step = "commit"
  /\ \/ Committed(here) /\ NextEntity /\ UNCHANGED <<validated, faults>>
     \/ rows[here] # "none" /\ Die /\ UNCHANGED <<stores, validated, faults>>
     \/ /\ Fault /\ Die
        /\ \/ UNCHANGED <<stores, validated>>
           \/ Committed(here) /\ UNCHANGED validated
           \/ validated' = [validated EXCEPT ![here] = @ + 1] /\ UNCHANGED stores
  /\ UNCHANGED <<described, pending, deleting, overlapped, deletes>>

Script ==
  \/ FindKey \/ PostGenerate \/ Build \/ FindCert \/ PostImport
  \/ FindRow \/ PostRegister \/ Commit

----------------------------------------------------------------------------
\* Around it.

\* Mutant: the server carries it out and keeps it.
LateAgain(op, e) ==
  /\ pending[op][e] > 0
  /\ Accepts(op, e) /\ Apply(op, e)
  /\ UNCHANGED <<script, server, faults, deletes>>

TakePending(op, e) == pending[op][e] > 0 /\ pending' = [pending EXCEPT ![op][e] = @ - 1]

\* The server carries out a request whose client has gone, if it still can.
Late(op, e) ==
  /\ TakePending(op, e)
  /\ \/ Accepts(op, e) /\ Apply(op, e)
     \/ ~Accepts(op, e) /\ UNCHANGED stores
  /\ UNCHANGED <<script, validated, deleting, overlapped, faults, deletes>>

\* The two steps of such a registration.
LateValidate(e) ==
  /\ TakePending("register", e)
  /\ \/ Validated(e) /\ validated' = [validated EXCEPT ![e] = @ + 1]
     \/ ~Valid(e) /\ UNCHANGED <<validated, overlapped>>
  /\ UNCHANGED <<stores, script, deleting, faults, deletes>>

LateCommit(e) ==
  /\ validated[e] > 0
  /\ validated' = [validated EXCEPT ![e] = @ - 1]
  /\ \/ Committed(e)
     \/ rows[e] # "none" /\ UNCHANGED stores
  /\ UNCHANGED <<script, pending, deleting, overlapped, faults, deletes>>

Retire(e) ==
  /\ rows[e] = "ACTIVE"
  /\ rows' = [rows EXCEPT ![e] = "RETIRED"]
  /\ UNCHANGED <<keys, certs, script, server, faults, deletes>>

\* A deletion that goes on past its look for references.
Pursue(e) ==
  /\ deletes < MaxDeletes
  /\ deletes' = deletes + 1
  /\ deleting' = [deleting EXCEPT ![e] = @ + 1]
  /\ overlapped' = IF Registering(e) THEN overlapped \cup {e} ELSE overlapped
  /\ UNCHANGED <<stores, script, pending, validated, faults>>

\* Mutant: whatever it found.
FindReferencesAny(e) == Pursue(e)

\* delete_certificate: refused while a row refers to the certificate ...
FindReferences(e) == rows[e] = "none" /\ Pursue(e)

\* ... which goes later, in an access of its own, if it is still there.
Destroy(e) ==
  /\ deleting[e] > 0
  /\ deleting' = [deleting EXCEPT ![e] = @ - 1]
  /\ \/ certs[e] > 0 /\ certs' = [certs EXCEPT ![e] = @ - 1]
     \/ certs[e] = 0 /\ UNCHANGED certs
  /\ UNCHANGED <<keys, rows, script, pending, validated, overlapped, faults, deletes>>

Around(e) ==
  \/ \E op \in Whole : Late(op, e)
  \/ LateValidate(e) \/ LateCommit(e)
  \/ Retire(e) \/ FindReferences(e) \/ Destroy(e)

Next == Run \/ Script \/ \E e \in Entity : Around(e)

Spec == Init /\ [][Next]_vars

\* The script goes on, and the operator runs it again.
FairSpec == Spec /\ WF_vars(Script) /\ WF_vars(Run)

----------------------------------------------------------------------------
\* Properties.

(***************************************************************************)
(* "All production CSCA/DS/CVCA enrolled": when the script says so, every  *)
(* entity has its row and its key pair, whatever failed before and whatever*)
(* the server carried out late; and its certificate, unless a deletion of  *)
(* it and a registration ran at once, neither of which sees the other.     *)
(***************************************************************************)
Enrolled(e) == rows[e] # "none" /\ keys[e] /\ (certs[e] > 0 \/ e \in overlapped)

AnnouncedMeansEnrolled == step = "enrolled" => \A e \in Entity : Enrolled(e)

(***************************************************************************)
(* That is the only way a row comes to lack its certificate; no row lacks  *)
(* its key pair.                                                           *)
(***************************************************************************)
RowsBacked == \A e \in Entity : rows[e] # "none" => Enrolled(e)

(***************************************************************************)
(* Every certificate too many under an id is the work of a failed request: *)
(* reruns alone import none again.                                         *)
(***************************************************************************)
DuplicatesFromFaults == \A e \in Entity : certs[e] <= 1 + faults

(***************************************************************************)
(* The invariant these rest on: what the rows, and the registrations that  *)
(* will become rows, have on the token and still to fear; the entities the *)
(* run has behind it; the certificates there are, on their way and about   *)
(* to be sent.                                                             *)
(***************************************************************************)
Claimed(e) == Registering(e) \/ rows[e] # "none"

Claims ==
  \A e \in Entity : Claimed(e) =>
    keys[e] /\ (e \in overlapped \/ (certs[e] > 0 /\ deleting[e] = 0))

AtCertificates == step \in {"build", "findCert", "import", "findRow", "register", "commit"}

Behind(e) ==
  \/ step = "enrolled"
  \/ AtCertificates /\ \E n \in 1..(cur - 1) : e = ENTITIES[n]

Settled == \A e \in Entity : Behind(e) => rows[e] # "none"

About(e) == IF step = "import" /\ here = e THEN 1 ELSE 0

Counted ==
  \A e \in Entity :
    /\ certs[e] + pending["import"][e] + About(e) <= 1 + faults
    /\ pending["import"][e] <= faults

Inductive == TypeOK /\ Claims /\ Settled /\ Counted

(***************************************************************************)
(* However requests fail, the operator who runs the script again gets all  *)
(* entities enrolled in the end.                                           *)
(***************************************************************************)
RerunsConverge == []<>(step = "enrolled")

----------------------------------------------------------------------------
\* What the script says of itself and does not do.

(***************************************************************************)
(* "Ensures the HSM key pairs exist (generates them if missing)", builds   *)
(* and imports certificates, registers: a run in which nothing fails and   *)
(* nobody interferes does not die.                                         *)
(***************************************************************************)
CleanRunSucceeds == faults = 0 /\ deletes = 0 => step # "failed"
=============================================================================
