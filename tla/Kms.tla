-------------------------------- MODULE Kms --------------------------------
(***************************************************************************)
(* The service under concurrent requests.  The handlers of app/main.py are *)
(* plain functions, which FastAPI runs on a pool of threads: several run   *)
(* at once, and interleave at their accesses to the two stores.  One       *)
(* access is one step:                                                     *)
(*   - a method of hsm.HSM, made atomic by the process-wide _hsm_lock;     *)
(*   - one SQL statement of registry.Registry.  sqlite3 opens a transaction*)
(*     at the first INSERT or UPDATE only, so that a SELECT before it is   *)
(*     a step of its own.                                                  *)
(* Local computation belongs to the step before or after it.               *)
(***************************************************************************)
EXTENDS Integrity

CONSTANTS
  Procs,         \* requests in the life of the process, one thread each
  Requests,      \* what a client may ask for
  InitRegistry,  \* the stores when the process starts
  InitKeys,
  InitCerts,
  MaxNow,        \* bound on the clock
  MaxCerts,      \* bound on certificates stored under one CKA_ID
  Faults         \* whether calls to the stores may fail (RuntimeError,
                 \* PKCS11Error, sqlite3.OperationalError)

VARIABLES
  registry,      \* key_registry: row or None, by key_id
  keys,          \* key pairs on the token, by CKA_ID
  certs,         \* certificates on the token, by CKA_ID, in look-up order
  spent,         \* key pairs ever generated: no key is generated twice
  failClosed,    \* registry_service.fail_closed
  now,           \* the clock
  pc,            \* per request: the next access of its handler
  req,           \* per request: the request body and path
  entry,         \* per request: the registry row it holds in a local
  hkey,          \* per request: the key description it got from hsm.key
  answer,        \* per request: HTTP status and result on the audit trail
  signed,        \* history: the signature hsm.sign made for a request
  retired,       \* history: keys that were retired when it was received
  seen,          \* history: certificates that were stored while it was in
                 \* flight, by CKA_ID, with the clock of the moment
  wrote          \* history: the requests that changed a store

tokenVars == <<keys, certs, spent>>
shared == <<registry, tokenVars, failClosed, now>>
local == <<entry, hkey, answer>>
history == <<signed, retired, seen>>
vars == <<shared, pc, req, local, history, wrote>>

----------------------------------------------------------------------------
\* Requests.  decodable: the Base64 fields decode to something not empty.

SigningAlgorithm == {"RSA-SHA256", "ECDSA-SHA256"}

Operation == {"CERTIFICATE_SIGN", "CRL_SIGN", "DOCUMENT_SIGN", "CV_CERTIFICATE_SIGN"}

Request ==
  [op: {"generate"}, id: Ids, alg: KeyAlgorithm, params: Params]
  \cup [op: {"register"}, key: KeyIds, role: Role, id: Ids, cert: Ids \cup {None}]
  \cup [op: {"retire"}, key: KeyIds]
  \cup [op: {"update"}, key: KeyIds, cert: Ids]
  \cup [op: {"import"}, id: Ids, cert: Certs]
  \cup [op: {"delete"}, id: Ids]
  \cup [op: {"sign"}, id: Ids, alg: SigningAlgorithm, use: Operation, decodable: BOOLEAN]
  \cup [op: {"verify"}, id: Ids, alg: SigningAlgorithm, decodable: BOOLEAN]

(***************************************************************************)
(* The service starts from what an earlier life of it left: a registry     *)
(* indexed by key_id, no object_id in two rows, every CSCA row bound.  The *)
(* certificate of a row may have expired or been deleted since, its key    *)
(* lost.                                                                   *)
(***************************************************************************)
ASSUME InitAssumption ==
  /\ InitRegistry \in Registry
  /\ InitKeys \in KeyStore
  /\ InitCerts \in CertStore
  /\ \A k \in KeyIds : InitRegistry[k] # None => InitRegistry[k].key = k
  /\ \A r1, r2 \in Rows(InitRegistry) : r1.object = r2.object => r1 = r2
  /\ \A row \in Rows(InitRegistry) : row.role = "CSCA" => row.cert # None

ASSUME BoundsAssumption == MaxNow \in Nat /\ MaxCerts \in Nat /\ Faults \in BOOLEAN

ASSUME RequestsAssumption == Requests \subseteq Request

\* RegistryService.ALLOWED_ALGORITHMS
AllowedAlgorithms(keyAlg) == IF keyAlg = "RSA" THEN {"RSA-SHA256"} ELSE {"ECDSA-SHA256"}

\* RegistryService.ALLOWED_OPERATIONS
AllowedOperations(role) ==
  CASE role = "CSCA" -> {"CERTIFICATE_SIGN", "CRL_SIGN"}
    [] role = "DS"   -> {"DOCUMENT_SIGN"}
    [] role = "CVCA" -> {"CV_CERTIFICATE_SIGN"}

\* The first access of each handler.
FirstStep(op) ==
  CASE op \in {"sign", "verify"}   -> "lookup"
    [] op \in {"retire", "update"} -> "getKey"
    [] op = "register"             -> "registerKey"
    [] op = "delete"               -> "findReferences"
    [] op = "import"               -> "create"
    [] op = "generate"             -> "generate"

Steps == {"idle", "lookup", "validate", "validateKey", "certificate", "crypto",
          "registerKey", "selectKeyId", "selectObject", "insert",
          "getKey", "updateKey", "selectStatus", "commit",
          "findReferences", "readCert", "destroy", "create", "generate",
          "finish", "done"}

AuditResult == {"SUCCESS", "DENIED", "FAILURE", "NONE"}

\* A signature: the row it was authorized by and the key pair it is made with.
Signature == [key: KeyIds, cert: Ids \cup {None}, pair: KeyPairs]

ASSUME SignatureAssumption == None \notin Signature

Answer == [code: {200, 400, 404, 503}, audit: AuditResult]

RetiredKeys == {k \in KeyIds : registry[k] # None /\ registry[k].status = "RETIRED"}

\* Some row, ACTIVE or RETIRED, has this object_id.
Registered(id) == \E row \in Rows(registry) : row.object = id

Referenced(id) == \E row \in Rows(registry) : row.cert = id

\* _assert_unique looks for any object with the CKA_ID, certificates too.
OnTokenCertificateOnly(id) == certs[id] # <<>>  \* mutant: asks for one class

OnToken(id) == keys[id] # None \/ certs[id] # <<>>

\* The certificates stored under an id, each with what the clock says.
StoredAt(id) == {<<certs[id][n], now>> : n \in DOMAIN certs[id]}

TypeOK ==
  /\ registry \in Registry
  /\ \A k \in KeyIds : registry[k] # None => registry[k].key = k
  /\ keys \in KeyStore
  /\ certs \in CertStore
  /\ spent \in SUBSET KeyPairs
  /\ failClosed \in BOOLEAN
  /\ now \in 0..MaxNow
  /\ pc \in [Procs -> Steps]
  /\ req \in [Procs -> Request \cup {None}]
  /\ entry \in [Procs -> Row \cup {None}]
  /\ hkey \in [Procs -> KeyObject \cup {None}]
  /\ answer \in [Procs -> Answer \cup {None}]
  /\ signed \in [Procs -> Signature \cup {None}]
  /\ retired \in [Procs -> SUBSET KeyIds]
  /\ seen \in [Procs -> [Ids -> SUBSET (Certs \X (0..MaxNow))]]
  /\ wrote \in SUBSET Procs

Init ==
  /\ registry = InitRegistry
  /\ keys = InitKeys
  /\ certs = InitCerts
  /\ spent = {InitKeys[i].pair : i \in {j \in Ids : InitKeys[j] # None}}
  /\ now = 0
  /\ failClosed = StartupFailClosed(InitRegistry, InitKeys, InitCerts, 0)
  /\ pc = [p \in Procs |-> "idle"]
  /\ req = [p \in Procs |-> None]
  /\ entry = [p \in Procs |-> None]
  /\ hkey = [p \in Procs |-> None]
  /\ answer = [p \in Procs |-> None]
  /\ signed = [p \in Procs |-> None]
  /\ retired = [p \in Procs |-> {}]
  /\ seen = [p \in Procs |-> [i \in Ids |-> {}]]
  /\ wrote = {}

----------------------------------------------------------------------------
\* Control.

Goto(p, step) == pc' = [pc EXCEPT ![p] = step]

Wrote(p) == wrote' = wrote \cup {p}

\* Every request in flight has seen what is stored after a step.
Witness ==
  seen' = [p \in Procs |->
             IF pc[p] \in {"idle", "done"} THEN seen[p]
             ELSE [i \in Ids |-> seen[p][i] \cup StoredAt(i)']]

\* The handler returns or raises: its locals are gone.
Reply(p, code, result) ==
  /\ Goto(p, "done")
  /\ answer' = [answer EXCEPT ![p] = [code |-> code, audit |-> result]]
  /\ entry' = [entry EXCEPT ![p] = None]
  /\ hkey' = [hkey EXCEPT ![p] = None]

(***************************************************************************)
(* What an exception leaves on the audit trail, by handler.  verify audits *)
(* only once validate_object has returned, the step "crypto"; sign looks   *)
(* the row up again by object_id and audits if there is one.               *)
(***************************************************************************)
\* ValueError -> 400
RefusalAudit(p) ==
  IF req[p].op \in {"sign", "update", "delete"} THEN "DENIED" ELSE "NONE"

\* KeyError -> 404
MissingAudit(p) ==
  IF req[p].op \in {"update", "delete"} THEN "DENIED" ELSE "NONE"

\* any other exception -> 503
FailureAudit(p) ==
  IF \/ req[p].op \in {"update", "delete"}
     \/ req[p].op = "sign" /\ Registered(req[p].id)
     \/ req[p].op = "verify" /\ pc[p] = "crypto"
  THEN "FAILURE" ELSE "NONE"

Refuse(p) == Reply(p, 400, RefusalAudit(p))
NotFound(p) == Reply(p, 404, MissingAudit(p))
Fail(p) == Reply(p, 503, FailureAudit(p))

\* A client's request reaches its handler, authenticated for its plane.
Receive(p) ==
  /\ pc[p] = "idle"
  /\ \E r \in Requests : /\ req' = [req EXCEPT ![p] = r]
                         /\ Goto(p, FirstStep(r.op))
  /\ retired' = [retired EXCEPT ![p] = RetiredKeys]
  /\ seen' = [seen EXCEPT ![p] = [i \in Ids |-> StoredAt(i)]]
  /\ UNCHANGED <<shared, local, signed, wrote>>

----------------------------------------------------------------------------
\* sign and verify: validate_object, then the call to the token.

\* validate_object: SELECT the row by object_id.
Lookup(p) ==
  /\ pc[p] = "lookup"
  /\ \/ \E row \in Rows(registry) :
          /\ row.object = req[p].id
          /\ entry' = [entry EXCEPT ![p] = row]
          /\ Goto(p, "validate")
          /\ UNCHANGED <<hkey, answer>>
     \/ ~Registered(req[p].id) /\ NotFound(p)
  /\ UNCHANGED <<shared, req, history, wrote>>

\* Mutant: the row is not read again, its status never looked at.
ValidateKeyTrusting(p) ==
  /\ pc[p] = "validate"
  /\ \/ failClosed /\ Reply(p, 503, "NONE")
     \/ ~failClosed /\ Goto(p, "validateKey") /\ UNCHANGED local
  /\ UNCHANGED <<shared, req, history, wrote>>

\* validate_key: the fail-closed flag, then SELECT the row again by key_id.
\* IntegrityError has a handler of its own in sign, which does not audit.
Validate_key(p) ==
  /\ pc[p] = "validate"
  /\ LET row == registry[entry[p].key] IN
     \/ failClosed /\ Reply(p, 503, "NONE")
     \/ ~failClosed /\ row.status # "ACTIVE" /\ Refuse(p)
     \/ /\ ~failClosed
        /\ row.status = "ACTIVE"
        /\ entry' = [entry EXCEPT ![p] = row]
        /\ Goto(p, "validateKey")
        /\ UNCHANGED <<hkey, answer>>
  /\ UNCHANGED <<shared, req, history, wrote>>

\* Mutant: the RSA size and the EC curve are not compared.
MatchesRowAnySize(obj, row) == obj.pair.alg = row.alg /\ obj.private

\* The token's key is the one that was registered, and can sign.
MatchesRow(obj, row) ==
  /\ obj.pair.alg = row.alg
  /\ obj.pair.params = row.params
  /\ obj.private

AfterKeyObjectUncertified(p) == "crypto"  \* mutant: certificate not looked at

AfterKeyObject(p) == IF entry[p].cert = None THEN "crypto" ELSE "certificate"

ValidateKeyObject(p) ==
  /\ pc[p] = "validateKey"
  /\ LET obj == keys[entry[p].object] IN
     \/ obj = None /\ NotFound(p)
     \/ obj # None /\ ~MatchesRow(obj, entry[p]) /\ Refuse(p)
     \/ /\ obj # None
        /\ MatchesRow(obj, entry[p])
        /\ hkey' = [hkey EXCEPT ![p] = obj]
        /\ Goto(p, AfterKeyObject(p))
        /\ UNCHANGED <<entry, answer>>
  /\ UNCHANGED <<shared, req, history, wrote>>

\* Mutant: the operation policy of the role is not applied.
AuthorizedAnyOperation(p) == req[p].alg \in AllowedAlgorithms(entry[p].alg)

\* validate_signing_algorithm and, for sign only, validate_operation.
Authorized(p) ==
  /\ req[p].alg \in AllowedAlgorithms(entry[p].alg)
  /\ req[p].op = "sign" => req[p].use \in AllowedOperations(entry[p].role)

\* AuthorizationError is audited; the HTTPException of b64 is not.
Unauthorized(p) ==
  /\ pc[p] = "crypto"
  /\ \/ ~Authorized(p) /\ Reply(p, 400, "DENIED")
     \/ Authorized(p) /\ ~req[p].decodable /\ Reply(p, 400, "NONE")
  /\ UNCHANGED <<shared, req, history, wrote>>

\* hsm.sign and hsm.verify look the key up again: KeyError when it is gone.
\* A mechanism that is not for the key's type is a PKCS11Error, which verify
\* turns into an invalid signature.
Crypto(p) ==
  /\ pc[p] = "crypto"
  /\ Authorized(p)
  /\ req[p].decodable
  /\ LET obj == keys[req[p].id]
         usable == obj # None /\ (req[p].op = "sign" => obj.private)
         fits == req[p].alg \in AllowedAlgorithms(obj.pair.alg) IN
     \/ ~usable /\ NotFound(p) /\ UNCHANGED signed
     \/ /\ req[p].op = "sign" /\ usable /\ ~fits
        /\ Fail(p)
        /\ UNCHANGED signed
     \/ /\ req[p].op = "sign" /\ usable /\ fits
        /\ signed' = [signed EXCEPT ![p] =
             [key |-> entry[p].key, cert |-> entry[p].cert, pair |-> obj.pair]]
        /\ Goto(p, "finish")
        /\ UNCHANGED local
     \/ /\ req[p].op = "verify" /\ usable
        /\ Goto(p, "finish")
        /\ UNCHANGED <<local, signed>>
  /\ UNCHANGED <<shared, req, retired, seen, wrote>>

----------------------------------------------------------------------------
\* The certificate stage, the same in validate_key, update_certificate and
\* register_hsm_key: read the certificate, parse it, apply the policy.

CertificateId(p) ==
  IF req[p].op \in {"sign", "verify"} THEN entry[p].cert ELSE req[p].cert

RoleOf(p) == IF req[p].op = "register" THEN req[p].role ELSE entry[p].role

AfterCertificate(op) ==
  CASE op \in {"sign", "verify"} -> "crypto"
    [] op = "register"           -> "selectKeyId"
    [] op = "update"             -> "selectStatus"

\* Mutant: the certificate is parsed, the policy is not asked.
PolicyOutcomeParsedOnly(p) ==
  LET stored == certs[CertificateId(p)] IN
  IF stored = <<>> \/ Head(stored).keyType = "garbage" THEN "ValueError" ELSE "ok"

PolicyOutcome(p) ==
  LET stored == certs[CertificateId(p)] IN
  IF stored = <<>> THEN "ValueError"
  ELSE LoadAndValidate(Head(stored), RoleOf(p), hkey[p].pair.pub, now)

CheckCertificate(p) ==
  /\ pc[p] = "certificate"
  /\ \/ /\ PolicyOutcome(p) = "ok"
        /\ Goto(p, AfterCertificate(req[p].op))
        /\ UNCHANGED local
     \/ PolicyOutcome(p) \in {"CertificatePolicyError", "ValueError"} /\ Refuse(p)
     \/ PolicyOutcome(p) \in {"UnsupportedAlgorithm", "DuplicateExtension"} /\ Fail(p)
  /\ UNCHANGED <<shared, req, history, wrote>>

----------------------------------------------------------------------------
\* register: the key on the token, the certificate stage, then three SQL
\* statements.  A CSCA key needs a certificate.

RegisterKeyObject(p) ==
  /\ pc[p] = "registerKey"
  /\ LET obj == keys[req[p].id]
         acceptable == /\ obj.private
                       /\ req[p].role = "CSCA" => req[p].cert # None IN
     \/ obj = None /\ NotFound(p)
     \/ obj # None /\ ~acceptable /\ Refuse(p)
     \/ /\ obj # None /\ acceptable
        /\ hkey' = [hkey EXCEPT ![p] = obj]
        /\ Goto(p, IF req[p].cert = None THEN "selectKeyId" ELSE "certificate")
        /\ UNCHANGED <<entry, answer>>
  /\ UNCHANGED <<shared, req, history, wrote>>

SelectKeyId(p) ==
  /\ pc[p] = "selectKeyId"
  /\ \/ registry[req[p].key] # None /\ Refuse(p)
     \/ registry[req[p].key] = None /\ Goto(p, "selectObject") /\ UNCHANGED local
  /\ UNCHANGED <<shared, req, history, wrote>>

SelectObject(p) ==
  /\ pc[p] = "selectObject"
  /\ \/ Registered(req[p].id) /\ Refuse(p)
     \/ ~Registered(req[p].id) /\ Goto(p, "insert") /\ UNCHANGED local
  /\ UNCHANGED <<shared, req, history, wrote>>

\* Mutant: key_id and object_id swapped in the parameter tuple.
NewRowSwapped(p) ==
  [key |-> req[p].id, role |-> req[p].role, object |-> req[p].key,
   alg |-> hkey[p].pair.alg, params |-> hkey[p].pair.params,
   cert |-> req[p].cert, status |-> "ACTIVE"]

NewRow(p) ==
  [key |-> req[p].key, role |-> req[p].role, object |-> req[p].id,
   alg |-> hkey[p].pair.alg, params |-> hkey[p].pair.params,
   cert |-> req[p].cert, status |-> "ACTIVE"]

\* Mutant: the two SELECTs are the only check.
ViolatesSchemaNever(p) == FALSE

\* PRIMARY KEY (key_id) and UNIQUE (object_id).
ViolatesSchema(p) == registry[req[p].key] # None \/ Registered(req[p].id)

\* The database refuses a row that a concurrent request inserted after the
\* two SELECTs.
Insert(p) ==
  /\ pc[p] = "insert"
  /\ \/ ViolatesSchema(p) /\ Fail(p) /\ UNCHANGED <<registry, wrote>>
     \/ /\ ~ViolatesSchema(p)
        /\ registry' = [registry EXCEPT ![req[p].key] = NewRow(p)]
        /\ Wrote(p)
        /\ Goto(p, "finish")
        /\ UNCHANGED local
  /\ UNCHANGED <<tokenVars, failClosed, now, req, history>>

----------------------------------------------------------------------------
\* retire and update: the service reads the row, the registry reads its
\* status again, and then writes.

GetKey(p) ==
  /\ pc[p] = "getKey"
  /\ LET row == registry[req[p].key] IN
     \/ row = None /\ NotFound(p)
     \/ row # None /\ row.status # "ACTIVE" /\ Refuse(p)
     \/ /\ row # None /\ row.status = "ACTIVE"
        /\ entry' = [entry EXCEPT ![p] = row]
        /\ Goto(p, IF req[p].op = "retire" THEN "selectStatus" ELSE "updateKey")
        /\ UNCHANGED <<hkey, answer>>
  /\ UNCHANGED <<shared, req, history, wrote>>

\* Mutant: the binding is written before the certificate is validated.
UpdateKeyObjectEager(p) ==
  /\ pc[p] = "updateKey"
  /\ keys[entry[p].object] # None
  /\ hkey' = [hkey EXCEPT ![p] = keys[entry[p].object]]
  /\ registry' = [registry EXCEPT ![req[p].key].cert = req[p].cert]
  /\ Wrote(p)
  /\ Goto(p, "certificate")
  /\ UNCHANGED <<tokenVars, failClosed, now, req, entry, answer, history>>

UpdateKeyObject(p) ==
  /\ pc[p] = "updateKey"
  /\ LET obj == keys[entry[p].object] IN
     \/ obj = None /\ NotFound(p)
     \/ /\ obj # None
        /\ hkey' = [hkey EXCEPT ![p] = obj]
        /\ Goto(p, "certificate")
        /\ UNCHANGED <<entry, answer>>
  /\ UNCHANGED <<shared, req, history, wrote>>

SelectStatus(p) ==
  /\ pc[p] = "selectStatus"
  /\ LET status == registry[req[p].key].status IN
     \/ status # "ACTIVE" /\ Refuse(p)
     \/ status = "ACTIVE" /\ Goto(p, "commit") /\ UNCHANGED local
  /\ UNCHANGED <<shared, req, history, wrote>>

\* Mutant: the row held in the local is written back whole.
CommitWholeRow(p) ==
  /\ pc[p] = "commit"
  /\ registry' = [registry EXCEPT ![req[p].key] =
       IF req[p].op = "retire" THEN [entry[p] EXCEPT !.status = "RETIRED"]
                               ELSE [entry[p] EXCEPT !.cert = req[p].cert]]
  /\ Wrote(p)
  /\ Goto(p, "finish")
  /\ UNCHANGED <<tokenVars, failClosed, now, req, local, history>>

\* UPDATE ... WHERE key_id = ?: the one column, whatever the status is now.
Commit(p) ==
  /\ pc[p] = "commit"
  /\ registry' = IF req[p].op = "retire"
                 THEN [registry EXCEPT ![req[p].key].status = "RETIRED"]
                 ELSE [registry EXCEPT ![req[p].key].cert = req[p].cert]
  /\ Wrote(p)
  /\ Goto(p, "finish")
  /\ UNCHANGED <<tokenVars, failClosed, now, req, local, history>>

----------------------------------------------------------------------------
\* Certificates on the token.

\* delete_certificate: SELECT the rows bound to the certificate.
FindReferences(p) ==
  /\ pc[p] = "findReferences"
  /\ \/ Referenced(req[p].id) /\ Refuse(p)
     \/ ~Referenced(req[p].id) /\ Goto(p, "readCert") /\ UNCHANGED local
  /\ UNCHANGED <<shared, req, history, wrote>>

ReadCert(p) ==
  /\ pc[p] = "readCert"
  /\ \/ certs[req[p].id] = <<>> /\ NotFound(p)
     \/ certs[req[p].id] # <<>> /\ Goto(p, "destroy") /\ UNCHANGED local
  /\ UNCHANGED <<shared, req, history, wrote>>

\* Mutant: hsm.delete_cert destroys every object it finds.
DestroyEvery(p) ==
  /\ pc[p] = "destroy"
  /\ certs[req[p].id] # <<>>
  /\ certs' = [certs EXCEPT ![req[p].id] = <<>>]
  /\ Wrote(p)
  /\ Goto(p, "finish")
  /\ UNCHANGED <<registry, keys, spent, failClosed, now, req, local, history>>

\* hsm.delete_cert destroys the first object it finds.
Destroy(p) ==
  /\ pc[p] = "destroy"
  /\ \/ certs[req[p].id] = <<>> /\ NotFound(p) /\ UNCHANGED <<certs, wrote>>
     \/ /\ certs[req[p].id] # <<>>
        /\ certs' = [certs EXCEPT ![req[p].id] = Tail(@)]
        /\ Wrote(p)
        /\ Goto(p, "finish")
        /\ UNCHANGED local
  /\ UNCHANGED <<registry, keys, spent, failClosed, now, req, history>>

\* import_cert parses the certificate first.  hsm.import_cert creates an
\* object whether or not the CKA_ID is taken; the token decides whether
\* look-ups find the new object before the old ones.
Create(p) ==
  /\ pc[p] = "create"
  /\ UNCHANGED <<registry, keys, spent, failClosed, now, req, signed, retired>>
  /\ \/ req[p].cert.keyType = "garbage" /\ Refuse(p) /\ UNCHANGED <<certs, seen, wrote>>
     \/ /\ req[p].cert.keyType # "garbage"
        /\ Len(certs[req[p].id]) < MaxCerts
        /\ \/ certs' = [certs EXCEPT ![req[p].id] = Append(@, req[p].cert)]
           \/ certs' = [certs EXCEPT ![req[p].id] = <<req[p].cert>> \o @]
        /\ Witness
        /\ Wrote(p)
        /\ Goto(p, "finish")
        /\ UNCHANGED local

\* hsm.gen_rsa, hsm.gen_ec: the lock is held over the uniqueness check, the
\* generation and the read-back.  When the read-back fails the key stays.
Generate(p) ==
  /\ pc[p] = "generate"
  /\ \/ OnToken(req[p].id) /\ Refuse(p) /\ UNCHANGED <<keys, spent, wrote>>
     \/ /\ ~OnToken(req[p].id)
        /\ \E kp \in KeyPairs \ spent :
             /\ kp.alg = req[p].alg
             /\ kp.params = req[p].params
             /\ keys' = [keys EXCEPT ![req[p].id] = [pair |-> kp, private |-> TRUE]]
             /\ spent' = spent \cup {kp}
        /\ Wrote(p)
        /\ \/ Goto(p, "finish") /\ UNCHANGED local
           \/ Faults /\ (Fail(p) \/ Refuse(p))
  /\ UNCHANGED <<registry, certs, failClosed, now, req, history>>

----------------------------------------------------------------------------
\* What goes wrong in an import after the certificate was stored.
Late(p) ==
  IF req[p].op # "import" THEN "none"
  ELSE IF PublicKeyError(req[p].cert) # "none" THEN PublicKeyError(req[p].cert)
  ELSE IF NamesError(req[p].cert) # "none" THEN "names"
  ELSE "none"

\* The end of a handler that did what it was asked: read the row back where
\* the code does, audit, answer.  import_cert asks for the certificate's key
\* only now, to audit its type, and for its names once that is audited; the
\* object stays on the token whatever comes of it.
Finish(p) ==
  /\ pc[p] = "finish"
  /\ \/ Late(p) = "none" /\ Reply(p, 200, "SUCCESS")
     \/ Late(p) = "UnsupportedAlgorithm" /\ Fail(p)
     \/ Late(p) = "ValueError" /\ Refuse(p)
     \/ Late(p) = "names" /\ Reply(p, 400, "SUCCESS")
  /\ UNCHANGED <<shared, req, history, wrote>>

\* The access the handler is about to make.
Accesses(p) ==
  CASE pc[p] \in {"idle", "done"} -> FALSE
    [] pc[p] = "finish" -> req[p].op \in {"register", "retire", "update"}
    [] pc[p] = "crypto" -> Authorized(p) /\ req[p].decodable
    [] OTHER            -> TRUE

\* The access fails and changes nothing: an unexpected exception, 503, or a
\* ValueError of hsm.key, 400, which cannot describe the key it found.
AccessFails(p) ==
  /\ Faults
  /\ Accesses(p)
  /\ Fail(p) \/ (pc[p] \in {"validateKey", "registerKey", "updateKey"} /\ Refuse(p))
  /\ UNCHANGED <<shared, req, history, wrote>>

Tick ==
  /\ now < MaxNow
  /\ now' = now + 1
  /\ UNCHANGED <<registry, tokenVars, failClosed, pc, req, local, signed, retired, wrote>>
  /\ Witness

\* Every request of the run has been answered.
Quiescent ==
  /\ \A p \in Procs : pc[p] = "done"
  /\ UNCHANGED vars

Handle(p) ==
  \/ Receive(p)
  \/ Lookup(p) \/ Validate_key(p) \/ ValidateKeyObject(p)
  \/ Unauthorized(p) \/ Crypto(p)
  \/ CheckCertificate(p)
  \/ RegisterKeyObject(p) \/ SelectKeyId(p) \/ SelectObject(p) \/ Insert(p)
  \/ GetKey(p) \/ UpdateKeyObject(p) \/ SelectStatus(p) \/ Commit(p)
  \/ FindReferences(p) \/ ReadCert(p) \/ Destroy(p)
  \/ Create(p) \/ Generate(p)
  \/ Finish(p) \/ AccessFails(p)

Next == (\E p \in Procs : Handle(p)) \/ Tick \/ Quiescent

Spec == Init /\ [][Next]_vars

----------------------------------------------------------------------------
\* Properties that hold.

Succeeded(p, op) == answer[p] # None /\ answer[p].code = 200 /\ req[p].op = op

\* A request of this kind has been committed, whatever was answered, or not.
Written(p, op) == p \in wrote /\ req[p].op = op

(***************************************************************************)
(* Of concurrent registrations at most one is committed for a key_id and   *)
(* at most one for an object_id: register_key decides with two SELECTs     *)
(* that other threads interleave with, and the schema has the last word.   *)
(***************************************************************************)
RegisterOnce ==
  \A p, q \in Procs :
    p # q /\ Written(p, "register") /\ Written(q, "register") =>
      req[p].key # req[q].key /\ req[p].id # req[q].id

(***************************************************************************)
(* A registration and a retirement that were committed are never undone,   *)
(* whatever other handlers write to the row they read before, and also     *)
(* when the answer was a 503 because the row could not be read back; and   *)
(* none is acknowledged that was not committed.                            *)
(***************************************************************************)
CommittedWritesHold ==
  \A p \in Procs :
    LET row == registry[req[p].key] IN
    /\ Written(p, "register") =>
         row # None /\ row.role = req[p].role /\ row.object = req[p].id
    /\ Written(p, "retire") => row # None /\ row.status = "RETIRED"
    /\ \A op \in {"register", "retire", "update"} : Succeeded(p, op) => p \in wrote

(***************************************************************************)
(* A key retired before a signing request arrived never signs for it:      *)
(* validate_key reads the status after the request came in.                *)
(***************************************************************************)
NoSignAfterRetire ==
  \A p \in Procs : signed[p] # None => signed[p].key \notin retired[p]

(***************************************************************************)
(* A signature is one the row of its key permits: the operation its role   *)
(* has, an algorithm for its key, made with the object and the kind of key *)
(* that were registered (validate_signing_key, several steps before        *)
(* hsm.sign).                                                              *)
(***************************************************************************)
LawfulFor(p) ==
  LET row == registry[signed[p].key] IN
  /\ row # None
  /\ row.object = req[p].id
  /\ keys[row.object] # None
  /\ signed[p].pair = keys[row.object].pair
  /\ signed[p].pair.alg = row.alg
  /\ signed[p].pair.params = row.params
  /\ req[p].alg \in AllowedAlgorithms(row.alg)
  /\ req[p].use \in AllowedOperations(row.role)

SignatureLawful == \A p \in Procs : signed[p] # None => LawfulFor(p)

\* At some moment of the request a certificate was stored under the id that
\* met the policy then.
Vetted(p, id, role, pub) ==
  \E w \in seen[p][id] : Validate(w[1], role, pub, w[2]) = "ok"

(***************************************************************************)
(* A signature under a bound certificate is made with the key pair of a    *)
(* certificate stored there that met the role's policy at some moment of   *)
(* the request, and a CSCA key never signs unbound.                        *)
(***************************************************************************)
CertifiedFor(p) ==
  LET s == signed[p]
      role == registry[s.key].role IN
  /\ role = "CSCA" => s.cert # None
  /\ s.cert # None => Vetted(p, s.cert, role, s.pair.pub)

SignatureCertified == \A p \in Procs : signed[p] # None => CertifiedFor(p)

(***************************************************************************)
(* A CSCA row is bound, and a row is bound as an earlier life left it or   *)
(* by a request during which a certificate was stored under the id that    *)
(* met the policy for the row's role and key: register_hsm_key and         *)
(* update_certificate validate before they write, in another access.       *)
(***************************************************************************)
BoundBy(p, row) ==
  /\ Written(p, "register") \/ Written(p, "update")
  /\ req[p].key = row.key
  /\ req[p].cert = row.cert
  /\ keys[row.object] # None
  /\ Vetted(p, row.cert, row.role, keys[row.object].pair.pub)

BoundBefore(row) ==
  InitRegistry[row.key] # None /\ InitRegistry[row.key].cert = row.cert

BindingVetted ==
  \A row \in Rows(registry) :
    /\ row.role = "CSCA" => row.cert # None
    /\ row.cert # None => BoundBefore(row) \/ \E p \in Procs : BoundBy(p, row)

(***************************************************************************)
(* "validate -> HSM op -> verify -> commit registry": a request answered   *)
(* 400 or 404 has changed neither the registry nor the token, but for a    *)
(* generated key that cannot be read back and an imported certificate      *)
(* whose key or names cannot be read; and nothing that was written is      *)
(* audited as DENIED.                                                      *)
(***************************************************************************)
Accounted(p) ==
  answer[p] # None =>
    /\ answer[p].audit # "DENIED"
    /\ answer[p].code \in {400, 404} =>
         req[p].op = "generate" \/ Late(p) \in {"ValueError", "names"}

RefusalsAccounted == \A p \in wrote : Accounted(p)

(***************************************************************************)
(* A key pair on the token is never overwritten or removed, whatever       *)
(* generation requests race: _assert_unique and generate_keypair are under *)
(* one hold of _hsm_lock.                                                  *)
(***************************************************************************)
KeysStable ==
  [][\A i \in Ids : keys[i] # None => keys'[i] = keys[i]]_vars

(***************************************************************************)
(* The service implements KeyCustody: a request holds a grant from the     *)
(* status check of validate_key until it signs or is refused.              *)
(***************************************************************************)
Granted(p) ==
  IF pc[p] \in {"validateKey", "certificate", "crypto"} /\ req[p].op = "sign"
  THEN entry[p].key ELSE None

SignedWith(p) == IF signed[p] = None THEN None ELSE signed[p].key

Custody == INSTANCE KeyCustody WITH
  Clients <- Procs, Identities <- Row, Certificates <- Ids,
  ledger <- registry,
  grant <- [p \in Procs |-> Granted(p)],
  signatures <- [p \in Procs |-> SignedWith(p)]

CustodySpec == Custody!Spec

(***************************************************************************)
(* The requests together use the token as TokenStore promises (TokenAccess *)
(* shows how app.hsm keeps that promise): no generation under an id that   *)
(* any object has, no deletion of a certificate that is not there.         *)
(***************************************************************************)
TokenUse == INSTANCE TokenStore WITH
  pairs <- [i \in Ids |-> IF keys[i] = None THEN 0 ELSE 1],
  certificates <- [i \in Ids |-> Len(certs[i])]

TokenSpec == TokenUse!Spec

----------------------------------------------------------------------------
\* What the documents say and the code does not do.

(***************************************************************************)
(* "sign vs retire race: retired key correctly refused": no signature is   *)
(* made with a key that is RETIRED when the token signs.                   *)
(***************************************************************************)
RetiredNeverSigns ==
  [][\A p \in Procs : signed'[p] # signed[p] =>
       registry[signed'[p].key].status = "ACTIVE"]_vars

(***************************************************************************)
(* "Never delete a certificate that is referenced by a registered key      *)
(* identity": every bound certificate is on the token.                     *)
(***************************************************************************)
NoDanglingBinding == \A row \in Rows(registry) : row.cert # None => certs[row.cert] # <<>>
=============================================================================
