# TLA+ verification of Pico-KMS

Pico-KMS is a small key-management service for electronic-passport keys. A
FastAPI server (`app/main.py`) stands before two stores: a PKCS#11 token, which
holds key pairs and certificates, and a SQLite registry, which says what each key
is for. There is no transaction over both, and several requests run at once. The
modules here model the service's handlers access by access, the lock and the
threads beneath them, the integrity report, restarts, and the enrollment script
that is the service's client. TLC checks them; the most important results are
proved with TLAPS for any number of requests, threads, keys and certificates.

## 1. The system

| Component | State it keeps | Operations |
|---|---|---|
| HTTP handlers, `app/main.py` | none of their own; locals of the request | `register_key`, `retire_key`, `gen_rsa`, `gen_ec`, `sign`, `verify`, `update_key_certificate`, `import_cert`, `delete_cert`; read-only: health, token, mechanisms, objects, registry listings, `integrity` |
| Registry service, `app/registry_service.py` | `fail_closed`, `last_integrity` | `validate_object`, `validate_key`, `validate_signing_key`, `register_hsm_key`, `update_certificate`, `delete_certificate`, `retire_key`, `check_integrity`, `run_startup_integrity_check` |
| Key registry, `app/registry.py` | table `key_registry` in SQLite | `register_key` (2 SELECTs, INSERT), `retire_key` and `update_certificate` (SELECT, UPDATE), look-ups |
| HSM access, `app/hsm.py` | objects on the token; the lock `_hsm_lock` | `key`, `cert`, `gen_rsa`, `gen_ec`, `sign`, `verify`, `import_cert`, `delete_cert`, `objects`, `token`, `mechanisms` |
| Certificate policy, `app/certificate_policy.py` | none | `validate(certificate, role, public_key_der)` |
| Clock, `app/clock.py` | the time | `now` |
| Audit, `app/audit.py` | a log | `audit_event` and its wrappers |
| Authorization planes, `app/main.py`, `app/config.py` | bearer tokens | comparison before a handler |
| Enrollment script, `scripts/enroll_csca_ds_cvca.py` | files, and the token | generate, build certificates, import, register, over HTTP and on the token itself |
| Launch and probe scripts | none | start uvicorn, call pkcs11-tool |

**How they interact.** Handlers are plain functions: FastAPI runs them on a pool
of threads. A handler calls the service, which calls the registry (one SQLite
connection per call) and the HSM object (one session per call under one
process-wide reentrant lock), and then audits and answers. Authentication is a
dependency, which takes a thread of the same pool before the handler does. The two stores share
only the string `CKA_ID`: `object_id` and `certificate_id` of a row name objects
on the token, and nothing but the handlers keeps the names true. The lifespan
hook runs the integrity check once per start, and sets `fail_closed`. The
enrollment script asks the server over HTTP for what changes something, and asks
the token itself, through `app.hsm` in its own process, for descriptions of keys
and for signatures of the CSCA key.

**What is hard.**

* *Interleaving.* Each access to a store is atomic, a handler is not. Between the
  accesses of a handler any other may run: retire between the validation and the
  signature, rebind between the reference check and the deletion, register
  between another's SELECT and INSERT.
* *Stale locals.* The row, the key description and the certificate that were
  validated are read several steps before they are used; the key is looked up
  again by id when it signs.
* *Order and partial failure.* Steps after a write may fail: the read-back of the
  row (503), the read-back of the generated key (503, or 400 when it cannot be
  described), the key of an imported certificate (503 or 400) and its names (400,
  after `SUCCESS` has been audited). The client is told of a failure, or of a
  refusal, of what was done. Branches of `except` decide what is audited.
* *Crash and restart.* Requests vanish, stores stay; the startup check may itself
  fail, and its exceptions are swallowed.
* *Time.* Certificates expire while requests run.
* *Waiting.* One lock and one pool without timeouts: a token that hangs holds
  every thread that asks it, and the requests behind them.
* *Clients.* The script takes any failure of a look-up for absence, runs again
  after it died, and may have been answered by nobody for something the server
  still carries out.

**What makes each component correct.**

* Registry: one row per `key_id` and per `object_id`; committed writes hold, also
  those that were answered 503, and none is acknowledged that was not committed;
  identity never changes; RETIRED is final.
* Service: a signature is one the row permits, with the key that was registered,
  under a certificate that met the policy; no request
  binds a certificate it did not see meet the policy; a refused request changes
  nothing, but for the late refusals of a generation or an import.
* HSM access: no key pair is replaced; a method takes effect at one instant; every
  request ends if the token answers.
* Policy: one outcome, accepted or one of four kinds of exception; roles do not
  overlap.
* Startup check: after it finds an ACTIVE key missing, nothing is signed.
* Report: exact about whatever nobody touched while it was made, as far as the
  token let it read.
* Enrollment: what it announces is so, unless a deletion ran across a registration;
  failures cost at most a duplicate certificate each; running it again gets there.
* The whole: an abstract custodian of keys, see `KeyCustody`.

The hazards of the code, each with its line and the properties that would catch
it, are listed in `PROJECT.json`.

## 2. The modules

| Module | What it is |
|---|---|
| `CertificatePolicy` | The policy as a pure function `Validate(c, role, pub, now)` to one of five outcomes: accepted, or the exception raised: refusal by the policy, `ValueError`, `UnsupportedAlgorithm`, `DuplicateExtension` |
| `PolicyCall` | One call of `validate()` as a state machine, check by check |
| `KmsData` | The types of the two stores |
| `Integrity` | `check_integrity` and the fail-closed decision, as functions of one state |
| `Kms` | The service under concurrent requests |
| `KeyCustody` | Abstract specification: what the service promises about keys. `Kms` implements it |
| `TokenStore` | Abstract specification: the token as a store whose operations are instants. `TokenAccess` implements it, `Kms` uses it |
| `TokenAccess` | Authentication, the pool of threads, `_hsm_lock`, sessions, hanging and restart; the script as a second process |
| `KmsReport` | The integrity report access by access, while `Kms` runs |
| `KmsRestart` | `Kms` over crashes, restarts and objects lost from the token |
| `Enrollment` | The enrollment script against the service |
| `KmsInvariant` | The inductive invariant of `Kms`, in two layers |
| `KmsProofs`, `KmsCustodyProofs`, `KmsCertificateProofs`, `KmsReportProofs`, `KmsRestartProofs`, `TokenAccessProofs`, `EnrollmentProofs`, `PolicyCallProofs` | Theorems and proofs |
| `MCKms`, `MCKmsReport`, `MCKmsRestart`, `MCPolicyCall`, `MCTokenAccess` | Instances for TLC |

How they compose:

* `Kms` EXTENDS `Integrity`, `KmsData` and `CertificatePolicy`, and instantiates
  `KeyCustody` (as `Custody`) and `TokenStore` (as `TokenUse`).
* `KmsInvariant` EXTENDS `Kms`; `KmsRestart` and `KmsReport` add a process life
  and a report to it.
* `TokenAccess` instantiates `TokenStore`. The two meet there: `Kms` takes a
  method of `HSM` for one step of the token (`TokenSpec`), `TokenAccess` shows that
  the lock makes it one (`StoreSpec`).
* `Enrollment` EXTENDS `CertificatePolicy`: the certificates the script builds are
  judged by the policy, not assumed to pass.

### From code to `Kms`

A member of `Procs` is one request with its thread. `pc[p]` names the next access
of its handler to a store, `entry[p]` the registry row in its local, `hkey[p]`
what `hsm.key` returned. One access is one action:

* a method of `HSM` is one action, because `_hsm_lock` is held from its first
  to its last token call (`hsm.sign`: find the key and sign; `hsm.gen_rsa`:
  uniqueness check, generation, read-back);
* a SELECT is one action, and an INSERT or UPDATE with its commit another: Python's
  `sqlite3` opens a transaction only at the first statement that writes, so a
  SELECT before it protects nothing;
* local computation (`CertificatePolicy.validate`, the comparison of algorithms,
  the branch for an exception) belongs to the action that gives it its data.

| Handler | Its actions, in order |
|---|---|
| `sign`, `verify` | `Lookup` (`validate_object`), `Validate_key`, `ValidateKeyObject`, `CheckCertificate` if bound, then `Unauthorized` or `Crypto`, `Finish` |
| `register_key` | `RegisterKeyObject`, `CheckCertificate` if given, `SelectKeyId`, `SelectObject`, `Insert`, `Finish` (read the row back) |
| `retire_key` | `GetKey`, `SelectStatus`, `Commit`, `Finish` (read the row back) |
| `update_key_certificate` | `GetKey`, `UpdateKeyObject`, `CheckCertificate`, `SelectStatus`, `Commit`, `Finish` (read the row back) |
| `delete_cert` | `FindReferences`, `ReadCert`, `Destroy`, `Finish` |
| `import_cert` | `Create` (parses the certificate, then stores it), `Finish` (asks for its key, to audit the type, then for its names, to answer) |
| `gen_rsa`, `gen_ec` | `Generate` (reads the new key back, which may fail), `Finish` |

An exception ends a handler: `NotFound` (KeyError, 404), `Refuse` (ValueError
and its subclasses, 400), `Fail` (anything else, 503). `answer[p]` holds the code
and the result the handler left on the audit trail, `"NONE"` if it left no event.
With `Faults` any access may fail (`AccessFails`): a token that does not answer, a
locked database, a key that `hsm.key` finds and cannot describe (a ValueError).
`Tick` moves the clock.

`Finish` of an import has four ends: 200; 503 when the key is of an unsupported
kind; 400 when it is malformed; 400 when the names are, with `SUCCESS` on the
audit trail. `Generate` has three after the generation. In all of them the object
is on the token.

`signed`, `retired`, `seen` and `wrote` are history variables: no action reads
them. `seen[p]` collects the certificates stored while p was in flight, under each
id, with the time; `retired[p]` the keys that were retired when it came in; `wrote` the
requests that changed a store. `spent` says which key pairs were generated before; the
token never makes one twice.

Two abstractions are the token's own choice and not the code's, so they are left
open. A `CKA_ID` may name several certificates, `certs[i]` is their sequence in the
order look-ups find them, and `Create` may put a new one before or behind the old
ones. A generated key pair is any that was never made before.

In `CertificatePolicy`, a certificate is the record of what the policy looks at.
The library parses its parts only when they are asked for, so each has the
exceptions that asking for it may raise: `keyType` covers keys that `public_key()`
refuses with `UnsupportedAlgorithm` or with `ValueError` (a point off the curve),
`names` a subject or an issuer that does not parse, `extensions` a block of extensions
that raises `ValueError` or `DuplicateExtension`; and `selfSignature` says what
verifying the certificate with its own key does. Stored bytes that are no
certificate are `"garbage"`. The handlers answer a ValueError 400 and the other
exceptions 503; the report makes an issue of the policy's own exception, and
ends with any other.

### From code to `KmsRestart`

`Crash` ends every request in flight at whatever step it is at. `Restart` is the
lifespan hook: `fail_closed` starts as False, `Integrity!StartupFailClosed` or an
exception decides what it becomes, and requests are let in after. `Lose` removes
an object from the token, or the private half of a key pair, by other hands.

`Started` says what the flag means and why a life that failed closed stays so: it
is set exactly when the check came to an end and found an ACTIVE key missing; it is
decided before requests come in, and a request that will use a key has read it since.

`disturbed` is history: the requests that were in flight when a key was lost. They may
hold the description of a key that is gone, or that an operator has already replaced
by another of the same id; what `Kms` promises of the key and the certificate of a
signature is promised to the others. Which signatures the row permits, what was
committed and who may sign at all is promised to everyone.

`Report` and `Usable` are two translations of two pieces of code, `check_integrity` and
the part of `validate_key` that looks at the token. `ReportAgreesWithUse` compares
them in every state.

### From code to `TokenAccess`

A member of `Threads` is one request to the server, or one call of the script.
`stage` is how far it got: `arrived`, `auth` (the dependency has a thread of the
pool), `admitted`, `handler` (the handler has one), `answered`, or `lost` with the
server. `todo[t]` are the calls of `HSM` its handler has still to make, taken from
`Calls(op)`, which lists every way through the handler that rows and request
bodies can decide; for a registration that is also the way without any call, refused for
an empty field. `frames[t]` is the stack of the calls it is in, each at a step:

| Code | Step |
|---|---|
| `with _hsm_lock` of the decorator | `Call`, `NestedCall` (both `Enter`), `Return` |
| `self._assert_unique(i)`, `self.key(i)` inside `gen_rsa`, `gen_ec` | `NestedCall` |
| `self.session()`, with `lib` and `slot()` | `Open` |
| the calls to the token | `Body` |
| the end of `with self.session()` | `Close` |
| an exception in any of them | `Raise`: all frames end, sessions close, the lock is released |
| `gen_rsa`, `gen_ec` refuse their parameters under the lock | `RefuseParameters` |

`owner` and `depth` are the reentrant lock, one per process. `Hang` is a token that
stops answering: nobody opens, uses or closes a session any more. `Restart` ends
the server's requests and, as Roadmap 437-438 reports ("a server restart
recovers"), the token answers again.

### From code to `KmsReport`

`ListObjects`, `ListKeys`, `ReadKey`, `ReadCertificate`, `Summary` are the accesses
of `check_integrity`; the program's locals are `hsm_certs`, `todo` (the rest of the
list of rows), `row`, `key`, `referenced` and `issues`. Between two of them any
step of `Kms` may happen. Rows are taken in any order. `touched`, `unread` and
`doubly` are history: what requests changed since the first access, the rows whose
certificate the token failed to read, and the ids two rows were bound to
at once. They say of which part of the report truth can be asked, and what it is:
`check_integrity` takes every exception of `hsm.cert` for a certificate that cannot
be parsed (`ReportFails`), so that of a row in `unread` it says
`UNPARSEABLE_CERTIFICATE` although nobody touched it and its certificate may be a
good one. `UntouchedRowsExact` says so.

### From code to `Enrollment`

`step` and `cur` are the script's place, `described[e]` what `keys[...]` holds of an
entity: `"der"` from `hsm.key`, `"base64"` from the answer of the generate endpoint.
A generation or an import is one step of the server here: `Kms` has its steps, and `Accepts`
is what `Generate` and `Create` of `Kms` accept. A registration is two, because what it
validated may be gone when it commits: `PostRegister` reads the key and the certificate and
asks the policy, `Commit` inserts the row. So is a deletion, one of the operator's
requests: `FindReferences` looks for rows, `Destroy` deletes. A request may
fail before it has its effect, after, or time out and be carried out later (`Late`,
`LateValidate`, `LateCommit`), when a rerun may have sent it again. An uncaught exception ends
the run, which the operator may start anew. `Retire` is the operator's too.

`overlapped` is history: the entities for which a deletion had found no reference and not
yet deleted while a registration had validated and not yet committed. Neither sees the other, and the
row may be left without its certificate: the second finding of section 5, met from the
client's side. `RowsBacked` says that this is the only way to lose it.

## 3. The runs

| Run | What it asks | Expected |
|---|---|---|
| `lifecycle` | Signing, verifying, registering, retiring, rebinding, generating, with failing stores: is what was committed never undone, whatever was answered, every signature lawful, every key pair kept? Does the service implement `KeyCustody`? Is the proofs' invariant invariant? | pass |
| `certificates` | Rebinding, import, deletion, registration and expiry: does every signature and every new binding rest on a certificate that met the policy while the request ran? Do refusals leave the stores alone, but for those that come too late, and does the audit trail agree? Is the token used as `TokenStore` promises it? | pass |
| `report` | A report made while two requests run: is it exact about what nobody touched, but for what the token failed to read, and are its duplicates real? | pass |
| `restart` | Crashes, restarts, lost objects: does a life that began with a reported missing key never sign? Are signatures still lawful and certified, and key custody kept? Does a key of other parameters under the id of a lost one sign? Do the report and a signing request judge a row alike? Is the proofs' invariant invariant (types and committed writes are part of it)? | pass |
| `policy` | Does the chain of checks agree with the function the other modules use, exception by exception, and are the roles separate? | pass |
| `token_access` | Does the lock make each method one step? Does every request end unless the token is gone for good, and every listing even then? | pass |
| `enrollment` | Is what the script announces so, unless a deletion ran across a registration? Do reruns converge, at the cost of at most one duplicate per failure? | pass |
| `retire_race` | "retired key correctly refused" | violation |
| `dangling_binding` | "Never delete a certificate that is referenced" | violation |
| `startup_check` | "FAIL CLOSED ... when an ACTIVE registered key's HSM object is missing" | violation |
| `second_process` | "a process-wide reentrant lock ... around every HSM access, serializing operations" | violation |
| `fresh_enrollment` | "Ensures the HSM key pairs exist (generates them if missing)" and goes on | violation |

### Bounds

* *Requests.* Three concurrent requests in `lifecycle` and `certificates`, two where two
  actors are enough for a violation, two in `restart` and two beside the report. Every race
  known in the code needs two writers, or a writer and a reader; the third lets a
  pair race in a state another one made. The proofs hold for any set of requests.
* *What clients ask.* Each run has a set of 8 to 16 requests, chosen so that each
  path of the handlers it is about is taken and so that requests collide on
  `key_id`, `object_id` and `certificate_id`.
* *Keys and certificates.* Two to four `key_id`s and as many `CKA_ID`s, five
  key pairs of both algorithms, and certificates that are right, expiring, for another
  key, of another role, with a key of an unsupported kind, with a malformed key, malformed
  names or an extension twice, or no certificate at all.
* *Initial stores.* `certificates` begins with a binding that an earlier life left
  dangling: a retired row whose key is gone, bound to a certificate that is not for it.
* `MaxNow` bounds the clock: one tick is enough for a certificate to expire in
  the middle of a request. `MaxCerts` bounds the certificates under one id; it is
  above what the requests of a run can import, so `Create` is never held up.
  `MaxRestarts = 1`, `MaxLosses = 2`: one crash at any step, two objects lost
  before or after.
* *Pool and lock.* Three requests on a pool of two threads (`PoolSize`), so that one must wait
  for a thread, and one id, so that they collide on it. `MaxHangs = 1`: the token
  hangs at any step, is restarted, and answers from then on; or it is never
  restarted. That the script runs beside the server is in the proof of
  `StoreSpec` and in `second_process`.
* *Enrollment.* The three entities of the script; `MaxFaults = 2` failing requests and
  `MaxDeletes = 1` deletion, in its two steps: a request may be late, sent again, and late again,
  and the deletion overlap any of them.
* *Symmetry.* Requests are interchangeable: `Permutations(Procs)` is used where
  only safety is checked. Key ids and object ids are not interchangeable (the
  initial stores distinguish them).
* *Deadlock* is checked in every run but those of `TokenAccess`, where a token that
  hangs for good stops the system. In `Kms` the stuttering step `Quiescent` (and `Over`
  in `PolicyCall`) stands for the end of the run when every request is answered,
  so a handler that could not go on would be reported.

### Fairness

* `TokenAccess`: `WF_vars(Run(t))` for each thread, that is, the operating system
  runs a thread that can run. Nothing more is assumed of the lock: `RLock`
  is not first-come first-served, and a thread that waits is passed over
  only as long as others take the lock. Each request takes it a finite number of times, and the
  model has finitely many requests, so weak fairness is enough; under endless traffic
  nothing in the code would prevent starvation. Nothing is assumed of clients (`Arrive`), of the token (`Hang`) or
  of the operator (`Restart`).
  * `EveryRequestEnds` has the premise `[]<>~hung`: the token answers again and
    again, or the operator restarts. Without it the property is false, because
    no access has a timeout: a hung token blocks `/health` as well.
  * `ListingAnswered` needs no token, only threads that become free
    (`[]<>SlotFree`). When the pool is full of threads that wait for the token, a listing
    of the registry and a retirement wait with them.
* `Enrollment`: `WF_vars(Script)`, the script goes on, and `WF_vars(Run)`, the
  operator runs it again. Late requests need no fairness.

All other properties are safety properties and assume none.

## 4. What is proved

All theorems hold for every value of the constants that satisfies the named
assumptions: any number of requests and threads, any sets of ids, keys and certificates,
any initial stores that are well typed, with a registry that keeps the schema and CSCA rows
bound, any number of faults. Bindings that dangle, expired certificates and lost keys are
among them.

| Theorem | Says |
|---|---|
| `KmsProofs!InvariantHolds` | `Inductive`, the first layer of the invariant of `Kms` |
| `KmsProofs!TypeCorrect` | `TypeOK` |
| `KmsProofs!RegistersOnce` | `RegisterOnce`: no two committed registrations of one key or object |
| `KmsProofs!WritesHold` | `CommittedWritesHold`: what was committed holds, acknowledged or not |
| `KmsProofs!RetirementBindsLaterRequests` | `NoSignAfterRetire`: a key retired before a request came in never signs for it |
| `KmsProofs!KeysNeverReplaced` | `KeysStable` |
| `KmsCustodyProofs!KeepsCustody` | `Spec => CustodySpec`: the concurrent service implements `KeyCustody` |
| `KmsCertificateProofs!CertificateInvariantHolds` | `CertInductive`, the second layer |
| `KmsCertificateProofs!BindingsAreVetted` | `BindingVetted`: a row is bound as an earlier life left it, or by a request that saw a certificate meet the policy for its role and key |
| `KmsCertificateProofs!SignaturesCertified` | `SignatureCertified`: the certificate met it during the request that signed |
| `KmsCertificateProofs!SignaturesLawful` | `SignatureLawful`: role, algorithm, object and kind of key as registered |
| `KmsCertificateProofs!RefusalsAreAccounted` | `RefusalsAccounted`: only a generation that cannot be read back and an import whose key or names cannot be read are refused after they wrote, and nothing written is audited as DENIED |
| `KmsCertificateProofs!UsesTokenAsPromised` | `Spec => TokenSpec` |
| `KmsReportProofs!ReportingHolds`, `ReportTyped` | `Reporting`, the invariant of the report, and its types |
| `KmsReportProofs!ReportExactOnRows` | `UntouchedRowsExact`: exact about untouched rows; `UNPARSEABLE_CERTIFICATE` where the token failed |
| `KmsReportProofs!ReportExactOnInventory` | `UntouchedInventoryExact` |
| `KmsReportProofs!DuplicatesAreReal` | `DuplicatesGrounded` |
| `KmsRestartProofs!RestartInvariantHolds`, `RestartTypeCorrect` | `RestartInductive`, the invariant over all lives; its types |
| `KmsRestartProofs!DecisionStands` | `Started`: what the flag means, over any number of crashes and losses |
| `KmsRestartProofs!WritesSurvive`, `RegisteredOnceAcrossLives`, `RetirementSurvives` | `CommittedWritesHold`, `RegisterOnce` and `NoSignAfterRetire` across crashes, restarts and losses |
| `KmsRestartProofs!LawfulAcrossLives` | `SignatureLawfulAcrossLives` |
| `KmsRestartProofs!CertifiedAcrossLives` | `SignatureCertifiedAcrossLives` |
| `KmsRestartProofs!NoSignatureWhenFailedClosed` | `FailedClosedNeverSigns` |
| `KmsRestartProofs!CustodyAcrossLives` | `RestartSpec => CustodySpec`: with its crashes and losses the service still implements `KeyCustody` |
| `KmsRestartProofs!ReportAgrees` | `ReportAgreesWithUse`: the report is silent of a row exactly when a request would be let sign |
| `TokenAccessProofs!InvariantHolds`, `TypeCorrect` | the invariant of lock, frames and script; its types |
| `TokenAccessProofs!SessionsApart` | `OneSession`: one session per process |
| `TokenAccessProofs!ImplementsStore` | `Spec => StoreSpec`: methods under the lock are instants |
| `EnrollmentProofs!InvariantHolds`, `TypeCorrect` | the invariant of script, server and late requests; its types |
| `EnrollmentProofs!Announced`, `Backed`, `DuplicatesBounded` | `AnnouncedMeansEnrolled` and `RowsBacked`, with the exception of `overlapped` entities; `DuplicatesFromFaults` |
| `PolicyCallProofs!TypeCorrect`, `Agrees`, `Separated` | `TypeOK`, `OutcomeAgrees`, `RolesSeparated` |

**Assumptions.** `NoneAssumption` and `SignatureAssumption` (Python's None is not a
value of another kind), `KeyPairsAssumption` (keys are RSA or EC),
`InitAssumption` (the initial stores are well typed, rows indexed by their key, no two
with one object, CSCA rows bound; nothing about what is on the token), `RequestsAssumption` (requests are well formed),
`ThreadsAssumption` (each thread belongs to one process and is asked what that process can
be asked), and the bounds, which are natural numbers. TLC
evaluates each of them on the instances.

**Argument, `Kms`.** None of the safety properties is inductive. What makes them true is
what a thread may rely on between two of its accesses although others ran:

* rows never disappear and never change identity (`SameIdentity`: key, role,
  object, algorithm and parameters), so the stale local `entry[p]` is stale in
  status and certificate only (`EntryInPlace`);
* RETIRED is final, so a key retired before a request arrived is retired when
  `Validate_key` reads the row again (`RetiredBefore`). `Lookup`
  finds retired rows as well; the status check of `Validate_key` is the only one;
* key pairs are never replaced, so the key that was compared with the row is the
  one `hsm.sign` finds (`KeyInPlace`);
* what a request committed stays, whether it is acknowledged or not (`WriteHolds`),
  and the schema lets only one of two inserts through (`RegisterOnce`, which is part of the
  invariant as it stands).

`ThreadInv(p)` is the conjunction for one thread, and `Inductive` the conjunction over
threads with `TypeOK`, `RowsInPlace` and `RegisterOnce`. The proof is by rely and
guarantee: each action of a thread p is shown to guarantee that the stores only
*evolve* (rows keep their identity, keys stay), once per action; that evolution preserves
`ThreadInv(q)` of each other thread is proved once; and that the action keeps
`ThreadInv(p)`, once per action. This keeps the proof linear in the number of
actions.

**Certificates.** A certificate read by one access may be deleted or shadowed
before the next, so "the certificate under the id meets the policy" is not stable
and no handler can rely on it. What is stable is that one stored under that id did, at a
moment of the request: `seen[p]` only grows, so `Vetted(p, id, role, pub)`
is never lost. `SeesStored` keeps the link to the token: what is stored now, with the clock of
now, has been seen by every request in flight. `CertThread(p)` says at which step which request
has what: registration, rebinding and signing from their certificate stage on. This is also the
precise extent of the promise: the certificate may have expired, be gone, or be another, when the
row is written or the token signs. A row bound by an earlier life (`BoundBefore`) is promised
nothing; what it signs is, because `CheckCertificate` asks again.

`WriteAccounted(p)` is the last write of a request with its answer: a request that wrote is at its
last step or answered, so that a refusal of it can only come from `Finish` or from the read-back
in `Generate`.

**Token.** A thread in a method holds its process's lock once per frame (`Held`),
so no other thread of the process is in one, and the script's methods only read
(`ScriptReads`). Hence nothing is put under an id between the moment
`_assert_unique` found nothing and the generation (`Fresh`), which makes `gen` the
one step `Generate` of `TokenStore`. A second *writing* process would break this.

**Refinement to `KeyCustody`.** It maps `registry` to the ledger, the steps `validateKey`,
`certificate` and `crypto` of a signing request to the possession of a grant, and
`signed` to the signatures. `Validate_key` is `Grant`, `Crypto` is `Sign`, a refusal
while holding a grant is `Withdraw`, `Insert` is `Register`, `Commit` is `Retire` or
`Rebind`; every other step stutters.

**Report.** A row is still on the list, or half done, or done; in each case what
the check holds of it is what the stores say, unless `touched` has it, or, of its certificate,
`unread`. A step of a request keeps that by being written down in `touched`, a step of the check
by changing nothing shared. The registry part of the invariant of `Kms`, `Inductive`, is all the proof needs
of the service.

**Restart.** `RestartInductive` is `Started` with both layers of the invariant of `Kms`, which were
cut so that they take crashes and losses differently.

* The first layer, `Inductive`, speaks of the registry and of what a thread holds of it,
  never of a key on the token. A crash ends threads and a loss touches the token
  only, so both keep it (`StoresMove`, for a restart and a loss). What follows from it alone,
  `WritesSurvive`, `RegisteredOnceAcrossLives` and `RetirementSurvives`, holds without
  reservation.
* The second layer, `CertThread(p)`, needs the key that was compared with the row to
  be there still (`KeyInPlace`). A loss breaks that for the requests in flight, and for no other: a
  request that arrives later finds the token as it then is. So it is claimed for the
  threads outside `disturbed`. A step of `Kms` keeps `CertThread(p)` whatever is true
  of other threads (`CertThreadStep`), so that the disturbed ones do not spoil the rest. Lost
  certificates need no exception, since `Vetted` speaks of what the request saw
  (`seen`).
* `KeyCustody` knows grants, not keys: a crash is one `Withdraw` of all the grants held, a
  restart and a loss stutter.
* `Started` as an equivalence needs the report: `MissingIsReported` and `ReportedIsMissing` say
  that the issue `MISSING_HSM_KEY` of an ACTIVE row stands for exactly the rows without a key.
  `IssuesOfRow` goes on to the other issues, for `ReportAgrees`: as `key_id` and status are what
  issues carry, and inventory issues have no status, the issues of a row can be told apart.

**Enrollment.** A certificate too many must have been imported by a request that
failed, or is one still on its way or about to be sent: `Counted` adds the three together against
`faults`. `Claims` is what a row, and a registration that has validated and not yet committed, may
rely on: its key pair, and, unless a deletion overlapped with it, its certificate and that no
deletion of it is under way. `Validated` and `FindReferences` establish it or write the overlap down;
once there is a row, `FindReferences` refuses. `Settled`: rows are never removed, so an entity the
run has behind it keeps its own.

**Policy.** Each check may rely on what the checks before it let pass
(`ProfilePassed`); at the end that is the profile of the role.

**Only model-checked.** The liveness properties (`EveryRequestEnds`,
`ListingAnswered`, `RerunsConverge`), which the prover cannot do. Every safety
property and action property of the passing runs is a theorem.

## 5. What the checks found

Each is a run that TLC ends with a trace; the documents are quoted in
`PROJECT.json`.

1. *Retire races with sign.* `hsm.sign` runs after `validate_signing_key`
   returned; a retirement committed and acknowledged in between does not stop it.
   What holds is `NoSignAfterRetire`.
2. *Delete races with rebind or register.* The reference check and the destruction
   are two accesses: a binding may be left without its certificate. `Enrollment`
   meets it too: the script may announce an entity whose certificate such a deletion
   then takes (`overlapped`).
3. *Startup.* The check raises on one odd row, the exception is swallowed, and
   the service stays open although another ACTIVE key is missing.
4. *A second process at the token.* The enrollment script opens sessions while the
   server's handlers have theirs: the lock is one per process. What holds is
   `StoreSpec`, because the script only reads.
5. *The first enrollment.* On an empty token the script generates its keys and
   then dies, because the server describes a key in Base64 and `build_cert` takes bytes. The second
   run succeeds (`RerunsConverge`).

Further disagreements between code and documents, which the model has but no run is
spent on:

* A retirement between the status SELECT and the UPDATE of a rebinding (`registry.py:213`):
  the UPDATE has no condition on the status, so a RETIRED row gets another
  certificate. `CommittedWritesHold` shows that it stays RETIRED.
* Two registrations of one object that pass the SELECTs together
  (`registry.py:80`): the loser meets the constraint of the schema and is answered
  503, where the documents promise 400.
* `sign` and `verify` leave no audit event in some of their `except` branches
  (`main.py:512`).
* An import of a certificate whose names do not parse is stored, audited as SUCCESS,
  and answered 400 (`main.py:811-832`); one whose key does not parse is stored and answered 400
  or 503. `RefusalsAccounted` names these cases and no other.
* `UNPARSEABLE_CERTIFICATE` stands for "certificate exists but cannot be parsed" in the
  documents (Roadmap 116). In the code any failure of `hsm.cert` gives it
  (`registry_service.py:447-448`), a certificate deleted meanwhile and a token that does not
  answer included.
* `CertificatePolicy.validate` raises other exceptions than its own on a certificate with a malformed part
  (`certificate_policy.py:61`, `116`, `169`): the report, which catches its own only, ends with 503
  where an issue is documented (`ReadCertificate`).
* A registered key whose object has the other algorithm makes `check_integrity`
  raise KeyError (`registry_service.py:395`), so that the documented
  `KEY_ALGORITHM_MISMATCH` is never answered: `ReadKey` ends the report there.
* Rerunning the enrollment after a look-up that failed imports a certificate
  twice. `DuplicatesFromFaults` bounds how many.

## 6. What is not modelled, and why

* *What the listings answer* (`/v1/keys`, `/v1/hsm/objects`, `/v1/certificates`,
  `/health`): they keep and change nothing. Their way to the token is in `TokenAccess`.
* *Audit writes*: the functions return False when the log fails, and handlers
  report it in `audit_status`; nothing else depends on it. Look-ups made only to
  fill in an audit event inside an `except` branch do not fail in the model.
* *Input checks* that precede any access (empty strings, hexadecimal fields and key sizes of the
  generation requests) answer 400 or 422 without a trace. The Base64 fields of `sign` and
  `verify`, decoded after the validation, and an import of bytes that are no certificate
  (`Create`) are in the model.
* *Data*: labels, timestamps, PEM and DER, names of mechanisms. `CKA_ID` is an
  opaque value. A key pair that lost its public half is left out: only the
  private half can be lost.
* *Which slot and which token* `slot()` chooses: it chooses one or raises, in `Open` and `Raise`.
* *The steps inside the server during an enrollment*, but for the two steps of a
  registration and of a deletion: a generation and an import are one step there, a late refusal
  of the import does not happen to a certificate the script built, and the operator does
  not rebind a row meanwhile. These interleavings are in `Kms`.
* *Signing beneath the registry*: the script has the token sign with the CSCA key
  whatever the registry says of it, RETIRED or failed closed. `Build` has no guard
  on the row; the code promises nothing that a property could state.
* *Restoring the registry from a backup*, an operator's procedure on the SQLite file
  that no handler takes part in: it would void every statement about committed writes.
* *Launch and probe scripts*: wrappers around uvicorn and pkcs11-tool.

## 7. Where to go on

The order in which the modules were written is that of the table in section 2.
What would add most now:

1. A report made access by access (`KmsReport`) over restarts (`KmsRestart`): what a
   report says that a loss overlaps.
2. `Enrollment` with the server's generations, imports and rebindings as in `Kms`, so that
   they too interleave with a rerun inside the handlers.
3. A status guard in the UPDATE of `update_certificate` and a re-check before
   `hsm.sign` and `hsm.delete_cert`: the runs of section 5 are the tests such a
   change should turn into passes.

## 8. Running

    tlc -config Lifecycle.cfg MCKms.tla
    tlc -config Certificates.cfg MCKms.tla
    tlc -config Report.cfg MCKmsReport.tla
    tlc -config Restart.cfg MCKmsRestart.tla
    tlc -config Policy.cfg MCPolicyCall.tla
    tlc -config TokenAccess.cfg MCTokenAccess.tla
    tlc -config Enrollment.cfg Enrollment.tla
    tlapm KmsProofs.tla

and likewise for the other `*Proofs` modules and for the configurations of the runs
that end in a violation. `PROJECT.json` lists each run with its module, configuration and properties, the
mutations that break each property, and the source lines of each definition.
