----------------------------- MODULE KmsRestart -----------------------------
(***************************************************************************)
(* The service over several lives of its process.  A crash loses the       *)
(* requests in flight; the registry and the token keep what was written.   *)
(* Every start runs the integrity check once, before the first request.    *)
(* Objects also leave the token by other hands than the service's: another *)
(* PKCS#11 client, a token that was reset.                                 *)
(***************************************************************************)
EXTENDS KmsInvariant

CONSTANTS
  MaxRestarts,   \* bound on crashes
  MaxLosses      \* bound on objects lost

ASSUME RestartBoundsAssumption == MaxRestarts \in Nat /\ MaxLosses \in Nat

VARIABLES
  up,            \* the process runs
  restarts,
  losses,
  missing,       \* history: ACTIVE rows without a key when the check ran
  aborted,       \* history: the check raised
  disturbed      \* history: requests in flight when a key was lost

lifeVars == <<up, restarts, losses, missing, aborted, disturbed>>
allVars == <<vars, lifeVars>>

InFlight == {p \in Procs : pc[p] \notin {"idle", "done"}}

MissingKeys ==
  {k \in KeyIds : /\ registry[k] # None
                  /\ registry[k].status = "ACTIVE"
                  /\ keys[registry[k].object] = None}

RestartTypeOK ==
  /\ TypeOK
  /\ up \in BOOLEAN
  /\ restarts \in 0..MaxRestarts
  /\ losses \in 0..MaxLosses
  /\ missing \in SUBSET KeyIds
  /\ aborted \in BOOLEAN
  /\ disturbed \in SUBSET Procs

RestartInit ==
  /\ Init
  /\ up = TRUE
  /\ restarts = 0
  /\ losses = 0
  /\ missing = MissingKeys
  /\ aborted = CheckAborts(registry, keys, certs, now)
  /\ disturbed = {}

Crash ==
  /\ up
  /\ restarts < MaxRestarts
  /\ up' = FALSE
  /\ restarts' = restarts + 1
  /\ pc' = [p \in Procs |-> IF p \in InFlight THEN "done" ELSE pc[p]]
  /\ entry' = [p \in Procs |-> None]
  /\ hkey' = [p \in Procs |-> None]
  /\ UNCHANGED <<shared, req, answer, history, wrote,
                 losses, missing, aborted, disturbed>>

\* RegistryService() sets fail_closed to False, the lifespan hook runs the
\* check and lets no request in before it is done.  A token that does not
\* answer is one more reason for the check to raise.
Restart ==
  /\ ~up
  /\ up' = TRUE
  /\ \/ /\ failClosed' = StartupFailClosed(registry, keys, certs, now)
        /\ aborted' = CheckAborts(registry, keys, certs, now)
     \/ Faults /\ failClosed' = FALSE /\ aborted' = TRUE
  /\ missing' = MissingKeys
  /\ UNCHANGED <<registry, tokenVars, now, pc, req, local, history, wrote,
                 restarts, losses, disturbed>>

Lose ==
  /\ losses < MaxLosses
  /\ losses' = losses + 1
  /\ \E i \in Ids :
       \/ /\ keys[i] # None
          /\ \/ keys' = [keys EXCEPT ![i] = None]
             \/ keys[i].private /\ keys' = [keys EXCEPT ![i].private = FALSE]
          /\ disturbed' = disturbed \cup InFlight
          /\ UNCHANGED certs
       \/ /\ certs[i] # <<>>
          /\ certs' = [certs EXCEPT ![i] = Tail(@)]
          /\ UNCHANGED <<keys, disturbed>>
  /\ UNCHANGED <<registry, spent, failClosed, now, pc, req, local,
                 history, wrote, up, restarts, missing, aborted>>

RestartNext ==
  \/ up /\ Next /\ UNCHANGED lifeVars
  \/ Crash \/ Restart \/ Lose

RestartSpec == RestartInit /\ [][RestartNext]_allVars

----------------------------------------------------------------------------
(***************************************************************************)
(* What a start decides stands until the next one: the service is failed   *)
(* closed exactly when the check came to an end and an ACTIVE key was      *)
(* missing.  No request is in flight when it is decided, and one that will *)
(* use a key has read the flag after that.                                 *)
(***************************************************************************)
UsesKey(p) == pc[p] \in {"validateKey", "certificate", "crypto"} /\ Crypting(p)

Started ==
  /\ ~up => InFlight = {}
  /\ failClosed <=> missing # {} /\ ~aborted
  /\ failClosed => \A p \in Procs : ~UsesKey(p)

(***************************************************************************)
(* The invariant over all lives.  Of the two layers of KmsInvariant the    *)
(* first, about the registry, stands as it is.  The second, about what is  *)
(* on the token, stands for the requests no loss has disturbed: the others *)
(* may hold the description of a key that is gone or has been replaced.    *)
(***************************************************************************)
RestartInductive ==
  /\ RestartTypeOK
  /\ Started
  /\ Inductive
  /\ SeesStored
  /\ \A p \in Procs \ disturbed : CertThread(p)

----------------------------------------------------------------------------
(***************************************************************************)
(* A life that began with an ACTIVE key missing from the token makes no    *)
(* signature with any key, provided its check came to an end; retirement,  *)
(* regeneration and registration do not reopen it before the next start.   *)
(***************************************************************************)
FailedClosedNeverSigns ==
  [][signed' # signed => missing = {} \/ aborted]_allVars

(***************************************************************************)
(* Crashes and certificates lost do not weaken SignatureCertified; only a  *)
(* key replaced under a request in flight could.                           *)
(***************************************************************************)
SignatureCertifiedAcrossLives ==
  \A p \in Procs \ disturbed : signed[p] # None => CertifiedFor(p)

(***************************************************************************)
(* In every life a signature is one the row of its key permits.  A key of  *)
(* another size or curve, generated under the same CKA_ID in the place of  *)
(* a lost one, signs for no request that comes after the loss.             *)
(***************************************************************************)
SignatureLawfulAcrossLives ==
  \A p \in Procs : signed[p] # None =>
    /\ PermittedFor(p)
    /\ p \notin disturbed => signed[p].pair.params = registry[signed[p].key].params

(***************************************************************************)
(* check_integrity and validate_key each compare a row with the token, in  *)
(* code of their own.  They agree: a report that comes to an end has no    *)
(* issue of a row exactly when a request that finds the row ACTIVE and the *)
(* token as it is would be let through to hsm.sign.                        *)
(***************************************************************************)
Usable(row) ==
  /\ keys[row.object] # None
  /\ MatchesRow(keys[row.object], row)
  /\ row.cert # None =>
       /\ certs[row.cert] # <<>>
       /\ LoadAndValidate(Head(certs[row.cert]), row.role,
                          keys[row.object].pair.pub, now) = "ok"

IssuesOf(row) ==
  {issue \in Report(registry, keys, certs, now) :
     issue.subject = row.key /\ issue.status = row.status}

ReportAgreesWithUse ==
  ~CheckAborts(registry, keys, certs, now) =>
    \A row \in Rows(registry) : IssuesOf(row) = {} <=> Usable(row)

(***************************************************************************)
(* The documented startup promise, "FAIL CLOSED for cryptographic          *)
(* operations when an ACTIVE registered key's HSM object is missing",      *)
(* without the proviso that the check came to an end.                      *)
(***************************************************************************)
StartupFailsClosed == missing # {} => failClosed
=============================================================================
