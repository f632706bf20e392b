---------------------------- MODULE KmsInvariant ----------------------------
(***************************************************************************)
(* The inductive invariant of Kms, thread by thread: what a handler may    *)
(* rely on at each of its steps, although others ran since its last one.   *)
(* It has two layers.  The first is about the registry and says nothing of *)
(* what is on the token: it stands when objects leave the token, and over  *)
(* restarts (KmsRestart).  The second is about keys and certificates.      *)
(***************************************************************************)
EXTENDS Kms

\* Two rows of one identity differ at most in certificate and status.
SameIdentity(r, s) ==
  /\ r.key = s.key
  /\ r.role = s.role
  /\ r.object = s.object
  /\ r.alg = s.alg
  /\ r.params = s.params

\* No object_id is in two rows.
UniqueObjects ==
  \A j, k \in KeyIds :
    /\ registry[j] # None
    /\ registry[k] # None
    /\ registry[j].object = registry[k].object
    => j = k

\* Every CSCA row is bound to a certificate.
CscaBound ==
  \A k \in KeyIds :
    registry[k] # None /\ registry[k].role = "CSCA" => registry[k].cert # None

RowsInPlace == UniqueObjects /\ CscaBound

Crypting(p) == req[p].op \in {"sign", "verify"}

\* A thread is at a step of the handler its request went to.
InHandler(p) ==
  /\ pc[p] \in {"lookup", "validate", "validateKey", "crypto"} => Crypting(p)
  /\ pc[p] \in {"registerKey", "selectKeyId", "selectObject", "insert"} =>
       req[p].op = "register"
  /\ pc[p] \in {"getKey", "selectStatus", "commit"} =>
       req[p].op \in {"retire", "update"}
  /\ pc[p] = "updateKey" => req[p].op = "update"
  /\ pc[p] = "certificate" =>
       Crypting(p) \/ req[p].op = "update" \/ req[p].op = "register"
  /\ pc[p] \in {"findReferences", "readCert", "destroy"} => req[p].op = "delete"
  /\ pc[p] = "create" => req[p].op = "import"
  /\ pc[p] = "generate" => req[p].op = "generate"

RequestInPlace(p) ==
  /\ pc[p] = "idle" => signed[p] = None /\ p \notin wrote
  /\ pc[p] # "idle" => req[p] \in Request /\ InHandler(p)
  /\ pc[p] # "done" => answer[p] = None

EntrySteps == {"validate", "validateKey", "certificate", "crypto",
               "updateKey", "selectStatus", "commit"}

\* The local entry still has the identity of the row it was read from.
EntryInPlace(p) ==
  pc[p] \in EntrySteps /\ req[p].op # "register" =>
    /\ entry[p] \in Row
    /\ registry[entry[p].key] # None
    /\ SameIdentity(registry[entry[p].key], entry[p])
    /\ entry[p].role = "CSCA" => entry[p].cert # None
    /\ Crypting(p) => entry[p].object = req[p].id
    /\ ~Crypting(p) => entry[p].key = req[p].key

\* The certificate stage has a certificate to look for and a key to match, and
\* a CSCA key is not registered without one.
KeyHeld(p) ==
  /\ pc[p] \in {"certificate", "selectKeyId", "selectObject", "insert"} =>
       hkey[p] \in KeyObject
  /\ pc[p] = "certificate" => CertificateId(p) \in Ids
  /\ pc[p] \in {"certificate", "selectKeyId", "selectObject", "insert"}
     /\ req[p].op = "register" =>
       (req[p].role = "CSCA" => req[p].cert # None)

\* Keys retired before a request came in are retired still, and a request
\* past the status check does not use one of them.
RetiredBefore(p) ==
  /\ retired[p] \subseteq RetiredKeys
  /\ pc[p] \in {"validateKey", "certificate", "crypto"} /\ Crypting(p) =>
       entry[p].key \notin retired[p]

\* A write that was committed holds, and no handler ends well without its own.
WriteHolds(p) ==
  /\ Written(p, "register") =>
       /\ registry[req[p].key] # None
       /\ registry[req[p].key].role = req[p].role
       /\ registry[req[p].key].object = req[p].id
  /\ Written(p, "retire") =>
       /\ registry[req[p].key] # None
       /\ registry[req[p].key].status = "RETIRED"
  /\ \A op \in {"register", "retire", "update"} :
       \/ pc[p] = "finish" /\ req[p].op = op
       \/ Succeeded(p, op)
       => p \in wrote

\* The row of the key permits the signature: its object, an algorithm for it
\* and the operation of its role.
PermittedFor(p) ==
  LET row == registry[signed[p].key] IN
  /\ row # None
  /\ row.object = req[p].id
  /\ signed[p].pair.alg = row.alg
  /\ req[p].alg \in AllowedAlgorithms(row.alg)
  /\ req[p].use \in AllowedOperations(row.role)

\* Only a signing request that is past its call of hsm.sign has signed, with
\* a key its row permits and that was not retired before.
SignedInPlace(p) ==
  signed[p] # None =>
    /\ pc[p] \in {"finish", "done"}
    /\ req[p].op = "sign"
    /\ signed[p].key \notin retired[p]
    /\ PermittedFor(p)

ThreadInv(p) ==
  /\ RequestInPlace(p)
  /\ EntryInPlace(p)
  /\ KeyHeld(p)
  /\ RetiredBefore(p)
  /\ WriteHolds(p)
  /\ SignedInPlace(p)

\* The conjunction is inductive: every step of any thread preserves it.
Inductive ==
  /\ TypeOK
  /\ RowsInPlace
  /\ \A p \in Procs : ThreadInv(p)
  /\ RegisterOnce

----------------------------------------------------------------------------
\* The second layer: what the handlers know of keys and certificates.

\* The key checked against the row is on the token when it is used.
KeyInPlace(p) ==
  pc[p] \in {"certificate", "crypto"} /\ Crypting(p) =>
    /\ keys[entry[p].object] # None
    /\ MatchesRow(keys[entry[p].object], entry[p])

\* A request in flight has seen every certificate that is stored now.
SeesStored ==
  \A p \in Procs : pc[p] \notin {"idle", "done"} =>
    \A i \in Ids : StoredAt(i) \subseteq seen[p][i]

\* A registration under way describes the key that is on the token, and past
\* the certificate stage has seen a certificate that fits it.
RegistrationVetted(p) ==
  /\ pc[p] \in {"certificate", "selectKeyId", "selectObject", "insert"}
     /\ req[p].op = "register" => keys[req[p].id] = hkey[p]
  /\ pc[p] \in {"selectKeyId", "selectObject", "insert"} /\ req[p].cert # None =>
       Vetted(p, req[p].cert, req[p].role, hkey[p].pair.pub)

UpdateVetted(p) ==
  /\ pc[p] = "certificate" /\ req[p].op = "update" => keys[entry[p].object] = hkey[p]
  /\ pc[p] \in {"selectStatus", "commit"} /\ req[p].op = "update" =>
       /\ keys[entry[p].object] # None
       /\ Vetted(p, req[p].cert, entry[p].role, keys[entry[p].object].pair.pub)

\* A request that will use a key has the description of the one on the token,
\* and past the certificate stage has seen a certificate that met the policy.
UseVetted(p) ==
  /\ pc[p] = "certificate" /\ Crypting(p) => keys[entry[p].object] = hkey[p]
  /\ pc[p] = "crypto" /\ entry[p].cert # None =>
       Vetted(p, entry[p].cert, entry[p].role, keys[entry[p].object].pair.pub)

\* What a request wrote it wrote last, and its answer accounts for it.
WriteAccounted(p) ==
  p \in wrote => /\ pc[p] \in {"finish", "done"}
                 /\ Accounted(p)

\* A signature is made with a key of the kind that was registered, and under a
\* certificate that met the policy.
SignedVetted(p) ==
  signed[p] # None =>
    /\ signed[p].pair.params = registry[signed[p].key].params
    /\ CertifiedFor(p)

CertThread(p) ==
  /\ KeyInPlace(p)
  /\ RegistrationVetted(p)
  /\ UpdateVetted(p)
  /\ UseVetted(p)
  /\ SignedVetted(p)
  /\ WriteAccounted(p)

\* The key pair that signed is still on the token.
SignerStays(p) ==
  signed[p] # None =>
    /\ keys[req[p].id] # None
    /\ signed[p].pair = keys[req[p].id].pair

CertInductive ==
  /\ Inductive
  /\ SeesStored
  /\ BindingVetted
  /\ \A p \in Procs : CertThread(p) /\ SignerStays(p)
=============================================================================
