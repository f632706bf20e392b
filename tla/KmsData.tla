------------------------------ MODULE KmsData ------------------------------
(***************************************************************************)
(* The data the service keeps: rows of the SQLite key registry and objects *)
(* on the HSM token.                                                       *)
(***************************************************************************)
EXTENDS CertificatePolicy, Sequences

CONSTANTS
  KeyIds,   \* key_id: primary key of the registry
  Ids,      \* CKA_ID values: a key pair and a certificate share this space
  KeyPairs, \* key material the token can generate: [alg, params, pub]
  Certs,    \* certificates (see CertificatePolicy)
  None      \* Python's None: no row, no object, no value

KeyAlgorithm == {"RSA", "EC"}

Params == {kp.params : kp \in KeyPairs}  \* RSA size or EC curve

\* A row of key_registry; label and timestamps are left out.
Row == [key: KeyIds, role: Role, object: Ids, alg: KeyAlgorithm,
        params: Params, cert: Ids \cup {None}, status: {"ACTIVE", "RETIRED"}]

\* A key pair object; private is FALSE when only the public half is there.
KeyObject == [pair: KeyPairs, private: BOOLEAN]

Registry == [KeyIds -> Row \cup {None}]
KeyStore == [Ids -> KeyObject \cup {None}]

\* PKCS#11 lets several certificates share a CKA_ID; look-ups take the first.
CertStore == [Ids -> Seq(Certs)]

Rows(registry) == {registry[k] : k \in KeyIds} \ {None}

(***************************************************************************)
(* None is not a value of any other kind, and a key pair is RSA or EC:     *)
(* hsm.gen_rsa and hsm.gen_ec make no other kind.                          *)
(***************************************************************************)
ASSUME NoneAssumption ==
  /\ None \notin Row
  /\ None \notin KeyObject
  /\ None \notin KeyIds
  /\ None \notin Ids

ASSUME KeyPairsAssumption == \A kp \in KeyPairs : kp.alg \in KeyAlgorithm
=============================================================================
