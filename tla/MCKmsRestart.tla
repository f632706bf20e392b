--------------------------- MODULE MCKmsRestart ---------------------------
(***************************************************************************)
(* Instances of KmsRestart for TLC: a DS key bound to its certificate, one *)
(* that is not bound, and the requests an operator makes to recover a lost *)
(* key.                                                                    *)
(***************************************************************************)
EXTENDS KmsRestart, TLC

CONSTANTS k1, k2, i1, i2, p1, p2, p3

Symmetry == Permutations(Procs)

EcA == [alg |-> "EC", params |-> "secp256r1", pub |-> "A"]
EcB == [alg |-> "EC", params |-> "secp256r1", pub |-> "B"]
RsaC == [alg |-> "RSA", params |-> "2048", pub |-> "C"]
RsaL == [alg |-> "RSA", params |-> "3072", pub |-> "L"]

\* One RSA key to generate and two EC keys: one for each id, or for one of
\* them twice.
AllKeyPairs == {EcA, EcB, [EcB EXCEPT !.pub = "F"], RsaC, RsaL}

DsA ==
  [pub |-> "A", keyType |-> "EC", notBefore |-> 0, notAfter |-> 0,
   names |-> "differ", selfSignature |-> "fails",
   extensions |-> "parsed", basicConstraints |-> "endEntity",
   hasKeyUsage |-> TRUE, keyUsage |-> {"digitalSignature"}]
DsB == [DsA EXCEPT !.pub = "B"]

AllCerts == {DsA, DsB}

RestartRegistry ==
  [k \in KeyIds |->
     [key |-> k, role |-> "DS", object |-> IF k = k1 THEN i1 ELSE i2,
      alg |-> IF k = k1 THEN "EC" ELSE "RSA",
      params |-> IF k = k1 THEN "secp256r1" ELSE "2048",
      cert |-> IF k = k1 THEN i1 ELSE None, status |-> "ACTIVE"]]

RestartKeys ==
  [i \in Ids |-> [pair |-> IF i = i1 THEN EcA ELSE RsaC, private |-> TRUE]]

RestartCerts == [i \in Ids |-> IF i = i1 THEN <<DsA>> ELSE <<>>]

SignRequest(i, alg) ==
  [op |-> "sign", id |-> i, alg |-> alg, use |-> "DOCUMENT_SIGN", decodable |-> TRUE]

GenerateRequest(i, alg, params) ==
  [op |-> "generate", id |-> i, alg |-> alg, params |-> params]

RestartRequests ==
  {SignRequest(i1, "ECDSA-SHA256"), SignRequest(i2, "RSA-SHA256"),
   GenerateRequest(i2, "EC", "secp256r1"), GenerateRequest(i2, "RSA", "3072"),
   GenerateRequest(i1, "EC", "secp256r1"),
   [op |-> "import", id |-> i1, cert |-> DsB],
   [op |-> "update", key |-> k1, cert |-> i1],
   [op |-> "retire", key |-> k1]}
=============================================================================
