------------------------------- MODULE MCKms -------------------------------
(***************************************************************************)
(* Instances of Kms for TLC.                                               *)
(***************************************************************************)
EXTENDS KmsInvariant, TLC

CONSTANTS k1, k2, k3, k4, i1, i2, i3, i4, p1, p2, p3

Symmetry == Permutations(Procs)

\* Key material.
EcA == [alg |-> "EC", params |-> "secp256r1", pub |-> "A"]
EcB == [alg |-> "EC", params |-> "secp256r1", pub |-> "B"]
EcE == [alg |-> "EC", params |-> "secp256r1", pub |-> "E"]
RsaC == [alg |-> "RSA", params |-> "2048", pub |-> "C"]
RsaD == [alg |-> "RSA", params |-> "2048", pub |-> "D"]

AllKeyPairs == {EcA, EcB, EcE, RsaC, RsaD}

\* Certificates.
DsCert(pub, from, until) ==
  [pub |-> pub, keyType |-> "EC", notBefore |-> from, notAfter |-> until,
   names |-> "differ", selfSignature |-> "fails",
   extensions |-> "parsed", basicConstraints |-> "endEntity",
   hasKeyUsage |-> TRUE, keyUsage |-> {"digitalSignature"}]

DsA == DsCert("A", 0, 0)       \* expires at 1
DsAnext == DsCert("A", 0, 1)   \* its renewal
DsB == DsCert("B", 0, 1)

CscaC ==
  [pub |-> "C", keyType |-> "RSA", notBefore |-> 0, notAfter |-> 1,
   names |-> "same", selfSignature |-> "verifies",
   extensions |-> "parsed", basicConstraints |-> "ca0",
   hasKeyUsage |-> TRUE, keyUsage |-> {"keyCertSign", "cRLSign"}]

\* public_key() refuses the key of the first two; the third is a renewal whose
\* names cannot be read, which the policy of its role does not ask for.
Odd == [DsB EXCEPT !.keyType = "unsupported"]
OffCurve == [DsB EXCEPT !.keyType = "malformed"]
Nameless == [DsAnext EXCEPT !.names = "malformed"]

\* It has an extension twice.
Repeated == [DsB EXCEPT !.extensions = "DuplicateExtension"]

AllCerts == {DsA, DsAnext, DsB, CscaC, OffCurve, Nameless}

NoCerts == [i \in Ids |-> <<>>]

KeyAt(pair) == [pair |-> pair, private |-> TRUE]

RowFor(k, role, i, pair, cert) ==
  [key |-> k, role |-> role, object |-> i, alg |-> pair.alg,
   params |-> pair.params, cert |-> cert, status |-> "ACTIVE"]

\* Requests.
SignRequest(i, alg, use, decodable) ==
  [op |-> "sign", id |-> i, alg |-> alg, use |-> use, decodable |-> decodable]
VerifyRequest(i, alg, decodable) ==
  [op |-> "verify", id |-> i, alg |-> alg, decodable |-> decodable]
RegisterRequest(k, role, i, cert) ==
  [op |-> "register", key |-> k, role |-> role, id |-> i, cert |-> cert]
RetireRequest(k) == [op |-> "retire", key |-> k]
UpdateRequest(k, cert) == [op |-> "update", key |-> k, cert |-> cert]
ImportRequest(i, cert) == [op |-> "import", id |-> i, cert |-> cert]
DeleteRequest(i) == [op |-> "delete", id |-> i]
GenerateRequest(i, alg, params) ==
  [op |-> "generate", id |-> i, alg |-> alg, params |-> params]

DocumentSign(i) == SignRequest(i, "ECDSA-SHA256", "DOCUMENT_SIGN", TRUE)

----------------------------------------------------------------------------
\* The life of keys and their use: a DS key and a CSCA key in use, one on the
\* token to register, one to generate, a certificate to bind, and requests the
\* role or the key does not allow.

LifecycleRegistry ==
  [k \in KeyIds |->
     CASE k = k1 -> RowFor(k1, "DS", i1, EcA, None)
       [] k = k2 -> RowFor(k2, "CSCA", i2, RsaC, i2)
       [] OTHER  -> None]

LifecycleKeys ==
  [i \in Ids |-> CASE i = i1 -> KeyAt(EcA) [] i = i2 -> KeyAt(RsaC)
                   [] i = i3 -> KeyAt(EcB) [] OTHER -> None]

LifecycleCerts == [NoCerts EXCEPT ![i1] = <<DsAnext>>, ![i2] = <<CscaC>>]

LifecycleRequests ==
  {DocumentSign(i1), RetireRequest(k1), RetireRequest(k3), UpdateRequest(k1, i1),
   RegisterRequest(k3, "DS", i3, None), RegisterRequest(k4, "DS", i3, None),
   RegisterRequest(k3, "DS", i1, None),
   SignRequest(i1, "ECDSA-SHA256", "CRL_SIGN", TRUE),
   SignRequest(i1, "RSA-SHA256", "DOCUMENT_SIGN", TRUE),
   SignRequest(i1, "ECDSA-SHA256", "DOCUMENT_SIGN", FALSE),
   SignRequest(i2, "RSA-SHA256", "CERTIFICATE_SIGN", TRUE),
   SignRequest(i4, "ECDSA-SHA256", "DOCUMENT_SIGN", TRUE),
   VerifyRequest(i2, "RSA-SHA256", TRUE),
   GenerateRequest(i4, "EC", "secp256r1"),
   GenerateRequest(i3, "EC", "secp256r1"),
   RegisterRequest(k4, "DS", i4, None)}

----------------------------------------------------------------------------
\* Certificates: a bound DS key, renewals, deletions, expiry; a retired key
\* that an earlier life left without its object and under a certificate that
\* is not for it.

CertificateRegistry ==
  [k \in KeyIds |->
     CASE k = k1 -> RowFor(k1, "DS", i1, EcA, i1)
       [] k = k3 -> [RowFor(k3, "DS", i3, EcB, i2) EXCEPT !.status = "RETIRED"]
       [] OTHER  -> None]

CertificateKeys ==
  [i \in Ids |-> CASE i = i1 -> KeyAt(EcA) [] i = i2 -> KeyAt(RsaC) [] OTHER -> None]

CertificateCerts ==
  [NoCerts EXCEPT ![i1] = <<DsA>>, ![i2] = <<CscaC>>, ![i3] = <<DsAnext>>]

CertificateRequests ==
  {DocumentSign(i1), UpdateRequest(k1, i3), UpdateRequest(k1, i2),
   ImportRequest(i3, DsB), ImportRequest(i1, DsAnext), ImportRequest(i1, OffCurve),
   ImportRequest(i1, Nameless),
   DeleteRequest(i3), DeleteRequest(i1),
   RegisterRequest(k2, "CSCA", i2, i2), RegisterRequest(k2, "CSCA", i2, None)}
=============================================================================
