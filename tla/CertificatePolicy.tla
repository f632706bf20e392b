------------------------- MODULE CertificatePolicy -------------------------
(***************************************************************************)
(* The role-based certificate policy: what CertificatePolicy.validate      *)
(* accepts, and which exception it raises when it does not accept.         *)
(*                                                                         *)
(* A certificate is a record of what the policy looks at:                  *)
(*   pub               the public key it carries                           *)
(*   keyType           "RSA", "EC"; "other" is a key that is neither (such *)
(*                     as Ed25519); public_key() refuses to build an       *)
(*                     "unsupported" one with UnsupportedAlgorithm and a   *)
(*                     "malformed" one (a point off the curve) with        *)
(*                     ValueError; "garbage" stands for stored bytes that  *)
(*                     do not parse as a certificate at all                *)
(*   notBefore         first and last instant of the validity period       *)
(*   notAfter                                                              *)
(*   names             subject and issuer, parsed when they are asked for: *)
(*                     "same", "differ", or "malformed", a ValueError      *)
(*   selfSignature     what verifying the signature with the certificate's *)
(*                     own key does: "verifies", "fails" (any exception    *)
(*                     but ValueError) or "ValueError"                     *)
(*   extensions        the block of extensions, parsed as a whole whenever *)
(*                     one is asked for: "parsed", "ValueError", or        *)
(*                     "DuplicateExtension", which stands for what it      *)
(*                     raises that is no ValueError                        *)
(*   basicConstraints  "absent", "endEntity", or a CA: "ca" (no path       *)
(*                     length), "ca0" (path length 0), "ca1" (longer)      *)
(*   hasKeyUsage       the KeyUsage extension is present                   *)
(*   keyUsage          the usages it asserts                               *)
(***************************************************************************)
EXTENDS Naturals

Role == {"CSCA", "DS", "CVCA"}

KeyType == {"RSA", "EC", "other", "unsupported", "malformed", "garbage"}

Names == {"same", "differ", "malformed"}

Extensions == {"parsed", "ValueError", "DuplicateExtension"}

BasicConstraints == {"absent", "endEntity", "ca", "ca0", "ca1"}

SelfSignature == {"verifies", "fails", "ValueError"}

\* CertificatePolicyError is a ValueError; the last two are not.
Outcome == {"ok", "CertificatePolicyError", "ValueError", "UnsupportedAlgorithm",
            "DuplicateExtension"}

\* The exception that reading a part of the certificate raises, or "none".
PublicKeyError(c) ==
  CASE c.keyType = "malformed"   -> "ValueError"
    [] c.keyType = "unsupported" -> "UnsupportedAlgorithm"
    [] OTHER                     -> "none"

NamesError(c) == IF c.names = "malformed" THEN "ValueError" ELSE "none"

ExtensionsError(c) ==
  IF c.extensions \in {"ValueError", "DuplicateExtension"} THEN c.extensions ELSE "none"

WithinValidity(c, now) == c.notBefore <= now /\ now <= c.notAfter

IsCA(c) == c.basicConstraints \in {"ca", "ca0", "ca1"}

\* _require_key_usage: an absent extension restricts nothing.
KeyUsageAllows(c, usage) == c.hasKeyUsage => usage \in c.keyUsage

\* CSCA is the strict role: both extensions must be there.
CscaProfile(c) ==
  /\ c.names = "same"
  /\ c.selfSignature = "verifies"
  /\ c.basicConstraints = "ca0"
  /\ c.hasKeyUsage
  /\ {"keyCertSign", "cRLSign"} \subseteq c.keyUsage

DsProfile(c) == ~IsCA(c) /\ KeyUsageAllows(c, "digitalSignature")

CvcaProfile(c) == IsCA(c) /\ KeyUsageAllows(c, "keyCertSign")

MeetsProfile(c, role) ==
  \/ role = "CSCA" /\ CscaProfile(c)
  \/ role = "DS"   /\ DsProfile(c)
  \/ role = "CVCA" /\ CvcaProfile(c)

\* How _validate_csca ends, if it does, before it looks at the extensions: a
\* ValueError of the signature check is raised again as it is.
SelfSignedError(c) ==
  CASE c.names = "malformed"                               -> "ValueError"
    [] c.names = "differ"                                  -> "CertificatePolicyError"
    [] c.names = "same" /\ c.selfSignature = "ValueError" -> "ValueError"
    [] c.names = "same" /\ c.selfSignature = "fails"      -> "CertificatePolicyError"
    [] OTHER                                               -> "none"

(***************************************************************************)
(* The outcome of validate(c, role=role, public_key_der=pub) at time now.  *)
(***************************************************************************)
Validate(c, role, pub, now) ==
  IF ~WithinValidity(c, now) THEN "CertificatePolicyError"
  ELSE IF PublicKeyError(c) # "none" THEN PublicKeyError(c)
  ELSE IF c.keyType \notin {"RSA", "EC"} THEN "CertificatePolicyError"
  ELSE IF role = "CSCA" /\ SelfSignedError(c) # "none" THEN SelfSignedError(c)
  ELSE IF ExtensionsError(c) # "none" THEN ExtensionsError(c)
  ELSE IF MeetsProfile(c, role) /\ c.pub = pub THEN "ok"
  ELSE "CertificatePolicyError"

(***************************************************************************)
(* Every caller parses the stored bytes first; bytes that do not parse are *)
(* a ValueError.                                                           *)
(***************************************************************************)
LoadAndValidate(c, role, pub, now) ==
  IF c.keyType = "garbage" THEN "ValueError" ELSE Validate(c, role, pub, now)
=============================================================================
