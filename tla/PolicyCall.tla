----------------------------- MODULE PolicyCall -----------------------------
(***************************************************************************)
(* One call of CertificatePolicy.validate, check by check.  Each check     *)
(* raises or goes on to the next; the order decides which of several       *)
(* faults of a certificate is the one reported.                            *)
(***************************************************************************)
EXTENDS CertificatePolicy

CONSTANTS
  Certificates,  \* certificates validated
  PublicKeys,    \* public keys of the token
  Times          \* readings of the clock

VARIABLES
  cert, role, pub, now,  \* the arguments, and the clock as the call finds it
  pc,                    \* the next check, "returned" or "raised"
  outcome                \* what the call ended with

args == <<cert, role, pub, now>>
vars == <<args, pc, outcome>>

Checks == {"validity", "algorithm", "selfIssued", "selfSignature", "cscaConstraints",
           "cscaKeyUsage", "rejectCa", "requireCa", "keyUsage", "publicKey"}

TypeOK ==
  /\ cert \in Certificates /\ role \in Role /\ pub \in PublicKeys /\ now \in Times
  /\ pc \in Checks \cup {"returned", "raised"}
  /\ outcome \in Outcome \cup {"none"}

ASSUME CertificatesAssumption ==
  \A c \in Certificates :
    /\ c.keyType \in KeyType
    /\ c.names \in Names
    /\ c.selfSignature \in SelfSignature
    /\ c.extensions \in Extensions

Init ==
  /\ cert \in Certificates /\ role \in Role /\ pub \in PublicKeys /\ now \in Times
  /\ pc = "validity"
  /\ outcome = "none"

Raise(exception) == pc' = "raised" /\ outcome' = exception

\* The check passes when ok holds; else it is a CertificatePolicyError.
Check(step, ok, next) ==
  /\ pc = step
  /\ \/ ok /\ pc' = next /\ UNCHANGED outcome
     \/ ~ok /\ Raise("CertificatePolicyError")
  /\ UNCHANGED args

\* The check reads a part of the certificate first, which may itself raise.
CheckRead(step, exception, ok, next) ==
  IF exception = "none" THEN Check(step, ok, next)
  ELSE pc = step /\ Raise(exception) /\ UNCHANGED args

ValidateValidity == Check("validity", WithinValidity(cert, now), "algorithm")

\* _validate_algorithm
ValidateAlgorithm ==
  CheckRead("algorithm", PublicKeyError(cert), cert.keyType \in {"RSA", "EC"},
            CASE role = "CSCA" -> "selfIssued"
              [] role = "DS"   -> "rejectCa"
              [] role = "CVCA" -> "requireCa")

\* _validate_csca
ValidateSelfIssued ==
  CheckRead("selfIssued", NamesError(cert), cert.names = "same", "selfSignature")

\* Mutant: only ValueError is caught.
ValidateSelfSignatureUncaught ==
  /\ pc = "selfSignature"
  /\ \/ cert.selfSignature = "verifies" /\ pc' = "cscaConstraints" /\ UNCHANGED outcome
     \/ cert.selfSignature = "fails" /\ Raise("InvalidSignature")
     \/ cert.selfSignature = "ValueError" /\ Raise("ValueError")
  /\ UNCHANGED args

\* public_key() once more; then "except ValueError: raise", any other exception
\* is a policy error.
SelfSignatureException(c) ==
  IF PublicKeyError(c) # "none" THEN PublicKeyError(c)
  ELSE IF c.selfSignature = "ValueError" THEN "ValueError"
  ELSE "none"

ValidateSelfSignature ==
  CheckRead("selfSignature", SelfSignatureException(cert),
            cert.selfSignature = "verifies", "cscaConstraints")

\* Mutant: a duplicate extension is taken for a missing one.
ValidateCscaConstraintsLenient ==
  Check("cscaConstraints",
        cert.extensions = "parsed" /\ cert.basicConstraints = "ca0", "cscaKeyUsage")

\* Of what .extensions raises only ExtensionNotFound is caught.
ValidateCscaConstraints ==
  CheckRead("cscaConstraints", ExtensionsError(cert),
            cert.basicConstraints = "ca0", "cscaKeyUsage")

ValidateCscaKeyUsage ==
  CheckRead("cscaKeyUsage", ExtensionsError(cert),
            cert.hasKeyUsage /\ {"keyCertSign", "cRLSign"} \subseteq cert.keyUsage,
            "publicKey")

\* _validate_ds and _validate_cvca.
\* Mutant: a CA certificate is not rejected.
RejectCaCertificateNever ==
  CheckRead("rejectCa", ExtensionsError(cert), TRUE, "keyUsage")

RejectCaCertificate ==
  CheckRead("rejectCa", ExtensionsError(cert), ~IsCA(cert), "keyUsage")

RequireCaCertificate ==
  CheckRead("requireCa", ExtensionsError(cert), IsCA(cert), "keyUsage")

RequireKeyUsage ==
  CheckRead("keyUsage", ExtensionsError(cert),
            KeyUsageAllows(cert, IF role = "DS" THEN "digitalSignature" ELSE "keyCertSign"),
            "publicKey")

\* _validate_public_key_match, which asks for public_key() again, and the return.
ValidatePublicKeyMatch ==
  /\ pc = "publicKey"
  /\ IF PublicKeyError(cert) # "none" THEN Raise(PublicKeyError(cert))
     ELSE IF cert.pub # pub THEN Raise("CertificatePolicyError")
     ELSE pc' = "returned" /\ outcome' = "ok"
  /\ UNCHANGED args

\* The call is over.
Over == pc \in {"returned", "raised"} /\ UNCHANGED vars

Next ==
  \/ ValidateValidity \/ ValidateAlgorithm
  \/ ValidateSelfIssued \/ ValidateSelfSignature
  \/ ValidateCscaConstraints \/ ValidateCscaKeyUsage
  \/ RejectCaCertificate \/ RequireCaCertificate \/ RequireKeyUsage
  \/ ValidatePublicKeyMatch
  \/ Over

Spec == Init /\ [][Next]_vars

----------------------------------------------------------------------------
(***************************************************************************)
(* The chain of checks, with its early exits, ends with the outcome that   *)
(* Validate, the definition the other modules use, gives in one step.      *)
(***************************************************************************)
OutcomeAgrees ==
  pc \in {"returned", "raised"} => outcome = Validate(cert, role, pub, now)

(***************************************************************************)
(* Roles do not overlap where it matters: a certificate that passes the    *)
(* checks of a DS key passes those of neither CA role, whatever the key    *)
(* and the time, and one that passes as CSCA would pass as CVCA.           *)
(***************************************************************************)
RolesSeparated ==
  pc = "returned" =>
    \A other \in PublicKeys, t \in Times :
      /\ role = "DS" => /\ Validate(cert, "CSCA", other, t) # "ok"
                        /\ Validate(cert, "CVCA", other, t) # "ok"
      /\ role = "CSCA" => Validate(cert, "CVCA", pub, now) = "ok"
=============================================================================
