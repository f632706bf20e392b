-------------------------- MODULE PolicyCallProofs --------------------------
(***************************************************************************)
(* The chain of checks of the policy, for every certificate, key and time: *)
(* what each check may rely on is what the checks before it let pass.      *)
(***************************************************************************)
EXTENDS PolicyCall, TLAPS

CscaChecks == {"selfIssued", "selfSignature", "cscaConstraints", "cscaKeyUsage"}

OtherChecks == {"rejectCa", "requireCa", "keyUsage"}

\* No exception of validate but a policy error is left to be raised.
NothingRaises(c, r) ==
  /\ PublicKeyError(c) = "none"
  /\ r = "CSCA" => SelfSignedError(c) = "none"
  /\ ExtensionsError(c) = "none"

\* The profile of the role, as far as the checks have got.
ProfilePassed ==
  /\ pc \in CscaChecks => role = "CSCA"
  /\ pc \in {"selfSignature", "cscaConstraints", "cscaKeyUsage"} => cert.names = "same"
  /\ pc \in {"cscaConstraints", "cscaKeyUsage"} => cert.selfSignature = "verifies"
  /\ pc = "cscaKeyUsage" => cert.basicConstraints = "ca0"
  /\ pc = "rejectCa" => role = "DS"
  /\ pc = "requireCa" => role = "CVCA"
  /\ pc = "keyUsage" => \/ role = "DS" /\ ~IsCA(cert)
                        \/ role = "CVCA" /\ IsCA(cert)
  /\ pc \in {"cscaKeyUsage", "keyUsage"} => ExtensionsError(cert) = "none"
  /\ pc = "publicKey" => MeetsProfile(cert, role) /\ NothingRaises(cert, role)

IInv ==
  /\ TypeOK
  /\ pc # "raised" /\ pc # "validity" => WithinValidity(cert, now)
  /\ pc \in CscaChecks \cup OtherChecks \cup {"publicKey"} => cert.keyType \in {"RSA", "EC"}
  /\ ProfilePassed
  /\ pc \notin {"returned", "raised"} => outcome = "none"
  /\ pc = "returned" => outcome = "ok"
  /\ pc \in {"returned", "raised"} => outcome = Validate(cert, role, pub, now)

\* A check that fails ends the call.
LEMMA Failed ==
  ASSUME IInv, UNCHANGED args, NEW e \in Outcome, Raise(e),
         e = Validate(cert, role, pub, now)
  PROVE  IInv'
<1>1. /\ pc' = "raised" /\ outcome' = e
      /\ cert' = cert /\ role' = role /\ pub' = pub /\ now' = now
  BY DEF Raise, args
<1>2. TypeOK'
  BY <1>1 DEF IInv, TypeOK
<1>3. Validate(cert, role, pub, now)' = Validate(cert, role, pub, now)
  BY <1>1
<1> QED
  BY <1>1, <1>2, <1>3 DEF IInv, ProfilePassed, CscaChecks, OtherChecks

LEMMA CertTyped ==
  ASSUME IInv
  PROVE  /\ cert.names \in Names /\ cert.selfSignature \in SelfSignature
         /\ cert.extensions \in Extensions
BY CertificatesAssumption DEF IInv, TypeOK

\* Parsing the extensions raises, whichever check of the role asks first.
LEMMA ExtensionsRaise ==
  ASSUME IInv, UNCHANGED args, WithinValidity(cert, now), cert.keyType \in {"RSA", "EC"},
         PublicKeyError(cert) = "none", role = "CSCA" => SelfSignedError(cert) = "none",
         ExtensionsError(cert) # "none", Raise(ExtensionsError(cert))
  PROVE  IInv'
<1>1. ExtensionsError(cert) \in Outcome
  BY CertTyped DEF ExtensionsError, Extensions, Outcome
<1>2. ExtensionsError(cert) = Validate(cert, role, pub, now)
  BY DEF Validate
<1> QED
  BY <1>1, <1>2, Failed

\* The last check of the role passes.
LEMMA ProfileMet ==
  ASSUME IInv, UNCHANGED args, WithinValidity(cert, now), cert.keyType \in {"RSA", "EC"},
         MeetsProfile(cert, role), NothingRaises(cert, role), pc \in Checks,
         pc' = "publicKey", UNCHANGED outcome
  PROVE  IInv'
<1>1. cert' = cert /\ role' = role /\ pub' = pub /\ now' = now /\ outcome' = outcome
  BY DEF args
<1>2. (MeetsProfile(cert, role) /\ NothingRaises(cert, role) /\ WithinValidity(cert, now))'
  BY <1>1
<1>3. outcome = "none"
  BY DEF IInv, Checks
<1> QED
  BY <1>1, <1>2, <1>3 DEF IInv, TypeOK, Checks, ProfilePassed, CscaChecks, OtherChecks

LEMMA InitIInv == Init => IInv
BY DEF Init, IInv, TypeOK, ProfilePassed, Checks, CscaChecks, OtherChecks

LEMMA ValidityStep == ASSUME IInv, ValidateValidity PROVE IInv'
<1>1. CASE WithinValidity(cert, now) /\ pc' = "algorithm" /\ UNCHANGED outcome
  BY <1>1 DEF ValidateValidity, Check, IInv, TypeOK, Checks, ProfilePassed, CscaChecks,
     OtherChecks, args, WithinValidity
<1>2. CASE ~WithinValidity(cert, now) /\ Raise("CertificatePolicyError")
  BY <1>2, Failed DEF ValidateValidity, Check, Validate, Outcome
<1> QED
  BY <1>1, <1>2 DEF ValidateValidity, Check

LEMMA AlgorithmStep == ASSUME IInv, ValidateAlgorithm PROVE IInv'
<1>1. pc = "algorithm" /\ role \in Role /\ WithinValidity(cert, now) /\ UNCHANGED args
  BY DEF ValidateAlgorithm, CheckRead, Check, IInv, TypeOK
<1>2. CASE PublicKeyError(cert) # "none" /\ Raise(PublicKeyError(cert))
  <2>1. PublicKeyError(cert) \in Outcome
    BY <1>2 DEF PublicKeyError, Outcome
  <2> QED
    BY <1>1, <1>2, <2>1, Failed DEF Validate
<1>3. CASE /\ PublicKeyError(cert) = "none" /\ cert.keyType \notin {"RSA", "EC"}
           /\ Raise("CertificatePolicyError")
  BY <1>1, <1>3, Failed DEF Validate, Outcome
<1>4. CASE /\ cert.keyType \in {"RSA", "EC"} /\ UNCHANGED outcome
           /\ pc' = CASE role = "CSCA" -> "selfIssued"
                      [] role = "DS"   -> "rejectCa"
                      [] role = "CVCA" -> "requireCa"
  <2>1. \/ role = "CSCA" /\ pc' = "selfIssued"
        \/ role = "DS" /\ pc' = "rejectCa"
        \/ role = "CVCA" /\ pc' = "requireCa"
    BY <1>1, <1>4 DEF Role
  <2> QED
    BY <1>1, <1>4, <2>1 DEF IInv, TypeOK, Checks, ProfilePassed, CscaChecks, OtherChecks,
       args, WithinValidity
<1> QED
  BY <1>2, <1>3, <1>4 DEF ValidateAlgorithm, CheckRead, Check

\* The checks of _validate_csca.
LEMMA SelfIssuedStep == ASSUME IInv, ValidateSelfIssued PROVE IInv'
<1>1. /\ pc = "selfIssued" /\ role = "CSCA" /\ WithinValidity(cert, now)
      /\ cert.keyType \in {"RSA", "EC"} /\ UNCHANGED args
  BY DEF ValidateSelfIssued, CheckRead, Check, IInv, ProfilePassed, CscaChecks
<1>2. PublicKeyError(cert) = "none"
  BY <1>1 DEF PublicKeyError
<1>3. CASE cert.names = "same" /\ pc' = "selfSignature" /\ UNCHANGED outcome
  BY <1>1, <1>3 DEF IInv, TypeOK, Checks, ProfilePassed, CscaChecks, OtherChecks, args,
     WithinValidity
<1>4. CASE cert.names = "malformed" /\ Raise("ValueError")
  BY <1>1, <1>2, <1>4, Failed DEF Validate, SelfSignedError, Outcome
<1>5. CASE cert.names = "differ" /\ Raise("CertificatePolicyError")
  BY <1>1, <1>2, <1>5, Failed DEF Validate, SelfSignedError, Outcome
<1> QED
  BY <1>3, <1>4, <1>5, CertTyped
     DEF ValidateSelfIssued, CheckRead, Check, NamesError, Names

LEMMA SelfSignatureStep == ASSUME IInv, ValidateSelfSignature PROVE IInv'
<1>1. /\ pc = "selfSignature" /\ role = "CSCA" /\ WithinValidity(cert, now)
      /\ cert.keyType \in {"RSA", "EC"} /\ cert.names = "same" /\ UNCHANGED args
  BY DEF ValidateSelfSignature, CheckRead, Check, IInv, ProfilePassed, CscaChecks
<1>2. PublicKeyError(cert) = "none"
  BY <1>1 DEF PublicKeyError
<1>3. CASE cert.selfSignature = "verifies" /\ pc' = "cscaConstraints" /\ UNCHANGED outcome
  BY <1>1, <1>3 DEF IInv, TypeOK, Checks, ProfilePassed, CscaChecks, OtherChecks, args,
     WithinValidity
<1>4. CASE cert.selfSignature = "ValueError" /\ Raise("ValueError")
  BY <1>1, <1>2, <1>4, Failed DEF Validate, SelfSignedError, Outcome
<1>5. CASE cert.selfSignature = "fails" /\ Raise("CertificatePolicyError")
  BY <1>1, <1>2, <1>5, Failed DEF Validate, SelfSignedError, Outcome
<1> QED
  BY <1>2, <1>3, <1>4, <1>5, CertTyped
     DEF ValidateSelfSignature, CheckRead, Check, SelfSignatureException, SelfSignature

LEMMA CscaConstraintsStep == ASSUME IInv, ValidateCscaConstraints PROVE IInv'
<1>1. /\ pc = "cscaConstraints" /\ role = "CSCA" /\ WithinValidity(cert, now)
      /\ cert.keyType \in {"RSA", "EC"} /\ cert.names = "same"
      /\ cert.selfSignature = "verifies" /\ UNCHANGED args
  BY DEF ValidateCscaConstraints, CheckRead, Check, IInv, ProfilePassed, CscaChecks
<1>2. PublicKeyError(cert) = "none" /\ SelfSignedError(cert) = "none"
  BY <1>1 DEF PublicKeyError, SelfSignedError
<1>3. CASE /\ ExtensionsError(cert) = "none" /\ cert.basicConstraints = "ca0"
           /\ pc' = "cscaKeyUsage" /\ UNCHANGED outcome
  BY <1>1, <1>3 DEF IInv, TypeOK, Checks, ProfilePassed, CscaChecks, OtherChecks, args,
     WithinValidity, ExtensionsError
<1>4. CASE ExtensionsError(cert) # "none" /\ Raise(ExtensionsError(cert))
  BY <1>1, <1>2, <1>4, ExtensionsRaise
<1>5. CASE /\ ExtensionsError(cert) = "none" /\ cert.basicConstraints # "ca0"
           /\ Raise("CertificatePolicyError")
  BY <1>1, <1>2, <1>5, Failed DEF Validate, MeetsProfile, CscaProfile, Outcome
<1> QED
  BY <1>3, <1>4, <1>5 DEF ValidateCscaConstraints, CheckRead, Check

LEMMA CscaKeyUsageStep == ASSUME IInv, ValidateCscaKeyUsage PROVE IInv'
<1> DEFINE Usage == cert.hasKeyUsage /\ {"keyCertSign", "cRLSign"} \subseteq cert.keyUsage
<1>1. /\ pc = "cscaKeyUsage" /\ role = "CSCA" /\ WithinValidity(cert, now)
      /\ cert.keyType \in {"RSA", "EC"} /\ cert.names = "same"
      /\ cert.selfSignature = "verifies" /\ cert.basicConstraints = "ca0"
      /\ ExtensionsError(cert) = "none" /\ UNCHANGED args
  BY DEF ValidateCscaKeyUsage, CheckRead, Check, IInv, ProfilePassed, CscaChecks
<1>2. PublicKeyError(cert) = "none" /\ SelfSignedError(cert) = "none"
  BY <1>1 DEF PublicKeyError, SelfSignedError
<1>3. CASE Usage /\ pc' = "publicKey" /\ UNCHANGED outcome
  <2>1. MeetsProfile(cert, role)
    BY <1>1, <1>3 DEF MeetsProfile, CscaProfile
  <2> QED
    BY <1>1, <1>2, <1>3, <2>1, ProfileMet DEF NothingRaises, Checks
<1>4. CASE ~Usage /\ Raise("CertificatePolicyError")
  BY <1>1, <1>2, <1>4, Failed DEF Validate, MeetsProfile, CscaProfile, Outcome
<1> QED
  BY <1>1, <1>3, <1>4 DEF ValidateCscaKeyUsage, CheckRead, Check

\* The checks of the other roles.
LEMMA BasicConstraintsStep ==
  ASSUME IInv, RejectCaCertificate \/ RequireCaCertificate PROVE IInv'
<1>1. /\ \/ pc = "rejectCa" /\ role = "DS"
         \/ pc = "requireCa" /\ role = "CVCA"
      /\ WithinValidity(cert, now) /\ cert.keyType \in {"RSA", "EC"} /\ UNCHANGED args
  BY DEF RejectCaCertificate, RequireCaCertificate, CheckRead, Check, IInv, ProfilePassed,
     OtherChecks
<1>2. PublicKeyError(cert) = "none"
  BY <1>1 DEF PublicKeyError
<1>3. CASE /\ ExtensionsError(cert) = "none" /\ (IsCA(cert) <=> role = "CVCA")
           /\ pc' = "keyUsage" /\ UNCHANGED outcome
  BY <1>1, <1>3 DEF IInv, TypeOK, Checks, ProfilePassed, CscaChecks, OtherChecks, args,
     WithinValidity, IsCA, ExtensionsError
<1>4. CASE ExtensionsError(cert) # "none" /\ Raise(ExtensionsError(cert))
  BY <1>1, <1>2, <1>4, ExtensionsRaise
<1>5. CASE /\ ExtensionsError(cert) = "none" /\ ~(IsCA(cert) <=> role = "CVCA")
           /\ Raise("CertificatePolicyError")
  BY <1>1, <1>2, <1>5, Failed DEF Validate, MeetsProfile, DsProfile, CvcaProfile, Outcome
<1> QED
  BY <1>1, <1>3, <1>4, <1>5 DEF RejectCaCertificate, RequireCaCertificate, CheckRead, Check

LEMMA KeyUsageStep == ASSUME IInv, RequireKeyUsage PROVE IInv'
<1> DEFINE Usage ==
      KeyUsageAllows(cert, IF role = "DS" THEN "digitalSignature" ELSE "keyCertSign")
<1>1. /\ pc = "keyUsage"
      /\ \/ role = "DS" /\ ~IsCA(cert)
         \/ role = "CVCA" /\ IsCA(cert)
      /\ WithinValidity(cert, now) /\ cert.keyType \in {"RSA", "EC"}
      /\ ExtensionsError(cert) = "none" /\ UNCHANGED args
  BY DEF RequireKeyUsage, CheckRead, Check, IInv, ProfilePassed, OtherChecks
<1>2. PublicKeyError(cert) = "none"
  BY <1>1 DEF PublicKeyError
<1>3. CASE Usage /\ pc' = "publicKey" /\ UNCHANGED outcome
  <2>1. MeetsProfile(cert, role)
    BY <1>1, <1>3 DEF MeetsProfile, DsProfile, CvcaProfile
  <2> QED
    BY <1>1, <1>2, <1>3, <2>1, ProfileMet DEF NothingRaises, Checks
<1>4. CASE ~Usage /\ Raise("CertificatePolicyError")
  BY <1>1, <1>2, <1>4, Failed DEF Validate, MeetsProfile, DsProfile, CvcaProfile, Outcome
<1> QED
  BY <1>1, <1>3, <1>4 DEF RequireKeyUsage, CheckRead, Check

LEMMA PublicKeyStep == ASSUME IInv, ValidatePublicKeyMatch PROVE IInv'
<1>1. /\ pc = "publicKey" /\ WithinValidity(cert, now) /\ cert.keyType \in {"RSA", "EC"}
      /\ MeetsProfile(cert, role) /\ NothingRaises(cert, role) /\ UNCHANGED args
  BY DEF ValidatePublicKeyMatch, IInv, ProfilePassed
<1>2. CASE cert.pub = pub /\ pc' = "returned" /\ outcome' = "ok"
  <2>1. Validate(cert, role, pub, now) = "ok"
    BY <1>1, <1>2 DEF Validate, NothingRaises
  <2>2. cert' = cert /\ role' = role /\ pub' = pub /\ now' = now
    BY <1>1 DEF args
  <2>3. Validate(cert, role, pub, now)' = "ok" /\ WithinValidity(cert, now)'
    BY <1>1, <2>1, <2>2
  <2> QED
    BY <1>2, <2>2, <2>3 DEF IInv, TypeOK, Outcome, ProfilePassed, CscaChecks, OtherChecks
<1>3. CASE cert.pub # pub /\ Raise("CertificatePolicyError")
  BY <1>1, <1>3, Failed DEF Validate, NothingRaises, Outcome
<1> QED
  BY <1>1, <1>2, <1>3 DEF ValidatePublicKeyMatch, NothingRaises

LEMMA NextIInv == IInv /\ [Next]_vars => IInv'
<1> SUFFICES ASSUME IInv, [Next]_vars PROVE IInv'
  OBVIOUS
<1>1. CASE UNCHANGED vars
  <2>1. cert' = cert /\ role' = role /\ pub' = pub /\ now' = now /\ pc' = pc /\ outcome' = outcome
    BY <1>1 DEF vars, args
  <2> QED
    BY <2>1 DEF IInv, TypeOK, ProfilePassed, WithinValidity, Validate, MeetsProfile,
       CscaProfile, DsProfile, CvcaProfile, NothingRaises, PublicKeyError, SelfSignedError,
       ExtensionsError, IsCA, KeyUsageAllows
<1> QED
  BY <1>1, ValidityStep, AlgorithmStep, SelfIssuedStep, SelfSignatureStep,
     CscaConstraintsStep, CscaKeyUsageStep, BasicConstraintsStep, KeyUsageStep,
     PublicKeyStep DEF Next, Over

LEMMA Holds == Spec => []IInv
BY InitIInv, NextIInv, PTL DEF Spec

(***************************************************************************)
(* Type correctness: validate raises no exception of another kind.         *)
(***************************************************************************)
THEOREM TypeCorrect == Spec => []TypeOK
<1>1. IInv => TypeOK
  BY DEF IInv
<1> QED
  BY <1>1, Holds, PTL

(***************************************************************************)
(* The chain of checks computes Validate, for every certificate.           *)
(***************************************************************************)
THEOREM Agrees == Spec => []OutcomeAgrees
<1>1. IInv => OutcomeAgrees
  BY DEF IInv, OutcomeAgrees
<1> QED
  BY <1>1, Holds, PTL

(***************************************************************************)
(* No certificate that passes for a DS key passes for a CA role, and one   *)
(* that passes as CSCA would pass as CVCA.                                 *)
(***************************************************************************)
THEOREM Separated == Spec => []RolesSeparated
<1>1. IInv => RolesSeparated
  <2> SUFFICES ASSUME IInv, pc = "returned", NEW other \in PublicKeys, NEW t \in Times
               PROVE  /\ role = "DS" => /\ Validate(cert, "CSCA", other, t) # "ok"
                                        /\ Validate(cert, "CVCA", other, t) # "ok"
                      /\ role = "CSCA" => Validate(cert, "CVCA", pub, now) = "ok"
    BY DEF RolesSeparated
  <2>1. /\ WithinValidity(cert, now) /\ cert.keyType \in {"RSA", "EC"}
        /\ MeetsProfile(cert, role) /\ cert.pub = pub
        /\ PublicKeyError(cert) = "none" /\ ExtensionsError(cert) = "none"
    BY CertTyped DEF IInv, Validate, PublicKeyError, SelfSignedError, ExtensionsError,
       Extensions
  <2>2. ASSUME role = "DS"
        PROVE  /\ Validate(cert, "CSCA", other, t) # "ok"
               /\ Validate(cert, "CVCA", other, t) # "ok"
    <3>1. ~IsCA(cert)
      BY <2>1, <2>2 DEF MeetsProfile, DsProfile
    <3>2. ~MeetsProfile(cert, "CSCA") /\ ~MeetsProfile(cert, "CVCA")
      BY <3>1 DEF MeetsProfile, CscaProfile, CvcaProfile, IsCA
    <3> QED
      BY <3>2, CertTyped DEF Validate, PublicKeyError, SelfSignedError, ExtensionsError,
         Extensions
  <2>3. ASSUME role = "CSCA" PROVE Validate(cert, "CVCA", pub, now) = "ok"
    <3>1. CvcaProfile(cert)
      BY <2>1, <2>3 DEF MeetsProfile, CscaProfile, CvcaProfile, IsCA, KeyUsageAllows
    <3>2. MeetsProfile(cert, "CVCA")
      BY <3>1 DEF MeetsProfile
    <3> QED
      BY <2>1, <3>2 DEF Validate
  <2> QED
    BY <2>2, <2>3
<1> QED
  BY <1>1, Holds, PTL
=============================================================================
