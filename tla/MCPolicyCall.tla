--------------------------- MODULE MCPolicyCall ---------------------------
(***************************************************************************)
(* Every combination of the features the policy looks at.                  *)
(***************************************************************************)
EXTENDS PolicyCall

AllCertificates ==
  {c \in [pub: {"A"}, keyType: KeyType \ {"garbage"},
          notBefore: {1}, notAfter: {1},
          names: Names, selfSignature: SelfSignature,
          extensions: Extensions, basicConstraints: BasicConstraints,
          hasKeyUsage: BOOLEAN,
          keyUsage: SUBSET {"digitalSignature", "keyCertSign", "cRLSign"}] :
     ~c.hasKeyUsage => c.keyUsage = {}}
=============================================================================
