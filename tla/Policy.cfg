SPECIFICATION Spec
CONSTANTS
  Certificates <- AllCertificates
  PublicKeys = {"A", "B"}
  Times = {0, 1, 2}
INVARIANTS
  TypeOK
  OutcomeAgrees
  RolesSeparated
