SPECIFICATION RestartSpec
CONSTANTS
  None = None
  k1 = k1  k2 = k2
  i1 = i1  i2 = i2
  p1 = p1  p2 = p2  p3 = p3
  KeyIds = {k1, k2}
  Ids = {i1, i2}
  Procs = {p1, p2}
  KeyPairs <- AllKeyPairs
  Certs <- AllCerts
  Requests <- RestartRequests
  InitRegistry <- RestartRegistry
  InitKeys <- RestartKeys
  InitCerts <- RestartCerts
  MaxNow = 0
  MaxCerts = 4
  Faults = TRUE
  MaxRestarts = 1
  MaxLosses = 2
SYMMETRY Symmetry
INVARIANTS
  Started
  RestartInductive
  SignatureLawfulAcrossLives
  SignatureCertifiedAcrossLives
  ReportAgreesWithUse
PROPERTIES
  FailedClosedNeverSigns
  CustodySpec
