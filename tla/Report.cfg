SPECIFICATION ReportSpec
CONSTANTS
  None = None
  k1 = k1  k2 = k2  k3 = k3  k4 = k4
  i1 = i1  i2 = i2  i3 = i3  i4 = i4
  p1 = p1  p2 = p2  p3 = p3
  KeyIds = {k1, k2, k3}
  Ids = {i1, i2, i3}
  Procs = {p1, p2}
  KeyPairs <- ReportKeyPairs
  Certs <- ReportStoredCerts
  Requests <- ReportRequests
  InitRegistry <- ReportRegistry
  InitKeys <- ReportKeys
  InitCerts <- ReportCerts
  MaxNow = 1
  MaxCerts = 4
  Faults = TRUE
SYMMETRY Symmetry
INVARIANTS
  ReportTypeOK
  UntouchedRowsExact
  UntouchedInventoryExact
  DuplicatesGrounded
  Reporting
