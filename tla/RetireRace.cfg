SPECIFICATION Spec
CONSTANTS
  None = None
  k1 = k1  k2 = k2  k3 = k3  k4 = k4
  i1 = i1  i2 = i2  i3 = i3  i4 = i4
  p1 = p1  p2 = p2  p3 = p3
  KeyIds = {k1, k2, k3, k4}
  Ids = {i1, i2, i3, i4}
  Procs = {p1, p2}
  KeyPairs <- AllKeyPairs
  Certs <- AllCerts
  Requests <- LifecycleRequests
  InitRegistry <- LifecycleRegistry
  InitKeys <- LifecycleKeys
  InitCerts <- LifecycleCerts
  MaxNow = 0
  MaxCerts = 1
  Faults = FALSE
SYMMETRY Symmetry
PROPERTY
  RetiredNeverSigns
