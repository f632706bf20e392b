SPECIFICATION Spec
CONSTANTS
  None = None
  a = a  b = b  c = c  s = s
  i1 = i1
  Threads = {a, s}
  Process <- ProcessOf
  Ids = {i1}
  Requests <- TokenRequests
  Configured = {"admin", "api"}
  PoolSize = 2
  MaxHangs = 0
INVARIANT
  OneSessionOnToken
CHECK_DEADLOCK FALSE
