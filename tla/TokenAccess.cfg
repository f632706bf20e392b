SPECIFICATION FairSpec
CONSTANTS
  None = None
  a = a  b = b  c = c  s = s
  i1 = i1
  Threads = {a, b, c}
  Process <- ProcessOf
  Ids = {i1}
  Requests <- TokenRequests
  Configured = {"admin", "api"}
  PoolSize = 2
  MaxHangs = 1
INVARIANTS
  TypeOK
  OneSession
  Inductive
PROPERTIES
  StoreSpec
  EveryRequestEnds
  ListingAnswered
CHECK_DEADLOCK FALSE
