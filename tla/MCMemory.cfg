CONSTANTS
  PoolSize = 33
  Granularity = 2
  SlBits = 1
  Requests <- MCRequests
  Callers = {c1, c2}
  Stream = stream
  Buffers = {b1, b2, b3}
  Nobody = nobody
  Policies = {"general", "linear"}
  NumPlaces = 2
  MaxHeld = 2
  AfterFails = TRUE
SYMMETRY Alike
SPECIFICATION MCSpec
INVARIANTS
  BlocksListsAndCountersAgree
  RefusalsAreHonest
  BuffersKeepTheirBytes
  MemoryReturnsOnce
PROPERTY
  GeneralImplements
CHECK_DEADLOCK FALSE
