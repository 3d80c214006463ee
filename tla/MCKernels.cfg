CONSTANTS
  Totals = {1, 2, 5}
  MaxWorkers = 3
  MaxChunk = 2
  PerWorker = 1
  Threshold = 2
  e1 = e1
  e2 = e2
  Size = 3
  SubgroupSize = 2
  Elements = {e1, e2}
  Workloads <- MCWorkloads
SPECIFICATION MCSpec
INVARIANTS
  ReportIsTheSerialOne
  OrderDoesNotShow
  AuthoredAgrees
PROPERTY
  KernelsEnd
CHECK_DEADLOCK FALSE
