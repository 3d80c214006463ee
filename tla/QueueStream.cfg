CONSTANTS
  Callers = {c1, c2}
  Queues = {q1, q2}
  MaxUnits = 3
  MaxWrites = 2
  MaxAfters = 2
  WritesFail = TRUE
SPECIFICATION Spec
INVARIANTS
  OneUnitAtATime
  BatchesLandOrFail
  FencesProveChainedWrites
PROPERTY EveryFenceSignals
CHECK_DEADLOCK FALSE
