SPECIFICATION Spec
CONSTANTS
  SubgroupSize = 2
  Lanes = 3
  Params = {0, 1}
  Locals <- MCLocals
  Kernels <- SkipKernels
INVARIANTS
  AcceptedBarriersAreReachedByAll
CHECK_DEADLOCK FALSE
