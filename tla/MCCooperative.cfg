SPECIFICATION FairSpec
CONSTANTS
  SubgroupSize = 2
  Lanes = 3
  Params = {0, 1}
  Locals <- MCLocals
  Kernels <- MCKernels
INVARIANTS
  AcceptedBarriersAreReached
  LevelsAreRight
  LoweringKeepsTheKernel
PROPERTIES
  LoweredLanesEnd
CHECK_DEADLOCK FALSE
