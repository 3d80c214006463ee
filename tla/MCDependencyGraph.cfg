CONSTANTS
  buf1 = buf1
  buf2 = buf2
  Resources = {buf1, buf2}
  Programs <- MCPrograms
SPECIFICATION Spec
INVARIANTS
  ConflictsAreOrdered
  ReachIsTheClosure
CHECK_DEADLOCK FALSE
