CONSTANTS
  t = t
  u = u
  v = v
  out = out
  Resources = {t, u, v, out}
  Programs <- MCPrograms
  Declared <- MCDeclared
  Sizes = {1, 2}
  Align = 1
  MaxPoolBytes = 4
SPECIFICATION ExecSpec
INVARIANTS
  SharingIsSafe
  PlansAreFrugal
  RunsMatchRecordOrder
CHECK_DEADLOCK FALSE
