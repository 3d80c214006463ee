SPECIFICATION Spec
CONSTANTS
  s = s
  t = t
  con = con
  x = x
  y = y
  None = None
  Slots = {s, t}
  Concretes = {con}
  Others = {x, y}
  Resources = {s, t, con}
  Programs <- MCPrograms
  MinCount <- MCMinCount
  Size <- MCSize
  Bytes = 5
  Batches <- MCBatches
  Callers = {c1, c2}
SYMMETRY Symmetry
INVARIANTS
  HazardsSurviveBinding
CHECK_DEADLOCK FALSE
