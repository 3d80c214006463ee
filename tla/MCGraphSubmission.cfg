CONSTANTS
  small = small
  large = large
  plain = plain
  NoGraph = none
  Graphs = {small, large, plain}
  Streams = {s1, s2}
  Resources = {r1}
  Slotted = {plain}
  Need <- Needs
  MaxSubmissions = 2
  CanBeLost = TRUE
SPECIFICATION MCSpec
INVARIANTS
  AccountsAreExact
  GraphsRunAlone
PROPERTY SubmissionsEnd
CHECK_DEADLOCK FALSE
