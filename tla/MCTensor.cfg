CONSTANTS
  Nobody = nobody
  Callers = {c1, c2}
  Queues = {q1, q2}
  InFlightLimit = 2
  MaxSubmissions = 3
  MaxSpares = 2
  Blocks = 3
  BlockSize = 2
  MaxPositions = 4
  Shape <- MCShape
  MaxNodes = 3
  MaxTensors = 1
SPECIFICATION MCSpec
INVARIANTS
  SubmissionsRunAsBound
  NothingGoesUnderAPlan
  PagesHaveOneOwner
  VersionsTellTheContents
  OperatorsReadTheirVersions
PROPERTY
  CallsAndFencesEnd
CHECK_DEADLOCK FALSE
