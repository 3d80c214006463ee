SPECIFICATION FairSpec
CONSTANTS
  Callers = {c, d, w}
  Clients = {c}
  Waiters = {d, w}
  Nobody = Nobody
  Outcomes = {"ok", "fault", "loss"}
  MaxSubmissions = 2
INVARIANTS
  WaitersReadTheirSubmission
PROPERTIES
  LossIsFinal
  CallsReturnWithoutTheGPU
