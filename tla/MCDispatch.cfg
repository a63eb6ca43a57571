SPECIFICATION Spec
CONSTANTS
  BLOCK_MIN = 1
  Horizon = 4
  NoStart = NoStart
  NumJobs = 2
  Requests <- SlackOne
  MAX_DURATION_MIN = 1
  Jitter <- JitterNone
  Curves <- ThreeCurves
  CAP = 1
  FREEZE = 0
  REPLAN = 0
  MAX_ACTIVE = 2
  MaxTime = 4
  MAX_RUNNING = 1
  GRACE = 2
  Registries = {{}, {"kaggle"}}
  Sample <- Holed
  Anchors = {0}
  RealTimes = {2}
  Incidents = {"crash", "abort", "start", "status"}
  Budget = 1
INVARIANTS
  DispatchTypeOK
  SlotsKept
  SessionsKept
  WindowsFit
  BlocksKept
  StartedOnce
PROPERTIES
  OverdueNotRun
  ContractKept
