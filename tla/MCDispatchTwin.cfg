SPECIFICATION FairSpec
CONSTANTS
  BLOCK_MIN = 1
  Horizon = 4
  NoStart = NoStart
  NumJobs = 2
  Requests <- SlackTwo
  MAX_DURATION_MIN = 1
  Jitter <- JitterNone
  Curves <- TwoCurves
  CAP = 1
  FREEZE = 0
  REPLAN = 0
  MAX_ACTIVE = 2
  MaxTime = 4
  MAX_RUNNING = 1
  GRACE = 2
  Registries = {{"kaggle"}}
  Sample <- Holed
  Anchors = {0}
  RealTimes = {2}
  Incidents = {"crash"}
  Budget = 1
PROPERTIES
  SlotsComeBack
