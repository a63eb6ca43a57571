SPECIFICATION OfflineSpec
CONSTANTS
  Refs = {1, 2}
  None = None
  NoStart = None
  MaxWait <- WaitOf
  Margin = 1
  Freeze = 0
  FREEZE = 0
  REPLAN = 1
  Tariffs = {TRUE}
  SiteModes = {"autonomous"}
  BLOCK_MIN = 2
  Horizon = 17
  Dur <- DurOf
  Gpus <- GpusOf
  Offset <- OffsetOf
  ShareGpus = 1
  PowerGpus = None
  Tod <- TodOf
  Published <- PriceSets
  LastArrival = 1
  MaxNow = 5
  MAX_SHIFTABLE = 3
  MAX_ROWS = 3
  BadRow = BadRow
  WEEK = 10
  FULL = 2
  SHARES = {1, 2}
  SLACKS = {3, 5}
  SHARE_GPUS = 1
  TOD_SEED <- TodOf
  PRICES <- Other
  NumReports = 4
  Files <- Uploads
  Asked <- AskedFor
  MAX_ACTIVE_RUNS = 2
  MAX_KEEP = 3
INVARIANTS
  ReplanStable
  CapacityKept
  WaitIsSafe
  RunsBounded
  ReportWhole
PROPERTIES
  PlansAsCloud
  OnlyForward
  ReportEnds
CHECK_DEADLOCK FALSE
