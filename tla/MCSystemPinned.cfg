SPECIFICATION SystemSpec
CONSTANTS
  r1 = r1
  Refs = {r1}
  None = None
  MaxWait <- WaitOne
  MaxTime = 2
  EstLag = 0
  Budget = 1
  Cost <- CostOnlyNet
  NowSlack = 0
  Grace = 0
  GiveUp = 1
  MaxNew = 1
  Modes = {"autonomous"}
  ReplyTimes = {}
  Margin = 0
  Freeze = 1
  Tariffs = {TRUE}
  SiteModes = {"autonomous"}
PROPERTIES
  PinnedIsNotMoved
