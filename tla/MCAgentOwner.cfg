SPECIFICATION Spec
CONSTANTS
  r1 = r1
  Refs = {r1}
  None = None
  MaxTime = 2
  EstLag = 0
  Budget = 1
  Cost <- CostEdit
  MaxWait <- WaitOne
  NowSlack = 0
  Grace = 0
  GiveUp = 1
  MaxNew = 1
  Modes = {"shadow", "autonomous"}
  ReplyTimes = {2, 3}
PROPERTIES
  OwnerHasTheLastWord
