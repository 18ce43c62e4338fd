SPECIFICATION FairSpec
CONSTANTS
  p1 = p1
  p2 = p2
  x = x
  y = y
  u1 = u1
  u2 = u2
  Requests = {p1, p2}
  Resources = {x, y}
  ResourcesOf <- Overlapping
  Runs = {u1, u2}
  RunOf <- TwoRuns
  MaxStops = 1
INVARIANTS OutcomeIsStored ConsentBeforeUse GrantsWereGiven PendingIsAwaited
PROPERTIES PromptReturns
CHECK_DEADLOCK FALSE
