SPECIFICATION FairSpec
CONSTANTS
  s1 = s1
  r1 = r1
  r2 = r2
  Sessions = {s1}
  Runs = {r1, r2}
  SessionOf <- OneSession
  NoRun = NoRun
  Abortable = {r1}
  ClaimRetryLimit = 2
  MaxStops = 1
INVARIANTS TypeOK OneRunning StartedInOrder RunningIsOwned SettleCanCommit NoLostWakeup
PROPERTIES ImplementsRunQueue EveryRunSettles DeleteReturns
