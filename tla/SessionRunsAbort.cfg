SPECIFICATION Spec
CONSTANTS
  s1 = s1
  r1 = r1
  r2 = r2
  Sessions = {s1}
  Runs = {r1, r2}
  SessionOf <- OneSession
  NoRun = NoRun
  Abortable = {r1, r2}
  ClaimRetryLimit = 1
  MaxStops = 0
PROPERTY AbortNamesItsRun
