SPECIFICATION FairSpec
CONSTANTS
  N = 2
  MaxFaults = 1
  MaxStops = 2
INVARIANTS EffectIsRecorded CompletedIsSettled NothingOutlivesTurn RecoveredIsSettled
PROPERTIES RunSettles
CHECK_DEADLOCK FALSE
