SPECIFICATION Spec
CONSTANTS
  MaxTurns = 2
  StepLimits = {0, 1, 2}
  MaxAttempts = 2
  MaxParts = 1
  Faults = 1
INVARIANTS RetriesAreRecorded NothingUnderWay HistoryIsStored SuccessIsWhole
PROPERTIES RunReturns
