SPECIFICATION Spec
CONSTANTS
  None = None
  Batches <- TwoEdits
  Trees <- TwoLines
  Outside = {}
  MaxFaults = 0
INVARIANT NoEditIsLost
\* the batch ends
CHECK_DEADLOCK FALSE
