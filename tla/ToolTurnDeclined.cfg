SPECIFICATION Spec
CONSTANTS
  N = 1
  MaxFaults = 0
  MaxStops = 0
INVARIANT DeclinedSettles
CHECK_DEADLOCK FALSE
