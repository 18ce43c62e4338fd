SPECIFICATION Spec
CONSTANTS
  None = None
  Plugins = {"p1", "p2"}
  Calls = {"c1"}
  MaxProgress = 1
INVARIANT ProgressFindsRunOpen
\* the host stops when its manager is closed
CHECK_DEADLOCK FALSE
