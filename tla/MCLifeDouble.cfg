CONSTANTS
  MaxWait = 2
  Unplug = FALSE
SPECIFICATION Spec
CHECK_DEADLOCK FALSE
INVARIANTS NoDoubleFree
