CONSTANTS
  MaxWait = 2
  Unplug = FALSE
SPECIFICATION FairSpec
CHECK_DEADLOCK FALSE
INVARIANTS TypeOK  ListedIsWhole
PROPERTIES ReleaseUnused ProbeAndRemovalEnd
