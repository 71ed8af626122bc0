CONSTANTS
  Present <- MixedCard
  SharedLine = FALSE
  UserRaces = FALSE
  SMP = TRUE
  Siblings = FALSE
SPECIFICATION FairSpec
INVARIANTS TypeOK MaskKept NeverBusyAlone
PROPERTIES WorkDone Rearmed ImplementsGate
