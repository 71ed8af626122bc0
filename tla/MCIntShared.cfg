CONSTANTS
  Present <- SmallCard
  SharedLine = TRUE
  UserRaces = FALSE
  SMP = FALSE
  Siblings = FALSE
SPECIFICATION Spec
INVARIANTS MaskKeptAlways
