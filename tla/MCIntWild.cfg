CONSTANTS
  Present <- SmallCard
  SharedLine = TRUE
  UserRaces = TRUE
  SMP = TRUE
  Siblings = TRUE
SPECIFICATION Spec
INVARIANTS WorkOwned RemovalQuiesces
