CONSTANTS
  s1 = s1
  s2 = s2
  s3 = s3
  Slots <- ThreeSlots
  MaxCards = 5
SPECIFICATION Spec
INVARIANTS TypeOK ListSound LookupIsExact ClientsSound
PROPERTIES RightCard
CHECK_DEADLOCK FALSE
