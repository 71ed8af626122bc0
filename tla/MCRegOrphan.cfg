CONSTANTS
  s1 = s1
  s2 = s2
  s3 = s3
  Slots <- TwoSlots
  MaxCards = 2
SPECIFICATION Spec
INVARIANTS AllListed
