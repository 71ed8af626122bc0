CONSTANTS
  PeriodSizes <- OnePeriod
  MaxPeriod = 8
  SMP = TRUE
  OtherCard = FALSE
SPECIFICATION Spec
INVARIANTS NoUseAfterFree
