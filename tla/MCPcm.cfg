CONSTANTS
  PeriodSizes <- TwoPeriods
  MaxPeriod = 12
  SMP = FALSE
  OtherCard = FALSE
SPECIFICATION FairSpec
INVARIANTS TypeOK TimerFollowsStream NoLostPeriod RingKept
PROPERTIES PeriodsReported
