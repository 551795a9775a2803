SPECIFICATION Spec
CONSTANTS
  d1 = d1
  d2 = d2
  Blank = Blank
  UasIds = {d1, d2}
  TickMod = 6
  LandTicks = 1
  SilentTicks = 1
  FrozenTicks = 1
  TsMax = 0
  RejectSlots = 1
  RejectTtl = 1
  StaleWriteTicks = 1
  RestartTicks = 2
  RetryTicks = 2
  MaxGap = 1
  Plans <- LocatedPlans
INVARIANTS
  FailureBounded
  StrayBounded
PROPERTIES
  RadioRecovers
