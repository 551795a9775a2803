SPECIFICATION SpecBle
CONSTANTS
  d1 = d1
  d2 = d2
  m1 = m1
  m2 = m2
  Blank = Blank
  UasIds = {d1, d2}
  Macs = {m1, m2}
  TickMod = 6
  LandTicks = 1
  SilentTicks = 1
  FrozenTicks = 6
  TsMax = 0
  RejectSlots = 1
  RejectTtl = 1
  StaleWriteTicks = 1
  RestartTicks = 1
  RetryTicks = 1
  NumSlots = 2
  MaxGap = 1
  Frames <- MixedFrames
INVARIANTS EvictedOverwritten
