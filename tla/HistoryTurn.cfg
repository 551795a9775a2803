SPECIFICATION Spec
CONSTANTS
  d1 = d1
  d2 = d2
  d3 = d3
  m1 = m1
  m2 = m2
  m3 = m3
  m4 = m4
  Blank = Blank
  UasIds = {d1, d2, d3}
  Macs = {m1, m2, m3, m4}
  TickMod = 8
  LandTicks = 1
  SilentTicks = 1
  FrozenTicks = 1
  TsMax = 0
  RejectSlots = 2
  RejectTtl = 3
  StaleWriteTicks = 2
  RestartTicks = 2
  RetryTicks = 1
  NumSlots = 2
  MaxGap = 1
  Frames <- FreezingFrames
INVARIANTS FrozenNeverRearms
