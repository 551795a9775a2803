SPECIFICATION Spec
CONSTANTS
  d1 = d1
  d2 = d2
  d3 = d3
  m1 = m1
  m2 = m2
  m3 = m3
  Blank = Blank
  UasIds = {d1, d2, d3}
  Macs = {m1, m2, m3}
  TickMod = 8
  NumSlots = 2
  LandTicks = 1
  SilentTicks = 2
  MaxGap = 2
  Frames <- MixedFrames
INVARIANTS
  OwnOperator
PROPERTIES
  ImplementsRelaySlots
