SPECIFICATION SpecLoad
CONSTANTS
  d1 = d1
  d2 = d2
  Drones = {d1, d2}
  Depth = 3
  Burst = 2
  CycleLen = 2
  SilentTicks = 20
  MinPeriod = 8
  MaxPeriod = 10
  Phase <- AllDue
INVARIANTS
  LatencyBounded
PROPERTIES
  TransmitterKept
