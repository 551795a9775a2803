SPECIFICATION BootSpec
CONSTANTS
  ChStart = 0
  ChStop = 3
  ApChannel = 2
  MaxStations = 2
  MaxEvents = 2
CHECK_DEADLOCK FALSE
INVARIANTS
  PinnedWhileServed
