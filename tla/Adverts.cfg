SPECIFICATION Spec
CONSTANTS
  d1 = d1
  d2 = d2
  Drones = {d1, d2}
  Node = Node
  Boards = {"wsw", "xiao"}
  Tables <- FewTables
  CycleLen = 2
  QueueLen = 1
INVARIANTS
  Attributed
PROPERTIES
  IdleShown
  DetectionGone
