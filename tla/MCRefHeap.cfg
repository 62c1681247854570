CONSTANTS
  a = a
  b = b
  c = c
  Nil = Nil
  Objects <- MCObjects
  Width <- MCWidth
  MaxRoots = 2
SYMMETRY MCSymmetry
SPECIFICATION Spec
CHECK_DEADLOCK FALSE
INVARIANTS
  CountsExact
  NothingReachableFreed
  GarbageExact
PROPERTIES
  CollectLeavesNodesLive
