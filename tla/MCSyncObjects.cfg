SPECIFICATION Spec
CONSTANTS
  Actors = {a1, a2, a3}
  MaxHandles = 1
  MaxInitFailures = 1
  None = None
SYMMETRY Symmetric
INVARIANTS
  HandleGivenOnce
  HandleKeepsObject
  NoLostObject
  RetiredStaysEmpty
  NullLockOnlyBeforeReady
  NoUseAfterFree
CHECK_DEADLOCK FALSE
