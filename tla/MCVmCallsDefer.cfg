SPECIFICATION FairSpec
CONSTANTS
  InitialFrames = 2
  MaxFrames = 4
  MaxDefers = 3
INVARIANT
  DefersRunOnReturn
CHECK_DEADLOCK FALSE
