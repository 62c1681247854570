SPECIFICATION FairSpec
CONSTANTS
  InitialFrames = 2
  MaxFrames = 4
  MaxDefers = 3
INVARIANTS
  TypeOK
  LoopsOwnFrames
  DefersAccountedFor
  OnlyTailCallsDrop
  RegistersCurrent
PROPERTIES
  ImplementsCallStack
  FailureEnds
