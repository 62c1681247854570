SPECIFICATION FairSpec
CONSTANTS
  MaxThreads = 2
  MaxInitFailures = 1
  Inline = {Zero, small}
  Boxed = {big}
  Zero = Zero
  Address = Address
  NonInteger = NonInteger
  Main = Main
  None = None
INVARIANTS
  OneOwner
  StillJoinable
  DescriptorAlive
  CrashOnlyBeforePublish
  JoinSeesResult
PROPERTIES
  EnsureTerminates
  JoinsStuckInCircleOnly
CHECK_DEADLOCK FALSE
