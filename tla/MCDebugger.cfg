SPECIFICATION FairSpec
CONSTANTS
  Main = Main
  Workers = {w1}
  Lines <- MCLines
  MaxDepth <- MCMaxDepth
  BreakLines = {1}
  BreakpointIds = {0, 1}
  FirstCapacity = 1
  None = None
INVARIANTS
  CallbackSeesOwnVm
  RegistryLive
  CrashNeedsSwitchOrDetach
PROPERTIES
  PauseTakesEffect
CHECK_DEADLOCK FALSE
