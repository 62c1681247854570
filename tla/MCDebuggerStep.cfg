SPECIFICATION FairSpec
CONSTANTS
  Main = Main
  Workers = {w1}
  Lines <- MCLines
  MaxDepth <- MCMaxDepth
  BreakLines = {1}
  BreakpointIds = {0, 1}
  FirstCapacity = 1
  None = None
INVARIANTS
  StepSurvivesReturn
CHECK_DEADLOCK FALSE
