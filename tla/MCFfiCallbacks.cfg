CONSTANTS
  s1 = s1
  s2 = s2
  n1 = n1
  k1 = k1
  r1 = r1
  r2 = r2
  None = None
  Scripts = {s1, s2}
  Natives = {n1}
  Slots <- MCSlots
  Closures = {k1}
  Runtimes = {r1, r2}
SPECIFICATION FairSpec
CHECK_DEADLOCK FALSE
INVARIANTS
  RuntimeOpenWhileRunning
  ClosureCountsExact
  RegisteredCanRun
PROPERTIES
  IdleRuntimeGoes
