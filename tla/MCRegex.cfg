CONSTANTS
  a = a
  A = A
  d = d
  nl = nl
  NoMax = NoMax
  None = None
  Marker = Marker
  Bytes = {a, A, d, nl}
  Newline = nl
  WordBytes = {a, A, d}
  Lower <- MCLower
  Upper <- MCUpper
  Patterns <- MCPatterns
  Inputs <- MCInputs
  MaxResults = 2
SPECIFICATION Spec
CHECK_DEADLOCK FALSE
INVARIANTS
  TypeOK
  SearchExact
  AllExact
