SPECIFICATION Spec
CONSTANTS
  Keys <- MCKeys
  Hash <- MCHash
  Values = {v1, v2}
  InitialCapacity = 4
  MaxCapacity = 8
  NoKey = NoKey
  NoValue = NoValue
  NoCall = NoCall
INVARIANTS
  ProbeSound
  CountersExact
  EmptySlotRemains
  LookupExact
PROPERTIES
  ImplementsKeyedMap
