SPECIFICATION LiveSpec
CONSTANTS
  Signals = {s1, s2}
  NoSignal = NoSignal
  MaxSends = 2
  Threshold = 7
  MaxPings = 1
  FaultSets = {{}}
INVARIANTS
  StatusFollowsWork
PROPERTIES
  SignalsSettle
CHECK_DEADLOCK FALSE
