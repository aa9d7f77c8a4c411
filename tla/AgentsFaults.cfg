SPECIFICATION FairSpec
CONSTANTS
  Signals = {s1}
  NoSignal = NoSignal
  MaxSends = 2
  Threshold = 7
  MaxPings = 0
  FaultSets = {{"send", "model", "memory"}, {"start", "memory", "recv", "stop"}}
INVARIANTS
  TypeOK
  SwapsWereApproved
  SuccessIsReal
PROPERTIES
  HandlersEnd
  StoppedIsQuiet
  StopReturns
CHECK_DEADLOCK FALSE
