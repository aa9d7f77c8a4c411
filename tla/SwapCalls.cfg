SPECIFICATION FairSpec
CONSTANTS
  Swaps = {s1, s2}
  MaxPolls = 2
  NoTx = NoTx
INVARIANTS
  ConfirmedIsMined
  OneSwapPerCall
  FailedMeansNotSent
  SubmittedWasSent
PROPERTIES
  KeepsPromise
  CallsReturn
