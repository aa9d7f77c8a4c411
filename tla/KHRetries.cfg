SPECIFICATION FairSpec
CONSTANTS
  Swaps = {s1}
  MaxAttempts = 3
  MaxPolls = 3
  NoTx = NoTx
  NoStatus = NoStatus
INVARIANTS
  ConfirmedIsOnChain
  AuditAgrees
  ReportedHashIsTracked
PROPERTIES
  KeepsPromise
  NoSubmitOnceTracked
  SwapReturns
