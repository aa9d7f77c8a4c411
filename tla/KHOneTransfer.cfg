SPECIFICATION Spec
CONSTANTS
  Swaps = {s1}
  MaxAttempts = 2
  MaxPolls = 1
  NoTx = NoTx
  NoStatus = NoStatus
INVARIANTS
  OneTransferPerSwap
