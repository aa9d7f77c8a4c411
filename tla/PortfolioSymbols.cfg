SPECIFICATION Spec
CONSTANTS
  Market <- MCMarket
  Commitment = 180
  MaxDemo = 1
  MaxDash = 0
INVARIANTS
  MarksItsOwnPair
