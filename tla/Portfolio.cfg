SPECIFICATION Spec
CONSTANTS
  Market <- MCMarket
  Commitment = 180
  MaxDemo = 2
  MaxDash = 1
INVARIANTS
  
  PickIsDecided
