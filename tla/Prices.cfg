SPECIFICATION FairSpec
CONSTANTS
  Callers = {c1, c2, c3}
  Ids = {ethereum, bitcoin}
  TTL = 2
  MaxNow = 6
INVARIANTS
  SharedFetch
  FreshIsRecent
PROPERTIES
  PricesNeverGoBack
  ScansReturn
