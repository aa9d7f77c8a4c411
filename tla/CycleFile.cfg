SPECIFICATION FairSpec
CONSTANTS
  Cycles = {c1, c2}
  None = None
  MaxResults = 2
  MaxDemo = 4
  MaxReplaced = 1
INVARIANTS
  RecentResults
  NumbersFollow
  BusyIsReal
  SnapshotIsLatest
PROPERTIES
  CyclesEnd
