SPECIFICATION FairSpec
CONSTANTS
  MaxBuckets = 2
  MaxSize = 4
  Starts = {1, 2, 3}
  Lengths = {1, 2}
  MaxBytes = 2
  MaxRecords = 3
  MaxFaults = 2
INVARIANTS TypeOK WithinLimits Kept FetchedOrHidden MirrorIsPrefix AllAccepted
PROPERTIES OldestGo MirrorConverges
