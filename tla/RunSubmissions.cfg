SPECIFICATION Spec
CONSTANTS
  Runs = {r1, r2, r3}
  Executors = {e1}
  NoLock = NoLock
  Nobody = Nobody
  NoRun = NoRun
  Malformed = {}
  WorkOf <- SameWork
  Faults <- AllFaults
  MaxFaults = 1
  JobAttempts = 2
  MaxStalledCount = 1
  MaxQueueDepth = 3
  ReaperBatch = 1
SYMMETRY Symmetry
INVARIANTS
  DiscardedIsForgotten
  WinnerIsReadable
  StrandedHasACause
  DuplicateNeedsLostKey
