SPECIFICATION FairSpec
CONSTANTS
  Runs = {r1, r2}
  Executors = {e1}
  NoLock = NoLock
  Nobody = Nobody
  NoRun = NoRun
  Malformed = {r2}
  WorkOf <- SameWork
  Faults <- AllFaults
  MaxFaults = 1
  JobAttempts = 2
  MaxStalledCount = 1
  MaxQueueDepth = 1
  ReaperBatch = 1
PROPERTIES
  EveryRunEnds
