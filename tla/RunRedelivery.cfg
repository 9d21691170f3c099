SPECIFICATION QueueSpec
CONSTANTS
  Runs = {r1}
  Executors = {e1, e2}
  NoLock = NoLock
  Nobody = Nobody
  NoRun = NoRun
  Malformed = {}
  WorkOf <- SameWork
  Faults <- AllFaults
  MaxFaults = 4
  JobAttempts = 3
  MaxStalledCount = 1
  MaxQueueDepth = 1
  ReaperBatch = 1
INVARIANTS
  CompletedJobHasEndedRow
  SignalFollowsWrite
  Ind
PROPERTIES
  ImplementsContract
  AcceptedWorkEnds
