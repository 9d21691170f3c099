SPECIFICATION FairSpec
CONSTANTS
  Calls = {j1, j2, j3}
  Children = {1, 2, 3, 4}
  Size = 2
  MaxJobs = 2
  Concurrency = 2
INVARIANTS
  PoolInvariant
PROPERTIES
  EveryCallSettles
  CloseLeavesNoChild
