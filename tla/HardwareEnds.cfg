SPECIFICATION FairSpec
CONSTANTS
  Settings <- BothEnds
  MaxIds = 3
  Executors = {e1}
  NoLock = NoLock
  MaxPollAttempts = 3
  TickBound = 7
  MaxSubmitAttempts = 2
INVARIANTS
  SubmissionsAreBounded
PROPERTIES
  EveryJobEnds
