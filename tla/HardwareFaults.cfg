SPECIFICATION Spec
CONSTANTS
  Settings <- OneFault
  MaxIds = 3
  Executors = {e1, e2}
  NoLock = NoLock
  MaxPollAttempts = 3
  TickBound = 7
  MaxSubmitAttempts = 2
SYMMETRY Symmetry
INVARIANTS
  HardwareInvariant
  OrphansNeedFailures
PROPERTIES
  RowOnlyAdvances
  NothingIsSentTwice
