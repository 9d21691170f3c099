SPECIFICATION FairSpec
CONSTANTS
  Columns = 3
  Interval = 1
  Limit = 2
  MaxClientQubits = 2
  SamplingBudget = 3
  Servers = {TRUE, FALSE}
  Contents <- MCContents
  Registers = {1, 3}
  Positions <- MCPositions
  MaxActs = 2
  MaxFaults = 1
INVARIANTS
  BrowserInvariant
  OutcomeIsExact
  CleanCheckpointsAreTrue
  ReadyIsCurrent
PROPERTIES
  EveryQuestionEnds
CHECK_DEADLOCK FALSE
