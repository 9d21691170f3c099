SPECIFICATION FairSpec
CONSTANTS
  ana = ana
  beto = beto
  Tabs = {ana, beto}
  Relay = 0
  ClientsOf <- MCClientsOf
  SlotRank <- MCSlotRank
  MaxQubits = 2
  Saved <- MCSaved
  Shapes <- MCShapes
  Columns = {0, 1}
  MaxEdits = 3
INVARIANTS
  SharedCircuitInvariant
  OlderClaimsStand
PROPERTIES
  WorkIsCarried
  StoresConverge
CHECK_DEADLOCK FALSE
