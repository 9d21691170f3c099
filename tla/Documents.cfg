SPECIFICATION FairSpec
CONSTANTS
  r1 = r1
  r2 = r2
  p1 = p1
  p2 = p2
  e1 = e1
  e2 = e2
  Replicas = {r1, r2}
  Edits = {e1, e2}
  Peers = {p1, p2}
  NoRow = NoRow
  MaxBuilds = 2
  Deployments <- MCDeployments
  MaxFaults = 1
  MaxVersions = 1
INVARIANTS
  DocumentInvariant
  EditsOutliveTheSession
  SubscribersHaveEverything
PROPERTIES
  EveryJoinIsAnswered
CHECK_DEADLOCK FALSE
