SPECIFICATION FairSpec
CONSTANTS
    a = a
    b = b
    e1 = e1
    e2 = e2
    Clients = {a, b}
    Anonymous = Anonymous
    MaxRejoins = 1
    MaxPending = 1
    MaxDown = 2
    Owners = {"owner", "guest"}
    Settings <- MCSettings
INVARIANTS
    SessionInvariant
    JoinedIsTogether
    StatusIsTrue
    LostMeansReadOnly
PROPERTIES
    EverySessionSettles
CHECK_DEADLOCK FALSE
