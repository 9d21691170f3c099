SPECIFICATION FairSpec
CONSTANTS
    a = a
    b = b
    r1 = r1
    r2 = r2
    Browsers = {a, b}
    Runs = {r1, r2}
    Anonymous = Anonymous
    Settings <- MCSettings
INVARIANTS
    FeedInvariant
    RevokedHearsNothing
PROPERTIES
    EveryWatcherLearns
CHECK_DEADLOCK FALSE
