SPECIFICATION FairSpec
CONSTANTS
    Accounts = {a1, a2}
    Nobody = nobody
    MaxFailures = 2
    MaxNaps = 2
    MaxRelaunches = 2
    MaxLogOuts = 2
INVARIANTS PagesAreMine ActsAsItsUser EnteredCanBeFound
PROPERTY HudGoesAway
CHECK_DEADLOCK FALSE
