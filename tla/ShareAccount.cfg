SPECIFICATION Spec
CONSTANTS
    Forms = {f1}
    Accounts = {a1, a2}
    Nobody = nobody
    MaxFailures = 0
    MaxSignOuts = 1
    MaxRelaunches = 0
INVARIANT PostedByItsSharer
CHECK_DEADLOCK FALSE
