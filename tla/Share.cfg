SPECIFICATION FairSpec
CONSTANTS
    Forms = {f1, f2}
    Accounts = {a1, a2}
    Nobody = nobody
    MaxFailures = 2
    MaxSignOuts = 1
    MaxRelaunches = 1
INVARIANTS OnePostPerForm PhotoBehindPost
PROPERTIES ClosesWhenSaved SharingSucceeds
CHECK_DEADLOCK FALSE
