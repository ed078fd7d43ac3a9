CONSTANTS
    ann = ann
    bob = bob
    cat = cat
    Users = {ann, bob, cat}
    MaxTaps = 4
    MaxFailures = 1
    MaxRestarts = 1
SPECIFICATION Spec
INVARIANT HeartsAgreeUnlessErased
PROPERTY BookOnceWarm
CHECK_DEADLOCK FALSE
