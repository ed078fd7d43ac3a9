CONSTANTS
    ann = ann
    bob = bob
    cat = cat
    Users = {ann, bob}
    MaxTaps = 2
    MaxFailures = 0
    MaxRestarts = 0
SPECIFICATION Spec
INVARIANT HeartsAreSaved
CHECK_DEADLOCK FALSE
