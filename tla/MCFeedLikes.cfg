CONSTANTS
    me = me
    ann = ann
    p1 = p1
    p2 = p2
    Users = {me, ann}
    Me = me
    Posts = {p1, p2}
    Date <- P2Newer
    Profiles = {ann}
    Owner <- BothAnns
    LikeOps = {o1, o2}
    MaxRefreshes = 1
    MaxFollowEdits = 0
    MaxFailures = 1
    MaxRelaunches = 1
SPECIFICATION LikeSpec
INVARIANT IdleHeartsAgree
SYMMETRY Taps
CHECK_DEADLOCK FALSE
