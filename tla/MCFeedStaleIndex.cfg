CONSTANTS
    me = me
    ann = ann
    p1 = p1
    p2 = p2
    Users = {me, ann}
    Me = me
    Posts = {p1, p2}
    Date <- P2Newer
    Profiles = {me, ann}
    Owner <- BothAnns
    LikeOps = {o1}
    MaxRefreshes = 1
    MaxFollowEdits = 0
    MaxFailures = 0
    MaxRelaunches = 0
SPECIFICATION LikeSpec
INVARIANT LikingIsSafe
CHECK_DEADLOCK FALSE
