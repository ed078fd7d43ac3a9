CONSTANTS
    me = me
    ann = ann
    p1 = p1
    p2 = p2
    Users = {me, ann}
    Me = me
    Posts = {p1, p2}
    Date <- P2Newer
    Profiles = {me, ann}
    Owner <- OneEach
    LikeOps = {}
    MaxRefreshes = 1
    MaxFollowEdits = 1
    MaxFailures = 1
    MaxRelaunches = 1
SPECIFICATION QuietSpec
INVARIANTS OnlyKnownPeople CopiesPerListener NewestFirst
PROPERTIES EventuallyShown SpinnerStops
CHECK_DEADLOCK FALSE
