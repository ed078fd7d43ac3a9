SPECIFICATION FairSpec
CONSTANTS
    me = me
    ann = ann
    mine1 = mine1
    mine2 = mine2
    anns = anns
    bobs = bobs
    bob = bob
    Comments = {mine1, mine2, anns, bobs}
    Author <- WhoseComment
    Me = me
    Profiles = {me, ann}
    MaxTyped = 3
    MaxFailures = 2
    MaxRestarts = 1
INVARIANT CopiesPerChange
PROPERTY CommentsAppear
CHECK_DEADLOCK FALSE
