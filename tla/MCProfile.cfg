CONSTANTS
    me = me
    ann = ann
    Users = {me, ann}
    Me = me
    MaxUses = 5
    MaxTroubles = 1
    MaxPosts <- PostsOf
SPECIFICATION MCSpec
INVARIANTS TitleTells PageHasItsPosts
PROPERTIES FollowsApart FollowsStay
CHECK_DEADLOCK FALSE
