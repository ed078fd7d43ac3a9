CONSTANTS
    follows = follows
    read = read
    again = again
    listener = listener
    Docs = {follows}
    Listeners = {read, again, listener}
    Gets = {read, again}
    Doc <- DocOf
    MaxVersion = 1
    MaxTroubles = 1
SPECIFICATION MCSpec
INVARIANTS TypeOK OnlineStateAgrees SomethingEndsTheWait StreamIfNeeded PendingCounted AnsweredOnce ListenersKnow
PROPERTIES SyncedIsNotStale ReadsAreAnswered
CHECK_DEADLOCK FALSE
