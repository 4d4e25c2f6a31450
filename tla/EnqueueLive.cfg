SPECIFICATION FairSpec
CONSTANTS
    Tracks = {r1, r2}
    NoTrack = NoTrack
    MaxSessions = 2
    MaxPendingEnqueues = 2
    MaxQueueLen = 1
    MaxDecks = 2
    MaxUserOps = 1
    MaxDisconnects = 1
    Cancellable = FALSE
    Modes = TRUE
INVARIANTS TypeOK NeverSilent NoOrphanDeck
PROPERTIES EndedDeckIsReplaced EveryCallAnswered
CHECK_DEADLOCK FALSE
