SPECIFICATION FairSpec
CONSTANTS
    Tracks = {r1, r2}
    NoTrack = NoTrack
    MaxSessions = 1
    MaxPendingEnqueues = 2
    MaxQueueLen = 1
    MaxDecks = 2
    MaxUserOps = 0
    MaxDisconnects = 0
    Cancellable = TRUE
    Modes = FALSE
PROPERTIES CancelledReservationReleases
CHECK_DEADLOCK FALSE
