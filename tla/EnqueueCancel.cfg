SPECIFICATION Spec
CONSTANTS
    Tracks = {r1, r2, r3}
    NoTrack = NoTrack
    MaxSessions = 2
    MaxPendingEnqueues = 2
    MaxQueueLen = 1
    MaxDecks = 3
    MaxUserOps = 0
    MaxDisconnects = 1
    Cancellable = TRUE
    Modes = FALSE
SYMMETRY RequestSymmetry
INVARIANTS CommitCursor QueueBound AtMostOneDeck
PROPERTIES CommitsInTicketOrder
CHECK_DEADLOCK FALSE
