SPECIFICATION FairSpec
CONSTANTS
    a = a
    b = b
    c = c
    Tracks = {a, b, c}
    NoTrack = NoTrack
    FirstTrack = a
    Rearmers = {}
    Scenarios <- LiveScenarios
    MaxDecks = 4
INVARIANTS NeverSilent
PROPERTIES RetiringIsReleased
CHECK_DEADLOCK FALSE
