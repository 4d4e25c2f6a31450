SPECIFICATION Spec
CONSTANTS
    a = a
    b = b
    c = c
    Tracks = {a, b, c}
    NoTrack = NoTrack
    FirstTrack = a
    Rearmers = {}
    Scenarios <- SkipScenarios
    MaxDecks = 4
INVARIANTS NeverSilent
CHECK_DEADLOCK FALSE
