SPECIFICATION Spec
CONSTANTS
    a = a
    b = b
    c = c
    Tracks = {a, b, c}
    NoTrack = NoTrack
    FirstTrack = a
    Rearmers = {}
    Scenarios <- ReuseScenarios
    MaxDecks = 4
PROPERTIES AnyStaleEndIgnored
CHECK_DEADLOCK FALSE
