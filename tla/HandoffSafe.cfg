SPECIFICATION Spec
CONSTANTS
    a = a
    b = b
    c = c
    Tracks = {a, b, c}
    NoTrack = NoTrack
    FirstTrack = a
    Rearmers = {r1, r2}
    Scenarios <- SafeScenarios
    MaxDecks = 4
SYMMETRY RearmerSymmetry
INVARIANTS TypeOK ReplacementInHand PreparedIsNext ActiveIsCurrent EveryDeckOwned TwoDecksHeard
PROPERTIES StaleEndIgnored
CHECK_DEADLOCK FALSE
