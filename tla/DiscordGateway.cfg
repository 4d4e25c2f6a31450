SPECIFICATION Spec
CONSTANTS
    u1 = u1
    u2 = u2
    v = v
    w = w
    none = none
    p1 = p1
    p2 = p2
    restorer = restorer
    self = self
    Users <- MCUsers
    Channels <- MCChannels
    NoChannel = none
    Plays <- MCPlays
    Restorer = restorer
    Bot = self
    MaxWire = 2
    MaxInbox = 2
    Scenarios <- MCScenarios
SYMMETRY Symmetric
INVARIANTS TypeOK CountsFollow OccupancyFollows NotResurrected PlacesAgree
CHECK_DEADLOCK FALSE
