SPECIFICATION Spec
CONSTANTS
    Decks = {o, i}
    First = o
    Arms = {g1, g2}
    Targets = {5}
    Played = 2
    MaxFrame = 8
    MaxLag = 1
SYMMETRY ArmSymmetry
INVARIANTS EndNotLost ArmNotLost StartsOnTime
PROPERTIES KeepsContract
CHECK_DEADLOCK FALSE
