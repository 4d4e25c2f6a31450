SPECIFICATION Spec
CONSTANTS
    Tracks = {t1, t2, t3, t4}
    NoTrack = NoTrack
INVARIANTS TypeOK PreviewAgrees
PROPERTIES PeekSurvivesEnqueue NextTrackConserved
