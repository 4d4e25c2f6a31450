--------------------------- MODULE MCTrackRuntime ---------------------------
(* TrackRuntime for TLC: the decks and arms are model values of the cfg.    *)
EXTENDS TrackRuntime, TLC

ArmSymmetry == Permutations(Arms)
=============================================================================
