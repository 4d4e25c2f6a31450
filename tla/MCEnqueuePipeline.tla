------------------------- MODULE MCEnqueuePipeline -------------------------
(* EnqueuePipeline for TLC.                                                *)
EXTENDS EnqueuePipeline

RequestSymmetry == Permutations(Tracks)
=============================================================================
