---------------------------- MODULE MCCowMemory ----------------------------
(* CowMemory with model values for spaces and frames.                      *)
EXTENDS CowMemory, TLC

MCSymmetry == Permutations(Spaces) \cup Permutations(Frames)
=============================================================================
