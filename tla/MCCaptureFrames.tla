-------------------------- MODULE MCCaptureFrames --------------------------
(* The capture store: opens racing each other, ends, expiry, grabs and the *)
(* user's input.                                                           *)
EXTENDS CaptureFrames, TLC

Symmetry == Permutations(Requests) \cup Permutations(Sessions)
              \cup Permutations(Owners) \cup Permutations(Grabs)
=============================================================================
