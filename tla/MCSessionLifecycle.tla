------------------------- MODULE MCSessionLifecycle -------------------------
(* Concurrent session requests of two agents. *)
EXTENDS SessionLifecycle, TLC

Symmetry == Permutations(Requests) \cup Permutations(Sessions)
              \cup Permutations(Owners) \cup Permutations(Windows)
=============================================================================
