---------------------------- MODULE MCPreemption ----------------------------
(* Agents and the user at the same windows. *)
EXTENDS Preemption, TLC

Symmetry == Permutations(Actions) \cup Permutations(Targets) \cup Permutations(Events)
=============================================================================
