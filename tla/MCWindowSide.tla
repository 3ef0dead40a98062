---------------------------- MODULE MCWindowSide ----------------------------
(* What the daemon keeps about windows and does to them: the interaction    *)
(* store, the user at the agents' windows, the window actions of the KWin   *)
(* bridge and the bridge's name.  The four share no state in these models,  *)
(* so that a behaviour is one of one part with the others at rest: what is  *)
(* explored is the sum of the parts and not their product.                  *)
EXTENDS InteractionSessions, Preemption, WindowActions, BridgeOwnership, TLC

VARIABLE part

sideVars == <<part, interactionVars, vars, windowVars, ownershipVars>>

\* The name is not yet looked for where it is not the part explored.
InitSide ==
    /\ part \in {"interaction", "preemption", "windows", "ownership"}
    /\ InitInteraction /\ Init /\ InitWindows /\ InitOwnership
    /\ part # "ownership" => connection

Interaction ==
    /\ part = "interaction" /\ NextInteraction
    /\ UNCHANGED <<part, vars, windowVars, ownershipVars>>

UserAndAgents ==
    /\ part = "preemption" /\ Next
    /\ UNCHANGED <<part, interactionVars, windowVars, ownershipVars>>

BridgeActions ==
    /\ part = "windows" /\ NextWindows
    /\ UNCHANGED <<part, interactionVars, vars, ownershipVars>>

Ownership ==
    /\ part = "ownership" /\ NextOwnership
    /\ UNCHANGED <<part, interactionVars, vars, windowVars>>

NextSide == Interaction \/ UserAndAgents \/ BridgeActions \/ Ownership

SpecSide == InitSide /\ [][NextSide]_sideVars

(* Type invariants. *)
SideTypeOK == TypeOK /\ PreemptionTypeOK /\ WindowTypeOK

\* The model values of two parts may be the same: they never meet.
SymmetrySide ==
    Permutations(Actions) \cup Permutations(Targets) \cup Permutations(Events)
=============================================================================
