---------------------------- MODULE MCInputSide ----------------------------
(* The two ways an agent's input reaches a window: the agent seat, whose     *)
(* actions a plugin of the compositor polls for, and raw input on the seat   *)
(* of the user, under the focus lease.  They share no state in these models: *)
(* a behaviour is one of one part with the other at rest.                    *)
EXTENDS AgentSeat, FocusLease, TLC

CONSTANTS a1, a2, w1, w2, w3

VARIABLE part

inputVars == <<part, vars, focusVars>>

\* The raw actions have the names of the targeted ones: they never meet.
\* TLC's symmetry is not sound for liveness, but one initial state will do of
\* those that differ only in the names of the raw actions and the windows.
InitInput ==
    /\ part \in {"seat", "focus"}
    /\ Init /\ InitFocus
    /\ active = w1
    /\ <<target[a1], target[a2]>> \in {<<w1, w2>>, <<w2, w2>>, <<w2, w3>>}
    /\ part = "seat" => bridged /\ loaded /\ target[a1] = w1

SeatStep(A) == part = "seat" /\ A /\ UNCHANGED <<part, focusVars>>

FocusStep(A) == part = "focus" /\ A /\ UNCHANGED <<part, vars>>

\* The fairness of each part, of its own steps.
FairInput ==
    /\ \A a \in Actions :
          WF_inputVars(\/ SeatStep(Push(a) \/ NotifyOne(a) \/ Receive(a) \/ TimeOut(a))
                       \/ FocusStep(ActionStep(a)))
    /\ \A p \in Plugins : WF_inputVars(SeatStep(Serve(p)))
    /\ WF_inputVars(SeatStep(Tick))

SpecInput == InitInput /\ [][SeatStep(Next) \/ FocusStep(NextFocus)]_inputVars /\ FairInput

(* Type invariants of the two. *)
InputTypeOK == SeatTypeOK /\ FocusTypeOK

Outstanding(a) == submit[a] \in {"checked", "pushed", "waiting"} \/ lease = a

(* No input hangs: whatever the compositor does, a submission to the agent   *)
(* seat is answered, and a raw action that holds the seat of the user lets   *)
(* go of it.  No error leaves it leased for good, which would refuse every   *)
(* later action.  Stated of one action: the two differ by their windows only.*)
InputSettles == Outstanding(a1) ~> ~Outstanding(a1)
=============================================================================
