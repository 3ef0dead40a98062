--------------------------- MODULE AgentRequests ---------------------------
(***************************************************************************)
(* What a targeted input backend promises the daemon about one action: it  *)
(* is performed at most once, never before it was asked for, never after   *)
(* an error answer unless the compositor had already taken it, and an ok   *)
(* answer means that it was performed.                                     *)
(***************************************************************************)
CONSTANT Actions

VARIABLES
    stage,      \* action -> how far it has come towards the window
    answer      \* action -> what its submitter was told

requestVars == <<stage, answer>>

Stages == {"new", "asked", "taken", "performed"}
Answers == {"none", "ok", "error"}

InitRequests ==
    /\ stage = [a \in Actions |-> "new"]
    /\ answer = [a \in Actions |-> "none"]

Ask(a) ==
    /\ stage[a] = "new" /\ answer[a] = "none"
    /\ stage' = [stage EXCEPT ![a] = "asked"]
    /\ UNCHANGED answer

Take(a) ==
    /\ stage[a] = "asked" /\ answer[a] = "none"
    /\ stage' = [stage EXCEPT ![a] = "taken"]
    /\ UNCHANGED answer

\* Even after the submitter has given up: the action is out of its hands.
Perform(a) ==
    /\ stage[a] = "taken"
    /\ stage' = [stage EXCEPT ![a] = "performed"]
    /\ UNCHANGED answer

AnswerOk(a) ==
    /\ stage[a] = "performed" /\ answer[a] = "none"
    /\ answer' = [answer EXCEPT ![a] = "ok"]
    /\ UNCHANGED stage

\* One submitter gives up, or a set of submitters is told that the user
\* took over.
AnswerError(A) ==
    /\ \A a \in A : answer[a] = "none"
    /\ answer' = [a \in Actions |-> IF a \in A THEN "error" ELSE answer[a]]
    /\ UNCHANGED stage

NextRequests ==
    \/ \E a \in Actions : Ask(a) \/ Take(a) \/ Perform(a) \/ AnswerOk(a)
    \/ \E A \in SUBSET Actions : AnswerError(A)

SpecRequests == InitRequests /\ [][NextRequests]_requestVars
=============================================================================
