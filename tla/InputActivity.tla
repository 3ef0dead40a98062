--------------------------- MODULE InputActivity ---------------------------
(***************************************************************************)
(* The activity tracker (activity.rs): what the daemon remembers of the    *)
(* physical input the compositor plugin reports, and the questions the     *)
(* agent seat and the focus lease ask it.  Every operation holds the one   *)
(* mutex and is a step.  Time is counted in ticks.                         *)
(***************************************************************************)
EXTENDS Integers

CONSTANTS
    Targets, Spy, Legacy,   \* the two KWin input spies; only Spy names windows
    HistoryTTL,             \* TARGET_HISTORY_TTL
    None

Backends == {Spy, Legacy}

ASSUME HistoryAssumption == HistoryTTL \in Nat
ASSUME BackendAssumption == Spy # Legacy /\ None \notin Backends \cup Targets /\ None \notin Nat

VARIABLES
    backend,                \* the backend that reported last, or None
    backendGeneration,
    interferenceGeneration,
    generation,             \* target_generations, 0 for an absent entry
    lastTouch               \* last_target_interference: age in ticks, None if absent

activityVars == <<backend, backendGeneration, interferenceGeneration, generation, lastTouch>>

InitActivity ==
    /\ backend = None
    /\ backendGeneration = 0
    /\ interferenceGeneration = 0
    /\ generation = [w \in Targets |-> 0]
    /\ lastTouch = [w \in Targets |-> None]

SetBackend(b) ==
    /\ backend' = b
    /\ backendGeneration' = IF b = backend THEN backendGeneration ELSE backendGeneration + 1

\* register_backend(); record_payload() does no more for Seatgeist's own input.
RegisterBackend(b) ==
    /\ SetBackend(b)
    /\ UNCHANGED <<interferenceGeneration, generation, lastTouch>>

\* The entries whose last touch is older than the history are dropped.
Forgotten == {w \in Targets : lastTouch[w] # None /\ lastTouch[w] > HistoryTTL}

\* Plausible bug: only the time of the touch is pruned, not the count.
BugKeepCount(w) == [generation EXCEPT ![w] = @ + 1]

CountTouch(w) ==
    LET kept == [v \in Targets |-> IF v \in Forgotten THEN 0 ELSE generation[v]]
    IN  [kept EXCEPT ![w] = @ + 1]

\* record_payload(), for input that is not Seatgeist's own.  A legacy event
\* names no window and touches no target.
RecordTouch(b, w) ==
    /\ b = Spy => w # None
    /\ SetBackend(b)
    /\ interferenceGeneration' = interferenceGeneration + 1
    /\ IF w = None
          THEN UNCHANGED <<generation, lastTouch>>
          ELSE /\ generation' = CountTouch(w)
               /\ lastTouch' = [v \in Targets |-> IF v = w THEN 0
                                                  ELSE IF v \in Forgotten THEN None
                                                  ELSE lastTouch[v]]

AgeActivity ==
    /\ lastTouch' = [w \in Targets |->
                        IF lastTouch[w] # None /\ lastTouch[w] <= HistoryTTL
                           THEN lastTouch[w] + 1 ELSE lastTouch[w]]
    /\ UNCHANGED <<backend, backendGeneration, interferenceGeneration, generation>>

\* target_interference_state()
Available == backend = Spy
Fresh(w, quiet) == Available /\ lastTouch[w] # None /\ lastTouch[w] <= quiet

\* target_snapshot() and target_safe_since()
TargetSnapshot(w) ==
    [backend |-> backendGeneration, target |-> generation[w], targeted |-> backend = Spy]

TargetSafeSince(w, snapshot) ==
    \/ ~snapshot.targeted
    \/ /\ backend = Spy
       /\ backendGeneration = snapshot.backend
       /\ generation[w] = snapshot.target

(* Type invariant: a target has a count exactly while its touch is known. *)
ActivityTypeOK ==
    /\ backend \in Backends \cup {None}
    /\ backendGeneration \in Nat
    /\ interferenceGeneration \in Nat
    /\ generation \in [Targets -> Nat]
    /\ lastTouch \in [Targets -> 0..HistoryTTL + 1 \cup {None}]
    /\ \A w \in Targets : generation[w] > 0 <=> lastTouch[w] # None
=============================================================================
