---------------------------- MODULE Preemption ----------------------------
(***************************************************************************)
(* The user and the agents at the same windows.  A physical event reaches  *)
(* the daemon over D-Bus and is handled in steps: it is recorded, then the *)
(* queued actions on its window are cancelled (kwin_bridge.rs); the third  *)
(* step, on the retained previews, is in CaptureFrames.  Agent actions     *)
(* check for quiet, go through the queue (AgentRequests), and are judged   *)
(* afterwards (interaction.rs).  Everything runs at once.                  *)
(***************************************************************************)
EXTENDS InputActivity, FiniteSets

CONSTANTS
    Actions, Events,
    QuietTime,              \* AGENT_TARGET_QUIET_TIME
    MaxBackendChanges       \* bound: how often the spy backend changes

ASSUME VerdictAssumption == None \notin {"quiet", "user_preempted", "unavailable"}

VARIABLES
    stage, answer,          \* AgentRequests
    act,                    \* action -> where its request is, and its locals
    event,                  \* event -> where its handler is, and its window
    touched,                \* history: actions with a touch recorded since their snapshot
    forgotten               \* history: those whose target's count was dropped meanwhile

Requests == INSTANCE AgentRequests

requests == <<stage, answer>>
history == <<touched, forgotten>>
vars == <<activityVars, requests, act, event, history>>

NoAct == [at |-> "idle", window |-> None, available |-> FALSE, snapshot |-> None,
          verdict |-> None]

Init ==
    /\ InitActivity
    /\ Requests!InitRequests
    /\ act = [a \in Actions |-> NoAct]
    /\ event = [e \in Events |-> [at |-> "none", window |-> None, behind |-> {}]]
    /\ touched = {} /\ forgotten = {}

-----------------------------------------------------------------------------
(* The agent's action: execute_agent_seat_action() *)

CheckQuiet(a, w) ==
    /\ act[a].at = "idle"
    /\ \/ /\ Fresh(w, QuietTime)
          /\ act' = [act EXCEPT ![a].at = "refused"]
       \/ /\ ~Fresh(w, QuietTime)
          /\ act' = [act EXCEPT ![a].at = "quiet", ![a].window = w,
                                ![a].available = Available]
    /\ UNCHANGED <<activityVars, requests, event, history>>

TakeSnapshot(a) ==
    /\ act[a].at = "quiet"
    /\ act' = [act EXCEPT ![a].at = "snapshot",
                          ![a].snapshot = TargetSnapshot(act[a].window)]
    /\ UNCHANGED <<activityVars, requests, event, history>>

AskBackend(a) ==
    /\ act[a].at = "snapshot"
    /\ act' = [act EXCEPT ![a].at = "asked"]
    /\ Requests!Ask(a)
    /\ UNCHANGED <<activityVars, event, history>>

\* The queue and the compositor, or a timeout.
Backend(a) ==
    /\ act[a].at = "asked"
    /\ Requests!Take(a) \/ Requests!Perform(a) \/ Requests!AnswerOk(a)
         \/ Requests!AnswerError({a})
    /\ UNCHANGED <<activityVars, act, event, history>>

FailAction(a) ==
    /\ act[a].at = "asked" /\ answer[a] = "error"
    /\ act' = [act EXCEPT ![a] = [NoAct EXCEPT !.at = "failed"]]
    /\ touched' = touched \ {a} /\ forgotten' = forgotten \ {a}
    /\ UNCHANGED <<activityVars, requests, event>>

Verdict(a) ==
    IF ~act[a].available THEN "unavailable"
    ELSE IF TargetSafeSince(act[a].window, act[a].snapshot) THEN "quiet"
    ELSE "user_preempted"

\* Plausible bug: the judgement compares with a snapshot taken after delivery.
BugJudge(a) ==
    /\ act[a].at = "asked" /\ answer[a] = "ok"
    /\ act' = [act EXCEPT ![a].at = "done",
                          ![a].verdict = IF act[a].available THEN "quiet" ELSE "unavailable"]
    /\ UNCHANGED <<activityVars, requests, event, history>>

\* After the answer and a short sleep for events still on their way.
Judge(a) ==
    /\ act[a].at = "asked" /\ answer[a] = "ok"
    /\ act' = [act EXCEPT ![a].at = "done", ![a].verdict = Verdict(a)]
    /\ UNCHANGED <<activityVars, requests, event, history>>

-----------------------------------------------------------------------------
(* The plugin and update_input_activity() *)

RegisterSpy(b) ==
    /\ b # backend /\ backendGeneration < MaxBackendChanges
    /\ RegisterBackend(b)
    /\ UNCHANGED <<requests, act, event, history>>

InFlightOn(w) == {a \in Actions : act[a].at \in {"snapshot", "asked"} /\ act[a].window = w}
Queued(w) == {a \in Actions : act[a].window = w /\ stage[a] = "asked" /\ answer[a] = "none"}

\* Only the events of the Spy name a window, and only those are handled on.
RecordEvent(e, b, w) ==
    /\ event[e].at = "none"
    /\ b = Spy <=> w # None
    /\ b # backend => backendGeneration < MaxBackendChanges
    /\ RecordTouch(b, w)
    /\ event' = [event EXCEPT ![e] = [at |-> IF b = Spy THEN "recorded" ELSE "done",
                                      window |-> w, behind |-> Queued(w)]]
    /\ touched' = touched \cup InFlightOn(w)
    /\ forgotten' = forgotten \cup
          IF b = Spy THEN UNION {InFlightOn(v) : v \in Forgotten} ELSE {}
    /\ UNCHANGED <<requests, act>>

\* Plausible bug: only the front of the queue is cancelled.
BugCancelQueued(e) ==
    /\ event[e].at = "recorded"
    /\ \E A \in SUBSET Queued(event[e].window) :
          Cardinality(A) <= 1 /\ Requests!AnswerError(A)
    /\ event' = [event EXCEPT ![e].at = "done", ![e].window = None]
    /\ UNCHANGED <<activityVars, act, history>>

CancelQueued(e) ==
    /\ event[e].at = "recorded"
    /\ Requests!AnswerError(Queued(event[e].window))
    /\ event' = [event EXCEPT ![e].at = "done", ![e].window = None]
    /\ UNCHANGED <<activityVars, act, history>>

-----------------------------------------------------------------------------
TimePasses ==
    /\ AgeActivity
    /\ UNCHANGED <<requests, act, event, history>>

Next ==
    \/ \E a \in Actions, w \in Targets : CheckQuiet(a, w)
    \/ \E a \in Actions : TakeSnapshot(a) \/ AskBackend(a) \/ Backend(a)
                             \/ FailAction(a) \/ Judge(a)
    \/ \E b \in {Spy, Legacy} : RegisterSpy(b)
    \/ \E e \in Events, b \in {Spy, Legacy}, w \in Targets \cup {None} : RecordEvent(e, b, w)
    \/ \E e \in Events : CancelQueued(e)
    \/ TimePasses

Spec == Init /\ [][Next]_vars

-----------------------------------------------------------------------------
(* Type invariant. *)
PreemptionTypeOK ==
    /\ ActivityTypeOK
    /\ stage \in [Actions -> Requests!Stages]
    /\ answer \in [Actions -> Requests!Answers]
    /\ \A a \in Actions :
          /\ act[a].at \in {"idle", "refused", "quiet", "snapshot", "asked", "failed", "done"}
          /\ act[a].verdict \in {None, "quiet", "user_preempted", "unavailable"}
    /\ \A e \in Events :
          /\ event[e].at \in {"none", "recorded", "done"}
          /\ event[e].at = "recorded" => event[e].window \in Targets
    /\ touched \subseteq Actions /\ forgotten \subseteq Actions

(* Judged by one spy from the snapshot to the end, with no history dropped.*)
Judged == {a \in Actions : act[a].verdict \in {"quiet", "user_preempted"}}
FullHistory(a) == a \notin forgotten /\ act[a].snapshot.targeted

(* A touch of the target that the daemon recorded after the action's       *)
(* snapshot and before the verdict is reported as user_preempted, as long  *)
(* as the tracker did not drop the target's history in between.            *)
RecentTouchReported ==
    \A a \in Judged : FullHistory(a) /\ a \in touched => act[a].verdict = "user_preempted"

(* Once the handler of a touch has cancelled, nothing that was queued for  *)
(* the window when the touch was recorded can still be taken.              *)
NothingQueuedBehindTouch ==
    \A e \in Events : event[e].at = "done" =>
        \A a \in event[e].behind : stage[a] = "asked" => answer[a] # "none"

(* "A matching physical event racing with delivery produces                *)
(* confirmation=user_preempted instead of a successful-click assumption"   *)
(* (human-input-activity.md): every recorded touch of the target counts.   *)
TouchReported ==
    \A a \in Judged : a \in touched /\ act[a].available => act[a].verdict = "user_preempted"
=============================================================================
