----------------------------- MODULE FocusLease -----------------------------
(***************************************************************************)
(* Raw input of a retained session on the one physical seat                *)
(* (interaction.rs, execute_raw_action): under the seat lease the daemon   *)
(* moves the focus to the pinned window, makes sure of it, injects one     *)
(* action and gives the focus back, unless the user interfered.            *)
(*                                                                         *)
(* The daemon never sees the focus or the user: it sees what the           *)
(* compositor's bridge script last published of the active window, and     *)
(* what the compositor's plugin last reported of physical input.  Both     *)
(* travel as D-Bus messages of their own and may be late.                  *)
(***************************************************************************)
EXTENDS Integers, Sequences, FiniteSets

CONSTANTS
    RawActions,         \* raw actions of sessions, each with its pinned window
    Windows,
    Nobody,
    MaxEvents           \* bound on the steps of the user, other clients and KWin

ASSUME FocusAssumption == Nobody \notin RawActions \cup Windows /\ MaxEvents \in Nat

VARIABLES
    active,             \* the window that has the focus in the compositor
    news,               \* active-window updates of the script in flight
    seen,               \* what the last delivered update said
    bridged,            \* the bridge script runs; if not, KWin is asked and may fail
    unreported,         \* physical touches whose report is in flight
    loaded,             \* the input-activity plugin is running in KWin
    trusted,            \* the tracker knows an activity backend
    fresh,              \* a reported touch is within the quiet time
    panic,              \* the panic-stop file exists
    session,            \* of the session pinned to a window: live, closed or ended
    events,             \* steps of the environment so far
    target,             \* pinned window of an action
    lease,              \* holder of seat_lease
    pc,
    previous,           \* previous_window of the action that holds the lease
    disturbed,          \* the tracker changed since that action's snapshot
    touchLate, newsLate \* what the two channels cannot have told it (history)

compositor == <<active, news, seen, bridged>>
activity == <<unreported, loaded, trusted, fresh>>
histories == <<touchLate, newsLate>>
locals == <<previous, disturbed, touchLate, newsLate>>
focusVars == <<active, news, seen, bridged, unreported, loaded, trusted, fresh, panic,
               session, events, target, lease, pc, previous, disturbed, touchLate, newsLate>>

Waiting == {"begin", "waiting"}
BeforeInput == {"recheck", "read", "snapshot", "focus", "verify", "live", "check", "inject"}
AfterInput == {"renew", "settle", "reread", "resolve", "recheck_safe", "give", "confirm"}
UnderLease == BeforeInput \cup AfterInput
Watching == {"focus", "verify", "live", "check", "inject"} \cup AfterInput

FocusTypeOK ==
    /\ active \in Windows /\ news \in Seq(Windows) /\ seen \in Windows /\ bridged \in BOOLEAN
    /\ unreported \in Nat /\ loaded \in BOOLEAN /\ trusted \in BOOLEAN
    /\ fresh \in BOOLEAN /\ panic \in BOOLEAN /\ events \in 0..MaxEvents
    /\ session \in [Windows -> {"live", "closed", "ended"}]
    /\ target \in [RawActions -> Windows]
    /\ lease \in RawActions \cup {Nobody}
    /\ pc \in [RawActions -> Waiting \cup UnderLease \cup {"ended"}]
    /\ previous \in Windows \cup {Nobody} /\ disturbed \in BOOLEAN
    /\ touchLate \in BOOLEAN /\ newsLate \in BOOLEAN
    /\ \A a \in RawActions : pc[a] \in UnderLease <=> lease = a

InitFocus ==
    /\ active \in Windows /\ news = <<>> /\ seen = active /\ bridged \in BOOLEAN
    /\ unreported = 0 /\ loaded \in BOOLEAN /\ trusted = loaded
    /\ fresh = FALSE /\ panic = FALSE /\ events = 0
    /\ session = [w \in Windows |-> "live"]
    /\ target \in [RawActions -> Windows]
    /\ lease = Nobody
    /\ pc = [a \in RawActions |-> "begin"]
    /\ previous = Nobody /\ disturbed = FALSE
    /\ touchLate = FALSE /\ newsLate = FALSE

-----------------------------------------------------------------------------
(* The compositor, the user and the other clients.                         *)

\* windowActivated: the script publishes the window that got the focus.
Activate(w) ==
    /\ active' = w
    /\ news' = IF bridged /\ w # active THEN Append(news, w) ELSE news
    /\ UNCHANGED <<seen, bridged>>

Happens == events < MaxEvents /\ events' = events + 1

\* An action has taken its snapshot; or it is at one of the stages.
Followed == \E a \in RawActions : pc[a] \in Watching
AtStage(stages) == \E a \in RawActions : pc[a] \in stages

\* The user picks a window: one touch and one change of focus.  An action that
\* has made its last check of a channel cannot be told by it.
UserSwitches(w) ==
    /\ Happens
    /\ w # active
    /\ Activate(w)
    /\ unreported' = IF loaded THEN unreported + 1 ELSE unreported
    /\ touchLate' = (touchLate \/ IF loaded THEN AtStage({"inject", "give"}) ELSE Followed)
    /\ newsLate' = (newsLate \/ Followed)
    /\ UNCHANGED <<loaded, trusted, fresh, panic, session, target, lease, pc, previous, disturbed>>

\* The focus moves without a touch: focus_window() of another client, which
\* takes no lease, a window KWin raises by itself, or one that was closed.
OtherFocus(w) ==
    /\ Happens
    /\ w # active
    /\ Activate(w)
    /\ touchLate' = (touchLate \/ Followed)
    /\ newsLate' = (newsLate \/ Followed)
    /\ UNCHANGED <<activity, panic, session, target, lease, pc, previous, disturbed>>

\* update_active_window()
Publish ==
    /\ news # <<>>
    /\ seen' = Head(news)
    /\ news' = Tail(news)
    /\ UNCHANGED <<active, bridged, activity, panic, session, events, target, lease, pc,
                   locals>>

\* update_input_activity() of the plugin's report: safe_since() is false from now on.
Report ==
    /\ unreported > 0
    /\ unreported' = unreported - 1
    /\ fresh' = TRUE /\ trusted' = TRUE
    /\ disturbed' = (disturbed \/ Followed)
    /\ UNCHANGED <<compositor, loaded, panic, session, events, target, lease, pc, previous, histories>>

QuietPasses ==
    /\ fresh
    /\ fresh' = FALSE
    /\ UNCHANGED <<compositor, unreported, loaded, trusted, panic, session, events, target,
                   lease, pc, locals>>

\* register_backend() of a plugin that is loaded.  The first one changes the
\* backend, and so its generation.
Load ==
    /\ Happens
    /\ ~loaded
    /\ loaded' = TRUE /\ trusted' = TRUE
    /\ disturbed' = (disturbed \/ (Followed /\ ~trusted))
    /\ UNCHANGED <<compositor, unreported, fresh, panic, session, target, lease, pc,
                   previous, histories>>

\* The plugin is gone after an update of KWin.  Nothing tells the tracker.
Unload ==
    /\ Happens
    /\ loaded
    /\ loaded' = FALSE
    /\ UNCHANGED <<compositor, unreported, trusted, fresh, panic, session, target, lease, pc,
                   locals>>

\* set_enabled()
SetPanicStop(on) ==
    /\ Happens
    /\ panic' = on /\ panic # on
    /\ UNCHANGED <<compositor, activity, session, target, lease, pc, locals>>

\* Plausible bug: closing does not wait for the action that holds the seat.
BugCloseSession(w) ==
    /\ Happens
    /\ session[w] = "live"
    /\ session' = [session EXCEPT ![w] = "closed"]
    /\ UNCHANGED <<compositor, activity, panic, target, lease, pc, locals>>

\* CaptureSessionClose: the whole close runs under the seat lease.
CloseSession(w) ==
    /\ Happens
    /\ lease = Nobody
    /\ session[w] = "live"
    /\ session' = [session EXCEPT ![w] = "closed"]
    /\ UNCHANGED <<compositor, activity, panic, target, lease, pc, locals>>

\* The lease or the stream of the session ends by itself.
SessionEnds(w) ==
    /\ Happens
    /\ session[w] = "live"
    /\ session' = [session EXCEPT ![w] = "ended"]
    /\ UNCHANGED <<compositor, activity, panic, target, lease, pc, locals>>

-----------------------------------------------------------------------------
(* The action.                                                             *)

Goto(a, next) == pc' = [pc EXCEPT ![a] = next]
Proceed(a, next) == Goto(a, next) /\ UNCHANGED <<lease, locals>>

\* The action returns, with or without an error: the lease is dropped, and its
\* locals are gone.
Finish(a) ==
    /\ Goto(a, "ended")
    /\ lease' = Nobody
    /\ previous' = Nobody /\ disturbed' = FALSE /\ touchLate' = FALSE /\ newsLate' = FALSE

\* Plausible bug: an action that is refused forgets to release the seat.
BugRefuse(a) == Goto(a, "ended") /\ UNCHANGED <<lease, locals>>

\* An error before the input.
Refuse(a) == Finish(a)

\* Going on after a look at the active window, or at the activity.
ProceedSeen(a, next) ==
    /\ Goto(a, next)
    /\ newsLate' = (news # <<>>)
    /\ UNCHANGED <<lease, previous, disturbed, touchLate>>
ProceedQuiet(a, next) ==
    /\ Goto(a, next)
    /\ touchLate' = (touchLate \/ unreported > 0)
    /\ UNCHANGED <<lease, previous, disturbed, newsLate>>

SafeSince == trusted /\ ~disturbed
Reads(w) == w = IF bridged THEN seen ELSE active
ReadFails == ~bridged

StaysPut == UNCHANGED <<compositor, activity, panic, session, events, target>>

\* The target is resolved and authorised before the seat is asked for.
Begin(a) ==
    /\ pc[a] = "begin"
    /\ Goto(a, IF session[target[a]] = "live" THEN "waiting" ELSE "ended")
    /\ StaysPut /\ UNCHANGED <<lease, locals>>

AcquireSeatLease(a) ==
    /\ pc[a] = "waiting"
    /\ \/ lease = Nobody /\ lease' = a /\ Goto(a, "recheck")
       \/ lease # Nobody /\ Goto(a, "ended") /\ UNCHANGED lease     \* the deadline passed
    /\ StaysPut /\ UNCHANGED locals

\* Session, panic stop and human pause once more.
Recheck(a) ==
    /\ pc[a] = "recheck"
    /\ IF session[target[a]] = "live" /\ ~panic /\ ~fresh THEN Proceed(a, "read") ELSE Refuse(a)
    /\ StaysPut

ReadPrevious(a) ==
    /\ pc[a] = "read"
    /\ \/ /\ \E w \in Windows : Reads(w) /\ previous' = w
          /\ Goto(a, "snapshot")
          /\ UNCHANGED <<lease, disturbed, histories>>
       \/ ReadFails /\ Refuse(a)
    /\ StaysPut

\* activity_tracker.snapshot(): touches reported from here on count.  The touch
\* of a change of focus still unknown to the daemon may lie before.
Snapshot(a) ==
    /\ pc[a] = "snapshot"
    /\ disturbed' = FALSE
    /\ touchLate' = (news # <<>>)
    /\ newsLate' = (news # <<>>)
    /\ Goto(a, IF previous = target[a] THEN "verify" ELSE "focus")
    /\ StaysPut /\ UNCHANGED <<lease, previous>>

\* Policy may deny and the backend may fail; KWin may ignore the request.
FocusTarget(a) ==
    /\ pc[a] = "focus"
    /\ \/ Activate(target[a]) /\ Proceed(a, "verify")
       \/ UNCHANGED compositor /\ (Proceed(a, "verify") \/ Refuse(a))
    /\ UNCHANGED <<activity, panic, session, events, target>>

\* Plausible bug: the focus request is trusted.
BugVerifyActive(a) == pc[a] = "verify" /\ ProceedSeen(a, "live") /\ StaysPut

\* wait_for_active_target(): polls until the target is seen or the time is up.
VerifyActive(a) ==
    /\ pc[a] = "verify"
    /\ \/ Reads(target[a]) /\ ProceedSeen(a, "live")
       \/ (~Reads(target[a]) \/ ReadFails) /\ Refuse(a)
    /\ StaysPut

RequireLiveSession(a) ==
    /\ pc[a] = "live"
    /\ IF session[target[a]] = "live" THEN Proceed(a, "check") ELSE Refuse(a)
    /\ StaysPut

\* Plausible bug: the activity is not looked at again before the input.
BugCheckActivity(a) == pc[a] = "check" /\ ProceedQuiet(a, "inject") /\ StaysPut

CheckActivity(a) ==
    /\ pc[a] = "check"
    /\ IF SafeSince THEN ProceedQuiet(a, "inject") ELSE Refuse(a)
    /\ StaysPut

\* The input backend acts on whatever has the focus, or fails.
Inject(a) ==
    /\ pc[a] = "inject"
    /\ Proceed(a, "renew") \/ Refuse(a)
    /\ StaysPut

\* renew() fails with the session; there is nothing to give back when the
\* target had the focus.
RenewSession(a) ==
    /\ pc[a] = "renew"
    /\ IF session[target[a]] = "live" /\ previous # target[a]
          THEN Proceed(a, "settle") ELSE Finish(a)
    /\ StaysPut

SkipRestore(a) == Finish(a)

\* After 25 ms, in which reports in flight may arrive.
RestoreActivity(a) ==
    /\ pc[a] = "settle"
    /\ IF SafeSince THEN Proceed(a, "reread") ELSE SkipRestore(a)
    /\ StaysPut

\* Plausible bug: the focus is given back wherever it is.
BugRestoreRead(a) == pc[a] = "reread" /\ ProceedSeen(a, "resolve") /\ StaysPut

RestoreRead(a) ==
    /\ pc[a] = "reread"
    /\ \/ Reads(target[a]) /\ ProceedSeen(a, "resolve")
       \/ (~Reads(target[a]) \/ ReadFails) /\ SkipRestore(a)
    /\ StaysPut

\* The previous window is gone, or policy forbids to focus it.
RestoreResolve(a) ==
    /\ pc[a] = "resolve"
    /\ Proceed(a, "recheck_safe") \/ SkipRestore(a)
    /\ StaysPut

RestoreRecheck(a) ==
    /\ pc[a] = "recheck_safe"
    /\ IF SafeSince THEN ProceedQuiet(a, "give") ELSE SkipRestore(a)
    /\ StaysPut

GiveBack(a) ==
    /\ pc[a] = "give"
    /\ \/ Activate(previous) /\ Proceed(a, "confirm")
       \/ UNCHANGED compositor /\ (Proceed(a, "confirm") \/ SkipRestore(a))
    /\ UNCHANGED <<activity, panic, session, events, target>>

\* Restored, restore_unconfirmed or an error: nothing is tried again.
ConfirmRestored(a) == pc[a] = "confirm" /\ Finish(a) /\ StaysPut

ActionStep(a) ==
    \/ Begin(a) \/ AcquireSeatLease(a) \/ Recheck(a) \/ ReadPrevious(a) \/ Snapshot(a)
    \/ FocusTarget(a) \/ VerifyActive(a) \/ RequireLiveSession(a) \/ CheckActivity(a)
    \/ Inject(a) \/ RenewSession(a) \/ RestoreActivity(a) \/ RestoreRead(a)
    \/ RestoreResolve(a) \/ RestoreRecheck(a) \/ GiveBack(a) \/ ConfirmRestored(a)

NextFocus ==
    \/ \E a \in RawActions : ActionStep(a)
    \/ \E w \in Windows : UserSwitches(w) \/ OtherFocus(w)
    \/ \E w \in {target[a] : a \in RawActions} : CloseSession(w) \/ SessionEnds(w)
    \/ Publish \/ Report \/ QuietPasses \/ Load \/ Unload
    \/ \E on \in BOOLEAN : SetPanicStop(on)

\* The daemon's tasks are scheduled; nothing is assumed of the user or KWin.
SpecFocus ==
    /\ InitFocus
    /\ [][NextFocus]_focusVars
    /\ \A a \in RawActions : WF_focusVars(ActionStep(a))

-----------------------------------------------------------------------------
Injects(a) == pc[a] = "inject" /\ pc'[a] = "renew"
GivesBack(a) == pc[a] = "give" /\ pc'[a] = "confirm"

(* Input reaches another window than the pinned one only if neither         *)
(* channel could tell: the change of focus was still unpublished at the     *)
(* last look at the active window, and its touch unreported at the last     *)
(* look at the activity (or there was none).                                *)
InputStraysUnseenOnly ==
    [][\A a \in RawActions : Injects(a) /\ active # target[a] => touchLate /\ newsLate]_focusVars

(* The focus is pulled from a window that is neither the pinned one nor     *)
(* the one it is given back to only if neither channel could tell.          *)
FocusPulledUnseenOnly ==
    [][\A a \in RawActions : GivesBack(a) /\ active \notin {target[a], previous}
                            => touchLate /\ newsLate]_focusVars

(* Neither input nor focus goes astray while a channel tells                *)
(* (interaction.rs:352, 705).                                               *)
AstrayUnseenOnly == InputStraysUnseenOnly /\ FocusPulledUnseenOnly

(* A session that was closed by request receives no input any more: the     *)
(* close waits for the action that holds the seat.                          *)
ClosedReceivesNothing ==
    [][\A a \in RawActions : Injects(a) => session[target[a]] # "closed"]_focusVars
=============================================================================
