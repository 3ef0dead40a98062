----------------------------- MODULE PostAction -----------------------------
(***************************************************************************)
(* What a client is told after an action (main.rs prepare_post_action and  *)
(* finish_post_action, semantic_settle.rs): the daemon looks at the        *)
(* desktop before the action and until a condition is met or the time is   *)
(* up, and reports the action as confirmed or not.  It samples the active  *)
(* window and the focused element; for a correlated semantic action it     *)
(* listens for signals of the target instead and reads it before and       *)
(* after.  The desktop moves at any time, with and without the action.     *)
(***************************************************************************)
EXTENDS Naturals

CONSTANTS
    Places,         \* windows that may be active
    Widgets,        \* elements that may be focused
    Unread,         \* what is not read: hidden by policy, or the read failed
    MaxMoves        \* bound on the moves of the desktop

ASSUME PostActionAssumption == Unread \notin Places \cup Widgets /\ MaxMoves \in Nat

VARIABLES
    activePlace, focused,       \* the desktop
    targetValue, targetState,   \* the target element: its text, and the rest of it
    asked,          \* the condition, and the window to be focused
    stage,          \* where the request is
    half,           \* the active window of a sample whose element is not read yet
    before, previous, current,  \* samples, or readings of the target
    subscribed,     \* signals of the target's application are received
    signal,         \* a relevant one is in the stream
    outcome,        \* what the client is told
    moves,
    moved,          \* what has changed since the first look (history)
    blind,          \* a look failed or was hidden (history)
    wasActive       \* windows active since the action (history)

desktop == <<activePlace, focused, targetValue, targetState>>
postHistories == <<moves, moved, blind, wasActive>>
samples == <<half, before, previous, current>>
postVars == <<activePlace, focused, targetValue, targetState, asked, stage, half, before,
              previous, current, subscribed, signal, outcome, moves, moved, blind, wasActive>>

\* None is asked for, or what "auto" is for an action of the agent's seat: that
\* the compositor has taken it is confirmation enough.
Polled == {"none", "stable", "active_change", "accessibility_change", "any_change"}
Conditions == Polled \cup {"focus", "target_change"}

Samples == [active: Places \cup {Unread}, element: Widgets \cup {Unread}]
Values == {"", "text"}
TargetStates == {"one", "two"}
NotRead == [value |-> "", state |-> "unread"]

InitPost ==
    /\ activePlace \in Places /\ focused \in Widgets
    /\ targetValue \in Values /\ targetState = "one"
    /\ asked = [condition |-> "stable", window |-> Unread]
    /\ stage = "idle" /\ half = Unread
    /\ before = NotRead /\ previous = NotRead /\ current = NotRead
    /\ subscribed = FALSE /\ signal = FALSE /\ outcome = "none"
    /\ moves = 0 /\ moved = {} /\ blind = FALSE /\ wasActive = {}

Reaches(next) == stage' = next
FirstLook(condition) ==
    CASE condition = "none" -> "dispatch"
      [] condition = "target_change" -> "read_before"
      [] OTHER -> "before"

AskPost(condition, window) ==
    /\ stage = "idle"
    /\ asked' = [condition |-> condition, window |-> window]
    /\ Reaches(FirstLook(condition))
    /\ UNCHANGED <<desktop, samples, subscribed, signal, outcome, postHistories>>

-----------------------------------------------------------------------------
(* Polling: post_action_with_accessibility() reads the active window first  *)
(* and the focused element after it, unless the window is hidden by policy. *)

ReadActive(from, next) ==
    /\ stage = from
    /\ \/ half' = activePlace /\ UNCHANGED blind
       \/ half' = Unread /\ blind' = TRUE
    /\ Reaches(next)
    /\ UNCHANGED <<desktop, asked, before, previous, current, subscribed, signal, outcome,
                   moves, moved, wasActive>>

Sampled(sample) ==
    \/ sample = [active |-> half, element |-> focused] /\ UNCHANGED blind
    \/ sample = [active |-> half, element |-> Unread] /\ blind' = TRUE

SampleBefore ==
    /\ stage = "before_element"
    /\ \E sample \in Samples :
          Sampled(sample) /\ before' = sample
    /\ half' = Unread
    /\ Reaches("dispatch")
    /\ UNCHANGED <<desktop, asked, previous, current, subscribed, signal, outcome,
                   moves, moved, wasActive>>

\* What the action does to the desktop, if anything, are moves of the desktop.
Dispatch ==
    /\ stage = "dispatch"
    /\ wasActive' = {activePlace}
    /\ Reaches(IF asked.condition # "target_change" THEN "sample"
               ELSE IF subscribed THEN "listen" ELSE "read_after")
    /\ UNCHANGED <<desktop, asked, samples, subscribed, signal, outcome, moves, moved, blind>>

\* Without a condition only the active window is read: post_action_window_only().
SampleAfter ==
    /\ stage = "sample_element"
    /\ \E sample \in Samples :
          /\ IF asked.condition = "none"
                THEN sample = [active |-> half, element |-> Unread] /\ UNCHANGED blind
                ELSE Sampled(sample)
          /\ current' = sample
    /\ previous' = current
    /\ half' = Unread
    /\ Reaches("judge")
    /\ UNCHANGED <<desktop, asked, before, subscribed, signal, outcome, moves, moved, wasActive>>

\* Plausible bug: any difference will do for every condition.
BugConditionMet ==
    IF asked.condition = "focus" THEN current.active = asked.window ELSE current # before

\* post_action_condition_met(); a first sample has no previous one.
ConditionMet ==
    CASE asked.condition = "none" -> TRUE
      [] asked.condition = "stable" -> current = previous
      [] asked.condition = "active_change" -> current.active # before.active
      [] asked.condition = "focus" -> current.active = asked.window
      [] asked.condition = "accessibility_change" -> current.element # before.element
      [] OTHER -> current # before

Judge ==
    /\ stage = "judge"
    /\ IF ConditionMet
          THEN outcome' = "confirmed" /\ Reaches("done")
          ELSE \/ UNCHANGED outcome /\ Reaches("sample")
               \/ outcome' = "unconfirmed_timeout" /\ Reaches("done")
    /\ UNCHANGED <<desktop, asked, samples, subscribed, signal, postHistories>>

-----------------------------------------------------------------------------
(* Semantic settle.                                                         *)

\* seatgeist_atspi::node() of the target, with its value or without.
Reading(withValue) ==
    [value |-> IF withValue THEN targetValue ELSE "", state |-> targetState]

\* prepare_with_backend(): the node as it is.
ReadBefore ==
    /\ stage = "read_before"
    /\ \/ before' = Reading(TRUE) /\ UNCHANGED blind
       \/ before' = NotRead /\ blind' = TRUE
    /\ Reaches("subscribe")
    /\ UNCHANGED <<desktop, asked, half, previous, current, subscribed, signal, outcome,
                   moves, moved, wasActive>>

Subscribe ==
    /\ stage = "subscribe"
    /\ subscribed' \in BOOLEAN
    /\ Reaches("dispatch")
    /\ UNCHANGED <<desktop, asked, samples, signal, outcome, postHistories>>

\* wait_for_event() and close(): a signal, or none in time.
Listen ==
    /\ stage = "listen"
    /\ Reaches("read_after")
    /\ \/ UNCHANGED signal
       \/ signal' = FALSE
    /\ UNCHANGED <<desktop, asked, samples, subscribed, outcome, postHistories>>

\* read_target_node(): the node without its value.
ReadAfter ==
    /\ stage = "read_after"
    /\ \/ current' = Reading(FALSE) /\ UNCHANGED blind
       \/ current' = NotRead /\ blind' = TRUE
    /\ Reaches("compare")
    /\ UNCHANGED <<desktop, asked, half, before, previous, subscribed, signal, outcome,
                   moves, moved, wasActive>>

\* finish(): one reading after a subscription, else until it differs.
Compare ==
    /\ stage = "compare"
    /\ IF signal \/ current # before
          THEN outcome' = "confirmed" /\ Reaches("done")
          ELSE \/ outcome' = "unconfirmed_timeout" /\ Reaches("done")
               \/ ~subscribed /\ UNCHANGED outcome /\ Reaches("read_after")
    /\ UNCHANGED <<desktop, asked, samples, subscribed, signal, postHistories>>

-----------------------------------------------------------------------------
(* The desktop.                                                             *)

Moves(what) ==
    /\ stage \notin {"idle", "done"} /\ moves < MaxMoves
    /\ moves' = moves + 1
    /\ moved' = moved \cup {what}
    /\ UNCHANGED <<asked, stage, samples, subscribed, outcome, blind>>

\* event_is_relevant(): of the target or its window; before the end of the wait.
EventIsRelevant(source) == source \in {"target", "window"}
Signals(source) ==
    signal' = (signal \/ (subscribed /\ stage \in {"dispatch", "listen"}
                          /\ EventIsRelevant(source)))

PlaceActivated(w) ==
    /\ w # activePlace
    /\ activePlace' = w
    /\ wasActive' = IF wasActive = {} THEN {} ELSE wasActive \cup {w}
    /\ Moves("active")
    /\ UNCHANGED <<focused, targetValue, targetState, signal>>

FocusMoves(n) ==
    /\ n # focused
    /\ focused' = n
    /\ Moves("focus")
    /\ UNCHANGED <<activePlace, targetValue, targetState, signal, wasActive>>

TargetMoves(value, state) ==
    /\ <<value, state>> # <<targetValue, targetState>>
    /\ targetValue' = value /\ targetState' = state
    /\ Moves("target") /\ Signals("target")
    /\ UNCHANGED <<activePlace, focused, wasActive>>

\* Something else in the application, or the target's window.
ApplicationMoves(source) ==
    /\ Moves(source) /\ Signals(source)
    /\ UNCHANGED <<desktop, wasActive>>

NextPost ==
    \/ \E condition \in Polled \cup {"target_change"} : AskPost(condition, Unread)
    \/ \E w \in Places : AskPost("focus", w)
    \/ ReadActive("before", "before_element") \/ SampleBefore \/ Dispatch
    \/ ReadActive("sample", "sample_element") \/ SampleAfter \/ Judge
    \/ ReadBefore \/ Subscribe \/ Listen \/ ReadAfter \/ Compare
    \/ \E w \in Places : PlaceActivated(w)
    \/ \E n \in Widgets : FocusMoves(n)
    \/ \E value \in Values, state \in TargetStates : TargetMoves(value, state)
    \/ \E source \in {"element", "window"} : ApplicationMoves(source)

SpecPost == InitPost /\ [][NextPost]_postVars

-----------------------------------------------------------------------------
(* Type invariant. *)
PostTypeOK ==
    /\ activePlace \in Places /\ focused \in Widgets
    /\ targetValue \in Values /\ targetState \in TargetStates
    /\ asked.condition \in Conditions /\ asked.window \in Places \cup {Unread}
    /\ stage \in {"idle", "before", "before_element", "dispatch", "sample", "sample_element",
                  "judge", "read_before", "subscribe", "listen", "read_after", "compare", "done"}
    /\ half \in Places \cup {Unread}
    /\ {before, previous, current} \subseteq
          Samples \cup [value: Values, state: TargetStates \cup {"unread"}]
    /\ subscribed \in BOOLEAN /\ signal \in BOOLEAN /\ blind \in BOOLEAN
    /\ outcome \in {"none", "confirmed", "unconfirmed_timeout"}
    /\ outcome # "none" <=> stage = "done"
    /\ moves \in 0..MaxMoves /\ wasActive \subseteq Places

(* A client that asked for a change is told "confirmed" only after such a   *)
(* change since the first look, or after a look that failed; and a window   *)
(* it is told is focused was active after the action.  Of the target of a   *)
(* semantic action this holds only where it has no text.  "none" and        *)
(* "stable" ask for no change, and confirm without one (main.rs:1049).      *)
ConfirmedHasReason ==
    outcome = "confirmed" =>
        CASE asked.condition \in {"none", "stable"} -> TRUE
          [] asked.condition = "active_change" -> "active" \in moved \/ blind
          [] asked.condition = "focus" -> asked.window \in wasActive
          [] asked.condition = "accessibility_change" -> "focus" \in moved \/ blind
          [] asked.condition = "any_change" -> moved \cap {"active", "focus"} # {} \/ blind
          [] OTHER -> before.value = "" => moved \cap {"target", "window"} # {} \/ blind

(* "Semantic settle ... reads only that target node": a confirmation of a   *)
(* semantic action means that the target, or its window, changed since the  *)
(* look before the action, or could not be read (mcp-tools.md).             *)
TargetConfirmedMeansChanged ==
    asked.condition = "target_change" /\ outcome = "confirmed" =>
        moved \cap {"target", "window"} # {} \/ blind
=============================================================================
