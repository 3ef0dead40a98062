--------------------------- MODULE WindowActions ---------------------------
(* Window actions of the daemon carried out by the bridge script in KWin    *)
(* (kwin_bridge.rs, WindowActionQueue; main.js): the daemon queues, the     *)
(* script fetches with a long poll, acts, and calls back.  A launch goes    *)
(* two ways: the script takes an intent, only then the application is       *)
(* started, and the next new window of that application is taken for it     *)
(* and recorded as its launcher's own (launched_window.rs).  All launches   *)
(* here are of one application; intents of two never meet.                  *)
EXTENDS Integers, Sequences, FiniteSets, SequencesExt, Queues

CONSTANTS
    Launches,           \* launch_window requests, each of a client of its own
    Orders,             \* close_window, move_window and resize_window requests
    NewWindows,         \* windows that may yet be opened
    Nothing,
    MaxStops            \* bound on the script's stops

ASSUME WindowAssumption ==
    /\ Launches \cap Orders = {} /\ "error" \notin NewWindows /\ MaxStops \in Nat
    /\ Nothing \notin Launches \cup NewWindows \cup {"user", "error", "close_window"}

VARIABLES
    pending,            \* WindowActionState.pending
    waiters,            \* ids with a sender in waiters
    acknowledgements,   \* ids with a sender in acknowledgements
    replies,            \* fetched actions on the way to the script
    calls,              \* calls of the script on the way to the daemon
    script,             \* the script runs
    ready,              \* capabilities registered and the heartbeat fresh
    stops,
    launchIntents,
    settling,           \* windows taken for an intent or under an order, their timers running
    starting,           \* launches whose application is about to open its window
    opener,             \* who opened a window: a launch, "user", or Nothing yet
    open,               \* windows on the screen
    launch,             \* state of each launch request
    outcome,            \* result delivered to a launch: a window, "error", or Nothing yet
    launched,           \* launched_window_store: owner of a window
    order               \* each close, move or resize request

queue == <<pending, waiters, acknowledgements>>
scripts == <<script, ready, stops, launchIntents, settling>>
screen == <<starting, opener, open>>
tasks == <<launch, outcome, launched, order>>
windowVars == <<pending, waiters, acknowledgements, replies, calls, script, ready, stops,
                launchIntents, settling, starting, opener, open, launch, outcome,
                launched, order>>

LaunchWindow(l) == [action |-> "launch_window", id |-> l, window |-> Nothing]
CancelLaunch(l) == [action |-> "cancel_launch_window", id |-> l, window |-> Nothing]
CloseWindow(o, w) == [action |-> "close_window", id |-> o, window |-> w]
\* move_window, and resize_window, which differs in nothing that matters here
MoveWindow(o, w) == [action |-> "move_window", id |-> o, window |-> w]
WindowRequests == {LaunchWindow(l) : l \in Launches} \cup {CancelLaunch(l) : l \in Launches}
             \cup {CloseWindow(o, w) : o \in Orders, w \in NewWindows}
             \cup {MoveWindow(o, w) : o \in Orders, w \in NewWindows}
Acknowledge(l) == [call |-> "AcknowledgeAction", id |-> l, result |-> Nothing]
Result(id, result) == [call |-> "CompleteAction", id |-> id, result |-> result]

NoOrder == [state |-> "idle", action |-> Nothing, by |-> Nothing, window |-> Nothing]

WindowTypeOK ==
    /\ pending \in Seq(WindowRequests) /\ replies \in Seq(WindowRequests)
    /\ waiters \subseteq Launches \cup Orders /\ acknowledgements \subseteq Launches
    /\ script \in BOOLEAN /\ ready \in BOOLEAN /\ stops \in 0..MaxStops
    /\ launchIntents \in Seq(Launches)
    /\ settling \subseteq (Launches \cup Orders) \X NewWindows
    /\ starting \subseteq Launches
    /\ opener \in [NewWindows -> Launches \cup {"user", Nothing}]
    /\ open \subseteq {w \in NewWindows : opener[w] # Nothing}
    /\ launch \in [Launches -> {"idle", "arming", "launching", "finishing",
                                "done", "unarmed", "failed", "unpolled"}]
    /\ outcome \in [Launches -> NewWindows \cup {"error", Nothing}]
    /\ launched \in [NewWindows -> Launches \cup {Nothing}]
    /\ \A o \in Orders : /\ order[o].state \in {"idle", "waiting", "done", "failed"}
                         /\ order[o].state = "waiting" <=> o \in waiters
    /\ \A l \in Launches : launch[l] = "arming" <=> l \in acknowledgements

InitWindows ==
    /\ pending = <<>> /\ waiters = {} /\ acknowledgements = {}
    /\ replies = <<>> /\ calls = <<>>
    /\ script = TRUE /\ ready = TRUE /\ stops = 0
    /\ launchIntents = <<>> /\ settling = {}
    /\ starting = {} /\ opener = [w \in NewWindows |-> Nothing] /\ open = {}
    /\ launch = [l \in Launches |-> "idle"]
    /\ outcome = [l \in Launches |-> Nothing]
    /\ launched = [w \in NewWindows |-> Nothing]
    /\ order = [o \in Orders |-> NoOrder]

-----------------------------------------------------------------------------
(* The queue.                                                              *)

Becomes(l, state) == launch' = [launch EXCEPT ![l] = state]

RemoveFrom(queued, id) ==
    Without(queued, {a \in ToSet(queued) : a.id = id /\ a.action # "cancel_launch_window"})

\* remove(): what has been fetched stays fetched.
Forget(id) ==
    /\ pending' = RemoveFrom(pending, id)
    /\ waiters' = waiters \ {id}
    /\ acknowledgements' = acknowledgements \ {id}

\* Plausible bug: a launch that is given up is not called off in KWin.
BugCancelLaunchWindow(l) == Forget(l)

\* cancel_launch_window()
CancelLaunchWindow(l) ==
    /\ pending' = Append(RemoveFrom(pending, l), CancelLaunch(l))
    /\ waiters' = waiters \ {l}
    /\ acknowledgements' = acknowledgements \ {l}

ArmLaunch(l) ==
    /\ launch[l] = "idle"
    /\ ready
    /\ pending' = Append(pending, LaunchWindow(l))
    /\ waiters' = waiters \cup {l}
    /\ acknowledgements' = acknowledgements \cup {l}
    /\ Becomes(l, "arming")
    /\ UNCHANGED <<replies, calls, scripts, screen, outcome, launched, order>>

\* Plausible bug: the launch that timed out stays in the queue.
BugArmTimeout(l) ==
    /\ launch[l] = "arming"
    /\ Becomes(l, "unarmed")
    /\ UNCHANGED <<queue, replies, calls, scripts, screen, outcome, launched, order>>

\* Nothing is called off: the script may have fetched the launch.
ArmTimeout(l) ==
    /\ launch[l] = "arming"
    /\ Becomes(l, "unarmed")
    /\ Forget(l)
    /\ UNCHANGED <<replies, calls, scripts, screen, outcome, launched, order>>

\* The desktop entry is launched: the application opens a window, now or later,
\* or none.  The launcher fails, or does not return in time; or it cannot be
\* asked, and the request ends with nothing called off.
LaunchEntry(l) ==
    /\ launch[l] = "launching"
    /\ starting' \in {starting, starting \cup {l}}
    /\ \/ Becomes(l, "finishing") /\ UNCHANGED queue
       \/ Becomes(l, "failed") /\ CancelLaunchWindow(l)
       \/ Becomes(l, "unpolled") /\ UNCHANGED queue
    /\ UNCHANGED <<replies, calls, scripts, opener, open, outcome, launched, order>>

\* finish_launch_window(), and record() of the confirmed window
FinishLaunch(l) ==
    /\ launch[l] = "finishing" /\ outcome[l] # Nothing
    /\ IF outcome[l] \in NewWindows
          THEN Becomes(l, "done") /\ launched' = [launched EXCEPT ![outcome[l]] = l]
          ELSE Becomes(l, "failed") /\ UNCHANGED launched
    /\ UNCHANGED <<queue, replies, calls, scripts, screen, outcome, order>>

FinishTimeout(l) ==
    /\ launch[l] = "finishing" /\ outcome[l] = Nothing
    /\ Becomes(l, "failed")
    /\ CancelLaunchWindow(l)
    /\ UNCHANGED <<replies, calls, scripts, screen, outcome, launched, order>>

\* prune_expired()
LaunchedExpires(w) ==
    /\ launched[w] # Nothing
    /\ launched' = [launched EXCEPT ![w] = Nothing]
    /\ UNCHANGED <<queue, replies, calls, scripts, screen, launch, outcome, order>>

\* Plausible bug: any launched window passes, whoever launched it.
BugOwnedExact(w, l) == launched[w] # Nothing

\* is_owned_exact()
OwnedExact(w, l) == launched[w] = l

Enqueue(o, action, l, w) ==
    /\ order[o].state = "idle"
    /\ ready
    /\ pending' = Append(pending, action)
    /\ waiters' = waiters \cup {o}
    /\ order' = [order EXCEPT ![o] = [state |-> "waiting", action |-> action.action,
                                     by |-> l, window |-> w]]
    /\ UNCHANGED <<acknowledgements, replies, calls, scripts, screen, launch, outcome, launched>>

\* The client of a launch closes a window of its own: no approval is asked for.
OrderClose(o, l, w) ==
    /\ w \in open /\ OwnedExact(w, l)
    /\ Enqueue(o, CloseWindow(o, w), l, w)

\* A move or a resize, of any window and with an approval
OrderMove(o, w) ==
    /\ opener[w] # Nothing
    /\ Enqueue(o, MoveWindow(o, w), Nothing, w)

OrderTimeout(o) ==
    /\ order[o].state = "waiting"
    /\ order' = [order EXCEPT ![o].state = "failed"]
    /\ Forget(o)
    /\ UNCHANGED <<replies, calls, scripts, screen, launch, outcome, launched>>

-----------------------------------------------------------------------------
(* The script's calls.  One for a request that has gone is dropped.        *)

\* acknowledge()
Acknowledged(l) ==
    /\ acknowledgements' = acknowledgements \ {l}
    /\ IF l \in acknowledgements THEN Becomes(l, "launching") ELSE UNCHANGED launch
    /\ UNCHANGED <<waiters, outcome, launched, order>>

\* complete() of a launch; the launcher may still be running, or the request
\* have ended with its sender left here.
LaunchCompleted(l, result) ==
    /\ outcome' = IF l \in waiters /\ launch[l] # "unpolled" THEN [outcome EXCEPT ![l] = result] ELSE outcome
    /\ waiters' = waiters \ {l}
    /\ UNCHANGED <<acknowledgements, launch, launched, order>>

\* complete() of an order; after a close the window list is waited for, and
\* remove() lets go of the window.
OrderCompleted(o, result) ==
    /\ \E ok \in {result # "error"} \cup (IF order[o].action = "close_window" THEN {FALSE} ELSE {}) :
       LET confirmed == ok /\ result # "error" /\ o \in waiters IN
       /\ order' = IF o \notin waiters THEN order
                   ELSE [order EXCEPT ![o].state = IF confirmed THEN "done" ELSE "failed"]
       /\ launched' = IF confirmed /\ order[o].action = "close_window"
                      THEN [launched EXCEPT ![order[o].window] = Nothing] ELSE launched
    /\ waiters' = waiters \ {o}
    /\ UNCHANGED <<acknowledgements, launch, outcome>>

Deliver ==
    /\ calls # <<>>
    /\ calls' = Tail(calls)
    /\ LET call == Head(calls) IN
       \/ call.call = "AcknowledgeAction" /\ Acknowledged(call.id)
       \/ call.call = "CompleteAction" /\ call.id \in Launches /\ LaunchCompleted(call.id, call.result)
       \/ call.call = "CompleteAction" /\ call.id \in Orders /\ OrderCompleted(call.id, call.result)
    /\ UNCHANGED <<pending, replies, scripts, screen>>

-----------------------------------------------------------------------------
(* The script.                                                             *)

\* TakePendingAction: the action is off the queue before the script has it.
\* A poll that was not answered for 5 s is followed by another.
Poll ==
    /\ script
    /\ pending # <<>>
    /\ replies' = Append(replies, Head(pending))
    /\ pending' = Tail(pending)
    /\ ready' = TRUE
    /\ UNCHANGED <<waiters, acknowledgements, calls, script, stops, launchIntents, settling,
                   screen, tasks>>

\* handleCancelLaunchWindow()
CalledOff(l) == Without(launchIntents, {l})

\* handleActionPayload().  A close only asks the window; a window that is gone,
\* or cannot be closed, moved or resized, is an error at once.
HandleReply ==
    /\ script
    /\ replies # <<>>
    /\ replies' = Tail(replies)
    /\ LET a == Head(replies) IN
       \/ /\ a.action = "launch_window"
          /\ launchIntents' = Append(launchIntents, a.id)
          /\ calls' = Append(calls, Acknowledge(a.id))
          /\ UNCHANGED settling
       \/ /\ a.action = "cancel_launch_window"
          /\ launchIntents' = CalledOff(a.id)
          /\ UNCHANGED <<calls, settling>>
       \/ /\ a.action \in {"close_window", "move_window"}
          /\ \/ a.window \in open /\ settling' = settling \cup {<<a.id, a.window>>}
                  /\ UNCHANGED calls
             \/ calls' = Append(calls, Result(a.id, "error")) /\ UNCHANGED settling
          /\ UNCHANGED launchIntents
    /\ UNCHANGED <<queue, script, ready, stops, screen, tasks>>

\* The timer of handleCloseWindow(), completeMoveAfterSettle() and
\* completeResizeAfterSettle(): a window that is still there was not closed.
OrderSettles(o, w) ==
    /\ <<o, w>> \in settling
    /\ settling' = settling \ {<<o, w>>}
    /\ \E result \in IF order[o].action = "move_window" THEN {w, "error"}
                      ELSE IF w \in open THEN {"error"} ELSE {w} :
           calls' = Append(calls, Result(o, result))
    /\ UNCHANGED <<queue, replies, script, ready, stops, launchIntents, screen, tasks>>

\* A window closes that has been asked to.  The user closing one makes no
\* difference: any order may find its window gone.
WindowCloses(w) ==
    /\ \E o \in Orders : <<o, w>> \in settling /\ order[o].action = "close_window"
    /\ w \in open /\ open' = open \ {w}
    /\ UNCHANGED <<queue, replies, calls, scripts, starting, opener, tasks>>

\* Plausible bug: the search goes on after the first intent.
BugTakeIntent(w) ==
    /\ launchIntents # <<>>
    /\ launchIntents' = <<>>
    /\ settling' = settling \cup {<<l, w>> : l \in ToSet(launchIntents)}

\* The first intent of the window's desktop entry takes the window.
TakeIntent(w) ==
    /\ launchIntents # <<>>
    /\ launchIntents' = Tail(launchIntents)
    /\ settling' = settling \cup {<<Head(launchIntents), w>>}

\* handleLaunchWindowAdded() for the next window of the application, opened by
\* a launch or by the user.
WindowAdded(w, by) ==
    /\ opener[w] = Nothing
    /\ by \in starting \cup {"user"}
    /\ opener' = [opener EXCEPT ![w] = by]
    /\ open' = open \cup {w}
    /\ starting' = starting \ {by}
    /\ \/ TakeIntent(w)
       \/ launchIntents = <<>> /\ UNCHANGED <<launchIntents, settling>>
    /\ UNCHANGED <<queue, replies, calls, script, ready, stops, tasks>>

\* finishLaunchIntent(): placed, and verified a second later.
LaunchSettles(l, w) ==
    /\ <<l, w>> \in settling
    /\ settling' = settling \ {<<l, w>>}
    /\ \E result \in {w, "error"} : calls' = Append(calls, Result(l, result))
    /\ UNCHANGED <<queue, replies, script, ready, stops, launchIntents, screen, tasks>>

\* Plausible bug: an intent that expires is dropped without a word.
BugPruneIntent(l) ==
    /\ Contains(launchIntents, l)
    /\ launchIntents' = CalledOff(l)
    /\ UNCHANGED <<queue, replies, calls, script, ready, stops, settling, screen, tasks>>

\* pruneLaunchIntents()
PruneIntent(l) ==
    /\ Contains(launchIntents, l)
    /\ launchIntents' = CalledOff(l)
    /\ calls' = Append(calls, Result(l, "error"))
    /\ UNCHANGED <<queue, replies, script, ready, stops, settling, screen, tasks>>

\* The script is unloaded, and with it all it knows and all that is on its way.
ScriptStops ==
    /\ script /\ stops < MaxStops
    /\ script' = FALSE /\ stops' = stops + 1
    /\ launchIntents' = <<>> /\ settling' = {} /\ replies' = <<>>
    /\ UNCHANGED <<queue, calls, ready, screen, tasks>>

\* register_script_capabilities() of a script that starts
ScriptStarts ==
    /\ ~script
    /\ script' = TRUE /\ ready' = TRUE
    /\ UNCHANGED <<queue, replies, calls, stops, launchIntents, settling, screen, tasks>>

\* script_heartbeat_fresh() turns false.
HeartbeatStale ==
    /\ ~script /\ ready
    /\ ready' = FALSE
    /\ UNCHANGED <<queue, replies, calls, script, stops, launchIntents, settling, screen, tasks>>

NextWindows ==
    \/ \E l \in Launches : \/ ArmLaunch(l) \/ ArmTimeout(l) \/ LaunchEntry(l)
                           \/ FinishLaunch(l) \/ FinishTimeout(l) \/ PruneIntent(l)
    \/ \E w \in NewWindows : LaunchedExpires(w)
    \/ \E o \in Orders, l \in Launches, w \in NewWindows : OrderClose(o, l, w)
    \/ \E o \in Orders, w \in NewWindows : OrderMove(o, w) \/ OrderSettles(o, w)
    \/ \E w \in NewWindows : WindowCloses(w)
    \/ \E o \in Orders : OrderTimeout(o)
    \/ \E w \in NewWindows, by \in Launches \cup {"user"} : WindowAdded(w, by)
    \/ \E l \in Launches, w \in NewWindows : LaunchSettles(l, w)
    \/ Deliver \/ Poll \/ HandleReply \/ ScriptStops \/ ScriptStarts \/ HeartbeatStale

SpecWindows == InitWindows /\ [][NextWindows]_windowVars

-----------------------------------------------------------------------------
(* A request that has ended has left nothing in the daemon: the script will *)
(* not find its action, nor its result a sender.  But for the sender of a   *)
(* launch whose launcher could not be asked, which is not called off        *)
(* (main.rs:4771), backends.md:145 notwithstanding.                         *)
EndedRequestsForgotten ==
    /\ \A l \in Launches : launch[l] \in {"done", "unarmed", "failed", "unpolled"} =>
            /\ l \in waiters \cup acknowledgements => l \in waiters /\ launch[l] = "unpolled"
            /\ ~Contains(pending, LaunchWindow(l))
    /\ \A o \in Orders : order[o].state \in {"done", "failed"} =>
            /\ o \notin waiters
            /\ \A i \in DOMAIN pending : pending[i].id # o

(* That sender is taken in the end all the same: the script has the intent  *)
(* until it expires, places a window for it, or has its result on the way,  *)
(* unless the script was stopped.                                           *)
LeftSenderAnswered ==
    \A l \in waiters \cap Launches : launch[l] = "unpolled" /\ stops = 0 =>
        \/ Contains(launchIntents, l)
        \/ \E w \in NewWindows : <<l, w>> \in settling
        \/ \E result \in NewWindows \cup {"error"} : Contains(calls, Result(l, result))

(* The intent of a launch that was acknowledged and then given up is called *)
(* off: as long as the script holds it, the cancellation is on its way.     *)
CancelFollowsLaunch ==
    \A l \in Launches : launch[l] = "failed" /\ Contains(launchIntents, l) =>
        Contains(pending \o replies, CancelLaunch(l))

(* However a launch or an order ends, nothing of it goes on that nobody     *)
(* waits for, or not for long (kwin_bridge.rs:370, 407, main.rs:4771).      *)
RequestsCleanedUp == EndedRequestsForgotten /\ LeftSenderAnswered /\ CancelFollowsLaunch

(* A window is taken for one launch only, and a launch takes one window:    *)
(* two clients are never told that the same window is theirs.               *)
OneWindowPerLaunch ==
    /\ \A l, k \in Launches : outcome[l] = outcome[k] /\ outcome[l] \in NewWindows => l = k
    /\ \A w \in NewWindows : launched[w] # Nothing => outcome[launched[w]] = w

(* Without an approval a client closes only the window its own launch was   *)
(* told of.                                                                 *)
UnpromptedCloseIsOwn ==
    \A o \in Orders : order[o].action = "close_window" => outcome[order[o].by] = order[o].window

(* A launched window belongs to one client, the one that may close it       *)
(* (main.js:235, main.rs:3471).                                             *)
LaunchedWindowsOwned == OneWindowPerLaunch /\ UnpromptedCloseIsOwn
=============================================================================
