----------------------------- MODULE AgentSeat -----------------------------
(***************************************************************************)
(* The agent-seat action queue (agent_seat.rs) between the submitting      *)
(* requests and the KWin plugin that long-polls it over D-Bus.  The queue  *)
(* mutex makes take, complete, register, push, remove and cancel atomic;   *)
(* everything between two of them may be interleaved.  Time passes in      *)
(* ticks; the daemon's timers fire on time, the compositor may be late,    *)
(* crash and come back as a new D-Bus connection.                          *)
(***************************************************************************)
EXTENDS Naturals, Sequences, SequencesExt, Queues

CONSTANTS
    Actions, Targets, Plugins, None,
    ActionTimeout,      \* ACTION_TIMEOUT
    PollTimeout,        \* ACTION_LONG_POLL_TIMEOUT
    HeartbeatTTL        \* BACKEND_HEARTBEAT_TTL

ASSUME TimeoutAssumption ==
    /\ ActionTimeout \in Nat /\ PollTimeout \in Nat /\ HeartbeatTTL \in Nat
    /\ 0 < PollTimeout /\ PollTimeout < ActionTimeout /\ PollTimeout < HeartbeatTTL
ASSUME SeatNoneAssumption == None \notin Actions \cup Plugins \cup {"ok", "error"}

VARIABLES
    queue,          \* the pending actions
    waiters,        \* actions with a completion sender
    result,         \* action -> what its completion channel holds, or None
    submit,         \* action -> where its submit() is
    age,            \* action -> ticks its submitter has waited, 0 once it is answered
    aim,            \* action -> its target window
    caller,         \* the registered connection, or None
    lastSeen,       \* ticks since register() or take(), HeartbeatTTL + 1 for older
    permit,         \* the Notify holds a permit
    sleepers,       \* poll handlers waiting on the Notify, oldest first
    poll,           \* connection -> where the handler of its poll is
    waited,         \* connection -> ticks its poll handler has slept, 0 when it does not
    reply,          \* connection -> the reply on its way to the plugin, or None
    conn,           \* connection -> its life
    completions,    \* CompleteAgentSeatAction calls on their way
    taken,          \* history: actions handed to a poll
    performed       \* history: actions sent to their window

daemonVars == <<queue, waiters, result, submit, age, aim>>
linkVars == <<caller, lastSeen, permit, sleepers, poll, waited>>
pluginVars == <<reply, conn, completions>>
vars == <<daemonVars, linkVars, pluginVars, taken, performed>>

Answered == {a \in Actions : submit[a] \in {"refused", "ok", "error"}}

\* ready(): registered, and seen within the heartbeat.
Ready == caller # None /\ lastSeen <= HeartbeatTTL

Init ==
    /\ queue = <<>> /\ waiters = {}
    /\ result = [a \in Actions |-> None]
    /\ submit = [a \in Actions |-> "idle"]
    /\ age = [a \in Actions |-> 0]
    /\ aim \in [Actions -> Targets]
    /\ caller = None /\ lastSeen = HeartbeatTTL + 1
    /\ permit = FALSE /\ sleepers = <<>>
    /\ poll = [p \in Plugins |-> "none"]
    /\ waited = [p \in Plugins |-> 0]
    /\ reply = [p \in Plugins |-> None]
    /\ conn = [p \in Plugins |-> "down"]
    /\ completions = {} /\ taken = {} /\ performed = {}

-----------------------------------------------------------------------------
(* submit() *)

CheckReady(a) ==
    /\ submit[a] = "idle"
    /\ submit' = [submit EXCEPT ![a] = IF Ready THEN "checked" ELSE "refused"]
    /\ UNCHANGED <<queue, waiters, result, age, aim, linkVars, pluginVars, taken, performed>>

Push(a) ==
    /\ submit[a] = "checked"
    /\ queue' = Append(queue, a)
    /\ waiters' = waiters \cup {a}
    /\ submit' = [submit EXCEPT ![a] = "pushed"]
    /\ UNCHANGED <<result, age, aim, linkVars, pluginVars, taken, performed>>

\* notify_one(): the oldest sleeper wakes, or a permit is left.
WakeOne ==
    IF sleepers = <<>>
       THEN permit' = TRUE /\ UNCHANGED <<sleepers, poll, waited>>
       ELSE /\ poll' = [poll EXCEPT ![Head(sleepers)] = "woken"]
            /\ waited' = [waited EXCEPT ![Head(sleepers)] = 0]
            /\ sleepers' = Tail(sleepers)
            /\ UNCHANGED permit

NotifyOne(a) ==
    /\ submit[a] = "pushed"
    /\ submit' = [submit EXCEPT ![a] = "waiting"]
    /\ WakeOne
    /\ UNCHANGED <<queue, waiters, result, age, aim, caller, lastSeen,
                   pluginVars, taken, performed>>

Receive(a) ==
    /\ submit[a] = "waiting" /\ result[a] # None
    /\ submit' = [submit EXCEPT ![a] = result[a]]
    /\ age' = [age EXCEPT ![a] = 0]
    /\ UNCHANGED <<queue, waiters, result, aim, linkVars, pluginVars, taken, performed>>

\* Plausible bug: the completion sender of a timed-out action is kept.
BugKeepWaiter(a) ==
    /\ submit[a] = "waiting" /\ result[a] = None
    /\ age[a] = ActionTimeout
    /\ queue' = Without(queue, {a})
    /\ submit' = [submit EXCEPT ![a] = "error"]
    /\ age' = [age EXCEPT ![a] = 0]
    /\ UNCHANGED <<waiters, result, aim, linkVars, pluginVars, taken, performed>>

TimeOut(a) ==
    /\ submit[a] = "waiting" /\ result[a] = None
    /\ age[a] = ActionTimeout
    /\ queue' = Without(queue, {a})
    /\ waiters' = waiters \ {a}
    /\ submit' = [submit EXCEPT ![a] = "error"]
    /\ age' = [age EXCEPT ![a] = 0]
    /\ UNCHANGED <<result, aim, linkVars, pluginVars, taken, performed>>

-----------------------------------------------------------------------------
(* Physical input on a window: cancel_pending_for_target(). *)

\* Plausible bug: the submitters are told, but the actions stay in the queue.
BugCancelTarget(w) ==
    LET cancelled == {a \in ToSet(queue) : aim[a] = w}
    IN  /\ cancelled # {}
        /\ waiters' = waiters \ cancelled
        /\ result' = [a \in Actions |-> IF a \in cancelled \cap waiters THEN "error" ELSE result[a]]
        /\ UNCHANGED <<queue, submit, age, aim, linkVars, pluginVars, taken, performed>>

CancelTarget(w) ==
    LET cancelled == {a \in ToSet(queue) : aim[a] = w}
    IN  /\ cancelled # {}
        /\ queue' = Without(queue, cancelled)
        /\ waiters' = waiters \ cancelled
        /\ result' = [a \in Actions |-> IF a \in cancelled \cap waiters THEN "error" ELSE result[a]]
        /\ UNCHANGED <<submit, age, aim, linkVars, pluginVars, taken, performed>>

-----------------------------------------------------------------------------
(* register(), take_wait() and complete(), called by the plugin *)

\* register(), for the connection that owns the compositor's bus name.
Register(p) ==
    /\ conn[p] = "booted"
    /\ conn' = [conn EXCEPT ![p] = "up"]
    /\ caller' = p
    /\ lastSeen' = 0
    /\ UNCHANGED <<daemonVars, permit, sleepers, poll, waited, reply, completions,
                   taken, performed>>

\* take(): refuses any other connection than the registered one, else pops
\* the oldest action.  A reply without an action is nothing to the plugin but
\* a reason to poll again; a reply to a connection that is gone is lost.
TakeStep(p, whenEmpty) ==
    \/ /\ caller # p
       /\ poll' = [poll EXCEPT ![p] = "none"]
       /\ UNCHANGED <<queue, taken, reply, lastSeen>>
    \/ /\ caller = p /\ queue = <<>>
       /\ poll' = [poll EXCEPT ![p] = whenEmpty]
       /\ lastSeen' = 0
       /\ UNCHANGED <<queue, taken, reply>>
    \/ /\ caller = p /\ queue # <<>>
       /\ queue' = Tail(queue)
       /\ taken' = taken \cup {Head(queue)}
       /\ poll' = [poll EXCEPT ![p] = "none"]
       /\ reply' = [reply EXCEPT ![p] = IF conn[p] = "up" THEN Head(queue) ELSE None]
       /\ lastSeen' = 0

\* Plausible bug: the poll goes to sleep before it has looked at the queue.
BugTakeFirst(p) ==
    /\ poll[p] = "called"
    /\ poll' = [poll EXCEPT ![p] = "empty"]
    /\ UNCHANGED <<daemonVars, caller, lastSeen, permit, sleepers, waited, pluginVars,
                   taken, performed>>

TakeFirst(p) ==
    /\ poll[p] = "called"
    /\ TakeStep(p, "empty")
    /\ UNCHANGED <<waiters, result, submit, age, aim, caller, permit, sleepers, waited,
                   conn, completions, performed>>

\* The Notified future is polled for the first time: a permit ends the wait
\* at once.
Sleep(p) ==
    /\ poll[p] = "empty"
    /\ IF permit
          THEN permit' = FALSE /\ poll' = [poll EXCEPT ![p] = "woken"] /\ UNCHANGED sleepers
          ELSE /\ sleepers' = Append(sleepers, p)
               /\ poll' = [poll EXCEPT ![p] = "asleep"]
               /\ UNCHANGED permit
    /\ UNCHANGED <<daemonVars, caller, lastSeen, waited, pluginVars, taken, performed>>

PollElapses(p) ==
    /\ poll[p] = "asleep" /\ waited[p] = PollTimeout
    /\ sleepers' = Without(sleepers, {p})
    /\ poll' = [poll EXCEPT ![p] = "woken"]
    /\ waited' = [waited EXCEPT ![p] = 0]
    /\ UNCHANGED <<daemonVars, caller, lastSeen, permit, pluginVars, taken, performed>>

TakeAgain(p) ==
    /\ poll[p] = "woken"
    /\ TakeStep(p, "none")
    /\ UNCHANGED <<waiters, result, submit, age, aim, caller, permit, sleepers, waited,
                   conn, completions, performed>>

\* complete(): from the registered connection, for an action still waited for.
Complete(c) ==
    /\ completions' = completions \ {c}
    /\ IF c.by = caller /\ c.action \in waiters
          THEN /\ waiters' = waiters \ {c.action}
               /\ result' = [result EXCEPT ![c.action] = c.outcome]
          ELSE UNCHANGED <<waiters, result>>
    /\ UNCHANGED <<queue, submit, age, aim, linkVars, reply, conn,
                   taken, performed>>

-----------------------------------------------------------------------------
(* The plugin (agentseatplugin.cpp) *)

Boot(p) ==
    /\ conn[p] = "down"
    /\ \A o \in Plugins : conn[o] \in {"down", "gone"}
    /\ conn' = [conn EXCEPT ![p] = "booted"]
    /\ UNCHANGED <<daemonVars, linkVars, reply, completions, taken, performed>>

Crash(p) ==
    /\ conn[p] = "up"
    /\ conn' = [conn EXCEPT ![p] = "gone"]
    /\ reply' = [reply EXCEPT ![p] = None]
    /\ UNCHANGED <<daemonVars, linkVars, completions, taken, performed>>

\* poll(), with no poll in flight.
Poll(p) ==
    /\ conn[p] \in {"booted", "up"} /\ poll[p] = "none" /\ reply[p] = None
    /\ poll' = [poll EXCEPT ![p] = "called"]
    /\ UNCHANGED <<daemonVars, caller, lastSeen, permit, sleepers, waited, pluginVars,
                   taken, performed>>

\* handlePendingAction(), executeAction() and complete(): the action is
\* performed, or it has no such window, lane or coordinate.
HandleReply(p) ==
    /\ conn[p] = "up" /\ reply[p] # None
    /\ reply' = [reply EXCEPT ![p] = None]
    /\ \/ /\ performed' = performed \cup {reply[p]}
          /\ completions' = completions \cup {[by |-> p, action |-> reply[p], outcome |-> "ok"]}
       \/ /\ completions' = completions \cup {[by |-> p, action |-> reply[p], outcome |-> "error"]}
          /\ UNCHANGED performed
    /\ UNCHANGED <<daemonVars, linkVars, conn, taken>>

-----------------------------------------------------------------------------
\* Plausible bug: the wait for a completion has no timeout.
BugSettled ==
    /\ \A a \in Actions :
          /\ submit[a] \notin {"checked", "pushed"}
          /\ submit[a] = "waiting" => result[a] = None
    /\ \A p \in Plugins :
          /\ poll[p] \notin {"empty", "woken"}
          /\ poll[p] = "asleep" => waited[p] < PollTimeout

\* No timer is due and no handler stands between two synchronous calls.
Settled ==
    /\ \A a \in Actions :
          /\ submit[a] \notin {"checked", "pushed"}
          /\ submit[a] = "waiting" => result[a] = None /\ age[a] < ActionTimeout
    /\ \A p \in Plugins :
          /\ poll[p] \notin {"empty", "woken"}
          /\ poll[p] = "asleep" => waited[p] < PollTimeout

Tick ==
    /\ Settled
    /\ age' = [a \in Actions |-> IF submit[a] = "waiting" THEN age[a] + 1 ELSE age[a]]
    /\ waited' = [p \in Plugins |-> IF poll[p] = "asleep" THEN waited[p] + 1 ELSE waited[p]]
    /\ lastSeen' = IF lastSeen > HeartbeatTTL THEN lastSeen ELSE lastSeen + 1
    /\ UNCHANGED <<queue, waiters, result, submit, aim, caller, permit, sleepers, poll,
                   pluginVars, taken, performed>>

Submit(a) == CheckReady(a) \/ Push(a) \/ NotifyOne(a) \/ Receive(a) \/ TimeOut(a)
Serve(p) == TakeFirst(p) \/ Sleep(p) \/ PollElapses(p) \/ TakeAgain(p) \/ Register(p)

Next ==
    \/ \E a \in Actions : Submit(a)
    \/ \E w \in Targets : CancelTarget(w)
    \/ \E p \in Plugins : Serve(p) \/ Boot(p) \/ Crash(p) \/ Poll(p) \/ HandleReply(p)
    \/ \E c \in completions : Complete(c)
    \/ Tick

\* The daemon's tasks run and its clock moves; the compositor owes nothing.
Fairness ==
    /\ \A a \in Actions : WF_vars(Push(a) \/ NotifyOne(a) \/ Receive(a) \/ TimeOut(a))
    /\ \A p \in Plugins : WF_vars(Serve(p))
    /\ WF_vars(Tick)

Spec == Init /\ [][Next]_vars /\ Fairness

-----------------------------------------------------------------------------
(* Type invariant. *)
SeatTypeOK ==
    /\ queue \in Seq(Actions)
    /\ waiters \subseteq Actions
    /\ result \in [Actions -> {None, "ok", "error"}]
    /\ submit \in [Actions -> {"idle", "checked", "pushed", "waiting", "refused", "ok", "error"}]
    /\ age \in [Actions -> 0..ActionTimeout]
    /\ aim \in [Actions -> Targets]
    /\ caller \in Plugins \cup {None}
    /\ lastSeen \in 0..HeartbeatTTL + 1
    /\ permit \in BOOLEAN
    /\ sleepers \in Seq(Plugins)
    /\ poll \in [Plugins -> {"none", "called", "empty", "asleep", "woken"}]
    /\ waited \in [Plugins -> 0..PollTimeout]
    /\ reply \in [Plugins -> Actions \cup {None}]
    /\ conn \in [Plugins -> {"down", "booted", "up", "gone"}]
    /\ completions \subseteq [by: Plugins, action: Actions, outcome: {"ok", "error"}]
    /\ performed \subseteq taken

(* An answered action leaves nothing behind: it is not in the queue, where *)
(* a later poll would deliver it after its agent was told it had failed,   *)
(* and its completion sender is gone, so a late completion finds nothing.  *)
NothingLeftBehind ==
    \A a \in Answered : a \notin ToSet(queue) /\ a \notin waiters

(* A poll that sleeps has looked at the queue first, and its wait is       *)
(* shorter than the action timeout: whatever it waits through, it takes    *)
(* every queued action before the submitter gives up, even when the        *)
(* wake-up went to the abandoned poll of a crashed compositor.             *)
SleepingPollInTime ==
    \A a \in ToSet(queue) :
        caller # None /\ poll[caller] = "asleep" =>
            age[a] + (PollTimeout - waited[caller]) < ActionTimeout

StageOf(a) ==
    CASE a \in performed -> "performed"
      [] a \in taken \ performed -> "taken"
      [] submit[a] \in {"idle", "checked", "refused"} -> "new"
      [] OTHER -> "asked"

Requests == INSTANCE AgentRequests WITH
    stage <- [a \in Actions |-> StageOf(a)],
    answer <- [a \in Actions |-> IF submit[a] = "ok" THEN "ok"
                                  ELSE IF a \in Answered THEN "error" ELSE "none"]

(* The queue is a targeted input backend: an action is performed at most   *)
(* once, only while asked for or already taken, and "ok" means performed.  *)
ImplementsRequests == Requests!SpecRequests
=============================================================================
