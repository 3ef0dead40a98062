-------------------------- MODULE SessionLifecycle --------------------------
(***************************************************************************)
(* The daemon's session requests (main.rs, interaction.rs): open, renew,   *)
(* close, close_window, status and agent-seat action, served concurrently, *)
(* one connection task each.  A request is a chain of store operations;    *)
(* every store has its own mutex and the task may be overtaken at each     *)
(* await, so each operation is a step and any other request may run in     *)
(* between.                                                                *)
(***************************************************************************)
EXTENDS Naturals, FiniteSets

CONSTANTS
    Requests, Sessions, Windows, Identities, Owners, Chooser,
    MaxAgentLanes, MaxExact, SessionTTL,
    Kinds,          \* the request kinds the clients send
    Unbound, None

VARIABLES
    interaction, minted,              \* InteractionSessions
    pending, slots, opened, ended,    \* CaptureSessions
    execution,      \* ids with a record in the SessionExecutionStore
    seatLease,      \* the request holding the seat mutex, or None
    windows,        \* compositor: window -> its (app id, pid), or None once closed
    task            \* request -> where its handler is, and its local variables

IS == INSTANCE InteractionSessions
CS == INSTANCE CaptureSessions

\* Those of the two stores, and None is nothing that a variable holds.
ASSUME LimitsAssumption ==
    MaxAgentLanes \in Nat \ {0} /\ MaxExact \in Nat \ {0} /\ SessionTTL \in Nat \ {0}
ASSUME IdsAssumption ==
    /\ IsFiniteSet(Owners)
    /\ Chooser \notin Windows
    /\ Unbound \notin IS!Lease
    /\ None \notin CS!Reservation /\ None \notin CS!Slot
    /\ None \notin Requests \cup Identities

captures == <<pending, slots, opened, ended>>
leases == <<interaction, minted>>
vars == <<interaction, minted, pending, slots, opened, ended, execution,
          seatLease, windows, task>>

Idle == [kind |-> "idle", at |-> "idle", owner |-> None, source |-> None,
         identity |-> None, session |-> None, active |-> {}]

At(q, step) == task[q].at = step
Moves(q, step) == task' = [task EXCEPT ![q].at = step]
Ends(q) == task' = [task EXCEPT ![q] = Idle]

\* The request's own session still has a slot, and the owner's slot.
Owned(o, s) == s \in CS!Alive /\ slots[s].owner = o

-----------------------------------------------------------------------------
Init ==
    /\ IS!InitInteraction
    /\ CS!InitCapture
    /\ execution = {}
    /\ seatLease = None
    /\ windows \in [Windows -> Identities \cup {None}]
    /\ task = [q \in Requests |-> Idle]

\* ---- capture_open: reserve, open, record, prune, bind ----

\* execute_capture_open() resolves an exact window before it opens it.
StartOpen(q, o, src) ==
    /\ At(q, "idle") /\ "open" \in Kinds
    /\ CS!Exact(src) => windows[src] # None
    /\ task' = [task EXCEPT ![q] =
                   [Idle EXCEPT !.kind = "open", !.at = "reserve", !.owner = o, !.source = src,
                                !.identity = IF CS!Exact(src) THEN windows[src] ELSE None]]
    /\ UNCHANGED <<leases, captures, execution, seatLease, windows>>

ReserveOpen(q) ==
    /\ At(q, "reserve")
    /\ \/ CS!BeginOpen(q, task[q].owner, task[q].source) /\ Moves(q, "backend")
       \/ CS!RefuseOpen(task[q].owner, task[q].source) /\ Ends(q)
    /\ UNCHANGED <<leases, execution, seatLease, windows>>

\* Plausible bug: the answer to one open completes the reservation of another.
BugOpenAnswers(q) ==
    /\ At(q, "backend")
    /\ \/ \E s \in Sessions, r \in Requests :
             /\ CS!FinishOpen(r, s)
             /\ task' = [task EXCEPT ![q].at = "opened", ![q].session = s]
       \/ CS!FailOpen(q) /\ Ends(q)
    /\ UNCHANGED <<leases, execution, seatLease, windows>>

\* Plausible bug: the error of the backend is not returned.
BugOpenError(q) ==
    /\ At(q, "backend")
    /\ \/ \E s \in Sessions :
             /\ CS!FinishOpen(q, s)
             /\ task' = [task EXCEPT ![q].at = "opened", ![q].session = s]
       \/ CS!FailOpen(q) /\ Moves(q, "record")
    /\ UNCHANGED <<leases, execution, seatLease, windows>>

\* The backend answers within the open timeout: a session, or an error.
OpenBackend(q) ==
    /\ At(q, "backend")
    /\ \/ \E s \in Sessions :
             /\ CS!FinishOpen(q, s)
             /\ task' = [task EXCEPT ![q].at = "opened", ![q].session = s]
       \/ CS!FailOpen(q) /\ Ends(q)
    /\ UNCHANGED <<leases, execution, seatLease, windows>>

\* status_for_session(): a session that is over already has no id to report.
StatusOpened(q) ==
    /\ At(q, "opened")
    /\ CS!Reap
    /\ IF task[q].session \in CS!Alive THEN Moves(q, "record") ELSE Ends(q)
    /\ UNCHANGED <<leases, execution, seatLease, windows>>

\* Plausible bug: only sessions that can be pinned get a record.
BugRecordExecution(q) ==
    /\ At(q, "record")
    /\ execution' = execution \cup {s \in {task[q].session} : CS!Exact(task[q].source)}
    /\ IF CS!Exact(task[q].source) THEN Moves(q, "activeIds") ELSE Ends(q)
    /\ UNCHANGED <<leases, captures, seatLease, windows>>

RecordExecution(q) ==
    /\ At(q, "record")
    /\ execution' = execution \cup {task[q].session}
    /\ IF CS!Exact(task[q].source) THEN Moves(q, "activeIds") ELSE Ends(q)
    /\ UNCHANGED <<leases, captures, seatLease, windows>>

ReadActiveIds(q) ==
    /\ At(q, "activeIds")
    /\ CS!Reap
    /\ task' = [task EXCEPT ![q].at = "retain", ![q].active = CS!Alive]
    /\ UNCHANGED <<leases, execution, seatLease, windows>>

RetainActive(q) ==
    /\ At(q, "retain")
    /\ IS!RetainActive(task[q].active)
    /\ task' = [task EXCEPT ![q].at = "bind", ![q].active = {}]
    /\ UNCHANGED <<captures, execution, seatLease, windows>>

\* Plausible bug: the binding is stored without asking for the window's holder.
BugBindTarget(q) ==
    /\ At(q, "bind")
    /\ interaction' = [interaction EXCEPT ![task[q].session] =
                          IS!NewLease(task[q].source, task[q].identity, task[q].owner,
                                      task[q].session)]
    /\ minted' = minted \cup {task[q].session}
    /\ Moves(q, "policy")
    /\ UNCHANGED <<captures, execution, seatLease, windows>>

\* bind() is refused by the store, or before it if the window has no app id.
BindTarget(q) ==
    /\ At(q, "bind")
    /\ \/ /\ IS!Bind(task[q].session, task[q].source, task[q].identity, task[q].owner)
          /\ Moves(q, "policy")
       \/ /\ IS!RejectBind(task[q].source, task[q].owner)
          /\ Moves(q, "unwind")
       \/ UNCHANGED leases /\ Moves(q, "unwind")
    /\ UNCHANGED <<captures, execution, seatLease, windows>>

\* record_target_policy() fails the request if the record is gone; either
\* way nothing changes and the request is answered.
RecordTargetPolicy(q) ==
    /\ At(q, "policy")
    /\ Ends(q)
    /\ UNCHANGED <<leases, captures, execution, seatLease, windows>>

\* Plausible bug: a refused binding leaves the capture session open.
BugUnwindCapture(q) ==
    /\ At(q, "unwind")
    /\ Moves(q, "unwindRecord")
    /\ UNCHANGED <<leases, captures, execution, seatLease, windows>>

\* A refused binding closes the capture session it was meant for.
UnwindCapture(q) ==
    /\ At(q, "unwind")
    /\ \/ CS!RemoveSlot(task[q].session)
       \/ task[q].session \notin CS!Active /\ UNCHANGED captures
    /\ Moves(q, "unwindRecord")
    /\ UNCHANGED <<leases, execution, seatLease, windows>>

UnwindRecord(q) ==
    /\ At(q, "unwindRecord")
    /\ execution' = execution \ {task[q].session}
    /\ Ends(q)
    /\ UNCHANGED <<leases, captures, seatLease, windows>>

\* ---- requests on a session the client owns ----

\* enforce_capture_session_owner() lets only the owner in.
StartOwned(q, o, s, kind, step) ==
    /\ At(q, "idle") /\ kind \in Kinds
    /\ Owned(o, s)
    /\ CS!Reap
    /\ task' = [task EXCEPT ![q] = [Idle EXCEPT !.kind = kind, !.at = step,
                                                !.owner = o, !.session = s]]
    /\ UNCHANGED <<leases, execution, seatLease, windows>>

StartClose(q, o, s) == StartOwned(q, o, s, "close", "lease")
StartRenew(q, o, s) == StartOwned(q, o, s, "renew", "renewLive")
StartAct(q, o, s)   == StartOwned(q, o, s, "act", "actLive")

\* ---- capture_session_close, under the seat mutex ----

\* acquire_seat_lease() gives up after its deadline.
AcquireSeat(q) ==
    /\ At(q, "lease")
    /\ \/ seatLease = None /\ seatLease' = q /\ Moves(q, "close")
       \/ seatLease # None /\ UNCHANGED seatLease /\ Ends(q)
    /\ UNCHANGED <<leases, captures, execution, windows>>

\* close() takes the slot out first; if the slot is gone, or the backend
\* then fails to close, the request ends here with an error.
CloseCapture(q) ==
    /\ At(q, "close")
    /\ \/ CS!RemoveSlot(task[q].session) /\ Moves(q, "closeLease") /\ UNCHANGED seatLease
       \/ CS!RemoveSlot(task[q].session) /\ Ends(q) /\ seatLease' = None
       \/ /\ task[q].session \notin CS!Active
          /\ UNCHANGED captures /\ Ends(q) /\ seatLease' = None
    /\ UNCHANGED <<leases, execution, windows>>

CloseLease(q) ==
    /\ At(q, "closeLease")
    /\ IS!Clear(task[q].session)
    /\ Moves(q, "closeRecord")
    /\ UNCHANGED <<captures, execution, seatLease, windows>>

CloseRecord(q) ==
    /\ At(q, "closeRecord")
    /\ execution' = execution \ {task[q].session}
    /\ seatLease' = None
    /\ Ends(q)
    /\ UNCHANGED <<leases, captures, windows>>

\* ---- close_window of a session's window; it takes no seat mutex ----

\* The window list is read before the session is looked at.
StartCloseWindow(q, o, s, w) ==
    /\ At(q, "idle") /\ "closeWindow" \in Kinds
    /\ Owned(o, s) /\ windows[w] # None
    /\ CS!Reap
    /\ task' = [task EXCEPT ![q] = [Idle EXCEPT !.kind = "closeWindow", !.at = "closeLive",
                                                !.owner = o, !.session = s,
                                                !.source = w, !.identity = windows[w]]]
    /\ UNCHANGED <<leases, execution, seatLease, windows>>

CloseLive(q) ==
    /\ At(q, "closeLive")
    /\ CS!Reap
    /\ IF task[q].session \in CS!Alive THEN Moves(q, "closeTarget") ELSE Ends(q)
    /\ UNCHANGED <<leases, execution, seatLease, windows>>

\* Resolved in the list read before, and the pinned window must be the one asked for.
CloseTarget(q) ==
    /\ At(q, "closeTarget")
    /\ IF /\ IS!Resolves(task[q].session, [windows EXCEPT ![task[q].source] = task[q].identity])
          /\ interaction[task[q].session].window = task[q].source
          THEN Moves(q, "closing") ELSE Ends(q)
    /\ UNCHANGED <<leases, captures, execution, seatLease, windows>>

\* The window is seen to be gone, or policy, the backend or the window refuse.
CloseExact(q) ==
    /\ At(q, "closing")
    /\ \/ windows' = [windows EXCEPT ![task[q].source] = None] /\ Moves(q, "closed")
       \/ UNCHANGED windows /\ Ends(q)
    /\ UNCHANGED <<leases, captures, execution, seatLease>>

\* Plausible bug: the capture is left to end by itself with its window.
BugCloseWindowCapture(q) ==
    /\ At(q, "closed")
    /\ Moves(q, "closedLease")
    /\ UNCHANGED <<leases, captures, execution, seatLease, windows>>

\* What is left of the session goes with its window; a capture that is gone
\* already is no error here.
CloseWindowCapture(q) ==
    /\ At(q, "closed")
    /\ \/ CS!RemoveSlot(task[q].session)
       \/ task[q].session \notin CS!Active /\ UNCHANGED captures
    /\ Moves(q, "closedLease")
    /\ UNCHANGED <<leases, execution, seatLease, windows>>

CloseWindowLease(q) ==
    /\ At(q, "closedLease")
    /\ IS!Clear(task[q].session)
    /\ Moves(q, "closedRecord")
    /\ UNCHANGED <<captures, execution, seatLease, windows>>

CloseWindowRecord(q) ==
    /\ At(q, "closedRecord")
    /\ execution' = execution \ {task[q].session}
    /\ Ends(q)
    /\ UNCHANGED <<leases, captures, seatLease, windows>>

\* ---- capture_session_renew and agent-seat actions ----

\* Plausible bug: any error of the check clears the lease.
BugCheckLive(q, step, next) ==
    /\ At(q, step)
    /\ CS!Reap
    /\ \/ task[q].session \in CS!Alive /\ Moves(q, next) /\ UNCHANGED leases
       \/ Ends(q) /\ IS!Clear(task[q].session)
    /\ UNCHANGED <<execution, seatLease, windows>>

\* require_active(), or the lease of a dead session is cleared.
CheckLive(q, step, next) ==
    /\ At(q, step)
    /\ CS!Reap
    /\ \/ task[q].session \in CS!Alive /\ Moves(q, next) /\ UNCHANGED leases
       \/ task[q].session \notin CS!Alive /\ Ends(q) /\ IS!Clear(task[q].session)
    /\ UNCHANGED <<execution, seatLease, windows>>

\* The window list is read and the pinned target resolved in it.
ResolveTarget(q, step, next) ==
    /\ At(q, step)
    /\ IF IS!Resolves(task[q].session, windows)
          THEN task' = [task EXCEPT ![q].at = next,
                                    ![q].source = interaction[task[q].session].window]
          ELSE Ends(q)
    /\ UNCHANGED <<leases, captures, execution, seatLease, windows>>

RenewLive(q)    == CheckLive(q, "renewLive", "renewResolve")
RenewResolve(q) == ResolveTarget(q, "renewResolve", "renewLease")

\* The lease is renewed, unless it is gone by now.
RenewLease(q, step, next) ==
    /\ At(q, step)
    /\ \/ IS!Renew(task[q].session) /\ Moves(q, next)
       \/ task[q].session \notin IS!Bound /\ UNCHANGED leases /\ Ends(q)
    /\ UNCHANGED <<captures, execution, seatLease, windows>>

RenewInteraction(q) == RenewLease(q, "renewLease", "renewCapture")

\* Plausible bug: the slot is extended although its backend has ended.
BugRenewSlot(q) ==
    /\ At(q, "renewCapture")
    /\ task[q].session \in CS!Active
    /\ slots' = [slots EXCEPT ![task[q].session].ttl = SessionTTL]
    /\ UNCHANGED <<pending, opened, ended>>
    /\ Ends(q)
    /\ UNCHANGED <<leases, execution, seatLease, windows>>

RenewCapture(q) ==
    /\ At(q, "renewCapture")
    /\ \/ CS!RenewCapture(task[q].session) /\ UNCHANGED leases
       \/ /\ task[q].session \in CS!Alive => ~CS!Exact(slots[task[q].session].source)
          /\ CS!Reap
          /\ IS!Clear(task[q].session)
    /\ Ends(q)
    /\ UNCHANGED <<execution, seatLease, windows>>

\* execute_agent_seat_action() checks the session before and after it
\* resolves the target; it does not take the seat mutex.
ActLive(q)      == CheckLive(q, "actLive", "actResolve")
ActResolve(q)   == ResolveTarget(q, "actResolve", "actLiveAgain")
ActLiveAgain(q) == CheckLive(q, "actLiveAgain", "queued")

\* The action waits in the plugin queue (module AgentSeat): the compositor
\* delivers it to the resolved window, or the submission fails.
Deliver(q) ==
    /\ At(q, "queued")
    /\ Moves(q, "delivered")
    /\ UNCHANGED <<leases, captures, execution, seatLease, windows>>

FailDelivery(q) ==
    /\ At(q, "queued")
    /\ Ends(q)
    /\ UNCHANGED <<leases, captures, execution, seatLease, windows>>

\* A delivered action renews the lease only, and reports an error when the
\* lease is gone by then.
RenewDelivered(q) ==
    /\ At(q, "delivered")
    /\ \/ IS!Renew(task[q].session)
       \/ task[q].session \notin IS!Bound /\ UNCHANGED leases
    /\ Ends(q)
    /\ UNCHANGED <<captures, execution, seatLease, windows>>

\* ---- capture_session_status ----

\* A client is told of its session when it has just one; the CLI, of any
\* when there is just one.
StartStatus(q, o) ==
    /\ At(q, "idle") /\ "status" \in Kinds
    /\ CS!Reap
    /\ \E shown \in {CS!Alive, {s \in CS!Alive : slots[s].owner = o}} :
          /\ Cardinality(shown) = 1
          /\ \E s \in shown :
                task' = [task EXCEPT ![q] = [Idle EXCEPT !.kind = "status", !.at = "statusBound",
                                                         !.owner = o, !.session = s]]
    /\ UNCHANGED <<leases, execution, seatLease, windows>>

StatusBound(q) ==
    /\ At(q, "statusBound")
    /\ IF task[q].session \in IS!Live THEN Moves(q, "statusResolve") ELSE Ends(q)
    /\ UNCHANGED <<leases, captures, execution, seatLease, windows>>

\* clear_if_target_invalid() resolves, and then clears in a step of its own.
StatusResolve(q) ==
    /\ At(q, "statusResolve")
    /\ IF IS!Resolves(task[q].session, windows) THEN Ends(q) ELSE Moves(q, "statusClear")
    /\ UNCHANGED <<leases, captures, execution, seatLease, windows>>

StatusClear(q) ==
    /\ At(q, "statusClear")
    /\ IS!Clear(task[q].session)
    /\ Ends(q)
    /\ UNCHANGED <<captures, execution, seatLease, windows>>

\* ---- the world around the daemon ----

WindowCloses(w) ==
    /\ windows[w] # None
    /\ windows' = [windows EXCEPT ![w] = None]
    /\ UNCHANGED <<leases, captures, execution, seatLease, task>>

WindowChangesIdentity(w) ==
    /\ windows[w] # None
    /\ \E i \in Identities \ {windows[w]} : windows' = [windows EXCEPT ![w] = i]
    /\ UNCHANGED <<leases, captures, execution, seatLease, task>>

CaptureEnds(s) ==
    /\ CS!BackendEnds(s)
    /\ UNCHANGED <<leases, execution, seatLease, windows, task>>

TimePasses ==
    /\ IS!Age
    /\ CS!AgeCaptures
    /\ UNCHANGED <<execution, seatLease, windows, task>>

Open(q) ==
    \/ ReserveOpen(q) \/ OpenBackend(q) \/ StatusOpened(q) \/ RecordExecution(q)
    \/ ReadActiveIds(q) \/ RetainActive(q) \/ BindTarget(q) \/ RecordTargetPolicy(q)
    \/ UnwindCapture(q) \/ UnwindRecord(q)

Close(q) == AcquireSeat(q) \/ CloseCapture(q) \/ CloseLease(q) \/ CloseRecord(q)
CloseWindow(q) ==
    \/ CloseLive(q) \/ CloseTarget(q) \/ CloseExact(q) \/ CloseWindowCapture(q)
    \/ CloseWindowLease(q) \/ CloseWindowRecord(q)
Renew(q) == RenewLive(q) \/ RenewResolve(q) \/ RenewInteraction(q) \/ RenewCapture(q)
Act(q)   == ActLive(q) \/ ActResolve(q) \/ ActLiveAgain(q)
              \/ Deliver(q) \/ FailDelivery(q) \/ RenewDelivered(q)
Status(q) == StatusBound(q) \/ StatusResolve(q) \/ StatusClear(q)

Next ==
    \/ \E q \in Requests, o \in Owners, src \in CS!Sources : StartOpen(q, o, src)
    \/ \E q \in Requests, o \in Owners, s \in Sessions :
          StartClose(q, o, s) \/ StartRenew(q, o, s) \/ StartAct(q, o, s)
    \/ \E q \in Requests, o \in Owners, s \in Sessions, w \in Windows : StartCloseWindow(q, o, s, w)
    \/ \E q \in Requests : Open(q) \/ Close(q) \/ CloseWindow(q) \/ Renew(q) \/ Act(q) \/ Status(q)
    \/ \E q \in Requests, o \in Owners : StartStatus(q, o)
    \/ \E w \in Windows : WindowCloses(w) \/ WindowChangesIdentity(w)
    \/ \E s \in Sessions : CaptureEnds(s)
    \/ TimePasses

Spec == Init /\ [][Next]_vars

-----------------------------------------------------------------------------
Steps == {"idle", "reserve", "backend", "opened", "record", "activeIds", "retain", "bind",
          "policy", "unwind", "unwindRecord", "lease", "close", "closeLease", "closeRecord",
          "closeLive", "closeTarget", "closing", "closed", "closedLease", "closedRecord",
          "renewLive", "renewResolve", "renewLease", "renewCapture",
          "actLive", "actResolve", "actLiveAgain", "queued", "delivered",
          "statusBound", "statusResolve", "statusClear"}

Task == [kind: {"idle", "open", "close", "closeWindow", "renew", "act", "status"}, at: Steps, owner: Owners \cup {None},
         source: CS!Sources \cup {None}, identity: Identities \cup {None},
         session: Sessions \cup {None}, active: SUBSET Sessions]

(* Type invariant: the seat mutex is held by the request that is closing a *)
(* session, and given back however that request ends.                      *)
LifecycleTypeOK ==
    /\ IS!TypeOK
    /\ CS!CaptureTypeOK
    /\ execution \subseteq opened
    /\ seatLease \in Requests \cup {None}
    /\ windows \in [Windows -> Identities \cup {None}]
    /\ task \in [Requests -> Task]
    /\ \A q \in Requests :
          seatLease = q <=> task[q].at \in {"close", "closeLease", "closeRecord"}

OpeningBy(s) == {q \in Requests : task[q].kind = "open" /\ task[q].session = s}

(* An exact-window capture is never left running that was refused its      *)
(* interaction lease: when the window belongs to another agent, or the     *)
(* lanes are used up, the capture that was opened first is taken down      *)
(* again, whatever the two opens did to each other meanwhile.              *)
NoUnpinnedCapture ==
    \A s \in CS!Alive :
        CS!Exact(slots[s].source) => s \in minted \/ OpeningBy(s) # {}

(* Every live capture session that is not just being opened has its        *)
(* execution record: an action on it is never answered "session execution  *)
(* state is not active" while the session itself is.                       *)
LiveSessionsRecorded ==
    \A s \in CS!Alive : s \in execution \/ OpeningBy(s) # {}

(* What of PinnedUntilClosed holds: the lease of a live session, expired   *)
(* or not, whether its target resolves or not, is dropped only by an open  *)
(* whose list of live captures does not have the session, by a status      *)
(* request that did not find its target a moment before, or, expired, by   *)
(* the purge of an open.  Whatever closes a session takes the capture      *)
(* first, so that no live session loses its lease to it.                   *)
LeaseDroppedForCause ==
    [][\A s \in CS!Alive \cap IS!Bound :
          s \notin IS!Bound'
          => \E q \in Requests :
                \/ At(q, "retain") /\ s \notin task[q].active
                \/ At(q, "statusClear") /\ task[q].session = s
                \/ At(q, "bind") /\ s \notin IS!Live]_vars

(* A live session was granted its lease, has its record, and is without    *)
(* the lease later only for one of the causes: all that takes sessions     *)
(* down, closes, close_window (main.rs:4553), the unwinding of an open     *)
(* (4465), takes the capture before the lease.                             *)
LiveSessionsWhole == [](NoUnpinnedCapture /\ LiveSessionsRecorded) /\ LeaseDroppedForCause

(* Wherever a session has both a lease and a capture, they agree on owner  *)
(* and window: the frames an agent sees are those of the window its input  *)
(* goes to.                                                                *)
LeaseMatchesCapture ==
    \A s \in IS!Bound \cap CS!Active :
        /\ interaction[s].owner = slots[s].owner
        /\ interaction[s].window = slots[s].source

(* The concurrent requests use the interaction store only as its           *)
(* specification says: what InteractionSessions proves of the store holds  *)
(* in the daemon.                                                          *)
ImplementsInteraction == IS!SpecInteraction

(* The same for the capture store. *)
ImplementsCapture == CS!SpecCapture

(* "A session remains pinned to its target until close, expiry, explicit   *)
(* rebind, or target invalidation" (computer-use-modernization-plan.md):   *)
(* the lease of a live session whose target resolves is dropped only by a  *)
(* close of that session.                                                  *)
PinnedUntilClosed ==
    [][\A s \in Sessions :
          /\ s \in CS!Alive
          /\ IS!Resolves(s, windows)
          => \/ s \in IS!Bound'
             \/ \E q \in Requests : task[q].kind = "close" /\ task[q].session = s]_vars

(* "A target window has one exclusive agent owner" (status.md): no action  *)
(* of a session that is over already is delivered to a window on which     *)
(* another agent holds a live lease by then.                               *)
DeliveredToOwnWindow ==
    [][\A q \in Requests :
          /\ At(q, "queued") /\ task'[q].at = "delivered"
          /\ task[q].session \notin CS!Active
          => ~ IS!InUseByOther(task[q].source, task[q].owner)]_vars

(* What of DeliveredToOwnWindow holds: an action reaches a window of       *)
(* another agent only after its own session has lost the lease; while      *)
(* there is one, it is for the window of the action, whatever the requests *)
(* in between.                                                             *)
DeliveredWhileLeased ==
    [][\A q \in Requests :
          /\ At(q, "queued") /\ task'[q].at = "delivered"
          /\ task[q].session \in IS!Bound
          => ~ IS!InUseByOther(task[q].source, task[q].owner)]_vars

(* A session keeps its window, and acts on no other agent's, but for what  *)
(* the claims overlook (main.rs:4455, interaction.rs:227, 435).            *)
SessionsKeepWindows == LeaseDroppedForCause /\ DeliveredWhileLeased
=============================================================================
