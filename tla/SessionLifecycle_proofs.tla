----------------------- MODULE SessionLifecycle_proofs -----------------------
(***************************************************************************)
(* Proofs about the concurrent session requests, for every set of requests,*)
(* sessions, windows and owners, every quota and every mix of request      *)
(* kinds: they use the two stores as their specifications say, and so      *)
(* inherit what is proved of the stores.                                   *)
(***************************************************************************)
EXTENDS SessionLifecycle, TLAPS

ISP == INSTANCE InteractionSessions_proofs
CSP == INSTANCE CaptureSessions_proofs

\* The steps of an open; before the backend has named its session; while
\* an exact session may still be without a lease; when it has its source.
Opening   == {"reserve", "backend", "opened", "record", "activeIds", "retain", "bind",
              "policy", "unwind", "unwindRecord"}
Unnamed   == {"idle", "reserve", "backend"}
Pinning   == {"opened", "record", "activeIds", "retain", "bind", "unwind"}
Recording == {"opened", "record"}
ExactOnly == {"activeIds", "retain", "bind", "policy", "unwind", "unwindRecord"}
\* The request has taken the capture of its session down.
Removed   == {"unwindRecord", "closeLease", "closeRecord", "closedLease", "closedRecord"}
Closing   == {"close", "closeLease", "closeRecord"}

\* What a request has in hand agrees with what the stores hold.
TaskOK(q) ==
    LET t == task[q]
    IN  /\ t.at \in Opening => /\ t.kind = "open"
                               /\ t.owner \in Owners /\ t.source \in CS!Sources
                               /\ CS!Exact(t.source) => t.identity \in Identities
        /\ t.at \in ExactOnly => CS!Exact(t.source)
        /\ t.at \notin Unnamed => t.session \in opened
        /\ pending[q] = IF t.at = "backend" THEN [source |-> t.source, owner |-> t.owner] ELSE None
        /\ t.at \in Opening \ Unnamed /\ t.session \in CS!Active =>
              /\ slots[t.session].source = t.source
              /\ slots[t.session].owner = t.owner
        /\ t.at \in Removed => t.session \notin CS!Active

PinnedBy(q, s)   == task[q].at \in Pinning /\ task[q].session = s
RecordedBy(q, s) == task[q].at \in Recording /\ task[q].session = s

Pinned ==
    \A s \in CS!Active :
        CS!Exact(slots[s].source) => s \in minted \/ \E q \in Requests : PinnedBy(q, s)
Recorded ==
    \A s \in CS!Active : s \in execution \/ \E q \in Requests : RecordedBy(q, s)

Typed ==
    /\ execution \subseteq opened
    /\ seatLease \in Requests \cup {None}
    /\ windows \in [Windows -> Identities \cup {None}]
    /\ task \in [Requests -> Task]
    /\ \A q \in Requests : seatLease = q <=> task[q].at \in Closing

(* The inductive invariant. *)
LifecycleInv ==
    /\ ISP!Inv
    /\ CSP!CaptureInv
    /\ Typed
    /\ minted \subseteq opened
    /\ \A q \in Requests : TaskOK(q)
    /\ Pinned
    /\ Recorded
    /\ LeaseMatchesCapture

-----------------------------------------------------------------------------
(* The two stores.                                                         *)

LEMMA StoreAssumptions ==
    /\ MaxAgentLanes \in Nat \ {0} /\ SessionTTL \in Nat \ {0} /\ MaxExact \in Nat \ {0}
    /\ ISP!IsFiniteSet(Owners)
    /\ Unbound \notin ISP!Lease
    /\ Chooser \notin Windows
    /\ None \notin CSP!Reservation /\ None \notin CSP!Slot
<1>1. ISP!IsFiniteSet(Owners)
  BY IdsAssumption DEF ISP!IsFiniteSet, IsFiniteSet
<1>2. Unbound \notin ISP!Lease
  BY IdsAssumption DEF ISP!Lease, IS!Lease
<1>3. None \notin CSP!Reservation /\ None \notin CSP!Slot
  BY IdsAssumption DEF CSP!Reservation, CS!Reservation, CSP!Slot, CS!Slot, CSP!Sources, CS!Sources
<1> QED BY <1>1, <1>2, <1>3, LimitsAssumption, IdsAssumption

LEMMA SameInteraction ==
    /\ IS!InitInteraction <=> ISP!InitInteraction
    /\ IS!interactionVars = ISP!interactionVars
    /\ IS!NextInteraction <=> ISP!NextInteraction
    /\ IS!TypeOK <=> ISP!TypeOK
    /\ IS!Bound = ISP!Bound
<1>1. IS!InitInteraction <=> ISP!InitInteraction
  BY DEF IS!InitInteraction, ISP!InitInteraction
<1>2. IS!interactionVars = ISP!interactionVars
  BY DEF IS!interactionVars, ISP!interactionVars
<1>3. IS!Bound = ISP!Bound
  BY DEF IS!Bound, ISP!Bound
<1>4. IS!TypeOK <=> ISP!TypeOK
  BY DEF IS!TypeOK, ISP!TypeOK, IS!Lease, ISP!Lease
<1>5. IS!NextInteraction <=> ISP!NextInteraction
  BY DEF IS!NextInteraction, ISP!NextInteraction, IS!Bind, ISP!Bind, IS!RejectBind, ISP!RejectBind,
         IS!Clear, ISP!Clear, IS!Renew, ISP!Renew, IS!RetainActive, ISP!RetainActive, IS!Age, ISP!Age,
         IS!Accepts, ISP!Accepts, IS!InUseByOther, ISP!InUseByOther,
         IS!LaneQuotaReached, ISP!LaneQuotaReached, IS!OwnersIn, ISP!OwnersIn,
         IS!LaneChoices, ISP!LaneChoices, IS!NewLease, ISP!NewLease, IS!AfterPurge, ISP!AfterPurge,
         IS!Live, ISP!Live, IS!Bound, ISP!Bound, IS!Cardinality, ISP!Cardinality
<1> QED BY <1>1, <1>2, <1>3, <1>4, <1>5

LEMMA SameCapture ==
    /\ CS!InitCapture <=> CSP!InitCapture
    /\ CS!captureVars = CSP!captureVars
    /\ CS!NextCapture <=> CSP!NextCapture
    /\ CS!CaptureTypeOK <=> CSP!CaptureTypeOK
    /\ CS!Active = CSP!Active
<1>1. CS!InitCapture <=> CSP!InitCapture
  BY DEF CS!InitCapture, CSP!InitCapture
<1>2. CS!captureVars = CSP!captureVars
  BY DEF CS!captureVars, CSP!captureVars
<1>3. CS!Active = CSP!Active
  BY DEF CS!Active, CSP!Active
<1>4. CS!CaptureTypeOK <=> CSP!CaptureTypeOK
  BY DEF CS!CaptureTypeOK, CSP!CaptureTypeOK, CS!Reservation, CSP!Reservation, CS!Slot, CSP!Slot,
         CS!Sources, CSP!Sources, CS!Active, CSP!Active
<1>5. CS!NextCapture <=> CSP!NextCapture
  BY DEF CS!NextCapture, CSP!NextCapture, CS!Reap, CSP!Reap, CS!BeginOpen, CSP!BeginOpen,
         CS!RefuseOpen, CSP!RefuseOpen, CS!FinishOpen, CSP!FinishOpen, CS!FailOpen, CSP!FailOpen,
         CS!RemoveSlot, CSP!RemoveSlot, CS!RenewCapture, CSP!RenewCapture,
         CS!BackendEnds, CSP!BackendEnds, CS!AgeCaptures, CSP!AgeCaptures,
         CS!MayOpen, CSP!MayOpen, CS!Held, CSP!Held, CS!ChooserBusy, CSP!ChooserBusy,
         CS!Reserved, CSP!Reserved, CS!Reaped, CSP!Reaped, CS!Alive, CSP!Alive, CS!Dead, CSP!Dead,
         CS!Active, CSP!Active, CS!Exact, CSP!Exact, CS!Sources, CSP!Sources,
         CS!Cardinality, CSP!Cardinality
<1> QED BY <1>1, <1>2, <1>3, <1>4, <1>5

-----------------------------------------------------------------------------
(* Every step of a request is a step of each store, or leaves it alone.    *)

LEMMA TaskFields ==
    ASSUME Typed, NEW q \in Requests
    PROVE  /\ task[q] \in Task /\ task[q].at \in Steps
           /\ task[q].session \in Sessions \cup {None} /\ task[q].active \in SUBSET Sessions
BY DEF Typed, Task

LEMMA CaptureStepsOf ==
    ASSUME LifecycleInv, [Next]_vars
    PROVE  [CS!NextCapture]_(CS!captureVars)
<1> DEFINE StoreStep == [CS!NextCapture]_(CS!captureVars)
<1>1. UNCHANGED captures => StoreStep
  BY DEF captures, CS!captureVars
<1>2. CS!Reap => StoreStep
  BY DEF CS!NextCapture
<1>3. ASSUME NEW s, CS!RemoveSlot(s)
      PROVE  StoreStep
  BY <1>3 DEF CS!NextCapture, CS!RemoveSlot, CS!Active
<1>4. ASSUME NEW q \in Requests, ReserveOpen(q)
      PROVE  StoreStep
  <2>1. task[q].owner \in Owners /\ task[q].source \in CS!Sources
    BY <1>4 DEF ReserveOpen, At, LifecycleInv, TaskOK, Opening
  <2> QED BY <1>4, <2>1 DEF ReserveOpen, CS!NextCapture
<1>5. ASSUME NEW q \in Requests, OpenBackend(q)
      PROVE  StoreStep
  BY <1>5 DEF OpenBackend, CS!NextCapture
<1>6. ASSUME NEW q \in Requests, RenewCapture(q)
      PROVE  StoreStep
  BY <1>2, <1>6 DEF RenewCapture, CS!NextCapture, CS!RenewCapture, CS!Alive, CS!Active
<1>7. ASSUME NEW q \in Requests, Open(q)
      PROVE  StoreStep
  BY <1>1, <1>2, <1>3, <1>4, <1>5, <1>7
     DEF Open, StatusOpened, RecordExecution, ReadActiveIds, RetainActive, BindTarget,
         RecordTargetPolicy, UnwindCapture, UnwindRecord
<1>8. ASSUME NEW q \in Requests, Close(q) \/ CloseWindow(q)
      PROVE  StoreStep
  BY <1>1, <1>2, <1>3, <1>8
     DEF Close, AcquireSeat, CloseCapture, CloseLease, CloseRecord, CloseWindow, CloseLive,
         CloseTarget, CloseExact, CloseWindowCapture, CloseWindowLease, CloseWindowRecord
<1>9. ASSUME NEW q \in Requests, Renew(q) \/ Act(q) \/ Status(q)
      PROVE  StoreStep
  BY <1>1, <1>2, <1>6, <1>9
     DEF Renew, RenewLive, CheckLive, RenewResolve, ResolveTarget, RenewInteraction, RenewLease,
         Act, ActLive, ActResolve, ActLiveAgain, Deliver, FailDelivery, RenewDelivered,
         Status, StatusBound, StatusResolve, StatusClear
<1>10. ASSUME NEW s \in Sessions, CaptureEnds(s)
       PROVE  StoreStep
  BY <1>10 DEF CaptureEnds, CS!NextCapture
<1>11. CASE TimePasses
  BY <1>11 DEF TimePasses, CS!NextCapture
<1>12. CASE UNCHANGED vars
  BY <1>1, <1>12 DEF vars, captures
<1>13. ASSUME NEW w \in Windows, WindowCloses(w) \/ WindowChangesIdentity(w)
       PROVE  StoreStep
  BY <1>1, <1>13 DEF WindowCloses, WindowChangesIdentity
<1>14. ASSUME NEW q \in Requests, NEW o \in Owners,
              \/ \E src \in CS!Sources : StartOpen(q, o, src)
              \/ \E s \in Sessions : StartClose(q, o, s) \/ StartRenew(q, o, s) \/ StartAct(q, o, s)
              \/ \E s \in Sessions, w \in Windows : StartCloseWindow(q, o, s, w)
              \/ StartStatus(q, o)
       PROVE  StoreStep
  BY <1>1, <1>2, <1>14
     DEF StartOpen, StartClose, StartRenew, StartAct, StartOwned, StartCloseWindow, StartStatus
<1> QED BY <1>7, <1>8, <1>9, <1>10, <1>11, <1>12, <1>13, <1>14 DEF Next

LEMMA InteractionStepsOf ==
    ASSUME LifecycleInv, [Next]_vars
    PROVE  [IS!NextInteraction]_(IS!interactionVars)
<1> DEFINE StoreStep == [IS!NextInteraction]_(IS!interactionVars)
<1>1. UNCHANGED leases => StoreStep
  BY DEF leases, IS!interactionVars
<1>2. ASSUME NEW q \in Requests, task[q].at \notin Unnamed
      PROVE  task[q].session \in Sessions
  BY <1>2, SameCapture DEF LifecycleInv, TaskOK, CSP!CaptureInv, CSP!CaptureTypeOK
<1>3. ASSUME NEW s \in Sessions, IS!Clear(s) \/ IS!Renew(s)
      PROVE  StoreStep
  BY <1>3 DEF IS!NextInteraction
<1>4. ASSUME NEW q \in Requests, RetainActive(q)
      PROVE  StoreStep
  BY <1>4, TaskFields DEF RetainActive, IS!NextInteraction, LifecycleInv
<1>5. ASSUME NEW q \in Requests, BindTarget(q)
      PROVE  StoreStep
  <2>1. /\ task[q].session \in Sessions /\ task[q].owner \in Owners
        /\ task[q].source \in Windows /\ task[q].identity \in Identities
    BY <1>2, <1>5 DEF BindTarget, At, LifecycleInv, TaskOK, Opening, ExactOnly, Unnamed, CS!Exact, CS!Sources
  <2> QED BY <1>1, <1>5, <2>1 DEF BindTarget, IS!NextInteraction
<1>6. ASSUME NEW q \in Requests, Open(q)
      PROVE  StoreStep
  BY <1>1, <1>4, <1>5, <1>6
     DEF Open, ReserveOpen, OpenBackend, StatusOpened, RecordExecution, ReadActiveIds,
         RecordTargetPolicy, UnwindCapture, UnwindRecord
<1>7. ASSUME NEW q \in Requests, Close(q) \/ CloseWindow(q)
      PROVE  StoreStep
  BY <1>1, <1>2, <1>3, <1>7
     DEF Close, AcquireSeat, CloseCapture, CloseLease, CloseRecord, CloseWindow, CloseLive,
         CloseTarget, CloseExact, CloseWindowCapture, CloseWindowLease, CloseWindowRecord,
         At, Unnamed
<1>8. ASSUME NEW q \in Requests, Renew(q)
      PROVE  StoreStep
  BY <1>1, <1>2, <1>3, <1>8
     DEF Renew, RenewLive, CheckLive, RenewResolve, ResolveTarget, RenewInteraction, RenewLease,
         RenewCapture, At, Unnamed
<1>9. ASSUME NEW q \in Requests, Act(q) \/ Status(q)
      PROVE  StoreStep
  BY <1>1, <1>2, <1>3, <1>9
     DEF Act, ActLive, CheckLive, ActResolve, ResolveTarget, ActLiveAgain, Deliver, FailDelivery,
         RenewDelivered, Status, StatusBound, StatusResolve, StatusClear, At, Unnamed
<1>10. CASE TimePasses
  BY <1>10 DEF TimePasses, IS!NextInteraction
<1>11. CASE UNCHANGED vars
  BY <1>1, <1>11 DEF vars, leases
<1>12. ASSUME NEW w \in Windows, WindowCloses(w) \/ WindowChangesIdentity(w)
       PROVE  StoreStep
  BY <1>1, <1>12 DEF WindowCloses, WindowChangesIdentity
<1>13. ASSUME NEW s \in Sessions, CaptureEnds(s)
       PROVE  StoreStep
  BY <1>1, <1>13 DEF CaptureEnds
<1>14. ASSUME NEW q \in Requests, NEW o \in Owners,
              \/ \E src \in CS!Sources : StartOpen(q, o, src)
              \/ \E s \in Sessions : StartClose(q, o, s) \/ StartRenew(q, o, s) \/ StartAct(q, o, s)
              \/ \E s \in Sessions, w \in Windows : StartCloseWindow(q, o, s, w)
              \/ StartStatus(q, o)
       PROVE  StoreStep
  BY <1>1, <1>14
     DEF StartOpen, StartClose, StartRenew, StartAct, StartOwned, StartCloseWindow, StartStatus
<1> QED BY <1>6, <1>7, <1>8, <1>9, <1>10, <1>11, <1>12, <1>13, <1>14 DEF Next

(* What the steps of the stores mean for what the requests have in hand.   *)
LEMMA StoreFacts ==
    ASSUME LifecycleInv, [Next]_vars
    PROVE  /\ ISP!Inv' /\ CSP!CaptureInv'
           /\ minted \subseteq minted' /\ opened \subseteq opened'
           /\ \A s \in IS!Bound' : s \in IS!Bound => /\ interaction'[s].window = interaction[s].window
                                                 /\ interaction'[s].owner = interaction[s].owner
           /\ \A s \in CS!Active' : s \in opened' /\ (s \in CS!Active \/ s \notin opened)
           /\ \A s \in CS!Active' : s \in CS!Active => /\ slots'[s].source = slots[s].source
                                                   /\ slots'[s].owner = slots[s].owner
<1>1. [ISP!NextInteraction]_(ISP!interactionVars)
  BY InteractionStepsOf, SameInteraction DEF IS!interactionVars, ISP!interactionVars
<1>2. [CSP!NextCapture]_(CSP!captureVars)
  BY CaptureStepsOf, SameCapture DEF CS!captureVars, CSP!captureVars
<1>3. ISP!Inv /\ CSP!CaptureInv /\ CSP!CaptureTypeOK
  BY DEF LifecycleInv, CSP!CaptureInv
<1>4. ISP!Inv'
  BY <1>1, <1>3, StoreAssumptions, ISP!NextInv
<1>5. CSP!CaptureInv'
  BY <1>2, <1>3, StoreAssumptions, CSP!CaptureStep
<1>6. /\ minted \subseteq minted'
      /\ \A s \in ISP!Bound' : s \in ISP!Bound => /\ interaction'[s].window = interaction[s].window
                                              /\ interaction'[s].owner = interaction[s].owner
  BY <1>1, <1>3, StoreAssumptions, ISP!LeasesKept
<1>7. /\ opened \subseteq opened'
      /\ \A s \in CSP!Active' : s \in CSP!Active \/ s \notin opened
  BY <1>2, <1>3, StoreAssumptions, CSP!SlotsAreFresh
<1>8. CSP!KeepsSources
  BY <1>2, <1>3, StoreAssumptions, CSP!SourcesKept
<1>9. /\ IS!Bound = ISP!Bound /\ IS!Bound' = ISP!Bound'
      /\ CS!Active = CSP!Active /\ CS!Active' = CSP!Active'
  BY DEF IS!Bound, ISP!Bound, CS!Active, CSP!Active
<1>10. \A s \in CS!Active' : s \in CS!Active => /\ slots'[s].source = slots[s].source
                                           /\ slots'[s].owner = slots[s].owner
  BY <1>8 DEF CSP!KeepsSources, CS!Active
<1>11. CSP!Active' \subseteq opened'
  BY <1>5 DEF CSP!CaptureInv, CSP!CaptureTypeOK
<1> QED BY <1>4, <1>5, <1>6, <1>7, <1>9, <1>10, <1>11

-----------------------------------------------------------------------------
(* One request makes a step, the others stay where they are: what has to   *)
(* be shown of the step, beside what the stores do.                        *)

TasksStep(q) ==
    /\ task' \in [Requests -> Task]
    /\ \A r \in Requests : r # q => task'[r] = task[r] /\ pending'[r] = pending[r]
    /\ TaskOK(q)'
ClosingStep ==
    /\ seatLease' \in Requests \cup {None}
    /\ \A r \in Requests : seatLease' = r <=> task'[r].at \in Closing
\* A session that q was to pin, or to record, by now is, or is gone, or q still has to.
PinningStep(q) ==
    \A s \in CS!Active' :
        /\ s \notin CS!Active => PinnedBy(q, s)'
        /\ PinnedBy(q, s) /\ CS!Exact(slots'[s].source) => PinnedBy(q, s)' \/ s \in minted'
RecordingStep(q) ==
    \A s \in CS!Active' :
        /\ s \notin CS!Active => RecordedBy(q, s)'
        /\ RecordedBy(q, s) \/ s \in execution => RecordedBy(q, s)' \/ s \in execution'
\* A new lease is for the owner and the window of its capture.
BindingStep ==
    /\ minted' \subseteq opened'
    /\ \A s \in IS!Bound' \cap CS!Active' :
          s \notin IS!Bound => /\ interaction'[s].owner = slots'[s].owner
                              /\ interaction'[s].window = slots'[s].source

LEMMA MatchKept ==
    ASSUME LifecycleInv, [Next]_vars, BindingStep
    PROVE  LeaseMatchesCapture'
<1> SUFFICES ASSUME NEW s \in IS!Bound' \cap CS!Active'
             PROVE  /\ interaction'[s].owner = slots'[s].owner
                    /\ interaction'[s].window = slots'[s].source
  BY DEF LeaseMatchesCapture
<1>1. CASE s \in IS!Bound
  <2>1. s \in opened
    BY <1>1, SameInteraction DEF LifecycleInv, ISP!Inv, ISP!LanesMinted
  <2>2. s \in CS!Active
    BY <2>1, StoreFacts
  <2> QED BY <1>1, <2>2, StoreFacts DEF LifecycleInv, LeaseMatchesCapture
<1>2. CASE s \notin IS!Bound
  BY <1>2 DEF BindingStep
<1> QED BY <1>1, <1>2

(* A request that makes no step keeps what it has in hand.                 *)
LEMMA TaskKept ==
    ASSUME LifecycleInv, [Next]_vars, NEW r \in Requests,
           task'[r] = task[r], pending'[r] = pending[r]
    PROVE  TaskOK(r)'
<1>1. TaskOK(r)
  BY DEF LifecycleInv
<1>2. task[r].at \notin Unnamed => task[r].session \in opened /\ task[r].session \in opened'
  BY <1>1, StoreFacts DEF TaskOK
<1>3. ASSUME task[r].at \notin Unnamed, task[r].session \in CS!Active'
      PROVE  /\ task[r].session \in CS!Active
             /\ slots'[task[r].session].source = slots[task[r].session].source
             /\ slots'[task[r].session].owner = slots[task[r].session].owner
  BY <1>2, <1>3, StoreFacts
<1>4. Removed \cap Unnamed = {}
  BY DEF Removed, Unnamed
<1> QED BY <1>1, <1>2, <1>3, <1>4 DEF TaskOK, CS!Exact

LEMMA RequestStep ==
    ASSUME LifecycleInv, [Next]_vars, NEW q \in Requests,
           TasksStep(q), ClosingStep, PinningStep(q), RecordingStep(q), BindingStep,
           execution' \subseteq opened', windows' \in [Windows -> Identities \cup {None}]
    PROVE  LifecycleInv'
<1>1. Typed'
  BY DEF Typed, TasksStep, ClosingStep
<1>2. \A r \in Requests : TaskOK(r)'
  BY TaskKept DEF TasksStep
<1>3. ASSUME NEW s \in CS!Active', CS!Exact(slots'[s].source)
      PROVE  s \in minted' \/ \E r \in Requests : PinnedBy(r, s)'
  <2>1. CASE s \notin CS!Active
    BY <2>1 DEF PinningStep
  <2>2. CASE s \in CS!Active
    <3>1. CS!Exact(slots[s].source)
      BY <1>3, <2>2, StoreFacts DEF CS!Exact
    <3>2. CASE s \in minted
      BY <3>2, StoreFacts
    <3>3. ASSUME NEW r \in Requests, PinnedBy(r, s)
          PROVE  s \in minted' \/ \E p \in Requests : PinnedBy(p, s)'
      BY <1>3, <3>3 DEF PinningStep, TasksStep, PinnedBy
    <3> QED BY <2>2, <3>1, <3>2, <3>3 DEF LifecycleInv, Pinned
  <2> QED BY <2>1, <2>2
<1>4. Pinned'
  BY <1>3 DEF Pinned, CS!Exact
<1>5. ASSUME NEW s \in CS!Active'
      PROVE  s \in execution' \/ \E r \in Requests : RecordedBy(r, s)'
  <2>1. CASE s \notin CS!Active
    BY <2>1 DEF RecordingStep
  <2>2. CASE s \in execution
    BY <2>2 DEF RecordingStep
  <2>3. ASSUME NEW r \in Requests, RecordedBy(r, s)
        PROVE  s \in execution' \/ \E p \in Requests : RecordedBy(p, s)'
    BY <2>3 DEF RecordingStep, TasksStep, RecordedBy
  <2> QED BY <2>1, <2>2, <2>3 DEF LifecycleInv, Recorded
<1>6. Recorded'
  BY <1>5 DEF Recorded
<1>7. LeaseMatchesCapture'
  BY MatchKept
<1>8. minted' \subseteq opened'
  BY DEF BindingStep
<1> QED BY <1>1, <1>2, <1>4, <1>6, <1>7, <1>8, StoreFacts DEF LifecycleInv

(* The world moves, and no request.                                        *)
LEMMA WorldStep ==
    ASSUME LifecycleInv, [Next]_vars,
           UNCHANGED <<task, pending, opened, execution, seatLease, minted>>,
           IS!Bound' \subseteq IS!Bound,
           windows' \in [Windows -> Identities \cup {None}]
    PROVE  LifecycleInv'
<1>1. Typed'
  BY DEF Typed, LifecycleInv
<1>2. \A r \in Requests : TaskOK(r)'
  BY TaskKept
<1>3. CS!Active' \subseteq CS!Active
  BY StoreFacts
<1>4. Recorded'
  BY <1>3 DEF LifecycleInv, Recorded, RecordedBy
<1>5. Pinned'
  BY <1>3, StoreFacts DEF LifecycleInv, Pinned, PinnedBy, CS!Exact
<1>6. LeaseMatchesCapture'
  BY MatchKept DEF LifecycleInv, BindingStep
<1> QED BY <1>1, <1>2, <1>4, <1>5, <1>6, StoreFacts DEF LifecycleInv

(* A request moves on, and neither takes a slot nor grants a lease.        *)
LEMMA QuietStep ==
    ASSUME LifecycleInv, [Next]_vars, NEW q \in Requests,
           TasksStep(q), ClosingStep,
           UNCHANGED <<opened, execution, minted>>,
           IS!Bound' \subseteq IS!Bound,
           windows' \in [Windows -> Identities \cup {None}],
           \A s \in CS!Active' : /\ PinnedBy(q, s) => PinnedBy(q, s)'
                                 /\ RecordedBy(q, s) => RecordedBy(q, s)'
    PROVE  LifecycleInv'
<1>1. CS!Active' \subseteq CS!Active
  BY StoreFacts
<1>2. PinningStep(q) /\ RecordingStep(q)
  BY <1>1 DEF PinningStep, RecordingStep
<1>3. BindingStep /\ execution' \subseteq opened'
  BY DEF BindingStep, LifecycleInv, Typed
<1> QED BY <1>2, <1>3, RequestStep

LEMMA MovesTo ==
    ASSUME Typed, NEW q \in Requests, NEW step \in Steps, Moves(q, step)
    PROVE  /\ task' \in [Requests -> Task]
           /\ \A r \in Requests : r # q => task'[r] = task[r]
           /\ task'[q].at = step /\ task'[q].kind = task[q].kind
           /\ task'[q].owner = task[q].owner /\ task'[q].source = task[q].source
           /\ task'[q].identity = task[q].identity /\ task'[q].session = task[q].session
<1> DEFINE t == [task[q] EXCEPT !.at = step]
<1>1. task[q] \in Task
  BY DEF Typed
<1>2. /\ t \in Task /\ t.at = step /\ t.kind = task[q].kind /\ t.owner = task[q].owner
      /\ t.source = task[q].source /\ t.identity = task[q].identity /\ t.session = task[q].session
  BY <1>1 DEF Task
<1>3. task' = [task EXCEPT ![q] = t]
  BY DEF Moves
<1> QED BY <1>2, <1>3 DEF Typed

LEMMA EndsAt ==
    ASSUME Typed, NEW q \in Requests, Ends(q)
    PROVE  /\ task' \in [Requests -> Task]
           /\ \A r \in Requests : r # q => task'[r] = task[r]
           /\ task'[q].at = "idle"
<1>1. Idle \in Task /\ Idle.at = "idle"
  BY DEF Idle, Task, Steps
<1> QED BY <1>1 DEF Ends, Typed

(* A request that is over has nothing in hand.                             *)
LEMMA EndStep ==
    ASSUME LifecycleInv, [Next]_vars, NEW q \in Requests, Ends(q),
           UNCHANGED <<pending, opened, execution, minted, windows>>,
           task[q].at # "backend",
           seatLease' = IF task[q].at \in Closing THEN None ELSE seatLease,
           IS!Bound' \subseteq IS!Bound,
           \A s \in CS!Active' : ~PinnedBy(q, s) /\ ~RecordedBy(q, s)
    PROVE  LifecycleInv'
<1>1. /\ task' \in [Requests -> Task]
      /\ \A r \in Requests : r # q => task'[r] = task[r]
      /\ task'[q].at = "idle"
  BY EndsAt DEF LifecycleInv
<1>2. pending[q] = None
  BY DEF LifecycleInv, TaskOK
<1>3. TasksStep(q)
  BY <1>1, <1>2 DEF TasksStep, TaskOK, Opening, ExactOnly, Unnamed, Removed
<1>4. ClosingStep
  BY <1>1, IdsAssumption DEF ClosingStep, LifecycleInv, Typed, Closing
<1> QED BY <1>3, <1>4, QuietStep DEF LifecycleInv, Typed

-----------------------------------------------------------------------------
(* capture_open.                                                           *)

LEMMA StartOpenStep ==
    ASSUME LifecycleInv, [Next]_vars, NEW q \in Requests, NEW o \in Owners, NEW src \in CS!Sources,
           StartOpen(q, o, src)
    PROVE  LifecycleInv'
<1> DEFINE i == IF CS!Exact(src) THEN windows[src] ELSE None
           t == [Idle EXCEPT !.kind = "open", !.at = "reserve", !.owner = o, !.source = src, !.identity = i]
<1>1. task' = [task EXCEPT ![q] = t]
  BY DEF StartOpen
<1>2. i \in Identities \cup {None} /\ (CS!Exact(src) => i \in Identities)
  BY DEF StartOpen, LifecycleInv, Typed, CS!Sources, CS!Exact
<1>3. /\ t \in Task /\ t.kind = "open" /\ t.at = "reserve" /\ t.owner = o /\ t.source = src
      /\ t.identity = i
  <2>1. Idle \in Task
    BY DEF Idle, Task, Steps
  <2> QED BY <1>2, <2>1 DEF Task, Steps
<1> HIDE DEF t
<1>4. TasksStep(q)
  <2>1. task' \in [Requests -> Task] /\ task'[q] = t /\ \A r \in Requests : r # q => task'[r] = task[r]
    BY <1>1, <1>3 DEF LifecycleInv, Typed
  <2>2. pending'[q] = None /\ pending' = pending
    BY DEF StartOpen, captures, At, LifecycleInv, TaskOK
  <2> QED BY <1>2, <1>3, <2>1, <2>2 DEF TasksStep, TaskOK, Opening, ExactOnly, Unnamed, Removed
<1>5. ClosingStep
  BY <1>1, <1>3, <1>4 DEF TasksStep, ClosingStep, StartOpen, At, LifecycleInv, Typed, Closing
<1>6. QED
  BY <1>4, <1>5, QuietStep
     DEF StartOpen, captures, leases, At, LifecycleInv, Typed, PinnedBy, RecordedBy, Pinning,
         Recording, IS!Bound

LEMMA ReserveStep ==
    ASSUME LifecycleInv, [Next]_vars, NEW q \in Requests, ReserveOpen(q)
    PROVE  LifecycleInv'
<1>1. CASE CS!RefuseOpen(task[q].owner, task[q].source) /\ Ends(q)
  BY <1>1, EndStep DEF ReserveOpen, CS!RefuseOpen, CS!Reap, leases, At, IS!Bound, PinnedBy,
                       RecordedBy, Pinning, Recording, Closing
<1>2. CASE CS!BeginOpen(q, task[q].owner, task[q].source) /\ Moves(q, "backend")
  <2>1. /\ task' \in [Requests -> Task] /\ \A r \in Requests : r # q => task'[r] = task[r]
        /\ task'[q].at = "backend" /\ task'[q].kind = task[q].kind
        /\ task'[q].owner = task[q].owner /\ task'[q].source = task[q].source
        /\ task'[q].identity = task[q].identity
    BY <1>2, MovesTo DEF LifecycleInv, Steps
  <2>2. /\ pending'[q] = [source |-> task[q].source, owner |-> task[q].owner]
        /\ \A r \in Requests : r # q => pending'[r] = pending[r]
    BY <1>2, SameCapture DEF CS!BeginOpen, LifecycleInv, CSP!CaptureInv, CSP!CaptureTypeOK
  <2>3. TaskOK(q)
    BY DEF LifecycleInv
  <2>4. TasksStep(q)
    BY <2>1, <2>2, <2>3
       DEF TasksStep, TaskOK, ReserveOpen, At, Opening, ExactOnly, Unnamed, Removed, CS!Exact, CS!Sources
  <2>5. ClosingStep
    BY <2>1 DEF ReserveOpen, At, ClosingStep, LifecycleInv, Typed, Closing
  <2> QED BY <1>2, <2>4, <2>5, QuietStep
          DEF ReserveOpen, CS!BeginOpen, leases, At, LifecycleInv, Typed, PinnedBy, RecordedBy,
              Pinning, Recording, IS!Bound
<1> QED BY <1>1, <1>2 DEF ReserveOpen

LEMMA BackendStep ==
    ASSUME LifecycleInv, [Next]_vars, NEW q \in Requests, OpenBackend(q)
    PROVE  LifecycleInv'
<1>1. pending \in [Requests -> CSP!Reservation \cup {None}] /\ slots \in [Sessions -> CSP!Slot \cup {None}]
  BY DEF LifecycleInv, CSP!CaptureInv, CSP!CaptureTypeOK
<1>2. At(q, "backend") /\ UNCHANGED <<leases, execution, seatLease, windows>> /\ TaskOK(q)
  BY DEF OpenBackend, LifecycleInv
<1>3. ASSUME CS!FailOpen(q), Ends(q)
      PROVE  LifecycleInv'
  <2>1. /\ task' \in [Requests -> Task] /\ \A r \in Requests : r # q => task'[r] = task[r]
        /\ task'[q].at = "idle"
    BY <1>3, EndsAt DEF LifecycleInv
  <2>2. pending'[q] = None /\ \A r \in Requests : r # q => pending'[r] = pending[r]
    BY <1>1, <1>3 DEF CS!FailOpen
  <2>3. TasksStep(q)
    BY <2>1, <2>2 DEF TasksStep, TaskOK, Opening, ExactOnly, Unnamed, Removed
  <2>4. ClosingStep
    BY <1>2, <2>1 DEF At, ClosingStep, LifecycleInv, Typed, Closing
  <2> QED BY <1>2, <1>3, <2>3, <2>4, QuietStep
          DEF CS!FailOpen, leases, At, LifecycleInv, Typed, PinnedBy, RecordedBy, Pinning,
              Recording, IS!Bound
<1>4. ASSUME NEW s \in Sessions, CS!FinishOpen(q, s),
             task' = [task EXCEPT ![q].at = "opened", ![q].session = s]
      PROVE  LifecycleInv'
  <2> DEFINE t == [task[q] EXCEPT !.at = "opened", !.session = s]
  <2>1. task[q] \in Task
    BY DEF LifecycleInv, Typed
  <2>2. /\ t \in Task /\ t.at = "opened" /\ t.session = s /\ t.kind = task[q].kind
        /\ t.owner = task[q].owner /\ t.source = task[q].source /\ t.identity = task[q].identity
    BY <2>1 DEF Task, Steps
  <2>3. task' = [task EXCEPT ![q] = t]
    BY <1>4, <2>1 DEF Task
  <2>4. task' \in [Requests -> Task] /\ task'[q] = t /\ \A r \in Requests : r # q => task'[r] = task[r]
    BY <2>2, <2>3 DEF LifecycleInv, Typed
  <2>5. pending'[q] = None /\ \A r \in Requests : r # q => pending'[r] = pending[r]
    BY <1>1, <1>4 DEF CS!FinishOpen
  <2>6. slots'[s].source = task[q].source /\ slots'[s].owner = task[q].owner
    BY <1>1, <1>2, <1>4 DEF CS!FinishOpen, TaskOK, At
  <2>7. TasksStep(q)
    BY <1>2, <1>4, <2>2, <2>4, <2>5, <2>6
       DEF TasksStep, TaskOK, At, Opening, ExactOnly, Unnamed, Removed, CS!FinishOpen, CS!Exact, CS!Sources
  <2>8. ClosingStep
    BY <1>2, <2>2, <2>4 DEF At, ClosingStep, LifecycleInv, Typed, Closing
  <2>9. CS!Active' \subseteq CS!Active \cup {s} /\ PinnedBy(q, s)' /\ RecordedBy(q, s)'
    BY <1>1, <1>4, <2>2, <2>4 DEF CS!FinishOpen, CS!Active, PinnedBy, RecordedBy, Pinning, Recording
  <2>10. PinningStep(q) /\ RecordingStep(q)
    BY <1>2, <2>9 DEF PinningStep, RecordingStep, PinnedBy, RecordedBy, At, Pinning, Recording
  <2>11. BindingStep /\ execution' \subseteq opened'
    BY <1>2, StoreFacts DEF BindingStep, leases, LifecycleInv, Typed, IS!Bound
  <2>12. windows' \in [Windows -> Identities \cup {None}]
    BY <1>2 DEF LifecycleInv, Typed
  <2> QED BY <2>7, <2>8, <2>10, <2>11, <2>12, RequestStep
<1> QED BY <1>3, <1>4 DEF OpenBackend

LEMMA StatusOpenedStep ==
    ASSUME LifecycleInv, [Next]_vars, NEW q \in Requests, StatusOpened(q)
    PROVE  LifecycleInv'
<1>1. UNCHANGED <<pending, opened, execution, minted, windows, seatLease>> /\ IS!Bound' = IS!Bound
  BY DEF StatusOpened, CS!Reap, leases, IS!Bound
<1>2. CS!Active' \subseteq CS!Alive
  BY DEF StatusOpened, CS!Reap, CS!Reaped, CS!Active
<1>3. CASE task[q].session \in CS!Alive /\ Moves(q, "record")
  <2>1. /\ task' \in [Requests -> Task] /\ \A r \in Requests : r # q => task'[r] = task[r]
        /\ task'[q].at = "record" /\ task'[q].kind = task[q].kind
        /\ task'[q].owner = task[q].owner /\ task'[q].source = task[q].source
        /\ task'[q].identity = task[q].identity /\ task'[q].session = task[q].session
    BY <1>3, MovesTo DEF LifecycleInv, Steps
  <2>2. TaskOK(q)
    BY DEF LifecycleInv
  <2>3. TasksStep(q)
    BY <1>1, <2>1, <2>2, StoreFacts
       DEF TasksStep, TaskOK, StatusOpened, At, Opening, ExactOnly, Unnamed, Removed, CS!Exact
  <2>4. ClosingStep
    BY <1>1, <2>1 DEF ClosingStep, StatusOpened, At, LifecycleInv, Typed, Closing
  <2> QED BY <1>1, <2>1, <2>3, <2>4, QuietStep
          DEF LifecycleInv, Typed, PinnedBy, RecordedBy, Pinning, Recording
<1>4. CASE task[q].session \notin CS!Alive /\ Ends(q)
  BY <1>1, <1>2, <1>4, EndStep DEF StatusOpened, At, PinnedBy, RecordedBy, Closing
<1> QED BY <1>3, <1>4 DEF StatusOpened

LEMMA RecordStep ==
    ASSUME LifecycleInv, [Next]_vars, NEW q \in Requests, RecordExecution(q)
    PROVE  LifecycleInv'
<1> DEFINE s == task[q].session
<1>1. /\ UNCHANGED <<minted, interaction, pending, slots, opened, ended, windows, seatLease>>
      /\ execution' = execution \cup {s} /\ task[q].at = "record" /\ TaskOK(q)
  BY DEF RecordExecution, leases, captures, At, LifecycleInv
<1>2. CS!Active' = CS!Active /\ IS!Bound' = IS!Bound
  BY <1>1 DEF CS!Active, IS!Bound
<1>3. CASE CS!Exact(task[q].source) /\ Moves(q, "activeIds")
  <2>1. /\ task' \in [Requests -> Task] /\ \A r \in Requests : r # q => task'[r] = task[r]
        /\ task'[q].at = "activeIds" /\ task'[q].kind = task[q].kind
        /\ task'[q].owner = task[q].owner /\ task'[q].source = task[q].source
        /\ task'[q].identity = task[q].identity /\ task'[q].session = task[q].session
    BY <1>3, MovesTo DEF LifecycleInv, Steps
  <2>2. TasksStep(q)
    BY <1>1, <1>2, <1>3, <2>1
       DEF TasksStep, TaskOK, Opening, ExactOnly, Unnamed, Removed, CS!Exact
  <2>3. ClosingStep
    BY <1>1, <2>1 DEF ClosingStep, LifecycleInv, Typed, Closing
  <2>4. PinningStep(q) /\ RecordingStep(q)
    BY <1>1, <1>2, <2>1 DEF PinningStep, RecordingStep, PinnedBy, RecordedBy, Pinning, Recording
  <2>5. BindingStep /\ execution' \subseteq opened'
    BY <1>1, <1>2 DEF BindingStep, LifecycleInv, Typed, TaskOK, Unnamed
  <2> QED BY <1>1, <2>2, <2>3, <2>4, <2>5, RequestStep DEF LifecycleInv, Typed
\* A capture the user chose is not pinned to a window.
<1>4. CASE ~CS!Exact(task[q].source) /\ Ends(q)
  <2>1. /\ task' \in [Requests -> Task] /\ \A r \in Requests : r # q => task'[r] = task[r]
        /\ task'[q].at = "idle"
    BY <1>4, EndsAt DEF LifecycleInv
  <2>2. TasksStep(q)
    BY <1>1, <2>1 DEF TasksStep, TaskOK, Opening, ExactOnly, Unnamed, Removed
  <2>3. ClosingStep
    BY <1>1, <2>1 DEF ClosingStep, LifecycleInv, Typed, Closing
  <2>4. PinningStep(q) /\ RecordingStep(q)
    BY <1>1, <1>2, <1>4, <2>1
       DEF PinningStep, RecordingStep, PinnedBy, RecordedBy, Pinning, Recording, TaskOK, Opening,
           Unnamed, CS!Exact
  <2>5. BindingStep /\ execution' \subseteq opened'
    BY <1>1, <1>2 DEF BindingStep, LifecycleInv, Typed, TaskOK, Unnamed
  <2> QED BY <1>1, <2>2, <2>3, <2>4, <2>5, RequestStep DEF LifecycleInv, Typed
<1> QED BY <1>3, <1>4 DEF RecordExecution

LEMMA ActiveIdsStep ==
    ASSUME LifecycleInv, [Next]_vars, NEW q \in Requests, ReadActiveIds(q)
    PROVE  LifecycleInv'
<1> DEFINE t == [task[q] EXCEPT !.at = "retain", !.active = CS!Alive]
<1>1. task[q] \in Task /\ CS!Alive \in SUBSET Sessions
  BY DEF LifecycleInv, Typed, CS!Alive, CS!Active
<1>2. /\ t \in Task /\ t.at = "retain" /\ t.session = task[q].session /\ t.kind = task[q].kind
      /\ t.owner = task[q].owner /\ t.source = task[q].source /\ t.identity = task[q].identity
  BY <1>1 DEF Task, Steps
<1>3. task' = [task EXCEPT ![q] = t]
  BY <1>1 DEF ReadActiveIds, Task
<1>4. task' \in [Requests -> Task] /\ task'[q] = t /\ \A r \in Requests : r # q => task'[r] = task[r]
  BY <1>2, <1>3 DEF LifecycleInv, Typed
<1>5. UNCHANGED <<pending, opened, execution, minted, windows, seatLease>> /\ IS!Bound' = IS!Bound
  BY DEF ReadActiveIds, CS!Reap, leases, IS!Bound
<1>6. TaskOK(q) /\ task[q].at = "activeIds"
  BY DEF LifecycleInv, ReadActiveIds, At
<1>7. TasksStep(q)
  BY <1>2, <1>4, <1>5, <1>6, StoreFacts DEF TasksStep, TaskOK, Opening, ExactOnly, Unnamed, Removed, CS!Exact
<1>8. ClosingStep
  BY <1>2, <1>4, <1>5, <1>6 DEF ClosingStep, LifecycleInv, Typed, Closing
<1> QED BY <1>2, <1>4, <1>5, <1>6, <1>7, <1>8, QuietStep
        DEF LifecycleInv, Typed, PinnedBy, RecordedBy, Pinning, Recording

LEMMA RetainActiveStep ==
    ASSUME LifecycleInv, [Next]_vars, NEW q \in Requests, RetainActive(q)
    PROVE  LifecycleInv'
<1> DEFINE t == [task[q] EXCEPT !.at = "bind", !.active = {}]
<1>1. task[q] \in Task
  BY DEF LifecycleInv, Typed
<1>2. /\ t \in Task /\ t.at = "bind" /\ t.session = task[q].session /\ t.kind = task[q].kind
      /\ t.owner = task[q].owner /\ t.source = task[q].source /\ t.identity = task[q].identity
  BY <1>1 DEF Task, Steps
<1>3. task' = [task EXCEPT ![q] = t]
  BY <1>1 DEF RetainActive, Task
<1>4. task' \in [Requests -> Task] /\ task'[q] = t /\ \A r \in Requests : r # q => task'[r] = task[r]
  BY <1>2, <1>3 DEF LifecycleInv, Typed
<1>5. /\ UNCHANGED <<pending, slots, opened, execution, minted, windows, seatLease>>
      /\ IS!Bound' \subseteq IS!Bound
  BY DEF RetainActive, captures, IS!RetainActive, IS!Bound
<1>6. TaskOK(q) /\ task[q].at = "retain" /\ CS!Active' = CS!Active
  BY <1>5 DEF LifecycleInv, RetainActive, At, CS!Active
<1>7. TasksStep(q)
  BY <1>2, <1>4, <1>5, <1>6 DEF TasksStep, TaskOK, Opening, ExactOnly, Unnamed, Removed, CS!Exact
<1>8. ClosingStep
  BY <1>2, <1>4, <1>5, <1>6 DEF ClosingStep, LifecycleInv, Typed, Closing
<1> QED BY <1>2, <1>4, <1>5, <1>6, <1>7, <1>8, QuietStep
        DEF LifecycleInv, Typed, PinnedBy, RecordedBy, Pinning, Recording

LEMMA BindTargetStep ==
    ASSUME LifecycleInv, [Next]_vars, NEW q \in Requests, BindTarget(q)
    PROVE  LifecycleInv'
<1> DEFINE s == task[q].session
<1>1. /\ UNCHANGED <<pending, slots, opened, ended, execution, windows, seatLease>>
      /\ task[q].at = "bind" /\ TaskOK(q)
  BY DEF BindTarget, captures, At, LifecycleInv
<1>2. CS!Active' = CS!Active /\ s \in opened
  BY <1>1 DEF CS!Active, TaskOK, Unnamed
<1>3. ASSUME NEW step \in {"policy", "unwind"}, Moves(q, step)
      PROVE  /\ TasksStep(q) /\ ClosingStep
             /\ task'[q].at = step /\ task'[q].session = s
  <2>1. /\ task' \in [Requests -> Task] /\ \A r \in Requests : r # q => task'[r] = task[r]
        /\ task'[q].at = step /\ task'[q].kind = task[q].kind
        /\ task'[q].owner = task[q].owner /\ task'[q].source = task[q].source
        /\ task'[q].identity = task[q].identity /\ task'[q].session = task[q].session
    BY <1>3, MovesTo DEF LifecycleInv, Steps
  <2>2. TasksStep(q)
    BY <1>1, <1>2, <2>1
       DEF TasksStep, TaskOK, Opening, ExactOnly, Unnamed, Removed, CS!Exact
  <2>3. ClosingStep
    BY <1>1, <2>1 DEF ClosingStep, LifecycleInv, Typed, Closing
  <2> QED BY <2>1, <2>2, <2>3
<1>4. CASE IS!Bind(s, task[q].source, task[q].identity, task[q].owner) /\ Moves(q, "policy")
  <2>1. TasksStep(q) /\ ClosingStep /\ task'[q].at = "policy" /\ task'[q].session = s
    BY <1>3, <1>4
  <2>2. minted' = minted \cup {s} /\ IS!Bound' \subseteq IS!Bound \cup {s}
    BY <1>4 DEF IS!Bind, IS!Bound, IS!AfterPurge
  <2>3. s \in Sessions
    BY <1>2 DEF LifecycleInv, CSP!CaptureInv, CSP!CaptureTypeOK
  <2>4. interaction'[s].window = task[q].source /\ interaction'[s].owner = task[q].owner
    BY <1>4, <2>3 DEF IS!Bind, IS!NewLease
  <2>5. BindingStep /\ execution' \subseteq opened'
    BY <1>1, <1>2, <2>2, <2>4 DEF BindingStep, LifecycleInv, Typed, TaskOK, Opening, Unnamed
  <2>6. PinningStep(q) /\ RecordingStep(q)
    BY <1>1, <1>2, <2>2 DEF PinningStep, RecordingStep, PinnedBy, RecordedBy, Recording
  <2> QED BY <1>1, <2>1, <2>5, <2>6, RequestStep DEF LifecycleInv, Typed
<1>5. CASE /\ IS!RejectBind(task[q].source, task[q].owner) \/ UNCHANGED leases
           /\ Moves(q, "unwind")
  <2>1. TasksStep(q) /\ ClosingStep /\ task'[q].at = "unwind" /\ task'[q].session = s
    BY <1>3, <1>5
  <2>2. minted' = minted /\ IS!Bound' \subseteq IS!Bound
    BY <1>5 DEF IS!RejectBind, IS!AfterPurge, IS!Live, IS!Bound, leases
  <2> QED BY <1>1, <2>1, <2>2, QuietStep
          DEF LifecycleInv, Typed, PinnedBy, RecordedBy, Pinning, Recording
<1> QED BY <1>4, <1>5 DEF BindTarget

LEMMA PolicyStep ==
    ASSUME LifecycleInv, [Next]_vars, NEW q \in Requests, RecordTargetPolicy(q)
    PROVE  LifecycleInv'
BY EndStep DEF RecordTargetPolicy, captures, leases, At, IS!Bound, PinnedBy, RecordedBy, Pinning,
               Recording, Closing

(* The request takes the slot of its session out, or finds it gone.        *)
LEMMA SlotRemoved ==
    ASSUME LifecycleInv, NEW q \in Requests,
           \/ CS!RemoveSlot(task[q].session)
           \/ task[q].session \notin CS!Active /\ UNCHANGED captures
    PROVE  /\ UNCHANGED <<pending, opened>>
           /\ task[q].session \notin CS!Active'
BY SameCapture DEF CS!RemoveSlot, CS!Active, captures, LifecycleInv, CSP!CaptureInv, CSP!CaptureTypeOK

LEMMA UnwindCaptureStep ==
    ASSUME LifecycleInv, [Next]_vars, NEW q \in Requests, UnwindCapture(q)
    PROVE  LifecycleInv'
<1>1. UNCHANGED <<pending, opened, execution, minted, windows, seatLease>> /\ IS!Bound' = IS!Bound
  BY SlotRemoved DEF UnwindCapture, leases, IS!Bound
<1>2. task[q].session \notin CS!Active' /\ task[q].at = "unwind" /\ TaskOK(q)
  BY SlotRemoved DEF UnwindCapture, At, LifecycleInv
<1>3. /\ task' \in [Requests -> Task] /\ \A r \in Requests : r # q => task'[r] = task[r]
      /\ task'[q].at = "unwindRecord" /\ task'[q].kind = task[q].kind
      /\ task'[q].owner = task[q].owner /\ task'[q].source = task[q].source
      /\ task'[q].identity = task[q].identity /\ task'[q].session = task[q].session
  BY MovesTo DEF LifecycleInv, Steps, UnwindCapture
<1>4. TasksStep(q)
  BY <1>1, <1>2, <1>3 DEF TasksStep, TaskOK, Opening, ExactOnly, Unnamed, Removed, CS!Exact
<1>5. ClosingStep
  BY <1>1, <1>2, <1>3 DEF ClosingStep, LifecycleInv, Typed, Closing
<1> QED BY <1>1, <1>2, <1>4, <1>5, QuietStep DEF LifecycleInv, Typed, PinnedBy, RecordedBy

(* The record goes after the capture, and the request is answered.         *)
LEMMA RecordRemovedStep ==
    ASSUME LifecycleInv, [Next]_vars, NEW q \in Requests,
           task[q].at \in {"unwindRecord", "closeRecord", "closedRecord"},
           execution' = execution \ {task[q].session},
           seatLease' = IF task[q].at \in Closing THEN None ELSE seatLease,
           Ends(q), UNCHANGED <<leases, captures, windows>>
    PROVE  LifecycleInv'
<1>1. UNCHANGED <<pending, slots, opened, minted, windows>> /\ IS!Bound' = IS!Bound /\ CS!Active' = CS!Active
  BY DEF leases, captures, IS!Bound, CS!Active
<1>2. TaskOK(q) /\ task[q].session \notin CS!Active
  BY DEF LifecycleInv, TaskOK, Removed
<1>3. /\ task' \in [Requests -> Task] /\ \A r \in Requests : r # q => task'[r] = task[r]
      /\ task'[q].at = "idle"
  BY EndsAt DEF LifecycleInv
<1>4. TasksStep(q)
  BY <1>1, <1>2, <1>3 DEF TasksStep, TaskOK, Opening, ExactOnly, Unnamed, Removed
<1>5. ClosingStep
  BY <1>3, IdsAssumption DEF ClosingStep, LifecycleInv, Typed, Closing
<1>6. PinningStep(q) /\ RecordingStep(q)
  BY <1>1, <1>2 DEF PinningStep, RecordingStep, PinnedBy, RecordedBy, Recording
<1>7. BindingStep /\ execution' \subseteq opened'
  BY <1>1 DEF BindingStep, LifecycleInv, Typed
<1> QED BY <1>1, <1>4, <1>5, <1>6, <1>7, RequestStep DEF LifecycleInv, Typed

LEMMA OpenStep ==
    ASSUME LifecycleInv, [Next]_vars, NEW q \in Requests, Open(q)
    PROVE  LifecycleInv'
<1>1. CASE UnwindRecord(q)
  BY <1>1, RecordRemovedStep DEF UnwindRecord, At, Closing
<1> QED BY <1>1, ReserveStep, BackendStep, StatusOpenedStep, RecordStep, ActiveIdsStep,
           RetainActiveStep, BindTargetStep, PolicyStep, UnwindCaptureStep DEF Open

-----------------------------------------------------------------------------
(* Requests on a session that is open.                                     *)

(* The request moves on, outside the steps of an open.                     *)
LEMMA OwnedStep ==
    ASSUME LifecycleInv, [Next]_vars, NEW q \in Requests,
           task' \in [Requests -> Task],
           \A r \in Requests : r # q => task'[r] = task[r],
           task[q].at \notin Opening, task'[q].at \notin Opening \cup {"idle"},
           task'[q].session \in opened,
           task'[q].at \in Removed => task'[q].session \notin CS!Active',
           seatLease' = IF task'[q].at \in Closing THEN q ELSE seatLease,
           task'[q].at \in Closing => seatLease \in {None, q},
           task[q].at \in Closing => task'[q].at \in Closing,
           UNCHANGED <<pending, opened, execution, minted>>,
           IS!Bound' \subseteq IS!Bound,
           windows' \in [Windows -> Identities \cup {None}]
    PROVE  LifecycleInv'
<1>1. TaskOK(q)
  BY DEF LifecycleInv
<1>2. TasksStep(q)
  BY <1>1 DEF TasksStep, TaskOK, Opening, ExactOnly, Unnamed
<1>3. ClosingStep
  BY IdsAssumption DEF ClosingStep, LifecycleInv, Typed
<1> QED BY <1>2, <1>3, QuietStep DEF PinnedBy, RecordedBy, Pinning, Recording, Opening

LEMMA StartOwnedStep ==
    ASSUME LifecycleInv, [Next]_vars, NEW q \in Requests, NEW o \in Owners, NEW s \in Sessions,
           NEW kind \in {"close", "renew", "act"}, NEW step \in {"lease", "renewLive", "actLive"},
           StartOwned(q, o, s, kind, step)
    PROVE  LifecycleInv'
<1> DEFINE t == [Idle EXCEPT !.kind = kind, !.at = step, !.owner = o, !.session = s]
<1>1. task' = [task EXCEPT ![q] = t]
  BY DEF StartOwned
<1>2. t \in Task /\ t.at = step /\ t.session = s
  <2>1. Idle \in Task
    BY DEF Idle, Task, Steps
  <2> QED BY <2>1 DEF Task, Steps
<1>3. /\ UNCHANGED <<pending, opened, execution, minted, windows, seatLease>> /\ IS!Bound' = IS!Bound
      /\ task[q].at = "idle"
  BY DEF StartOwned, CS!Reap, leases, IS!Bound, At
<1>4. s \in opened
  BY SameCapture DEF StartOwned, Owned, CS!Alive, LifecycleInv, CSP!CaptureInv, CSP!CaptureTypeOK
<1> HIDE DEF t
<1>5. task' \in [Requests -> Task] /\ task'[q] = t /\ \A r \in Requests : r # q => task'[r] = task[r]
  BY <1>1, <1>2 DEF LifecycleInv, Typed
<1> QED BY <1>2, <1>3, <1>4, <1>5, OwnedStep
        DEF Opening, Removed, Closing, LifecycleInv, Typed

LEMMA StartCloseWindowStep ==
    ASSUME LifecycleInv, [Next]_vars, NEW q \in Requests, NEW o \in Owners, NEW s \in Sessions,
           NEW w \in Windows, StartCloseWindow(q, o, s, w)
    PROVE  LifecycleInv'
<1> DEFINE t == [Idle EXCEPT !.kind = "closeWindow", !.at = "closeLive", !.owner = o, !.session = s,
                             !.source = w, !.identity = windows[w]]
<1>1. task' = [task EXCEPT ![q] = t]
  BY DEF StartCloseWindow
<1>2. t \in Task /\ t.at = "closeLive" /\ t.session = s
  <2>1. Idle \in Task
    BY DEF Idle, Task, Steps
  <2>2. windows[w] \in Identities \cup {None} /\ w \in CS!Sources
    BY DEF LifecycleInv, Typed, CS!Sources
  <2> QED BY <2>1, <2>2 DEF Task, Steps
<1>3. /\ UNCHANGED <<pending, opened, execution, minted, windows, seatLease>> /\ IS!Bound' = IS!Bound
      /\ task[q].at = "idle"
  BY DEF StartCloseWindow, CS!Reap, leases, IS!Bound, At
<1>4. s \in opened
  BY SameCapture DEF StartCloseWindow, Owned, CS!Alive, LifecycleInv, CSP!CaptureInv, CSP!CaptureTypeOK
<1> HIDE DEF t
<1>5. task' \in [Requests -> Task] /\ task'[q] = t /\ \A r \in Requests : r # q => task'[r] = task[r]
  BY <1>1, <1>2 DEF LifecycleInv, Typed
<1> QED BY <1>2, <1>3, <1>4, <1>5, OwnedStep
        DEF Opening, Removed, Closing, LifecycleInv, Typed

LEMMA StartStatusStep ==
    ASSUME LifecycleInv, [Next]_vars, NEW q \in Requests, NEW o \in Owners, StartStatus(q, o)
    PROVE  LifecycleInv'
<1>1. PICK s \in CS!Alive :
         task' = [task EXCEPT ![q] = [Idle EXCEPT !.kind = "status", !.at = "statusBound",
                                                  !.owner = o, !.session = s]]
  BY DEF StartStatus
<1> DEFINE t == [Idle EXCEPT !.kind = "status", !.at = "statusBound", !.owner = o, !.session = s]
<1>2. t \in Task /\ t.at = "statusBound" /\ t.session = s
  <2>1. Idle \in Task
    BY DEF Idle, Task, Steps
  <2>2. s \in Sessions
    BY DEF CS!Alive, CS!Active
  <2> QED BY <2>1, <2>2 DEF Task, Steps
<1>3. /\ UNCHANGED <<pending, opened, execution, minted, windows, seatLease>> /\ IS!Bound' = IS!Bound
      /\ task[q].at = "idle"
  BY DEF StartStatus, CS!Reap, leases, IS!Bound, At
<1>4. s \in opened
  BY SameCapture DEF CS!Alive, LifecycleInv, CSP!CaptureInv, CSP!CaptureTypeOK
<1> HIDE DEF t
<1>5. task' \in [Requests -> Task] /\ task'[q] = t /\ \A r \in Requests : r # q => task'[r] = task[r]
  BY <1>1, <1>2 DEF LifecycleInv, Typed, t
<1> QED BY <1>2, <1>3, <1>4, <1>5, OwnedStep
        DEF Opening, Removed, Closing, LifecycleInv, Typed

LEMMA MoveStep ==
    ASSUME LifecycleInv, [Next]_vars, NEW q \in Requests, NEW step \in Steps, Moves(q, step),
           task[q].at \notin Opening \cup {"idle"}, step \notin Opening \cup {"idle"},
           step \in Removed => task[q].session \notin CS!Active',
           seatLease' = IF step \in Closing THEN q ELSE seatLease,
           step \in Closing => seatLease \in {None, q},
           task[q].at \in Closing => step \in Closing,
           UNCHANGED <<pending, opened, execution, minted>>,
           IS!Bound' \subseteq IS!Bound,
           windows' \in [Windows -> Identities \cup {None}]
    PROVE  LifecycleInv'
<1>1. /\ task' \in [Requests -> Task] /\ \A r \in Requests : r # q => task'[r] = task[r]
      /\ task'[q].at = step /\ task'[q].session = task[q].session
  BY MovesTo DEF LifecycleInv
<1>2. task[q].session \in opened
  BY DEF LifecycleInv, TaskOK, Unnamed, Opening
<1> QED BY <1>1, <1>2, OwnedStep

(* A lease is dropped, renewed or left alone; none is granted.             *)
LEMMA LeaseDropped ==
    ASSUME LifecycleInv, NEW s, IS!Clear(s) \/ IS!Renew(s) \/ UNCHANGED leases
    PROVE  UNCHANGED minted /\ IS!Bound' \subseteq IS!Bound
BY SameInteraction DEF IS!Clear, IS!Renew, IS!Bound, leases, LifecycleInv, ISP!Inv, ISP!TypeOK

LEMMA CloseStep ==
    ASSUME LifecycleInv, [Next]_vars, NEW q \in Requests, Close(q)
    PROVE  LifecycleInv'
<1>1. TaskOK(q) /\ (seatLease = q <=> task[q].at \in Closing) /\ q # None
  BY IdsAssumption DEF LifecycleInv, Typed
<1>2. windows \in [Windows -> Identities \cup {None}]
  BY DEF LifecycleInv, Typed
<1>3. CASE AcquireSeat(q)
  <2>1. CASE seatLease = None /\ seatLease' = q /\ Moves(q, "close")
    BY <1>1, <1>2, <1>3, <2>1, MoveStep
       DEF AcquireSeat, At, leases, captures, IS!Bound, Opening, Removed, Closing, Steps
  <2>2. CASE UNCHANGED seatLease /\ Ends(q)
    BY <1>3, <2>2, EndStep
       DEF AcquireSeat, At, leases, captures, IS!Bound, PinnedBy, RecordedBy, Pinning, Recording, Closing
  <2> QED BY <1>3, <2>1, <2>2 DEF AcquireSeat
<1>4. CASE CloseCapture(q)
  <2>1. UNCHANGED <<pending, opened>> /\ task[q].session \notin CS!Active'
    BY <1>4, SlotRemoved DEF CloseCapture
  <2>2. CASE Moves(q, "closeLease") /\ UNCHANGED seatLease
    BY <1>1, <1>2, <1>4, <2>1, <2>2, MoveStep
       DEF CloseCapture, At, leases, IS!Bound, Opening, Removed, Closing, Steps
  <2>3. CASE Ends(q) /\ seatLease' = None
    BY <1>4, <2>1, <2>3, EndStep
       DEF CloseCapture, At, leases, IS!Bound, PinnedBy, RecordedBy, Pinning, Recording, Closing
  <2> QED BY <1>4, <2>2, <2>3 DEF CloseCapture
<1>5. CASE CloseLease(q)
  <2>1. UNCHANGED minted /\ IS!Bound' \subseteq IS!Bound
    BY <1>5, LeaseDropped DEF CloseLease
  <2>2. task[q].session \notin CS!Active /\ CS!Active' = CS!Active
    BY <1>1, <1>5 DEF CloseLease, At, captures, CS!Active, TaskOK, Removed
  <2> QED BY <1>1, <1>2, <1>5, <2>1, <2>2, MoveStep
          DEF CloseLease, At, captures, Opening, Removed, Closing, Steps
<1>6. CASE CloseRecord(q)
  BY <1>6, RecordRemovedStep DEF CloseRecord, At, Closing
<1> QED BY <1>3, <1>4, <1>5, <1>6 DEF Close

LEMMA CloseWindowStep ==
    ASSUME LifecycleInv, [Next]_vars, NEW q \in Requests, CloseWindow(q)
    PROVE  LifecycleInv'
<1>1. TaskOK(q)
  BY DEF LifecycleInv
<1>2. windows \in [Windows -> Identities \cup {None}]
  BY DEF LifecycleInv, Typed
<1>3. CASE CloseLive(q)
  <2>1. CASE Moves(q, "closeTarget")
    BY <1>2, <1>3, <2>1, MoveStep
       DEF CloseLive, At, leases, CS!Reap, IS!Bound, Opening, Removed, Closing, Steps
  <2>2. CASE Ends(q)
    BY <1>3, <2>2, EndStep
       DEF CloseLive, At, leases, CS!Reap, IS!Bound, PinnedBy, RecordedBy, Pinning, Recording, Closing
  <2> QED BY <1>3, <2>1, <2>2 DEF CloseLive
<1>4. CASE CloseTarget(q)
  <2>1. CASE Moves(q, "closing")
    BY <1>2, <1>4, <2>1, MoveStep
       DEF CloseTarget, At, leases, captures, IS!Bound, Opening, Removed, Closing, Steps
  <2>2. CASE Ends(q)
    BY <1>4, <2>2, EndStep
       DEF CloseTarget, At, leases, captures, IS!Bound, PinnedBy, RecordedBy, Pinning, Recording, Closing
  <2> QED BY <1>4, <2>1, <2>2 DEF CloseTarget
<1>5. CASE CloseExact(q)
  <2>1. CASE windows' = [windows EXCEPT ![task[q].source] = None] /\ Moves(q, "closed")
    <3>1. windows' \in [Windows -> Identities \cup {None}]
      BY <1>2, <2>1
    <3> QED BY <1>5, <2>1, <3>1, MoveStep
            DEF CloseExact, At, leases, captures, IS!Bound, Opening, Removed, Closing, Steps
  <2>2. CASE UNCHANGED windows /\ Ends(q)
    BY <1>5, <2>2, EndStep
       DEF CloseExact, At, leases, captures, IS!Bound, PinnedBy, RecordedBy, Pinning, Recording, Closing
  <2> QED BY <1>5, <2>1, <2>2 DEF CloseExact
<1>6. CASE CloseWindowCapture(q)
  <2>1. UNCHANGED <<pending, opened>> /\ task[q].session \notin CS!Active'
    BY <1>6, SlotRemoved DEF CloseWindowCapture
  <2> QED BY <1>2, <1>6, <2>1, MoveStep
          DEF CloseWindowCapture, At, leases, IS!Bound, Opening, Removed, Closing, Steps
<1>7. CASE CloseWindowLease(q)
  <2>1. UNCHANGED minted /\ IS!Bound' \subseteq IS!Bound
    BY <1>7, LeaseDropped DEF CloseWindowLease
  <2>2. task[q].session \notin CS!Active /\ CS!Active' = CS!Active
    BY <1>1, <1>7 DEF CloseWindowLease, At, captures, CS!Active, TaskOK, Removed
  <2> QED BY <1>2, <1>7, <2>1, <2>2, MoveStep
          DEF CloseWindowLease, At, captures, Opening, Removed, Closing, Steps
<1>8. CASE CloseWindowRecord(q)
  BY <1>8, RecordRemovedStep DEF CloseWindowRecord, At, Closing
<1> QED BY <1>3, <1>4, <1>5, <1>6, <1>7, <1>8 DEF CloseWindow

LEMMA CheckLiveStep ==
    ASSUME LifecycleInv, [Next]_vars, NEW q \in Requests,
           NEW step \in {"renewLive", "actLive", "actLiveAgain"},
           NEW next \in {"renewResolve", "actResolve", "queued"}, CheckLive(q, step, next)
    PROVE  LifecycleInv'
<1>1. UNCHANGED <<pending, opened, execution, windows, seatLease>> /\ task[q].at = step
  BY DEF CheckLive, CS!Reap, At
<1>2. UNCHANGED minted /\ IS!Bound' \subseteq IS!Bound
  BY LeaseDropped DEF CheckLive
<1>3. CASE Moves(q, next)
  BY <1>1, <1>2, <1>3, MoveStep DEF Opening, Removed, Closing, Steps, LifecycleInv, Typed
<1>4. CASE Ends(q)
  BY <1>1, <1>2, <1>4, EndStep DEF PinnedBy, RecordedBy, Pinning, Recording, Closing
<1> QED BY <1>3, <1>4 DEF CheckLive

LEMMA ResolveTargetStep ==
    ASSUME LifecycleInv, [Next]_vars, NEW q \in Requests,
           NEW step \in {"renewResolve", "actResolve"}, NEW next \in {"renewLease", "actLiveAgain"},
           ResolveTarget(q, step, next)
    PROVE  LifecycleInv'
<1> DEFINE w == interaction[task[q].session].window
           t == [task[q] EXCEPT !.at = next, !.source = w]
<1>1. UNCHANGED <<pending, opened, execution, minted, windows, seatLease>> /\ IS!Bound' = IS!Bound
  BY DEF ResolveTarget, leases, captures, IS!Bound
<1>2. task[q].at = step /\ task[q] \in Task /\ task[q].session \in opened
  BY DEF ResolveTarget, At, LifecycleInv, Typed, TaskOK, Unnamed
<1>3. CASE IS!Resolves(task[q].session, windows) /\ task' = [task EXCEPT ![q].at = next, ![q].source = w]
  <2>1. task[q].session \in ISP!Bound /\ ISP!TypeOK
    BY <1>3 DEF IS!Resolves, IS!Live, IS!Bound, ISP!Bound, LifecycleInv, ISP!Inv
  <2>2. w \in CS!Sources
    BY <2>1 DEF ISP!TypeOK, ISP!Bound, ISP!Lease, CS!Sources
  <2>3. t \in Task /\ t.at = next /\ t.session = task[q].session
    BY <1>2, <2>2 DEF Task, Steps
  <2>4. task' = [task EXCEPT ![q] = t]
    BY <1>2, <1>3 DEF Task
  <2>5. task' \in [Requests -> Task] /\ task'[q] = t /\ \A r \in Requests : r # q => task'[r] = task[r]
    BY <2>3, <2>4 DEF LifecycleInv, Typed
  <2> QED BY <1>1, <1>2, <2>3, <2>5, OwnedStep DEF Opening, Removed, Closing, LifecycleInv, Typed
<1>4. CASE Ends(q)
  BY <1>1, <1>2, <1>4, EndStep DEF PinnedBy, RecordedBy, Pinning, Recording, Closing
<1> QED BY <1>3, <1>4 DEF ResolveTarget

LEMMA RenewStep ==
    ASSUME LifecycleInv, [Next]_vars, NEW q \in Requests, Renew(q)
    PROVE  LifecycleInv'
<1>1. CASE RenewLive(q)
  BY <1>1, CheckLiveStep DEF RenewLive
<1>2. CASE RenewResolve(q)
  BY <1>2, ResolveTargetStep DEF RenewResolve
<1>3. CASE RenewInteraction(q)
  <2>1. /\ UNCHANGED <<pending, opened, execution, windows, seatLease>> /\ task[q].at = "renewLease"
        /\ UNCHANGED minted /\ IS!Bound' \subseteq IS!Bound
    BY <1>3, LeaseDropped DEF RenewInteraction, RenewLease, captures, At
  <2>2. CASE Moves(q, "renewCapture")
    BY <2>1, <2>2, MoveStep DEF Opening, Removed, Closing, Steps, LifecycleInv, Typed
  <2>3. CASE Ends(q)
    BY <2>1, <2>3, EndStep DEF PinnedBy, RecordedBy, Pinning, Recording, Closing
  <2> QED BY <1>3, <2>2, <2>3 DEF RenewInteraction, RenewLease
<1>4. CASE RenewCapture(q)
  <2>1. /\ UNCHANGED <<pending, opened, execution, windows, seatLease>> /\ task[q].at = "renewCapture"
        /\ UNCHANGED minted /\ IS!Bound' \subseteq IS!Bound
    BY <1>4, LeaseDropped DEF RenewCapture, CS!RenewCapture, CS!Reap, At
  <2> QED BY <1>4, <2>1, EndStep DEF RenewCapture, PinnedBy, RecordedBy, Pinning, Recording, Closing
<1> QED BY <1>1, <1>2, <1>3, <1>4 DEF Renew

LEMMA ActStep ==
    ASSUME LifecycleInv, [Next]_vars, NEW q \in Requests, Act(q)
    PROVE  LifecycleInv'
<1>1. CASE ActLive(q) \/ ActLiveAgain(q)
  BY <1>1, CheckLiveStep DEF ActLive, ActLiveAgain
<1>2. CASE ActResolve(q)
  BY <1>2, ResolveTargetStep DEF ActResolve
<1>3. CASE Deliver(q)
  BY <1>3, MoveStep
     DEF Deliver, At, leases, captures, IS!Bound, Opening, Removed, Closing, Steps, LifecycleInv, Typed
<1>4. CASE FailDelivery(q)
  BY <1>4, EndStep DEF FailDelivery, At, leases, captures, IS!Bound, PinnedBy, RecordedBy, Pinning,
                       Recording, Closing
<1>5. CASE RenewDelivered(q)
  <2>1. UNCHANGED minted /\ IS!Bound' \subseteq IS!Bound
    BY <1>5, LeaseDropped DEF RenewDelivered
  <2> QED BY <1>5, <2>1, EndStep DEF RenewDelivered, At, captures, PinnedBy, RecordedBy, Pinning,
                                     Recording, Closing
<1> QED BY <1>1, <1>2, <1>3, <1>4, <1>5 DEF Act

LEMMA StatusStep ==
    ASSUME LifecycleInv, [Next]_vars, NEW q \in Requests, Status(q)
    PROVE  LifecycleInv'
<1>1. /\ UNCHANGED <<pending, opened, execution, windows, seatLease>>
      /\ task[q].at \in {"statusBound", "statusResolve", "statusClear"}
      /\ UNCHANGED minted /\ IS!Bound' \subseteq IS!Bound
  BY LeaseDropped DEF Status, StatusBound, StatusResolve, StatusClear, captures, At
<1>2. CASE Moves(q, "statusResolve") \/ Moves(q, "statusClear")
  BY <1>1, <1>2, MoveStep DEF Opening, Removed, Closing, Steps, LifecycleInv, Typed
<1>3. CASE Ends(q)
  BY <1>1, <1>3, EndStep DEF PinnedBy, RecordedBy, Pinning, Recording, Closing
<1> QED BY <1>2, <1>3 DEF Status, StatusBound, StatusResolve, StatusClear

-----------------------------------------------------------------------------
LEMMA LifecycleStart == Init => LifecycleInv
<1> SUFFICES ASSUME Init PROVE LifecycleInv
  OBVIOUS
<1>1. ISP!Inv
  BY StoreAssumptions, SameInteraction, ISP!InitInv DEF Init
<1>2. CSP!CaptureInv
  BY StoreAssumptions, SameCapture, CSP!CaptureStart DEF Init
<1>3. CS!Active = {} /\ minted = {} /\ opened = {} /\ pending = [q \in Requests |-> None]
  BY DEF Init, CS!InitCapture, CS!Active, IS!InitInteraction
<1>4. Idle \in Task /\ Idle.at = "idle"
  BY DEF Idle, Task, Steps
<1>5. Typed
  BY <1>3, <1>4, IdsAssumption DEF Typed, Init, Closing
<1>6. \A q \in Requests : TaskOK(q)
  BY <1>3, <1>4 DEF Init, TaskOK, Opening, ExactOnly, Unnamed, Removed
<1> QED BY <1>1, <1>2, <1>3, <1>5, <1>6 DEF LifecycleInv, Pinned, Recorded, LeaseMatchesCapture

LEMMA LifecycleStep == LifecycleInv /\ [Next]_vars => LifecycleInv'
<1> SUFFICES ASSUME LifecycleInv, [Next]_vars PROVE LifecycleInv'
  OBVIOUS
<1>1. ASSUME NEW q \in Requests, NEW o \in Owners, NEW src \in CS!Sources, StartOpen(q, o, src)
      PROVE  LifecycleInv'
  BY <1>1, StartOpenStep
<1>2. ASSUME NEW q \in Requests, NEW o \in Owners, NEW s \in Sessions,
             StartClose(q, o, s) \/ StartRenew(q, o, s) \/ StartAct(q, o, s)
      PROVE  LifecycleInv'
  BY <1>2, StartOwnedStep DEF StartClose, StartRenew, StartAct
<1>3. ASSUME NEW q \in Requests, NEW o \in Owners, NEW s \in Sessions, NEW w \in Windows,
             StartCloseWindow(q, o, s, w)
      PROVE  LifecycleInv'
  BY <1>3, StartCloseWindowStep
<1>4. ASSUME NEW q \in Requests,
             Open(q) \/ Close(q) \/ CloseWindow(q) \/ Renew(q) \/ Act(q) \/ Status(q)
      PROVE  LifecycleInv'
  BY <1>4, OpenStep, CloseStep, CloseWindowStep, RenewStep, ActStep, StatusStep
<1>5. ASSUME NEW q \in Requests, NEW o \in Owners, StartStatus(q, o)
      PROVE  LifecycleInv'
  BY <1>5, StartStatusStep
<1>6. ASSUME NEW w \in Windows, WindowCloses(w) \/ WindowChangesIdentity(w)
      PROVE  LifecycleInv'
  <2>1. windows' \in [Windows -> Identities \cup {None}]
    BY <1>6 DEF WindowCloses, WindowChangesIdentity, LifecycleInv, Typed
  <2> QED BY <1>6, <2>1, WorldStep DEF WindowCloses, WindowChangesIdentity, leases, captures, IS!Bound
<1>7. ASSUME NEW s \in Sessions, CaptureEnds(s)
      PROVE  LifecycleInv'
  BY <1>7, WorldStep DEF CaptureEnds, CS!BackendEnds, leases, IS!Bound, LifecycleInv, Typed
<1>8. CASE TimePasses
  <2>1. IS!Bound' \subseteq IS!Bound /\ UNCHANGED minted
    BY <1>8 DEF TimePasses, IS!Age, IS!Live, IS!Bound
  <2> QED BY <1>8, <2>1, WorldStep DEF TimePasses, CS!AgeCaptures, LifecycleInv, Typed
<1>9. CASE UNCHANGED vars
  BY <1>9, WorldStep DEF vars, IS!Bound, LifecycleInv, Typed
<1> QED BY <1>1, <1>2, <1>3, <1>4, <1>5, <1>6, <1>7, <1>8, <1>9 DEF Next

LEMMA LifecycleInvariant == Spec => []LifecycleInv
BY LifecycleStart, LifecycleStep, PTL DEF Spec

(* The seat mutex is with the request that closes a session, and given     *)
(* back however that request ends; only ids the backend handed out are     *)
(* recorded (main.rs:4465, 4590).                                          *)
THEOREM LifecycleTypeCorrect == Spec => []LifecycleTypeOK
<1>1. LifecycleInv => LifecycleTypeOK
  BY SameInteraction, SameCapture
     DEF LifecycleInv, LifecycleTypeOK, Typed, Closing, ISP!Inv, CSP!CaptureInv
<1> QED BY <1>1, LifecycleInvariant, PTL

(* The window an agent sees is the window it acts on.                      *)
THEOREM LeaseMatchesCaptureHolds == Spec => []LeaseMatchesCapture
<1>1. LifecycleInv => LeaseMatchesCapture
  BY DEF LifecycleInv
<1> QED BY <1>1, LifecycleInvariant, PTL

(* The concurrent requests implement the interaction store: initial states *)
(* are initial states of the store, and every step is a step of it or      *)
(* leaves it alone (interaction.rs).                                       *)
THEOREM InteractionRefined == Spec => ImplementsInteraction
<1>1. Init => IS!InitInteraction
  BY DEF Init
<1>2. LifecycleInv /\ [Next]_vars => [IS!NextInteraction]_(IS!interactionVars)
  BY InteractionStepsOf
<1> QED BY <1>1, <1>2, LifecycleInvariant, PTL DEF Spec, ImplementsInteraction, IS!SpecInteraction

(* They implement the capture store as well (capture.rs).                  *)
THEOREM CaptureRefined == Spec => ImplementsCapture
<1>1. Init => CS!InitCapture
  BY DEF Init
<1>2. LifecycleInv /\ [Next]_vars => [CS!NextCapture]_(CS!captureVars)
  BY CaptureStepsOf
<1> QED BY <1>1, <1>2, LifecycleInvariant, PTL DEF Spec, ImplementsCapture, CS!SpecCapture

(* What is proved of the stores holds in the daemon: no two agents have a  *)
(* lease on one window or share a lane, no more of them hold lanes than    *)
(* there are, no agent opens more than it may.                             *)
THEOREM DaemonKeepsAgentsApart ==
    Spec => [](IS!WindowExclusive /\ IS!LaneIsolation /\ IS!LaneQuota /\ CS!OpensWithinLimits)
<1>1. ISP!Inv => IS!WindowExclusive /\ IS!LaneIsolation /\ IS!LaneQuota
  BY DEF ISP!Inv, ISP!WindowExclusive, ISP!LaneIsolation, IS!WindowExclusive, IS!LaneIsolation,
         ISP!LaneQuota, IS!LaneQuota, ISP!OwnersIn, IS!OwnersIn, ISP!Cardinality, IS!Cardinality,
         ISP!Bound, IS!Bound
<1>2. CSP!CaptureInv => CS!OpensWithinLimits
  BY DEF CSP!CaptureInv, CSP!OwnerQuota, CSP!ChooserSerialized, CS!OpensWithinLimits, CS!OwnerQuota,
         CS!ChooserSerialized, CSP!Reserved, CS!Reserved, CSP!Active, CS!Active, CSP!Exact, CS!Exact,
         CSP!Cardinality, CS!Cardinality
<1> QED BY <1>1, <1>2, LifecycleInvariant, PTL DEF LifecycleInv
-----------------------------------------------------------------------------
(* What a session may lose its lease to.                                   *)

DroppedForCause(s) ==
    \E q \in Requests :
        \/ At(q, "retain") /\ s \notin task[q].active
        \/ At(q, "statusClear") /\ task[q].session = s
        \/ At(q, "bind") /\ s \notin IS!Live

(* No operation of the store drops a lease but a clear of that session, an *)
(* open whose list of live captures is without it, and the purge of what   *)
(* has expired.                                                            *)
LEMMA OperationKeepsLease ==
    ASSUME LifecycleInv, NEW s \in IS!Bound, NEW t
    PROVE  /\ UNCHANGED leases => s \in IS!Bound'
           /\ IS!Renew(t) => s \in IS!Bound'
           /\ IS!Age => s \in IS!Bound'
           /\ IS!Clear(t) /\ t # s => s \in IS!Bound'
           /\ \A w, i, o : IS!Bind(t, w, i, o) /\ s \in IS!Live => s \in IS!Bound'
           /\ \A w, o : IS!RejectBind(w, o) /\ s \in IS!Live => s \in IS!Bound'
           /\ \A active : IS!RetainActive(active) /\ s \in active => s \in IS!Bound'
<1>1. /\ s \in Sessions /\ interaction[s] # Unbound
      /\ interaction[s] \in IS!Lease /\ s \in minted /\ interaction \in [Sessions -> IS!Lease \cup {Unbound}]
  BY SameInteraction DEF LifecycleInv, ISP!Inv, ISP!LanesMinted, IS!TypeOK, IS!Live, IS!Bound
<1>2. UNCHANGED leases => s \in IS!Bound'
  BY <1>1 DEF leases, IS!Bound
<1>3. [interaction[s] EXCEPT !.ttl = SessionTTL] # Unbound
  BY <1>1, LimitsAssumption, IdsAssumption DEF IS!Lease
<1>4. s \in IS!Live => [interaction[s] EXCEPT !.ttl = @ - 1] # Unbound
  <2> SUFFICES ASSUME s \in IS!Live
               PROVE  [interaction[s] EXCEPT !.ttl = @ - 1] # Unbound
    OBVIOUS
  <2>1. interaction[s].ttl \in 1..SessionTTL
    BY <1>1, LimitsAssumption DEF IS!Live, IS!Lease
  <2>2. interaction[s].ttl - 1 \in 0..SessionTTL
    BY <2>1, LimitsAssumption
  <2> QED BY <1>1, <2>2, IdsAssumption DEF IS!Lease
<1>5. IS!Renew(t) => s \in IS!Bound'
  BY <1>1, <1>3 DEF IS!Renew, IS!Bound
<1>6. IS!Age => s \in IS!Bound'
  BY <1>1, <1>4 DEF IS!Age, IS!Bound
<1>7. IS!Clear(t) /\ t # s => s \in IS!Bound'
  BY <1>1 DEF IS!Clear, IS!Bound
<1>8. \A w, i, o : IS!Bind(t, w, i, o) /\ s \in IS!Live => s \in IS!Bound'
  BY <1>1 DEF IS!Bind, IS!AfterPurge, IS!Bound
<1>9. \A w, o : IS!RejectBind(w, o) /\ s \in IS!Live => s \in IS!Bound'
  BY <1>1 DEF IS!RejectBind, IS!AfterPurge, IS!Bound
<1>10. \A active : IS!RetainActive(active) /\ s \in active => s \in IS!Bound'
  BY <1>1 DEF IS!RetainActive, IS!Bound
<1> QED BY <1>2, <1>5, <1>6, <1>7, <1>8, <1>9, <1>10

LEMMA LeaseKept ==
    ASSUME LifecycleInv, [Next]_vars, NEW s \in IS!Bound, s \in CS!Alive
    PROVE  s \in IS!Bound' \/ DroppedForCause(s)
<1> DEFINE Fine == s \in IS!Bound' \/ DroppedForCause(s)
<1>1. UNCHANGED leases => Fine
  BY OperationKeepsLease
<1>2. ASSUME NEW q \in Requests, Open(q)
      PROVE  Fine
  <2>1. CASE RetainActive(q)
    BY <2>1, OperationKeepsLease DEF RetainActive, DroppedForCause
  <2>2. CASE BindTarget(q)
    <3>1. s \notin IS!Live => DroppedForCause(s)
      BY <2>2 DEF BindTarget, DroppedForCause
    <3> QED BY <1>1, <2>2, <3>1, OperationKeepsLease DEF BindTarget
  <2> QED BY <1>1, <1>2, <2>1, <2>2
          DEF Open, ReserveOpen, OpenBackend, StatusOpened, RecordExecution, ReadActiveIds,
              RecordTargetPolicy, UnwindCapture, UnwindRecord
<1>3. ASSUME NEW q \in Requests, CloseLease(q) \/ CloseWindowLease(q)
      PROVE  Fine
  <2>1. task[q].session # s
    BY <1>3 DEF CloseLease, CloseWindowLease, At, LifecycleInv, TaskOK, Removed, CS!Alive
  <2> QED BY <1>3, <2>1, OperationKeepsLease DEF CloseLease, CloseWindowLease
<1>4. ASSUME NEW q \in Requests, Close(q) \/ CloseWindow(q)
      PROVE  Fine
  BY <1>1, <1>3, <1>4
     DEF Close, AcquireSeat, CloseCapture, CloseRecord, CloseWindow, CloseLive, CloseTarget,
         CloseExact, CloseWindowCapture, CloseWindowRecord
<1>5. ASSUME NEW q \in Requests, NEW step, NEW next, CheckLive(q, step, next)
      PROVE  Fine
  BY <1>1, <1>5, OperationKeepsLease DEF CheckLive
<1>6. ASSUME NEW q \in Requests, RenewCapture(q)
      PROVE  Fine
  <2>1. s \in CS!Active /\ s \in IS!Bound
    BY DEF CS!Alive
  <2>2. interaction[s].window \in Windows
    BY <2>1, SameInteraction DEF LifecycleInv, ISP!Inv, IS!Bound, IS!TypeOK, IS!Lease
  <2>3. CS!Exact(slots[s].source)
    BY <2>1, <2>2, IdsAssumption DEF LifecycleInv, LeaseMatchesCapture, CS!Exact
  <2> QED BY <1>1, <1>6, <2>3, OperationKeepsLease DEF RenewCapture
<1>7. ASSUME NEW q \in Requests, Renew(q) \/ Act(q)
      PROVE  Fine
  BY <1>1, <1>5, <1>6, <1>7, OperationKeepsLease
     DEF Renew, RenewLive, RenewResolve, ResolveTarget, RenewInteraction, RenewLease,
         Act, ActLive, ActResolve, ActLiveAgain, Deliver, FailDelivery, RenewDelivered
<1>8. ASSUME NEW q \in Requests, Status(q)
      PROVE  Fine
  <2>1. CASE StatusClear(q)
    BY <2>1, OperationKeepsLease DEF StatusClear, DroppedForCause
  <2> QED BY <1>1, <1>8, <2>1 DEF Status, StatusBound, StatusResolve
<1>9. ASSUME NEW q \in Requests, NEW o \in Owners,
             \/ \E src \in CS!Sources : StartOpen(q, o, src)
             \/ \E t \in Sessions : StartClose(q, o, t) \/ StartRenew(q, o, t) \/ StartAct(q, o, t)
             \/ \E t \in Sessions, w \in Windows : StartCloseWindow(q, o, t, w)
             \/ StartStatus(q, o)
      PROVE  Fine
  BY <1>1, <1>9
     DEF StartOpen, StartClose, StartRenew, StartAct, StartOwned, StartCloseWindow, StartStatus
<1>10. ASSUME NEW w \in Windows, WindowCloses(w) \/ WindowChangesIdentity(w)
       PROVE  Fine
  BY <1>1, <1>10 DEF WindowCloses, WindowChangesIdentity
<1>11. ASSUME NEW t \in Sessions, CaptureEnds(t)
       PROVE  Fine
  BY <1>1, <1>11 DEF CaptureEnds
<1>12. CASE TimePasses
  BY <1>12, OperationKeepsLease DEF TimePasses
<1>13. CASE UNCHANGED vars
  BY <1>1, <1>13 DEF vars, leases
<1> QED BY <1>2, <1>4, <1>7, <1>8, <1>9, <1>10, <1>11, <1>12, <1>13 DEF Next

-----------------------------------------------------------------------------
(* Whatever requests overtake an open, what is captured was leased and     *)
(* recorded, or the open that answers for it is still under way; and a live*)
(* session is without its lease later only for one of the causes, which a  *)
(* close is not (main.rs:4465, 4553).                                      *)
THEOREM LiveSessionsWholeHolds == Spec => LiveSessionsWhole
<1> DEFINE Whole == NoUnpinnedCapture /\ LiveSessionsRecorded
           Kept == \A s \in CS!Alive \cap IS!Bound :
                      s \notin IS!Bound'
                      => \E q \in Requests :
                            \/ At(q, "retain") /\ s \notin task[q].active
                            \/ At(q, "statusClear") /\ task[q].session = s
                            \/ At(q, "bind") /\ s \notin IS!Live
<1>1. LifecycleInv => Whole
  <2> SUFFICES ASSUME LifecycleInv PROVE Whole
    OBVIOUS
  <2>1. CS!Alive \subseteq CS!Active
    BY DEF CS!Alive
  <2>2. \A q \in Requests : task[q].at \in Opening => task[q].kind = "open"
    BY DEF LifecycleInv, TaskOK
  <2>3. \A q \in Requests, s \in CS!Active : PinnedBy(q, s) \/ RecordedBy(q, s) => q \in OpeningBy(s)
    BY <2>2 DEF PinnedBy, RecordedBy, OpeningBy, Pinning, Recording, Opening
  <2>4. NoUnpinnedCapture
    BY <2>1, <2>3 DEF NoUnpinnedCapture, LifecycleInv, Pinned
  <2>5. LiveSessionsRecorded
    BY <2>1, <2>3 DEF LiveSessionsRecorded, LifecycleInv, Recorded
  <2> QED BY <2>4, <2>5
<1>2. LifecycleInv /\ [Next]_vars => [Kept]_vars
  BY LeaseKept DEF DroppedForCause
<1> HIDE DEF Whole, Kept
<1>3. Spec => []Whole /\ [][Kept]_vars
  BY <1>1, <1>2, LifecycleInvariant, PTL DEF Spec
<1> QED BY <1>3 DEF LiveSessionsWhole, LeaseDroppedForCause, Whole, Kept

-----------------------------------------------------------------------------
(* An action and the window it is for.                                     *)

Named    == Opening \ Unnamed
Acting   == {"actLive", "actResolve", "actLiveAgain", "queued"}
Targeted == {"actLiveAgain", "queued"}

\* An action is its owner's: so is the open that made its session, should it
\* still run, and the lease; and the lease is for the window it resolved to.
ActOK(q) ==
    LET t == task[q]
    IN  t.at \in Acting =>
            /\ \A r \in Requests :
                  task[r].at \in Named /\ task[r].session = t.session => task[r].owner = t.owner
            /\ t.session \in IS!Bound => interaction[t.session].owner = t.owner
            /\ t.at \in Targeted => /\ t.session \in minted
                                    /\ t.session \in IS!Bound =>
                                          interaction[t.session].window = t.source

DeliveryInv == LifecycleInv /\ \A q \in Requests : ActOK(q)
\* What a step of a request does with the names it has in hand: a session has
\* one open, ever; an action begins on a session that runs, and has its window
\* from the lease.
NamesStep(q) ==
    LET t == task[q]
        u == task'[q]
    IN  /\ u.at \in Named =>
              \/ t.at \in Named /\ u.session = t.session /\ u.owner = t.owner
              \/ u.session \notin opened
        /\ u.at \in Acting =>
              \/ /\ t.at \in Acting /\ u.session = t.session /\ u.owner = t.owner
                 /\ u.at \in Targeted =>
                       \/ t.at \in Targeted /\ u.source = t.source
                       \/ /\ t.session \in IS!Live /\ UNCHANGED leases
                          /\ u.source = interaction[t.session].window
              \/ /\ u.session \in CS!Active /\ slots[u.session].owner = u.owner
                 /\ u.at \notin Targeted /\ UNCHANGED leases

LEMMA OneMoves ==
    ASSUME NEW q \in Requests, NamesStep(q),
           \A r \in Requests : r # q => task'[r] = task[r]
    PROVE  \A r \in Requests : NamesStep(r)
<1>1. ASSUME NEW r \in Requests, task'[r] = task[r]
      PROVE  NamesStep(r)
  BY <1>1 DEF NamesStep
<1> QED BY <1>1

LEMMA NoneMoves ==
    ASSUME UNCHANGED task
    PROVE  \A r \in Requests : NamesStep(r)
BY DEF NamesStep

LEMMA MoveKeepsNames ==
    ASSUME Typed, NEW q \in Requests, NEW step \in Steps, Moves(q, step),
           step \in Named => task[q].at \in Named,
           step \in Acting => task[q].at \in Acting,
           step \in Targeted => task[q].at \in Targeted
    PROVE  \A r \in Requests : NamesStep(r)
<1>1. /\ \A r \in Requests : r # q => task'[r] = task[r]
      /\ task'[q].at = step /\ task'[q].owner = task[q].owner
      /\ task'[q].source = task[q].source /\ task'[q].session = task[q].session
  BY MovesTo
<1>2. NamesStep(q)
  BY <1>1 DEF NamesStep
<1> QED BY <1>1, <1>2, OneMoves

LEMMA EndKeepsNames ==
    ASSUME Typed, NEW q \in Requests, Ends(q)
    PROVE  \A r \in Requests : NamesStep(r)
<1>1. task'[q].at = "idle" /\ \A r \in Requests : r # q => task'[r] = task[r]
  BY EndsAt
<1>2. NamesStep(q)
  BY <1>1 DEF NamesStep, Named, Opening, Unnamed, Acting
<1> QED BY <1>1, <1>2, OneMoves

LEMMA StartKeepsNames ==
    ASSUME Typed, NEW q \in Requests, NEW t, task' = [task EXCEPT ![q] = t],
           t.at \notin Named,
           t.at \in Acting => /\ t.session \in CS!Active /\ slots[t.session].owner = t.owner
                              /\ t.at \notin Targeted /\ UNCHANGED leases
    PROVE  \A r \in Requests : NamesStep(r)
<1>1. task'[q] = t /\ \A r \in Requests : r # q => task'[r] = task[r]
  BY DEF Typed
<1>2. NamesStep(q)
  BY <1>1 DEF NamesStep
<1> QED BY <1>1, <1>2, OneMoves

LEMMA OpenKeepsNames ==
    ASSUME LifecycleInv, NEW q \in Requests, Open(q)
    PROVE  \A r \in Requests : NamesStep(r)
<1>1. Typed /\ task \in [Requests -> Task]
  BY DEF LifecycleInv, Typed
<1>2. CASE Ends(q)
  BY <1>1, <1>2, EndKeepsNames
<1>3. CASE ReserveOpen(q)
  BY <1>1, <1>2, <1>3, MoveKeepsNames
     DEF ReserveOpen, Named, Opening, Unnamed, Acting, Targeted, Steps
<1>4. ASSUME NEW step \in {"record", "activeIds", "policy", "unwind", "unwindRecord"},
             Moves(q, step), task[q].at \in {"opened", "record", "bind", "unwind"}
      PROVE  \A r \in Requests : NamesStep(r)
  BY <1>1, <1>4, MoveKeepsNames DEF Named, Opening, Unnamed, Acting, Targeted, Steps
<1>5. CASE OpenBackend(q)
  <2>1. CASE \E s \in Sessions : /\ CS!FinishOpen(q, s)
                                 /\ task' = [task EXCEPT ![q].at = "opened", ![q].session = s]
    <3>1. PICK s \in Sessions : /\ CS!FinishOpen(q, s)
                                /\ task' = [task EXCEPT ![q].at = "opened", ![q].session = s]
      BY <2>1
    <3>2. /\ task'[q].at = "opened" /\ task'[q].session = s
          /\ \A r \in Requests : r # q => task'[r] = task[r]
      BY <1>1, <3>1 DEF Task
    <3>3. NamesStep(q)
      BY <3>1, <3>2 DEF NamesStep, CS!FinishOpen, Acting
    <3> QED BY <3>2, <3>3, OneMoves
  <2> QED BY <1>2, <1>5, <2>1 DEF OpenBackend
<1>6. CASE ReadActiveIds(q) \/ RetainActive(q)
  <2>1. /\ task'[q].at \in {"retain", "bind"} /\ task[q].at \in {"activeIds", "retain"}
        /\ task'[q].session = task[q].session /\ task'[q].owner = task[q].owner
        /\ \A r \in Requests : r # q => task'[r] = task[r]
    BY <1>1, <1>6 DEF ReadActiveIds, RetainActive, At, Task
  <2>2. NamesStep(q)
    BY <2>1 DEF NamesStep, Named, Opening, Unnamed, Acting
  <2> QED BY <2>1, <2>2, OneMoves
<1> QED BY <1>2, <1>3, <1>4, <1>5, <1>6
        DEF Open, StatusOpened, RecordExecution, BindTarget, RecordTargetPolicy, UnwindCapture,
            UnwindRecord, At

LEMMA RequestKeepsNames ==
    ASSUME LifecycleInv, NEW q \in Requests,
           Close(q) \/ CloseWindow(q) \/ Renew(q) \/ Act(q) \/ Status(q)
    PROVE  \A r \in Requests : NamesStep(r)
<1>1. Typed /\ task \in [Requests -> Task]
  BY DEF LifecycleInv, Typed
<1>2. CASE Ends(q)
  BY <1>1, <1>2, EndKeepsNames
<1>3. ASSUME NEW step \in {"close", "closeLease", "closeRecord", "closeTarget", "closing", "closed",
                          "closedLease", "closedRecord", "renewResolve", "renewCapture",
                          "delivered", "statusResolve", "statusClear"},
             Moves(q, step)
      PROVE  \A r \in Requests : NamesStep(r)
  BY <1>1, <1>3, MoveKeepsNames DEF Named, Opening, Unnamed, Acting, Targeted, Steps
<1>4. CASE Close(q) \/ CloseWindow(q) \/ Status(q)
  BY <1>2, <1>3, <1>4
     DEF Close, AcquireSeat, CloseCapture, CloseLease, CloseRecord, CloseWindow, CloseLive,
         CloseTarget, CloseExact, CloseWindowCapture, CloseWindowLease, CloseWindowRecord,
         Status, StatusBound, StatusResolve, StatusClear
<1>5. CASE RenewLive(q) \/ RenewInteraction(q) \/ RenewCapture(q)
  BY <1>2, <1>3, <1>5 DEF RenewLive, CheckLive, RenewInteraction, RenewLease, RenewCapture
<1>6. CASE ActLive(q) \/ ActLiveAgain(q)
  <2>1. ASSUME NEW step \in {"actResolve", "queued"}, Moves(q, step),
               task[q].at \in Acting, step = "queued" => task[q].at = "actLiveAgain"
        PROVE  \A r \in Requests : NamesStep(r)
    BY <1>1, <2>1, MoveKeepsNames DEF Named, Opening, Unnamed, Acting, Targeted, Steps
  <2> QED BY <1>2, <1>6, <2>1 DEF ActLive, ActLiveAgain, CheckLive, At, Acting
<1>7. CASE RenewResolve(q) \/ ActResolve(q)
  <2>1. CASE Ends(q)
    BY <1>2, <2>1
  <2>2. CASE ~Ends(q)
    <3>1. /\ task[q].at \in {"renewResolve", "actResolve"}
          /\ task'[q].at = IF task[q].at = "actResolve" THEN "actLiveAgain" ELSE "renewLease"
          /\ task'[q].source = interaction[task[q].session].window
          /\ task'[q].session = task[q].session /\ task'[q].owner = task[q].owner
          /\ \A r \in Requests : r # q => task'[r] = task[r]
          /\ task[q].session \in IS!Live /\ UNCHANGED leases
      BY <1>1, <1>7, <2>2 DEF RenewResolve, ActResolve, ResolveTarget, IS!Resolves, At, Task
    <3>2. NamesStep(q)
      BY <3>1 DEF NamesStep, Named, Opening, Unnamed, Acting, Targeted
    <3> QED BY <3>1, <3>2, OneMoves
  <2> QED BY <2>1, <2>2
<1>8. CASE Deliver(q) \/ FailDelivery(q) \/ RenewDelivered(q)
  BY <1>2, <1>3, <1>8 DEF Deliver, FailDelivery, RenewDelivered
<1> QED BY <1>4, <1>5, <1>6, <1>7, <1>8 DEF Renew, Act

LEMMA NamesKept ==
    ASSUME LifecycleInv, [Next]_vars
    PROVE  \A r \in Requests : NamesStep(r)
<1> DEFINE Fine == \A r \in Requests : NamesStep(r)
<1>1. Typed
  BY DEF LifecycleInv
<1>2. ASSUME NEW q \in Requests, NEW o \in Owners, NEW src \in CS!Sources, StartOpen(q, o, src)
      PROVE  Fine
  <2> DEFINE t == [Idle EXCEPT !.kind = "open", !.at = "reserve", !.owner = o, !.source = src,
                               !.identity = IF CS!Exact(src) THEN windows[src] ELSE None]
  <2>1. task' = [task EXCEPT ![q] = t]
    BY <1>2 DEF StartOpen
  <2>2. t.at = "reserve"
    BY DEF Idle
  <2> HIDE DEF t
  <2> QED BY <1>1, <2>1, <2>2, StartKeepsNames DEF Named, Unnamed, Acting
<1>3. ASSUME NEW q \in Requests, NEW o \in Owners, NEW s \in Sessions, NEW kind, NEW step,
             StartOwned(q, o, s, kind, step), step \in {"lease", "renewLive", "actLive"}
      PROVE  Fine
  <2> DEFINE t == [Idle EXCEPT !.kind = kind, !.at = step, !.owner = o, !.session = s]
  <2>1. task' = [task EXCEPT ![q] = t]
    BY <1>3 DEF StartOwned
  <2>2. t.at = step /\ t.session = s /\ t.owner = o
    BY DEF Idle
  <2> HIDE DEF t
  <2>3. s \in CS!Active /\ slots[s].owner = o /\ UNCHANGED leases
    BY <1>3 DEF StartOwned, Owned, CS!Alive
  <2> QED BY <1>1, <1>3, <2>1, <2>2, <2>3, StartKeepsNames DEF Named, Opening, Targeted
<1>4. ASSUME NEW q \in Requests, NEW o \in Owners, NEW s \in Sessions, NEW w \in Windows,
             StartCloseWindow(q, o, s, w)
      PROVE  Fine
  <2> DEFINE t == [Idle EXCEPT !.kind = "closeWindow", !.at = "closeLive", !.owner = o, !.session = s,
                               !.source = w, !.identity = windows[w]]
  <2>1. task' = [task EXCEPT ![q] = t]
    BY <1>4 DEF StartCloseWindow
  <2>2. t.at = "closeLive"
    BY DEF Idle
  <2> HIDE DEF t
  <2> QED BY <1>1, <2>1, <2>2, StartKeepsNames DEF Named, Opening, Acting
<1>5. ASSUME NEW q \in Requests, NEW o \in Owners, StartStatus(q, o)
      PROVE  Fine
  <2>1. PICK s : task' = [task EXCEPT ![q] = [Idle EXCEPT !.kind = "status", !.at = "statusBound",
                                                         !.owner = o, !.session = s]]
    BY <1>5 DEF StartStatus
  <2> DEFINE t == [Idle EXCEPT !.kind = "status", !.at = "statusBound", !.owner = o, !.session = s]
  <2>2. task' = [task EXCEPT ![q] = t]
    BY <2>1
  <2>3. t.at = "statusBound"
    BY DEF Idle
  <2> HIDE DEF t
  <2> QED BY <1>1, <2>2, <2>3, StartKeepsNames DEF Named, Opening, Acting
<1>6. ASSUME UNCHANGED task
      PROVE  Fine
  BY <1>6, NoneMoves
<1> QED BY <1>2, <1>3, <1>4, <1>5, <1>6, OpenKeepsNames, RequestKeepsNames
        DEF Next, StartClose, StartRenew, StartAct, WindowCloses, WindowChangesIdentity, CaptureEnds,
            TimePasses, vars

\* A lease is granted to the owner of the open, once in the life of a session.
LEMMA GrantedBy ==
    ASSUME LifecycleInv, [Next]_vars, NEW s \in IS!Bound', s \notin IS!Bound
    PROVE  /\ s \notin minted
           /\ \E r \in Requests : /\ task[r].at = "bind" /\ task[r].session = s
                                  /\ interaction'[s].owner = task[r].owner
<1> DEFINE Granted == /\ s \notin minted
                      /\ \E r \in Requests : /\ task[r].at = "bind" /\ task[r].session = s
                                             /\ interaction'[s].owner = task[r].owner
<1>1. /\ UNCHANGED leases => FALSE
      /\ \A t : ~IS!Clear(t) /\ ~IS!Renew(t)
      /\ ~IS!Age
      /\ \A w, o : ~IS!RejectBind(w, o)
      /\ \A active : ~IS!RetainActive(active)
  BY SameInteraction
     DEF leases, IS!Clear, IS!Renew, IS!Age, IS!RejectBind, IS!RetainActive, IS!AfterPurge, IS!Live,
         IS!Bound, LifecycleInv, ISP!Inv, ISP!TypeOK
<1>2. ASSUME NEW r \in Requests, BindTarget(r)
      PROVE  Granted
  <2>1. IS!Bind(task[r].session, task[r].source, task[r].identity, task[r].owner)
    BY <1>1, <1>2 DEF BindTarget
  <2>2. s = task[r].session
    BY <2>1 DEF IS!Bind, IS!AfterPurge, IS!Live, IS!Bound
  <2>3. s \in Sessions
    BY DEF IS!Bound
  <2> QED BY <1>2, <2>1, <2>2, <2>3 DEF BindTarget, At, IS!Bind, IS!NewLease
<1>3. ASSUME NEW q \in Requests, Open(q)
      PROVE  Granted
  BY <1>1, <1>2, <1>3
     DEF Open, ReserveOpen, OpenBackend, StatusOpened, RecordExecution, ReadActiveIds, RetainActive,
         RecordTargetPolicy, UnwindCapture, UnwindRecord
<1>4. ASSUME NEW q \in Requests, Close(q) \/ CloseWindow(q) \/ Status(q)
      PROVE  FALSE
  BY <1>1, <1>4
     DEF Close, AcquireSeat, CloseCapture, CloseLease, CloseRecord, CloseWindow, CloseLive,
         CloseTarget, CloseExact, CloseWindowCapture, CloseWindowLease, CloseWindowRecord,
         Status, StatusBound, StatusResolve, StatusClear
<1>5. ASSUME NEW q \in Requests, Renew(q) \/ Act(q)
      PROVE  FALSE
  BY <1>1, <1>5
     DEF Renew, RenewLive, CheckLive, RenewResolve, ResolveTarget, RenewInteraction, RenewLease,
         RenewCapture, Act, ActLive, ActResolve, ActLiveAgain, Deliver, FailDelivery, RenewDelivered
<1>6. ASSUME NEW q \in Requests, NEW o \in Owners,
             \/ \E src \in CS!Sources : StartOpen(q, o, src)
             \/ \E t \in Sessions : StartClose(q, o, t) \/ StartRenew(q, o, t) \/ StartAct(q, o, t)
             \/ \E t \in Sessions, w \in Windows : StartCloseWindow(q, o, t, w)
             \/ StartStatus(q, o)
      PROVE  FALSE
  BY <1>1, <1>6
     DEF StartOpen, StartClose, StartRenew, StartAct, StartOwned, StartCloseWindow, StartStatus
<1>7. ASSUME \/ \E w \in Windows : WindowCloses(w) \/ WindowChangesIdentity(w)
             \/ \E t \in Sessions : CaptureEnds(t)
             \/ TimePasses
             \/ UNCHANGED vars
      PROVE  FALSE
  BY <1>1, <1>7 DEF WindowCloses, WindowChangesIdentity, CaptureEnds, TimePasses, vars, leases
<1> QED BY <1>3, <1>4, <1>5, <1>6, <1>7 DEF Next

LEMMA ActStays ==
    ASSUME DeliveryInv, [Next]_vars, NEW q \in Requests
    PROVE  ActOK(q)'
<1> DEFINE t == task[q]
           u == task'[q]
<1>1. LifecycleInv /\ ActOK(q) /\ TaskOK(q) /\ \A r \in Requests : NamesStep(r) /\ TaskOK(r)
  BY NamesKept DEF DeliveryInv, LifecycleInv
<1>2. minted \subseteq minted' /\ IS!Bound \subseteq minted /\ CS!Active \subseteq opened
  BY <1>1, StoreFacts, SameInteraction, SameCapture
     DEF LifecycleInv, ISP!Inv, ISP!LanesMinted, CSP!CaptureInv, CSP!CaptureTypeOK
<1>3. CASE /\ t.at \in Acting /\ u.session = t.session /\ u.owner = t.owner
           /\ u.at \in Targeted => \/ t.at \in Targeted /\ u.source = t.source
                                   \/ /\ t.session \in IS!Live /\ UNCHANGED leases
                                      /\ u.source = interaction[t.session].window
  <2>1. t.session \in opened
    BY <1>1, <1>3 DEF TaskOK, Acting, Unnamed
  <2>2. ASSUME NEW r \in Requests, task'[r].at \in Named, task'[r].session = u.session
        PROVE  task'[r].owner = u.owner
    <3>1. task[r].at \in Named /\ task'[r].session = task[r].session /\ task'[r].owner = task[r].owner
      BY <1>1, <1>3, <2>1, <2>2 DEF NamesStep
    <3> QED BY <1>1, <1>3, <2>2, <3>1 DEF ActOK
  <2>3. ASSUME u.session \in IS!Bound'
        PROVE  interaction'[u.session].owner = u.owner
    <3>1. CASE u.session \in IS!Bound
      BY <1>1, <1>3, <2>3, <3>1, StoreFacts DEF ActOK
    <3>2. CASE u.session \notin IS!Bound
      <4>1. PICK r \in Requests : /\ task[r].at = "bind" /\ task[r].session = u.session
                                  /\ interaction'[u.session].owner = task[r].owner
        BY <1>1, <2>3, <3>2, GrantedBy
      <4>2. task[r].at \in Named
        BY <4>1 DEF Named, Opening, Unnamed
      <4> QED BY <1>1, <1>3, <4>1, <4>2 DEF ActOK
    <3> QED BY <3>1, <3>2
  <2>4. ASSUME u.at \in Targeted
        PROVE  /\ u.session \in minted'
               /\ u.session \in IS!Bound' => interaction'[u.session].window = u.source
    <3>1. CASE t.at \in Targeted /\ u.source = t.source
      <4>1. t.session \in minted /\ (t.session \in IS!Bound => interaction[t.session].window = t.source)
        BY <1>1, <1>3, <3>1 DEF ActOK
      <4>2. u.session \in IS!Bound' => u.session \in IS!Bound
        BY <1>1, <1>3, <4>1, GrantedBy
      <4> QED BY <1>1, <1>2, <1>3, <3>1, <4>1, <4>2, StoreFacts
    <3>2. CASE /\ t.session \in IS!Live /\ UNCHANGED leases
               /\ u.source = interaction[t.session].window
      BY <1>2, <1>3, <3>2 DEF leases, IS!Live
    <3> QED BY <1>3, <2>4, <3>1, <3>2
  <2> QED BY <2>2, <2>3, <2>4 DEF ActOK
<1>4. CASE /\ u.session \in CS!Active /\ slots[u.session].owner = u.owner
           /\ u.at \notin Targeted /\ UNCHANGED leases
  <2>1. ASSUME NEW r \in Requests, task'[r].at \in Named, task'[r].session = u.session
        PROVE  task'[r].owner = u.owner
    <3>1. task[r].at \in Named /\ task[r].session = u.session /\ task'[r].owner = task[r].owner
      BY <1>1, <1>2, <1>4, <2>1 DEF NamesStep
    <3> QED BY <1>1, <1>4, <3>1 DEF TaskOK, Named
  <2>2. u.session \in IS!Bound' => interaction'[u.session].owner = u.owner
    BY <1>1, <1>4 DEF leases, IS!Bound, LifecycleInv, LeaseMatchesCapture
  <2> QED BY <1>4, <2>1, <2>2 DEF ActOK
<1>5. CASE u.at \notin Acting
  BY <1>5 DEF ActOK
<1> QED BY <1>1, <1>3, <1>4, <1>5 DEF NamesStep

LEMMA DeliveryInvariant == Spec => []DeliveryInv
<1>1. Init => DeliveryInv
  <2>1. Idle.at = "idle"
    BY DEF Idle
  <2> QED BY <2>1, LifecycleStart DEF Init, DeliveryInv, ActOK, Acting
<1>2. DeliveryInv /\ [Next]_vars => DeliveryInv'
  BY ActStays, LifecycleStep DEF DeliveryInv
<1> QED BY <1>1, <1>2, PTL DEF Spec

\* An action whose session has the lease finds no other agent on its window.
LEMMA LeasedIsOwn ==
    ASSUME DeliveryInv, NEW q \in Requests, At(q, "queued"), task[q].session \in IS!Bound
    PROVE  ~IS!InUseByOther(task[q].source, task[q].owner)
<1> DEFINE s == task[q].session
<1>1. interaction[s].owner = task[q].owner /\ interaction[s].window = task[q].source
  BY DEF DeliveryInv, ActOK, At, Acting, Targeted
<1>2. \A t \in IS!Live : interaction[t].window = interaction[s].window
                              => interaction[t].owner = interaction[s].owner
  BY SameInteraction DEF DeliveryInv, LifecycleInv, ISP!Inv, ISP!WindowExclusive, IS!Live
<1> QED BY <1>1, <1>2 DEF IS!InUseByOther

(* A session keeps its window, and acts on no other agent's, but for what  *)
(* the claims overlook: a lease is dropped under its session only by an    *)
(* open with an older list, a status request that did not resolve it, or,  *)
(* expired, the purge of an open; and an action goes astray only after that*)
(* (main.rs:4455, interaction.rs:227, 435).                                *)
THEOREM SessionsKeepWindowsHolds == Spec => SessionsKeepWindows
<1> DEFINE Own == \A q \in Requests :
                     /\ At(q, "queued") /\ task'[q].at = "delivered"
                     /\ task[q].session \in IS!Bound
                     => ~ IS!InUseByOther(task[q].source, task[q].owner)
<1>1. Spec => LeaseDroppedForCause
  BY LiveSessionsWholeHolds DEF LiveSessionsWhole
<1>2. DeliveryInv /\ [Next]_vars => [Own]_vars
  BY LeasedIsOwn
<1> HIDE DEF Own
<1>3. Spec => [][Own]_vars
  BY <1>2, DeliveryInvariant, PTL DEF Spec
<1> QED BY <1>1, <1>3 DEF SessionsKeepWindows, DeliveredWhileLeased, Own

-----------------------------------------------------------------------------
(* The requests together are the lock of AgentLeases: through them, too, a *)
(* window passes from one agent to another only over being free, and an    *)
(* agent that holds a window keeps its lane (interaction.rs:92).           *)
THEOREM DaemonLeases == Spec => ISP!ImplementsLeases
<1>1. Spec => ISP!SpecInteraction
  <2>1. Init => ISP!InitInteraction
    BY SameInteraction DEF Init
  <2>2. LifecycleInv /\ [Next]_vars => [ISP!NextInteraction]_(ISP!interactionVars)
    BY InteractionStepsOf, SameInteraction DEF IS!interactionVars, ISP!interactionVars
  <2> QED BY <2>1, <2>2, LifecycleInvariant, PTL DEF Spec, ISP!SpecInteraction
<1>2. ISP!SpecInteraction => ISP!ImplementsLeases
  BY StoreAssumptions, ISP!LeasesImplemented
<1> QED BY <1>1, <1>2
=============================================================================
