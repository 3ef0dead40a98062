--------------------------- MODULE CaptureSessions ---------------------------
(***************************************************************************)
(* The retained-capture store of seatgeistd (capture.rs): reservations of  *)
(* opens in flight, the live session slots with their quotas, and the      *)
(* reaping of sessions that ended or outlived their lease.  End reasons    *)
(* are diagnostics and left out; the retained previews are module          *)
(* CaptureFrames.                                                          *)
(***************************************************************************)
EXTENDS Naturals, FiniteSets

CONSTANTS
    Requests,       \* requests being served: each reserves under an id of its own
    Sessions,       \* session ids, chosen fresh by the capture backend
    Windows,        \* KWin window UUIDs: an exact window is captured directly
    Chooser,        \* any other source: the user picks it in the portal chooser
    Owners,
    MaxExact,       \* MAX_EXACT_WINDOW_SESSIONS_PER_OWNER
    SessionTTL,     \* DEFAULT_SESSION_TTL, in clock ticks
    None            \* no reservation, no slot

Sources == Windows \cup {Chooser}
Reservation == [source: Sources, owner: Owners]
\* Only an exact-window slot has an expires_at; a chooser-backed one keeps
\* its ttl untouched.
Slot == [source: Sources, owner: Owners, ttl: 0..SessionTTL]

ASSUME QuotaAssumption == MaxExact \in Nat \ {0} /\ SessionTTL \in Nat \ {0}
ASSUME SourceAssumption == Chooser \notin Windows
ASSUME NoneAssumption == None \notin Reservation /\ None \notin Slot

VARIABLES
    pending,        \* request -> its reservation, or None
    slots,          \* session id -> its slot, or None
    opened,         \* history: the session ids the backend has handed out
    ended           \* sessions whose stream or portal session is over

captureVars == <<pending, slots, opened, ended>>

Exact(src) == src # Chooser

Active == {s \in Sessions : slots[s] # None}

\* reap_ended(): the backend reports an end, or the exact lease ran out.
Dead(s) == s \in ended \/ (Exact(slots[s].source) /\ slots[s].ttl = 0)
Alive == {s \in Active : ~Dead(s)}
Reaped == [s \in Sessions |-> IF s \in Alive THEN slots[s] ELSE None]

Reserved == {q \in Requests : pending[q] # None}

\* What an owner holds once the dead are reaped, opens in flight included.
Held(o) ==
    Cardinality({q \in Reserved : pending[q].owner = o})
      + Cardinality({s \in Alive : slots[s].owner = o})

ChooserBusy ==
    \/ \E q \in Reserved : ~Exact(pending[q].source)
    \/ \E s \in Alive : ~Exact(slots[s].source)

\* Plausible bug: the quota forgets the opens still in flight.
BugMayOpen(o, src) ==
    IF Exact(src) THEN Cardinality({s \in Alive : slots[s].owner = o}) < MaxExact
                  ELSE Held(o) = 0 /\ ~ChooserBusy

\* begin_open()'s three refusals, negated.
MayOpen(o, src) ==
    IF Exact(src) THEN Held(o) < MaxExact
                  ELSE Held(o) = 0 /\ ~ChooserBusy

-----------------------------------------------------------------------------
InitCapture ==
    /\ pending = [q \in Requests |-> None]
    /\ slots = [s \in Sessions |-> None]
    /\ opened = {}
    /\ ended = {}

\* Every public operation but close() reaps first; so does a status read.
Reap ==
    /\ slots' = Reaped
    /\ UNCHANGED <<pending, opened, ended>>

BeginOpen(q, o, src) ==
    /\ pending[q] = None
    /\ MayOpen(o, src)
    /\ pending' = [pending EXCEPT ![q] = [source |-> src, owner |-> o]]
    /\ slots' = Reaped
    /\ UNCHANGED <<opened, ended>>

RefuseOpen(o, src) ==
    /\ ~MayOpen(o, src)
    /\ Reap

\* finish_open(): the reservation becomes a slot.
FinishOpen(q, s) ==
    /\ pending[q] # None
    /\ s \notin opened
    /\ opened' = opened \cup {s}
    /\ pending' = [pending EXCEPT ![q] = None]
    /\ slots' = [slots EXCEPT ![s] = [source |-> pending[q].source,
                                      owner |-> pending[q].owner,
                                      ttl |-> SessionTTL]]
    /\ UNCHANGED ended

\* fail_open(), and finish_open() when the backend repeats a session id.
FailOpen(q) ==
    /\ pending[q] # None
    /\ pending' = [pending EXCEPT ![q] = None]
    /\ UNCHANGED <<slots, opened, ended>>

\* The removal in close() and in capture_backend_error().
RemoveSlot(s) ==
    /\ s \in Active
    /\ slots' = [slots EXCEPT ![s] = None]
    /\ UNCHANGED <<pending, opened, ended>>

\* Plausible bug: the deadline is extended instead of restarted.
BugRenewCapture(s) ==
    /\ s \in Alive
    /\ Exact(slots[s].source)
    /\ slots' = [Reaped EXCEPT ![s].ttl = @ + SessionTTL]
    /\ UNCHANGED <<pending, opened, ended>>

\* renew(): only a live exact-window slot has a lease to renew.
RenewCapture(s) ==
    /\ s \in Alive
    /\ Exact(slots[s].source)
    /\ slots' = [Reaped EXCEPT ![s].ttl = SessionTTL]
    /\ UNCHANGED <<pending, opened, ended>>

\* The portal revokes the session, the window closes, the stream breaks.
BackendEnds(s) ==
    /\ s \in Active \ ended
    /\ ended' = ended \cup {s}
    /\ UNCHANGED <<pending, slots, opened>>

AgeCaptures ==
    /\ slots' = [s \in Sessions |->
                    IF s \in Active /\ Exact(slots[s].source) /\ slots[s].ttl > 0
                       THEN [slots[s] EXCEPT !.ttl = @ - 1]
                       ELSE slots[s]]
    /\ UNCHANGED <<pending, opened, ended>>

NextCapture ==
    \/ Reap
    \/ \E q \in Requests, o \in Owners, src \in Sources : BeginOpen(q, o, src)
    \/ \E o \in Owners, src \in Sources : RefuseOpen(o, src)
    \/ \E q \in Requests, s \in Sessions : FinishOpen(q, s)
    \/ \E q \in Requests : FailOpen(q)
    \/ \E s \in Sessions : RemoveSlot(s)
    \/ \E s \in Sessions : RenewCapture(s)
    \/ \E s \in Sessions : BackendEnds(s)
    \/ AgeCaptures

SpecCapture == InitCapture /\ [][NextCapture]_captureVars

-----------------------------------------------------------------------------
(* Type invariant. *)
CaptureTypeOK ==
    /\ pending \in [Requests -> Reservation \cup {None}]
    /\ slots \in [Sessions -> Slot \cup {None}]
    /\ opened \subseteq Sessions
    /\ ended \subseteq opened
    /\ Active \subseteq opened

(* Whatever opens race, an owner's sessions and reservations together stay *)
(* within the exact-window quota: a slow backend cannot be used to reserve *)
(* more than the quota and have all of them finish.                        *)
OwnerQuota ==
    \A o \in Owners :
        Cardinality({q \in Reserved : pending[q].owner = o})
          + Cardinality({s \in Active : slots[s].owner = o}) <= MaxExact

(* Chooser-backed capture is globally serialized, from the reservation to  *)
(* the end of the session: the user never faces two portal choosers.       *)
ChooserSerialized ==
    Cardinality({q \in Reserved : ~Exact(pending[q].source)})
      + Cardinality({s \in Active : ~Exact(slots[s].source)}) <= 1

(* Whatever opens race each other, both limits hold of what is open and what *)
(* is being opened together.                                               *)
OpensWithinLimits == OwnerQuota /\ ChooserSerialized
=============================================================================
