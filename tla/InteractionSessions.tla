------------------------- MODULE InteractionSessions -------------------------
(***************************************************************************)
(* The interaction-session store of seatgeistd (interaction.rs): which     *)
(* agent owner holds the interaction lease on which window, and which      *)
(* virtual-seat lane the owner's actions use.  Every operation of the      *)
(* store runs under one mutex and is one action here; the callers that     *)
(* combine them live in module SessionLifecycle.                           *)
(***************************************************************************)
EXTENDS Naturals, FiniteSets

CONSTANTS
    Sessions,       \* capture-session ids, fresh UUIDs: bound at most once
    Windows,        \* KWin window UUIDs
    Identities,     \* the (app id, pid) pairs a window is pinned with
    Owners,         \* SessionOwner::identity(): a process or the verified CLI
    MaxAgentLanes,  \* MAX_AGENT_LANES
    SessionTTL,     \* DEFAULT_SESSION_TTL, in clock ticks
    Unbound         \* no interaction session under this id

ASSUME LanesAssumption == MaxAgentLanes \in Nat \ {0} /\ SessionTTL \in Nat \ {0}
ASSUME OwnersAssumption == IsFiniteSet(Owners)

\* One InteractionSession.  A lane id is a fresh UUID minted by the first
\* session of an owner; the id of that session stands for it.  ttl is the
\* time left before expires_at.
Lease == [window: Windows, identity: Identities, owner: Owners,
          lane: Sessions, ttl: 0..SessionTTL]

ASSUME UnboundAssumption == Unbound \notin Lease

VARIABLES
    interaction,    \* session id -> its lease, or Unbound
    minted          \* history: the session ids bound so far

interactionVars == <<interaction, minted>>

Bound == {s \in Sessions : interaction[s] # Unbound}
Live  == {s \in Bound : interaction[s].ttl > 0}

OwnersIn(S) == {interaction[s].owner : s \in S}

\* The window is pinned by a live session of another owner.
InUseByOther(w, o) ==
    \E t \in Live : interaction[t].window = w /\ interaction[t].owner # o

\* Plausible bug: the quota test is off by one.
BugLaneQuotaReached(o) ==
    o \notin OwnersIn(Live) /\ Cardinality(OwnersIn(Live)) > MaxAgentLanes

\* An owner that holds no live session would need one lane too many.
LaneQuotaReached(o) ==
    o \notin OwnersIn(Live) /\ Cardinality(OwnersIn(Live)) >= MaxAgentLanes

\* Plausible bug: every session mints a lane of its own.
BugLaneChoices(s, o) == {s}

\* The owner keeps the lane of any of its live sessions, or mints one.
LaneChoices(s, o) ==
    LET held == {interaction[t].lane : t \in {u \in Live : interaction[u].owner = o}}
    IN  IF held = {} THEN {s} ELSE held

\* Plausible bug: an owner that has a lane is not asked about the window.
BugAccepts(w, o) ==
    ~LaneQuotaReached(o) /\ (o \in OwnersIn(Live) \/ ~InUseByOther(w, o))

Accepts(w, o) == ~InUseByOther(w, o) /\ ~LaneQuotaReached(o)

NewLease(w, i, o, l) ==
    [window |-> w, identity |-> i, owner |-> o, lane |-> l, ttl |-> SessionTTL]

\* Plausible bug: bind() skips the expired sessions but leaves them stored.
BugAfterPurge(s) == interaction[s]

\* bind() drops the expired sessions before it decides.
AfterPurge(s) == IF s \in Live THEN interaction[s] ELSE Unbound

-----------------------------------------------------------------------------
InitInteraction ==
    /\ interaction = [s \in Sessions |-> Unbound]
    /\ minted = {}

\* bind(), accepted.
Bind(s, w, i, o) ==
    /\ s \notin minted
    /\ Accepts(w, o)
    /\ \E l \in LaneChoices(s, o) :
          interaction' = [t \in Sessions |->
                             IF t = s THEN NewLease(w, i, o, l) ELSE AfterPurge(t)]
    /\ minted' = minted \cup {s}

\* bind(), refused: "agent target in use" or "agent lane quota reached".
\* The expired sessions are gone all the same.
RejectBind(w, o) ==
    /\ ~Accepts(w, o)
    /\ interaction' = [t \in Sessions |-> AfterPurge(t)]
    /\ UNCHANGED minted

\* clear() and clear_if_present().
Clear(s) ==
    /\ interaction' = [interaction EXCEPT ![s] = Unbound]
    /\ UNCHANGED minted

\* Plausible bug: the deadline is extended instead of restarted.
BugRenew(s) ==
    /\ s \in Bound
    /\ interaction' = [interaction EXCEPT ![s].ttl = @ + SessionTTL]
    /\ UNCHANGED minted

\* renew() does not look at the expiry it replaces.
Renew(s) ==
    /\ s \in Bound
    /\ interaction' = [interaction EXCEPT ![s].ttl = SessionTTL]
    /\ UNCHANGED minted

\* retain_active_capture_sessions().
RetainActive(active) ==
    /\ interaction' = [s \in Sessions |-> IF s \in active THEN interaction[s] ELSE Unbound]
    /\ UNCHANGED minted

\* The clock moves.
Age ==
    /\ interaction' = [s \in Sessions |->
                          IF s \in Live THEN [interaction[s] EXCEPT !.ttl = @ - 1]
                                        ELSE interaction[s]]
    /\ UNCHANGED minted

\* resolve(): the lease is live and its window is still the pinned one, in
\* the window list the caller has read (window -> identity).
Resolves(s, windows) ==
    s \in Live /\ windows[interaction[s].window] = interaction[s].identity

NextInteraction ==
    \/ \E s \in Sessions, w \in Windows, i \in Identities, o \in Owners : Bind(s, w, i, o)
    \/ \E w \in Windows, o \in Owners : RejectBind(w, o)
    \/ \E s \in Sessions : Clear(s)
    \/ \E s \in Sessions : Renew(s)
    \/ \E active \in SUBSET Sessions : RetainActive(active)
    \/ Age

SpecInteraction == InitInteraction /\ [][NextInteraction]_interactionVars

-----------------------------------------------------------------------------
(* Type invariant: every stored session is a well-formed lease. *)
TypeOK ==
    /\ interaction \in [Sessions -> Lease \cup {Unbound}]
    /\ minted \subseteq Sessions

(* A window interaction lease is exclusive across agent owners: whatever   *)
(* sequence of binds, renewals of expired sessions, purges and closes got  *)
(* there, two stored sessions on one window have one owner (bind()'s check *)
(* is made on the unexpired sessions only, yet renew() can revive an       *)
(* expired one).                                                           *)
WindowExclusive ==
    \A s, t \in Bound :
        interaction[s].window = interaction[t].window
            => interaction[s].owner = interaction[t].owner

(* A lane belongs to one owner and an owner has one lane, also when the    *)
(* session that minted the lane is long gone and others have inherited it: *)
(* no two agents share a virtual keyboard and pointer.                     *)
LaneIsolation ==
    \A s, t \in Bound :
        interaction[s].lane = interaction[t].lane
            <=> interaction[s].owner = interaction[t].owner

(* At most MaxAgentLanes owners hold sessions, counting the expired ones   *)
(* that nothing has purged yet: the compositor plugin keeps that many      *)
(* seats and would have to evict one in use.                               *)
LaneQuota == Cardinality(OwnersIn(Bound)) <= MaxAgentLanes

-----------------------------------------------------------------------------
\* A lease is held while its session is unexpired; a lane is kept as long as a
\* session that uses it is stored.
Leases == INSTANCE AgentLeases WITH
    Lanes <- Sessions,
    held  <- {<<interaction[s].window, interaction[s].owner>> : s \in Live},
    lanes <- {<<interaction[s].owner, interaction[s].lane>> : s \in Bound},
    given <- minted

(* The store is a lock on each window with a lane for each holder: expiry, *)
(* renewal of what has expired, purges and closes never let a window pass  *)
(* from one agent to another but over being free, nor change the lane of   *)
(* an agent under its actions (interaction.rs:92).                         *)
ImplementsLeases == Leases!SpecLeases
=============================================================================
