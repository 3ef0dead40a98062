------------------------------ MODULE AgentLanes ------------------------------
(* The lanes of the agent seat: the daemon gives each agent one               *)
(* (interaction.rs), checks what it asks for (input_actions.rs), and the      *)
(* plugin keeps for each a virtual seat with the window it points into and    *)
(* the place there (agentseatplugin.cpp).  The plugin keeps fewer than there  *)
(* ever were, and learns nothing of sessions: it drops the one unused for     *)
(* longest.  One axis; windows are as wide as their client surface, and the   *)
(* daemon's list has them with their decoration.                              *)
EXTENDS Integers, Sequences, FiniteSets, Queues

CONSTANTS
    Agents,         \* owners of sessions
    Surfaces,       \* native Wayland windows
    Widths,         \* of client surfaces
    Points,         \* coordinates that agents ask for
    PoolSize,       \* MaxAgentLanes, of the daemon and of the plugin
    MaxLanes,       \* bound on the lanes ever lanesMinted
    MaxAsked,       \* bound on the queue
    MaxTurns,       \* bound on changes of the windows, and losses of the daemon
    NoWindow

ASSUME PoolAssumption ==
    /\ PoolSize \in Nat \ {0} /\ MaxLanes \in Nat /\ MaxTurns \in Nat
    /\ Widths \subseteq Nat \ {0} /\ Points \subseteq Nat /\ NoWindow \notin Surfaces \cup Agents

VARIABLES
    width,          \* surface -> width now, 0 when it is closed
    deco,           \* surface -> width of its decoration, left and right
    seenWidth,      \* surface -> width in the daemon's list, 0 when it has none
    turns,
    holder,         \* surface -> the agent with a session on it, or NoWindow
    laneOf,         \* agent -> its lane, 0 for none
    lanesMinted,         \* lanes minted so far
    lanes,          \* m_lanes: the plugin's, the one used last at the end
    authorized,     \* the daemon's queue of authorized actions
    leftAt          \* history: agent -> where its last action left its pointer

desktopSide == <<width, deco, turns>>
daemonSide == <<seenWidth, holder, laneOf, lanesMinted>>
laneVars == <<desktopSide, daemonSide, lanes, authorized, leftAt>>

Nowhere == [window |-> NoWindow, at |-> 0]

\* Keys and scrolls go where the pointer is; moves and clicks say where to, as
\* drags do.
LaneKinds == {"unaimed", "aimed", "drag"}

Outer(w) == width[w] + 2 * deco[w]

InitLanes ==
    /\ width \in [Surfaces -> Widths] /\ deco \in [Surfaces -> {0, 1}]
    /\ seenWidth = [w \in Surfaces |-> Outer(w)]
    /\ turns = 0
    /\ holder = [w \in Surfaces |-> NoWindow]
    /\ laneOf = [o \in Agents |-> 0] /\ lanesMinted = 0
    /\ lanes = <<>> /\ authorized = <<>>
    /\ leftAt = [o \in Agents |-> [place |-> Nowhere, dropped |-> FALSE]]

-----------------------------------------------------------------------------
(* The desktop and the sessions.                                           *)

Turn == turns < MaxTurns /\ turns' = turns + 1

ResizeSurface(w, to) ==
    /\ Turn /\ width[w] # 0 /\ to # width[w]
    /\ width' = [width EXCEPT ![w] = to]
    /\ UNCHANGED <<deco, daemonSide, lanes, authorized, leftAt>>

ListWindow(w) ==
    /\ seenWidth[w] # IF width[w] = 0 THEN 0 ELSE Outer(w)
    /\ seenWidth' = [seenWidth EXCEPT ![w] = IF width[w] = 0 THEN 0 ELSE Outer(w)]
    /\ UNCHANGED <<desktopSide, holder, laneOf, lanesMinted, lanes, authorized, leftAt>>

LaneHolders == {o \in Agents : laneOf[o] # 0}

\* bind(): the agent's lane, or a fresh one.
OpenLane(o, w) ==
    /\ seenWidth[w] # 0 /\ holder[w] = NoWindow
    /\ holder' = [holder EXCEPT ![w] = o]
    /\ \/ laneOf[o] # 0 /\ UNCHANGED <<laneOf, lanesMinted, leftAt>>
       \/ /\ laneOf[o] = 0 /\ Cardinality(LaneHolders) < PoolSize /\ lanesMinted < MaxLanes
          /\ lanesMinted' = lanesMinted + 1
          /\ laneOf' = [laneOf EXCEPT ![o] = lanesMinted + 1]
          /\ leftAt' = [leftAt EXCEPT ![o] = [place |-> Nowhere, dropped |-> FALSE]]
    /\ UNCHANGED <<desktopSide, seenWidth, lanes, authorized>>

\* The session ends; with its last one the agent has no lane.
CloseLane(o, w) ==
    /\ holder[w] = o
    /\ holder' = [holder EXCEPT ![w] = NoWindow]
    /\ laneOf' = IF \E x \in Surfaces \ {w} : holder[x] = o THEN laneOf
                 ELSE [laneOf EXCEPT ![o] = 0]
    /\ UNCHANGED <<desktopSide, seenWidth, lanesMinted, lanes, authorized, leftAt>>

\* A new daemon knows no session, and the plugin has forgotten the windows.
LoseDaemon ==
    /\ Turn
    /\ holder' = [w \in Surfaces |-> NoWindow]
    /\ laneOf' = [o \in Agents |-> 0]
    /\ lanes' = [i \in DOMAIN lanes |-> [lanes[i] EXCEPT !.target = NoWindow]]
    /\ authorized' = <<>>
    /\ UNCHANGED <<width, deco, seenWidth, lanesMinted, leftAt>>

-----------------------------------------------------------------------------
(* Requests.                                                               *)

\* validate_agent_point()
InsideListed(w, points) == \A p \in points : p < seenWidth[w]

\* agent_type_text() to agent_scroll_pointer()
AskAction(o, w, kind, from, to) ==
    /\ holder[w] = o /\ seenWidth[w] # 0
    /\ Len(authorized) < MaxAsked
    /\ kind # "unaimed" => InsideListed(w, {from, to})
    /\ kind # "drag" => to = from
    /\ kind = "unaimed" => from = CHOOSE p \in Points : TRUE
    /\ authorized' = Append(authorized,
           [by |-> o, lane |-> laneOf[o], window |-> w, kind |-> kind,
            from |-> from, to |-> to, seen |-> seenWidth[w]])
    /\ UNCHANGED <<desktopSide, daemonSide, lanes, leftAt>>

-----------------------------------------------------------------------------
(* The plugin.                                                             *)

Kept(id) == {i \in DOMAIN lanes : lanes[i].id = id}
Dropped(id) == Kept(id) = {} /\ Len(lanes) = PoolSize

\* Plausible bug: the seat that is taken over keeps its window and place.
BugNewLane(id) ==
    IF Dropped(id) THEN [Head(lanes) EXCEPT !.id = id]
    ELSE [id |-> id, target |-> NoWindow, at |-> 0]

\* initializeLane()
NewLane(id) == [id |-> id, target |-> NoWindow, at |-> 0]

LaneFor(id) == IF Kept(id) = {} THEN NewLane(id) ELSE lanes[CHOOSE i \in Kept(id) : TRUE]

\* laneFor(): the others, without the one unused for longest if there is no room.
OtherLanes(id) ==
    IF Dropped(id) THEN Tail(lanes) ELSE Without(lanes, {lanes[i] : i \in Kept(id)})

\* Plausible bug: the place is used in whatever window.
BugPlace(a) ==
    IF a.kind # "unaimed" THEN a.from
    ELSE IF LaneFor(a.lane).target # NoWindow THEN LaneFor(a.lane).at
    ELSE width[a.window] \div 2

Place(a) ==
    IF a.kind # "unaimed" THEN a.from
    ELSE IF LaneFor(a.lane).target = a.window THEN LaneFor(a.lane).at
    ELSE width[a.window] \div 2

\* bindTarget() refuses what is not on the client surface; its edges are.
Binds(a, p) == p <= width[a.window]

\* leftAt after the action, and after the loss of a lane to it.
Leaves(a, place) ==
    leftAt' = [o \in Agents |->
        IF o = a.by /\ a.lane = laneOf[o] THEN [place |-> place, dropped |-> FALSE]
        ELSE IF Dropped(a.lane) /\ laneOf[o] = Head(lanes).id THEN [leftAt[o] EXCEPT !.dropped = TRUE]
        ELSE leftAt[o]]

\* findWindow() finds none: the lanes are not touched.
RefuseGone ==
    LET a == Head(authorized)
    IN  /\ authorized # <<>> /\ width[a.window] = 0
        /\ authorized' = Tail(authorized)
        /\ UNCHANGED <<desktopSide, daemonSide, lanes, leftAt>>

\* The lane is there, or made, and is the last used whatever comes of it.
RefusePlace ==
    LET a == Head(authorized)
    IN  /\ authorized # <<>> /\ width[a.window] # 0 /\ ~Binds(a, Place(a))
        /\ authorized' = Tail(authorized)
        /\ lanes' = Append(OtherLanes(a.lane), LaneFor(a.lane))
        /\ Leaves(a, IF Kept(a.lane) = {} THEN Nowhere ELSE leftAt[a.by].place)
        /\ UNCHANGED <<desktopSide, daemonSide>>

\* sendKeyCombo(), sendKeySequence(), movePointer(), clickPointer(),
\* dragPointer(), scrollPointer()
PerformAction ==
    LET a == Head(authorized)
        ends == a.kind # "drag" \/ Binds(a, a.to)
        at == IF a.kind = "drag" /\ ends THEN a.to ELSE Place(a)
    IN  /\ authorized # <<>> /\ width[a.window] # 0 /\ Binds(a, Place(a))
        /\ authorized' = Tail(authorized)
        /\ lanes' = Append(OtherLanes(a.lane), [id |-> a.lane, target |-> a.window, at |-> at])
        /\ Leaves(a, [window |-> a.window, at |-> at])
        /\ UNCHANGED <<desktopSide, daemonSide>>

NextLanes ==
    \/ \E w \in Surfaces : ListWindow(w) \/ \E to \in Widths \cup {0} : ResizeSurface(w, to)
    \/ \E o \in Agents, w \in Surfaces :
          \/ OpenLane(o, w) \/ CloseLane(o, w)
          \/ \E kind \in LaneKinds, from, to \in Points : AskAction(o, w, kind, from, to)
    \/ LoseDaemon \/ RefuseGone \/ RefusePlace \/ PerformAction

SpecLanes == InitLanes /\ [][NextLanes]_laneVars

-----------------------------------------------------------------------------
\* The last action of an agent left its pointer there, if its lane is still one.
Before(a) ==
    IF a.lane # laneOf[a.by] THEN [place |-> Nowhere, dropped |-> TRUE] ELSE leftAt[a.by]

(* "Scroll uses the current target's last agent pointer position, or the     *)
(* client-surface center after startup or a target switch" (agent-seat.md),  *)
(* and keys the same, whichever lanes the plugin has dropped and made, and   *)
(* whoever had the window before, unless the agent's own was dropped.        *)
ActsWhereLeft ==
    [][LET a == Head(authorized)
           before == Before(a)
       IN  PerformAction /\ a.kind = "unaimed" /\ ~before.dropped =>
               lanes'[Len(lanes')].at = IF before.place.window = a.window THEN before.place.at
                                        ELSE width[a.window] \div 2]_laneVars

(* What the daemon has let pass the plugin refuses only if the window is not *)
(* as wide as the daemon's list had it, or does not reach any more to where  *)
(* the agent left its pointer.                                               *)
RefusedForCause ==
    [][LET a == Head(authorized)
       IN  RefusePlace =>
               \/ a.kind # "unaimed" /\ a.seen # width[a.window]
               \/ a.kind = "unaimed" /\ Before(a).dropped
               \/ a.kind = "unaimed" /\ Before(a).place.window = a.window
                     /\ Before(a).place.at > width[a.window]]_laneVars

(* A lane serves its agent and no other (agentseatplugin.cpp:252).           *)
LanesServeTheirAgent == ActsWhereLeft /\ RefusedForCause
=============================================================================
