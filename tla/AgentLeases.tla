---------------------------- MODULE AgentLeases ----------------------------
(***************************************************************************)
(* What the interaction store promises the rest of the daemon, without its *)
(* sessions, deadlines and purges: a window is held by one agent at a time *)
(* and passes to another only over being free, and an agent has one lane,  *)
(* nobody else's and never used before, for as long as it holds a window.  *)
(***************************************************************************)
EXTENDS Naturals, FiniteSets

CONSTANTS
    Windows, Owners,
    Lanes,          \* ids, one for each grant; some become lanes
    MaxAgentLanes

VARIABLES
    held,           \* the pairs of a window and the owner that holds it
    lanes,          \* the pairs of an owner and the lane kept for it
    given           \* history: the ids of the grants so far

leaseVars == <<held, lanes, given>>

HoldersOf(w) == {o \in Owners : <<w, o>> \in held}
Holding == {h[2] : h \in held}

\* A grant forgets the lanes of those that hold nothing.
KeptLanes == {r \in lanes : r[1] \in Holding}

-----------------------------------------------------------------------------
InitLeases == held = {} /\ lanes = {} /\ given = {}

Grant(w, o, id) ==
    /\ HoldersOf(w) \subseteq {o}
    /\ o \in Holding \/ Cardinality(Holding) < MaxAgentLanes
    /\ id \notin given
    /\ held' = held \cup {<<w, o>>}
    /\ lanes' = IF o \in Holding THEN KeptLanes ELSE KeptLanes \cup {<<o, id>>}
    /\ given' = given \cup {id}

\* An owner that still has its lane takes up a window it held before.
Resume(w, o) ==
    /\ HoldersOf(w) \subseteq {o}
    /\ \E r \in lanes : r[1] = o
    /\ held' = held \cup {<<w, o>>}
    /\ UNCHANGED <<lanes, given>>

\* Windows are let go of, by a close, an expiry or a purge, and lanes with the last.
Release ==
    /\ held' \subseteq held
    /\ lanes' \subseteq lanes
    /\ \A r \in lanes : r[1] \in Holding' => r \in lanes'
    /\ UNCHANGED given

NextLeases ==
    \/ Release
    \/ \E w \in Windows, o \in Owners : Resume(w, o) \/ \E id \in Lanes : Grant(w, o, id)

SpecLeases == InitLeases /\ [][NextLeases]_leaseVars
=============================================================================
