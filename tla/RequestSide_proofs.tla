-------------------------- MODULE RequestSide_proofs -------------------------
(***************************************************************************)
(* Proofs about what a request meets on its way to the desktop and back:   *)
(* the lane an action of an agent uses, for any agents, windows and queue; *)
(* the element a semantic action acts on, for any elements and windows and *)
(* any number of moves of the screen; what the client is told after an     *)
(* action, for any windows and elements and any number of moves of the     *)
(* desktop; the rate limiter, for any limit, window and delay; what an EIS *)
(* session leaves behind, for any number of unread events; and the checks  *)
(* that come first, for every kind of request and all settings.            *)
(***************************************************************************)
EXTENDS MCRequestSide, Queues_proofs

-----------------------------------------------------------------------------
(* Whose lane an action uses.                                              *)

Lane == [id: Nat, target: Surfaces \cup {NoWindow}, at: Nat]
Authorized == [by: Agents, lane: Nat, window: Surfaces, kind: LaneKinds, from: Nat, to: Nat, seen: Nat]
PlaceLeft == [window: Surfaces \cup {NoWindow}, at: Nat]

LaneTypes ==
    /\ width \in [Surfaces -> Nat] /\ deco \in [Surfaces -> Nat] /\ seenWidth \in [Surfaces -> Nat]
    /\ holder \in [Surfaces -> Agents \cup {NoWindow}]
    /\ laneOf \in [Agents -> Nat] /\ lanesMinted \in Nat
    /\ lanes \in Seq(Lane) /\ authorized \in Seq(Authorized)
    /\ leftAt \in [Agents -> [place: PlaceLeft, dropped: BOOLEAN]]

\* The daemon never gives a lane to two agents, or one again.
MintedOnce ==
    /\ \A o \in Agents : laneOf[o] <= lanesMinted
    /\ \A o, x \in Agents : laneOf[o] # 0 /\ laneOf[o] = laneOf[x] => o = x
    /\ \A w \in Surfaces, o \in Agents : holder[w] = o => laneOf[o] # 0

\* An action in the queue is of the agent whose lane it names, if that is still
\* one, and points into the window as the daemon knew it.
QueuedOK(a) ==
    /\ a.lane \in 1..lanesMinted
    /\ \A o \in Agents : laneOf[o] = a.lane => a.by = o
    /\ a.kind # "unaimed" => a.from < a.seen

\* The plugin has no lane twice.
LanesApart ==
    /\ \A l, m \in Lane : Has(lanes, l) /\ Has(lanes, m) /\ l.id = m.id => l = m
    /\ \A l \in Lane : Has(lanes, l) => Once(lanes, l) /\ l.id <= lanesMinted

NoLane(id) == \A l \in Lane : Has(lanes, l) => l.id # id

\* The plugin's lane of an agent is as its last action left it, or dropped.
AsLeft(o) ==
    IF leftAt[o].dropped THEN NoLane(laneOf[o])
    ELSE \/ leftAt[o].place = Nowhere /\ NoLane(laneOf[o])
         \/ Has(lanes, [id |-> laneOf[o], target |-> leftAt[o].place.window, at |-> leftAt[o].place.at])

LaneInv ==
    /\ LaneTypes /\ MintedOnce /\ LanesApart
    /\ \A a \in Authorized : Has(authorized, a) => QueuedOK(a)
    /\ \A o \in Agents : laneOf[o] # 0 => AsLeft(o)

LEMMA LanesStart == InitLanes => LaneInv
<1> SUFFICES ASSUME InitLanes PROVE LaneInv
  OBVIOUS
<1>1. lanes = <<>> /\ authorized = <<>> /\ lanesMinted = 0
  BY DEF InitLanes
<1>2. \A o \in Agents : laneOf[o] = 0
  BY DEF InitLanes
<1>3. \A w \in Surfaces : holder[w] = NoWindow
  BY DEF InitLanes
<1>4. LaneTypes
  <2>1. width \in [Surfaces -> Nat] /\ deco \in [Surfaces -> Nat]
    <3>1. Widths \subseteq Nat /\ {0, 1} \subseteq Nat
      BY PoolAssumption
    <3>2. width \in [Surfaces -> Widths] /\ deco \in [Surfaces -> {0, 1}]
      BY DEF InitLanes
    <3> QED BY <3>1, <3>2
  <2>2. \A w \in Surfaces : Outer(w) \in Nat
    BY <2>1 DEF Outer
  <2>3. seenWidth \in [Surfaces -> Nat]
    BY <2>2 DEF InitLanes
  <2>4. leftAt \in [Agents -> [place: PlaceLeft, dropped: BOOLEAN]]
    BY DEF InitLanes, Nowhere, PlaceLeft
  <2>5. lanes \in Seq(Lane) /\ authorized \in Seq(Authorized)
    BY <1>1
  <2>6. laneOf \in [Agents -> Nat] /\ holder \in [Surfaces -> Agents \cup {NoWindow}]
    BY DEF InitLanes
  <2> QED BY <1>1, <2>1, <2>3, <2>4, <2>5, <2>6 DEF LaneTypes
<1>5. MintedOnce
  BY <1>1, <1>2, <1>3, PoolAssumption DEF MintedOnce
<1>6. LanesApart /\ \A a \in Authorized : Has(authorized, a) => QueuedOK(a)
  BY <1>1, EmptyHasNothing DEF LanesApart
<1> QED BY <1>2, <1>4, <1>5, <1>6 DEF LaneInv

\* The lane that was used last is at the end of s, and of the others at most
\* one, the first, has been dropped.
UsedLast(s, l) ==
    /\ s \in Seq(Lane) /\ s # <<>> /\ s[Len(s)] = l
    /\ \A x \in Lane : Has(s, x) => x = l \/ (Has(lanes, x) /\ x.id # l.id)
    /\ Has(s, l)
    /\ \A x \in Lane : Has(s, x) => Once(s, x)
    /\ \A x \in Lane : /\ Has(lanes, x) /\ x.id # l.id
                       /\ Dropped(l.id) => x.id # Head(lanes).id
                       => Has(s, x)
    /\ \A x \in Lane : Dropped(l.id) /\ Has(s, x) => x.id # Head(lanes).id

LEMMA LaneUsed ==
    ASSUME LaneInv, NEW l \in Lane, NEW s, s = Append(OtherLanes(l.id), l)
    PROVE  UsedLast(s, l)
<1>1. lanes \in Seq(Lane) /\ LanesApart
  BY DEF LaneInv, LaneTypes
<1> DEFINE rest == OtherLanes(l.id)
<1>2. /\ rest \in Seq(Lane)
      /\ \A x \in Lane : Has(rest, x) => Has(lanes, x) /\ x.id # l.id /\ Once(rest, x)
      /\ \A x \in Lane : /\ Has(lanes, x) /\ x.id # l.id
                         /\ Dropped(l.id) => x.id # Head(lanes).id
                         => Has(rest, x)
      /\ \A x \in Lane : Dropped(l.id) => Head(lanes).id # l.id /\ (Has(rest, x) => x.id # Head(lanes).id)
  <2>1. CASE Dropped(l.id)
    <3>1. lanes # <<>> /\ rest = Tail(lanes) /\ \A i \in DOMAIN lanes : lanes[i].id # l.id
      BY <2>1, PoolAssumption DEF Dropped, Kept, OtherLanes
    <3>2. /\ Tail(lanes) \in Seq(Lane) /\ Head(lanes) \in Lane /\ Has(lanes, Head(lanes))
          /\ \A x : Has(Tail(lanes), x) => Has(lanes, x)
          /\ \A x : Has(lanes, x) => Has(Tail(lanes), x) \/ x = Head(lanes)
          /\ \A x : Once(lanes, x) => Once(Tail(lanes), x) /\ ~(x = Head(lanes) /\ Has(Tail(lanes), x))
      BY <1>1, <3>1, HasTail
    <3>3. \A x \in Lane : Has(lanes, x) => x.id # l.id
      BY <3>1 DEF Has
    <3>4. ASSUME NEW x \in Lane, Has(rest, x)
          PROVE  Has(lanes, x) /\ Once(rest, x) /\ x.id # Head(lanes).id
      BY <1>1, <3>1, <3>2, <3>4 DEF LanesApart
    <3> QED BY <2>1, <3>1, <3>2, <3>3, <3>4
  <2>2. CASE ~Dropped(l.id)
    <3> DEFINE X == {lanes[i] : i \in Kept(l.id)}
    <3>1. rest = Without(lanes, X)
      BY <2>2 DEF OtherLanes
    <3>2. \A x : Has(lanes, x) => (x \in X <=> x.id = l.id)
      BY DEF Has, Kept
    <3>3. /\ Without(lanes, X) \in Seq(Lane)
          /\ \A x : Has(Without(lanes, X), x) <=> Has(lanes, x) /\ x \notin X
          /\ \A x : Once(lanes, x) => Once(Without(lanes, X), x)
      <4> HIDE DEF X
      <4> QED BY <1>1, HasWithout
    <3> HIDE DEF X
    <3> QED BY <1>1, <2>2, <3>1, <3>2, <3>3 DEF LanesApart
  <2> QED BY <2>1, <2>2
<1> HIDE DEF rest
<1>3. /\ s \in Seq(Lane)
      /\ \A x : Has(s, x) <=> Has(rest, x) \/ x = l
      /\ \A x : Once(rest, x) /\ ~(x = l /\ Has(rest, x)) => Once(s, x)
  BY <1>2, HasAppend DEF rest
<1>4. s # <<>> /\ s[Len(s)] = l
  <2>1. s = Append(rest, l)
    BY DEF rest
  <2> QED BY <1>2, <2>1
<1>5. Once(s, l)
  <2>1. ~Has(rest, l) /\ Once(rest, l)
    BY <1>2 DEF Has, Once
  <2> QED BY <1>3, <2>1
<1> QED BY <1>2, <1>3, <1>4, <1>5 DEF UsedLast

\* An action on a lane leaves every other agent's as it was, or dropped.
LEMMA UseKeeps ==
    ASSUME LaneInv, authorized # <<>>, authorized' = Tail(authorized), UNCHANGED <<desktopSide, daemonSide>>,
           NEW l \in Lane, NEW place \in PlaceLeft, l.id = Head(authorized).lane,
           lanes' = Append(OtherLanes(l.id), l), Leaves(Head(authorized), place),
           l.id = laneOf[Head(authorized).by] => l.target = place.window /\ l.at = place.at
    PROVE  LaneInv'
<1> DEFINE a == Head(authorized)
<1>1. a \in Authorized /\ Has(authorized, a) /\ QueuedOK(a)
  BY HasTail DEF LaneInv, LaneTypes
<1>2. authorized' \in Seq(Authorized) /\ \A x : Has(authorized', x) => Has(authorized, x)
  BY HasTail DEF LaneInv, LaneTypes
<1>3. UNCHANGED <<width, deco, seenWidth, holder, laneOf, lanesMinted>>
  BY DEF desktopSide, daemonSide
<1>4. /\ lanes' \in Seq(Lane)
      /\ \A x \in Lane : Has(lanes', x) => x = l \/ (Has(lanes, x) /\ x.id # l.id)
      /\ Has(lanes', l)
      /\ \A x \in Lane : Has(lanes', x) => Once(lanes', x)
      /\ \A x \in Lane : /\ Has(lanes, x) /\ x.id # l.id
                         /\ Dropped(l.id) => x.id # Head(lanes).id
                         => Has(lanes', x)
      /\ \A x \in Lane : Dropped(l.id) /\ Has(lanes', x) => x.id # Head(lanes).id
  <2>1. UsedLast(lanes', l)
    BY LaneUsed
  <2> QED BY <2>1 DEF UsedLast
<1>5. \A o \in Agents : leftAt'[o] =
          IF o = a.by /\ l.id = laneOf[o] THEN [place |-> place, dropped |-> FALSE]
          ELSE IF Dropped(l.id) /\ laneOf[o] = Head(lanes).id THEN [leftAt[o] EXCEPT !.dropped = TRUE]
          ELSE leftAt[o]
  BY DEF Leaves
<1>6. LaneTypes'
  <2>1. leftAt' \in [Agents -> [place: PlaceLeft, dropped: BOOLEAN]]
    BY DEF Leaves, LaneInv, LaneTypes
  <2> QED BY <1>2, <1>3, <1>4, <2>1 DEF LaneInv, LaneTypes
<1>7. MintedOnce'
  BY <1>3 DEF LaneInv, MintedOnce
<1>8. l.id <= lanesMinted
  BY <1>1 DEF QueuedOK, LaneInv, LaneTypes
<1>9. LanesApart'
  BY <1>3, <1>4, <1>8 DEF LaneInv, LanesApart
<1>10. \A x \in Authorized : Has(authorized', x) => QueuedOK(x)'
  BY <1>2, <1>3 DEF LaneInv, QueuedOK
<1>11. ASSUME NEW o \in Agents, laneOf[o] # 0 PROVE AsLeft(o)'
  <2>1. AsLeft(o) /\ leftAt[o] \in [place: PlaceLeft, dropped: BOOLEAN] /\ laneOf[o] \in Nat
    BY <1>11 DEF LaneInv, LaneTypes
  <2>2. CASE l.id = laneOf[o]
    <3>1. o = a.by
      BY <1>1, <2>2 DEF QueuedOK
    <3>2. leftAt'[o] = [place |-> place, dropped |-> FALSE]
      BY <1>5, <2>2, <3>1
    <3>3. l = [id |-> laneOf[o], target |-> place.window, at |-> place.at]
      BY <2>2, <3>1 DEF Lane
    <3> QED BY <1>3, <1>4, <3>2, <3>3 DEF AsLeft
  <2>3. CASE l.id # laneOf[o] /\ Dropped(l.id) /\ laneOf[o] = Head(lanes).id
    <3>1. leftAt'[o].dropped = TRUE
      BY <1>5, <2>1, <2>3
    <3>2. NoLane(laneOf[o])'
      BY <1>3, <1>4, <2>3 DEF NoLane
    <3> QED BY <1>3, <3>1, <3>2 DEF AsLeft
  <2>4. CASE l.id # laneOf[o] /\ ~(Dropped(l.id) /\ laneOf[o] = Head(lanes).id)
    <3>1. leftAt'[o] = leftAt[o]
      BY <1>5, <2>4
    <3>2. NoLane(laneOf[o]) => NoLane(laneOf[o])'
      BY <1>3, <1>4, <2>4 DEF NoLane
    <3>3. ASSUME NEW x \in Lane, x.id = laneOf[o], Has(lanes, x) PROVE Has(lanes', x)
      BY <1>4, <2>4, <3>3
    <3>4. [id |-> laneOf[o], target |-> leftAt[o].place.window, at |-> leftAt[o].place.at] \in Lane
      BY <2>1 DEF Lane, PlaceLeft
    <3> QED BY <1>3, <2>1, <3>1, <3>2, <3>3, <3>4 DEF AsLeft
  <2> QED BY <2>2, <2>3, <2>4
<1> QED BY <1>3, <1>6, <1>7, <1>9, <1>10, <1>11 DEF LaneInv

LEMMA DesktopKeeps ==
    ASSUME LaneInv, width' \in [Surfaces -> Nat], seenWidth' \in [Surfaces -> Nat],
           UNCHANGED <<deco, holder, laneOf, lanesMinted, lanes, authorized, leftAt>>
    PROVE  LaneInv'
<1>1. LaneTypes'
  BY DEF LaneInv, LaneTypes
<1>2. MintedOnce' /\ LanesApart'
  BY DEF LaneInv, MintedOnce, LanesApart
<1>3. \A a \in Authorized : Has(authorized', a) => QueuedOK(a)'
  BY DEF LaneInv, QueuedOK
<1>4. \A o \in Agents : laneOf'[o] # 0 => AsLeft(o)'
  BY DEF LaneInv, AsLeft, NoLane
<1> QED BY <1>1, <1>2, <1>3, <1>4 DEF LaneInv

LEMMA OpenKeeps ==
    ASSUME LaneInv, NEW o \in Agents, NEW w \in Surfaces, OpenLane(o, w)
    PROVE  LaneInv'
<1>1. UNCHANGED <<width, deco, seenWidth, lanes, authorized>> /\ holder' = [holder EXCEPT ![w] = o]
  BY DEF OpenLane, desktopSide
<1>2. CASE laneOf[o] # 0 /\ UNCHANGED <<laneOf, lanesMinted, leftAt>>
  <2>1. LaneTypes'
    BY <1>1, <1>2 DEF LaneInv, LaneTypes
  <2>2. MintedOnce' /\ LanesApart'
    BY <1>1, <1>2 DEF LaneInv, LaneTypes, MintedOnce, LanesApart
  <2>3. \A a \in Authorized : Has(authorized', a) => QueuedOK(a)'
    BY <1>1, <1>2 DEF LaneInv, QueuedOK
  <2>4. \A x \in Agents : laneOf'[x] # 0 => AsLeft(x)'
    BY <1>1, <1>2 DEF LaneInv, AsLeft, NoLane
  <2> QED BY <2>1, <2>2, <2>3, <2>4 DEF LaneInv
<1>3. CASE /\ lanesMinted' = lanesMinted + 1
           /\ laneOf' = [laneOf EXCEPT ![o] = lanesMinted + 1]
           /\ leftAt' = [leftAt EXCEPT ![o] = [place |-> Nowhere, dropped |-> FALSE]]
  <2>1. /\ lanesMinted \in Nat /\ \A x \in Agents : laneOf[x] \in Nat /\ laneOf[x] <= lanesMinted
        /\ laneOf'[o] = lanesMinted + 1 /\ \A x \in Agents \ {o} : laneOf'[x] = laneOf[x]
    BY <1>3 DEF LaneInv, LaneTypes, MintedOnce
  <2>2. LaneTypes'
    <3>1. [place |-> Nowhere, dropped |-> FALSE] \in [place: PlaceLeft, dropped: BOOLEAN]
      BY DEF Nowhere, PlaceLeft
    <3> QED BY <1>1, <1>3, <2>1, <3>1 DEF LaneInv, LaneTypes
  <2>3. MintedOnce'
    <3>1. \A x \in Agents : laneOf'[x] <= lanesMinted'
      BY <1>3, <2>1
    <3>2. \A x, y \in Agents : laneOf'[x] # 0 /\ laneOf'[x] = laneOf'[y] => x = y
      BY <1>3, <2>1 DEF LaneInv, MintedOnce
    <3>3. \A v \in Surfaces, x \in Agents : holder'[v] = x => laneOf'[x] # 0
      BY <1>1, <2>1 DEF LaneInv, LaneTypes, MintedOnce
    <3> QED BY <3>1, <3>2, <3>3 DEF MintedOnce
  <2>4. LanesApart'
    <3>1. \A l \in Lane : l.id \in Nat
      BY DEF Lane
    <3> QED BY <1>1, <1>3, <2>1, <3>1 DEF LaneInv, LanesApart
  <2>5. ASSUME NEW a \in Authorized, Has(authorized', a) PROVE QueuedOK(a)'
    <3>1. QueuedOK(a)
      BY <1>1, <2>5 DEF LaneInv
    <3>2. a.lane \in 1..lanesMinted' /\ a.lane # lanesMinted + 1
      BY <1>3, <2>1, <3>1 DEF QueuedOK
    <3>3. \A x \in Agents : laneOf'[x] = a.lane => a.by = x
      BY <2>1, <3>1, <3>2 DEF QueuedOK
    <3> QED BY <3>1, <3>2, <3>3 DEF QueuedOK
  <2>6. ASSUME NEW x \in Agents, laneOf'[x] # 0 PROVE AsLeft(x)'
    <3>1. CASE x # o
      <4>1. AsLeft(x) /\ laneOf'[x] = laneOf[x] /\ leftAt'[x] = leftAt[x] /\ lanes' = lanes
        BY <1>1, <1>3, <2>1, <2>6, <3>1 DEF LaneInv, LaneTypes
      <4> QED BY <4>1 DEF AsLeft, NoLane
    <3>2. CASE x = o
      <4>1. leftAt'[x] = [place |-> Nowhere, dropped |-> FALSE]
        BY <1>3, <3>2 DEF LaneInv, LaneTypes
      <4>2. NoLane(laneOf[x])'
        <5>1. \A l \in Lane : Has(lanes, l) => l.id <= lanesMinted
          BY DEF LaneInv, LanesApart
        <5>2. \A l \in Lane : l.id \in Nat
          BY DEF Lane
        <5>3. \A l \in Lane : Has(lanes', l) => l.id # laneOf'[x]
          BY <1>1, <2>1, <3>2, <5>1, <5>2
        <5> QED BY <5>3 DEF NoLane
      <4> QED BY <4>1, <4>2 DEF AsLeft
    <3> QED BY <3>1, <3>2
  <2> QED BY <2>2, <2>3, <2>4, <2>5, <2>6 DEF LaneInv
<1> QED BY <1>2, <1>3 DEF OpenLane

LEMMA CloseKeeps ==
    ASSUME LaneInv, NEW o \in Agents, NEW w \in Surfaces, CloseLane(o, w)
    PROVE  LaneInv'
<1>1. /\ UNCHANGED <<width, deco, seenWidth, lanes, lanesMinted, authorized, leftAt>>
      /\ holder' = [holder EXCEPT ![w] = NoWindow]
      /\ laneOf' = IF \E x \in Surfaces \ {w} : holder[x] = o THEN laneOf ELSE [laneOf EXCEPT ![o] = 0]
  BY DEF CloseLane, desktopSide
<1>2. \A x \in Agents : laneOf'[x] \in {0, laneOf[x]} /\ (x # o => laneOf'[x] = laneOf[x])
  BY <1>1 DEF LaneInv, LaneTypes
<1>3. LaneTypes'
  BY <1>1 DEF LaneInv, LaneTypes
<1>4. MintedOnce'
  <2>1. \A x \in Agents : laneOf'[x] <= lanesMinted'
    BY <1>1, <1>2 DEF LaneInv, LaneTypes, MintedOnce
  <2>2. \A x, y \in Agents : laneOf'[x] # 0 /\ laneOf'[x] = laneOf'[y] => x = y
    BY <1>2 DEF LaneInv, MintedOnce
  <2>3. ASSUME NEW v \in Surfaces, NEW x \in Agents, holder'[v] = x PROVE laneOf'[x] # 0
    <3>1. v # w /\ holder[v] = x /\ laneOf[x] # 0
      BY <1>1, <2>3, PoolAssumption DEF LaneInv, LaneTypes, MintedOnce
    <3> QED BY <1>1, <1>2, <3>1
  <2> QED BY <2>1, <2>2, <2>3 DEF MintedOnce
<1>5. LanesApart'
  BY <1>1 DEF LaneInv, LanesApart
<1>6. ASSUME NEW a \in Authorized, Has(authorized', a) PROVE QueuedOK(a)'
  <2>1. QueuedOK(a) /\ a.lane # 0
    BY <1>1, <1>6 DEF LaneInv, QueuedOK, LaneTypes
  <2> QED BY <1>1, <1>2, <2>1 DEF QueuedOK
<1>7. ASSUME NEW x \in Agents, laneOf'[x] # 0 PROVE AsLeft(x)'
  <2>1. laneOf'[x] = laneOf[x] /\ AsLeft(x)
    BY <1>2, <1>7 DEF LaneInv
  <2> QED BY <1>1, <2>1 DEF AsLeft, NoLane
<1> QED BY <1>3, <1>4, <1>5, <1>6, <1>7 DEF LaneInv

LEMMA LossKeeps == LaneInv /\ LoseDaemon => LaneInv'
<1> SUFFICES ASSUME LaneInv, LoseDaemon PROVE LaneInv'
  OBVIOUS
<1>1. /\ UNCHANGED <<width, deco, seenWidth, lanesMinted, leftAt>> /\ authorized' = <<>>
      /\ holder' = [w \in Surfaces |-> NoWindow] /\ laneOf' = [o \in Agents |-> 0]
      /\ lanes' = [i \in DOMAIN lanes |-> [lanes[i] EXCEPT !.target = NoWindow]]
  BY DEF LoseDaemon
<1>2. lanes \in Seq(Lane) /\ DOMAIN lanes' = DOMAIN lanes
      /\ \A i \in DOMAIN lanes : lanes[i] \in Lane /\ lanes'[i] = [lanes[i] EXCEPT !.target = NoWindow]
  BY <1>1 DEF LaneInv, LaneTypes
<1>3. \A i \in DOMAIN lanes : lanes'[i] \in Lane /\ lanes'[i].id = lanes[i].id
  BY <1>2 DEF Lane
<1>4. lanes' \in Seq(Lane)
  <2>1. lanes' = [i \in 1..Len(lanes) |-> lanes'[i]] /\ Len(lanes) \in Nat
    BY <1>1, <1>2
  <2> QED BY <1>2, <1>3, <2>1
<1>5. LaneTypes'
  BY <1>1, <1>4 DEF LaneInv, LaneTypes
<1>6. MintedOnce'
  BY <1>1, PoolAssumption DEF LaneInv, LaneTypes, MintedOnce
<1>7. LanesApart'
  <2>1. ASSUME NEW i \in DOMAIN lanes, NEW k \in DOMAIN lanes, lanes[i].id = lanes[k].id PROVE i = k
    <3>1. Has(lanes, lanes[i]) /\ Has(lanes, lanes[k])
      BY DEF Has
    <3>2. lanes[i] = lanes[k] /\ Once(lanes, lanes[i])
      BY <1>2, <2>1, <3>1 DEF LaneInv, LanesApart
    <3> QED BY <3>2 DEF Once
  <2>2. ASSUME NEW i \in DOMAIN lanes PROVE lanes[i].id <= lanesMinted
    <3>1. Has(lanes, lanes[i])
      BY DEF Has
    <3> QED BY <1>2, <3>1 DEF LaneInv, LanesApart
  <2>3. \A l, m \in Lane : Has(lanes', l) /\ Has(lanes', m) /\ l.id = m.id => l = m
    BY <1>2, <1>3, <2>1 DEF Has
  <2>4. \A l \in Lane : Has(lanes', l) => Once(lanes', l)
    BY <1>2, <1>3, <2>1 DEF Once
  <2>5. \A l \in Lane : Has(lanes', l) => l.id <= lanesMinted'
    BY <1>1, <1>2, <1>3, <2>2 DEF Has
  <2> QED BY <2>3, <2>4, <2>5 DEF LanesApart
<1>8. \A a \in Authorized : Has(authorized', a) => QueuedOK(a)'
  BY <1>1, EmptyHasNothing
<1>9. \A o \in Agents : laneOf'[o] # 0 => AsLeft(o)'
  BY <1>1
<1> QED BY <1>5, <1>6, <1>7, <1>8, <1>9 DEF LaneInv

LEMMA AskLaneKeeps ==
    ASSUME LaneInv, NEW o \in Agents, NEW w \in Surfaces, NEW kind \in LaneKinds,
           NEW from \in Points, NEW to \in Points, AskAction(o, w, kind, from, to)
    PROVE  LaneInv'
<1> DEFINE new == [by |-> o, lane |-> laneOf[o], window |-> w, kind |-> kind,
                   from |-> from, to |-> to, seen |-> seenWidth[w]]
<1>1. /\ UNCHANGED <<width, deco, seenWidth, holder, laneOf, lanesMinted, lanes, leftAt>>
      /\ authorized' = Append(authorized, new) /\ holder[w] = o
      /\ kind # "unaimed" => from < seenWidth[w]
  BY DEF AskAction, desktopSide, daemonSide, InsideListed
<1>2. new \in Authorized
  BY PoolAssumption DEF Authorized, LaneInv, LaneTypes
<1>3. QueuedOK(new)
  <2>1. laneOf[o] # 0 /\ laneOf[o] \in Nat /\ laneOf[o] <= lanesMinted /\ lanesMinted \in Nat
    BY <1>1 DEF LaneInv, LaneTypes, MintedOnce
  <2>2. laneOf[o] \in 1..lanesMinted
    BY <2>1
  <2>3. \A x \in Agents : laneOf[x] = laneOf[o] => x = o
    BY <2>1 DEF LaneInv, MintedOnce
  <2> QED BY <1>1, <2>2, <2>3 DEF QueuedOK
<1> HIDE DEF new
<1>4. authorized' \in Seq(Authorized) /\ \A x : Has(authorized', x) => Has(authorized, x) \/ x = new
  <2>1. authorized \in Seq(Authorized)
    BY DEF LaneInv, LaneTypes
  <2> QED BY <1>1, <1>2, <2>1, HasAppend
<1>5. LaneTypes'
  BY <1>1, <1>4 DEF LaneInv, LaneTypes
<1>6. MintedOnce' /\ LanesApart'
  BY <1>1 DEF LaneInv, MintedOnce, LanesApart
<1>7. \A a \in Authorized : Has(authorized', a) => QueuedOK(a)'
  <2>1. \A a \in Authorized : QueuedOK(a) => QueuedOK(a)'
    BY <1>1 DEF QueuedOK
  <2> QED BY <1>3, <1>4, <2>1 DEF LaneInv
<1>8. \A x \in Agents : laneOf'[x] # 0 => AsLeft(x)'
  BY <1>1 DEF LaneInv, AsLeft, NoLane
<1> QED BY <1>5, <1>6, <1>7, <1>8 DEF LaneInv

LEMMA GoneKeeps == LaneInv /\ RefuseGone => LaneInv'
<1> SUFFICES ASSUME LaneInv, RefuseGone PROVE LaneInv'
  OBVIOUS
<1>1. /\ UNCHANGED <<width, deco, seenWidth, holder, laneOf, lanesMinted, lanes, leftAt>>
      /\ authorized' = Tail(authorized) /\ authorized # <<>>
  BY DEF RefuseGone, desktopSide, daemonSide
<1>2. authorized' \in Seq(Authorized) /\ \A x : Has(authorized', x) => Has(authorized, x)
  BY <1>1, HasTail DEF LaneInv, LaneTypes
<1>3. LaneTypes'
  BY <1>1, <1>2 DEF LaneInv, LaneTypes
<1>4. MintedOnce' /\ LanesApart'
  BY <1>1 DEF LaneInv, MintedOnce, LanesApart
<1>5. \A a \in Authorized : Has(authorized', a) => QueuedOK(a)'
  BY <1>1, <1>2 DEF LaneInv, QueuedOK
<1>6. \A x \in Agents : laneOf'[x] # 0 => AsLeft(x)'
  BY <1>1 DEF LaneInv, AsLeft, NoLane
<1> QED BY <1>3, <1>4, <1>5, <1>6 DEF LaneInv

\* The lane of an action, made if there is none, is the agent's as it was left.
LEMMA LaneIsAsLeft ==
    ASSUME LaneInv, authorized # <<>>
    PROVE  LET a == Head(authorized)
               l == LaneFor(a.lane)
               own == a.lane = laneOf[a.by]
           IN /\ a \in Authorized /\ QueuedOK(a)
              /\ l \in Lane /\ l.id = a.lane
              /\ own /\ Kept(a.lane) = {} /\ ~leftAt[a.by].dropped => leftAt[a.by].place = Nowhere
              /\ Kept(a.lane) = {} => l.target = Nowhere.window /\ l.at = Nowhere.at
              /\ own /\ Kept(a.lane) # {} => /\ ~leftAt[a.by].dropped
                                            /\ l.target = leftAt[a.by].place.window
                                            /\ l.at = leftAt[a.by].place.at
<1> DEFINE a == Head(authorized)
           l == LaneFor(a.lane)
           mine == [id |-> laneOf[a.by], target |-> leftAt[a.by].place.window, at |-> leftAt[a.by].place.at]
<1>1. a \in Authorized /\ QueuedOK(a)
  BY HasTail DEF LaneInv, LaneTypes
<1>2. a.by \in Agents /\ a.lane \in Nat \ {0} /\ leftAt[a.by] \in [place: PlaceLeft, dropped: BOOLEAN]
  <2>1. a.by \in Agents /\ a.lane \in Nat
    BY <1>1 DEF Authorized
  <2>2. a.lane # 0
    BY <1>1 DEF QueuedOK, LaneInv, LaneTypes
  <2>3. leftAt \in [Agents -> [place: PlaceLeft, dropped: BOOLEAN]]
    BY DEF LaneInv, LaneTypes
  <2> HIDE DEF a
  <2> QED BY <2>1, <2>2, <2>3
<1>3. lanes \in Seq(Lane) /\ \A i \in DOMAIN lanes : lanes[i] \in Lane /\ Has(lanes, lanes[i])
  BY DEF LaneInv, LaneTypes, Has
<1>4. a.lane = laneOf[a.by] => AsLeft(a.by)
  BY <1>2 DEF LaneInv
<1>5. CASE Kept(a.lane) = {}
  <2>1. l = NewLane(a.lane)
    BY <1>5 DEF LaneFor
  <2>2. l \in Lane /\ l.id = a.lane /\ l.target = Nowhere.window /\ l.at = Nowhere.at
    BY <1>2, <2>1 DEF NewLane, Lane, Nowhere
  <2>3. ASSUME a.lane = laneOf[a.by], ~leftAt[a.by].dropped PROVE leftAt[a.by].place = Nowhere
    <3>1. mine \in Lane /\ mine.id = a.lane
      BY <1>2, <2>3 DEF Lane, PlaceLeft
    <3>2. ~Has(lanes, mine)
      BY <1>5, <3>1 DEF Kept, Has
    <3> QED BY <1>4, <2>3, <3>2 DEF AsLeft
  <2> HIDE DEF a, l
  <2> QED BY <1>1, <1>5, <2>2, <2>3 DEF a, l
<1>6. CASE Kept(a.lane) # {}
  <2>1. PICK i \in Kept(a.lane) : l = lanes[i]
    BY <1>6 DEF LaneFor
  <2>2. l \in Lane /\ l.id = a.lane /\ Has(lanes, l)
    BY <1>3, <2>1 DEF Kept
  <2>3. ASSUME a.lane = laneOf[a.by]
        PROVE  /\ ~leftAt[a.by].dropped
               /\ l.target = leftAt[a.by].place.window /\ l.at = leftAt[a.by].place.at
    <3>1. ~NoLane(laneOf[a.by])
      BY <2>2, <2>3 DEF NoLane
    <3>2. ~leftAt[a.by].dropped /\ Has(lanes, mine)
      BY <1>4, <2>3, <3>1 DEF AsLeft
    <3>3. mine \in Lane /\ mine.id = l.id
      BY <1>2, <2>2, <2>3 DEF Lane, PlaceLeft
    <3>4. mine = l
      BY <2>2, <3>2, <3>3 DEF LaneInv, LanesApart
    <3> QED BY <3>2, <3>4
  <2> HIDE DEF a, l
  <2> QED BY <1>1, <1>6, <2>2, <2>3 DEF a, l
<1> QED BY <1>5, <1>6

\* Where an action aims, or would without the agent's lane.
LEMMA PlaceIsSomewhere ==
    ASSUME LaneInv, authorized # <<>>
    PROVE  Place(Head(authorized)) \in Nat
<1> DEFINE a == Head(authorized)
<1>1. a \in Authorized /\ LaneFor(a.lane) \in Lane
  BY LaneIsAsLeft
<1>2. a.from \in Nat /\ LaneFor(a.lane).at \in Nat /\ width[a.window] \in Nat
  BY <1>1 DEF Authorized, Lane, LaneInv, LaneTypes
<1>3. width[a.window] \div 2 \in Nat
  BY <1>2
<1> QED BY <1>2, <1>3 DEF Place

LEMMA RefuseKeeps == LaneInv /\ RefusePlace => LaneInv'
<1> SUFFICES ASSUME LaneInv, RefusePlace PROVE LaneInv'
  OBVIOUS
<1> DEFINE a == Head(authorized)
           l == LaneFor(a.lane)
           place == IF Kept(a.lane) = {} THEN Nowhere ELSE leftAt[a.by].place
<1>1. /\ authorized # <<>> /\ authorized' = Tail(authorized) /\ UNCHANGED <<desktopSide, daemonSide>>
      /\ lanes' = Append(OtherLanes(a.lane), l) /\ Leaves(a, place)
  BY DEF RefusePlace
<1>2. /\ a \in Authorized /\ l \in Lane /\ l.id = a.lane
      /\ Kept(a.lane) = {} => l.target = Nowhere.window /\ l.at = Nowhere.at
      /\ a.lane = laneOf[a.by] /\ Kept(a.lane) # {} =>
            l.target = leftAt[a.by].place.window /\ l.at = leftAt[a.by].place.at
  BY <1>1, LaneIsAsLeft
<1>3. place \in PlaceLeft
  <2>1. leftAt[a.by] \in [place: PlaceLeft, dropped: BOOLEAN]
    BY <1>2 DEF Authorized, LaneInv, LaneTypes
  <2>2. Nowhere \in PlaceLeft
    BY DEF Nowhere, PlaceLeft
  <2> QED BY <2>1, <2>2
<1>4. l.id = laneOf[a.by] => l.target = place.window /\ l.at = place.at
  BY <1>2
<1> HIDE DEF l, place
<1> QED BY <1>1, <1>2, <1>3, <1>4, UseKeeps

\* What an action that is carried out leaves on its lane.
Arrives(a) == IF a.kind = "drag" /\ Binds(a, a.to) THEN a.to ELSE Place(a)

LEMMA PerformLeaves ==
    ASSUME LaneInv, PerformAction
    PROVE  LET a == Head(authorized)
               l == [id |-> a.lane, target |-> a.window, at |-> Arrives(a)]
           IN /\ authorized # <<>> /\ authorized' = Tail(authorized) /\ UNCHANGED <<desktopSide, daemonSide>>
              /\ a \in Authorized /\ l \in Lane
              /\ lanes' = Append(OtherLanes(a.lane), l)
              /\ Leaves(a, [window |-> a.window, at |-> Arrives(a)])
              /\ lanes'[Len(lanes')] = l
<1> DEFINE a == Head(authorized)
           l == [id |-> a.lane, target |-> a.window, at |-> Arrives(a)]
<1>1. /\ authorized # <<>> /\ authorized' = Tail(authorized) /\ UNCHANGED <<desktopSide, daemonSide>>
      /\ lanes' = Append(OtherLanes(a.lane), l)
      /\ Leaves(a, [window |-> a.window, at |-> Arrives(a)])
  BY DEF PerformAction, Arrives
<1>2. a \in Authorized /\ Place(a) \in Nat
  BY <1>1, LaneIsAsLeft, PlaceIsSomewhere
<1>3. Arrives(a) \in Nat
  BY <1>2 DEF Arrives, Authorized
<1>4. l \in Lane /\ l.id = a.lane
  BY <1>2, <1>3 DEF Authorized, Lane
<1> HIDE DEF l
<1>5. UsedLast(lanes', l)
  BY <1>1, <1>4, LaneUsed
<1>6. lanes'[Len(lanes')] = l
  BY <1>5 DEF UsedLast
<1> QED BY <1>1, <1>2, <1>4, <1>6 DEF l

LEMMA PerformKeeps == LaneInv /\ PerformAction => LaneInv'
<1> SUFFICES ASSUME LaneInv, PerformAction PROVE LaneInv'
  OBVIOUS
<1> DEFINE a == Head(authorized)
           l == [id |-> a.lane, target |-> a.window, at |-> Arrives(a)]
           place == [window |-> a.window, at |-> Arrives(a)]
<1>1. /\ authorized # <<>> /\ authorized' = Tail(authorized) /\ UNCHANGED <<desktopSide, daemonSide>>
      /\ a \in Authorized /\ l \in Lane
      /\ lanes' = Append(OtherLanes(a.lane), l) /\ Leaves(a, place)
  BY PerformLeaves
<1>2. l.id = a.lane /\ l.target = place.window /\ l.at = place.at
  OBVIOUS
<1>3. place \in PlaceLeft
  BY <1>1 DEF Lane, PlaceLeft
<1> HIDE DEF l, place
<1> QED BY <1>1, <1>2, <1>3, UseKeeps

LEMMA LanesStep == LaneInv /\ [NextLanes]_laneVars => LaneInv'
<1> SUFFICES ASSUME LaneInv, [NextLanes]_laneVars PROVE LaneInv'
  OBVIOUS
<1>1. width \in [Surfaces -> Nat] /\ seenWidth \in [Surfaces -> Nat] /\ deco \in [Surfaces -> Nat]
  BY DEF LaneInv, LaneTypes
<1>2. ASSUME NEW w \in Surfaces, ListWindow(w) PROVE LaneInv'
  <2>1. Outer(w) \in Nat
    BY <1>1 DEF Outer
  <2>2. seenWidth' \in [Surfaces -> Nat]
    BY <1>1, <1>2, <2>1 DEF ListWindow
  <2> QED BY <1>1, <1>2, <2>2, DesktopKeeps DEF ListWindow, desktopSide
<1>3. ASSUME NEW w \in Surfaces, NEW to \in Widths \cup {0}, ResizeSurface(w, to) PROVE LaneInv'
  <2>1. to \in Nat
    BY PoolAssumption
  <2>2. width' \in [Surfaces -> Nat]
    BY <1>1, <1>3, <2>1 DEF ResizeSurface
  <2> QED BY <1>1, <1>3, <2>2, DesktopKeeps DEF ResizeSurface, daemonSide
<1>4. CASE UNCHANGED laneVars
  BY <1>1, <1>4, DesktopKeeps DEF laneVars, desktopSide, daemonSide
<1> QED BY <1>2, <1>3, <1>4, OpenKeeps, CloseKeeps, AskLaneKeeps, LossKeeps, GoneKeeps, RefuseKeeps, PerformKeeps
        DEF NextLanes

LEMMA LanesInvariant == SpecLanes => []LaneInv
BY LanesStart, LanesStep, PTL DEF SpecLanes

\* The pointer of an unaimed action is where the agent left it.
LEMMA UnaimedPlace ==
    ASSUME LaneInv, authorized # <<>>, Head(authorized).kind = "unaimed", ~Before(Head(authorized)).dropped
    PROVE  LET a == Head(authorized)
           IN Place(a) = IF Before(a).place.window = a.window THEN Before(a).place.at ELSE width[a.window] \div 2
<1> DEFINE a == Head(authorized)
<1>1. a.lane = laneOf[a.by] /\ Before(a) = leftAt[a.by]
  BY DEF Before
<1>2. /\ a \in Authorized
      /\ Kept(a.lane) = {} => leftAt[a.by].place = Nowhere /\ LaneFor(a.lane).target = Nowhere.window
      /\ Kept(a.lane) # {} => /\ LaneFor(a.lane).target = leftAt[a.by].place.window
                              /\ LaneFor(a.lane).at = leftAt[a.by].place.at
  BY <1>1, LaneIsAsLeft
<1>3. a.window # NoWindow
  BY <1>2, PoolAssumption DEF Authorized
<1>4. Nowhere.window = NoWindow
  BY DEF Nowhere
<1> HIDE DEF a
<1> QED BY <1>1, <1>2, <1>3, <1>4 DEF Place, a

LEMMA ActsWhereLeftStep ==
    LaneInv /\ [NextLanes]_laneVars =>
        LET a == Head(authorized)
            was == Before(a)
        IN  PerformAction /\ a.kind = "unaimed" /\ ~was.dropped =>
                lanes'[Len(lanes')].at = IF was.place.window = a.window THEN was.place.at
                                         ELSE width[a.window] \div 2
<1> SUFFICES ASSUME LaneInv, PerformAction, Head(authorized).kind = "unaimed", ~Before(Head(authorized)).dropped
             PROVE  LET a == Head(authorized)
                    IN lanes'[Len(lanes')].at = IF Before(a).place.window = a.window THEN Before(a).place.at
                                                ELSE width[a.window] \div 2
  OBVIOUS
<1> DEFINE a == Head(authorized)
<1>1. authorized # <<>> /\ lanes'[Len(lanes')].at = Arrives(a)
  BY PerformLeaves
<1>2. Arrives(a) = Place(a)
  BY DEF Arrives
<1> HIDE DEF a
<1> QED BY <1>1, <1>2, UnaimedPlace DEF a

LEMMA RefusedStep ==
    LaneInv /\ [NextLanes]_laneVars =>
        LET a == Head(authorized)
        IN  RefusePlace =>
               \/ a.kind # "unaimed" /\ a.seen # width[a.window]
               \/ a.kind = "unaimed" /\ Before(a).dropped
               \/ a.kind = "unaimed" /\ Before(a).place.window = a.window
                     /\ Before(a).place.at > width[a.window]
<1> DEFINE a == Head(authorized)
<1> SUFFICES ASSUME LaneInv, RefusePlace
             PROVE  \/ a.kind # "unaimed" /\ a.seen # width[a.window]
                    \/ a.kind = "unaimed" /\ Before(a).dropped
                    \/ a.kind = "unaimed" /\ Before(a).place.window = a.window
                          /\ Before(a).place.at > width[a.window]
  OBVIOUS
<1>1. authorized # <<>> /\ ~(Place(a) <= width[a.window])
  BY DEF RefusePlace, Binds
<1>2. a \in Authorized /\ QueuedOK(a)
  BY <1>1, LaneIsAsLeft
<1>3. a.from \in Nat /\ a.seen \in Nat /\ width[a.window] \in Nat
  BY <1>2 DEF Authorized, LaneInv, LaneTypes
<1>4. CASE a.kind # "unaimed"
  <2>1. Place(a) = a.from /\ a.from < a.seen
    BY <1>2, <1>4 DEF Place, QueuedOK
  <2> HIDE DEF a
  <2> QED BY <1>1, <1>3, <1>4, <2>1
<1>5. CASE a.kind = "unaimed" /\ ~Before(a).dropped
  <2>1. Place(a) = IF Before(a).place.window = a.window THEN Before(a).place.at ELSE width[a.window] \div 2
    BY <1>1, <1>5, UnaimedPlace
  <2>2. width[a.window] \div 2 <= width[a.window]
    BY <1>3
  <2>3. Before(a).place.window = a.window /\ ~(Before(a).place.at <= width[a.window])
    BY <1>1, <2>1, <2>2
  <2>4. Place(a) \in Nat
    BY <1>1, PlaceIsSomewhere
  <2> HIDE DEF a
  <2> QED BY <1>3, <1>5, <2>1, <2>3, <2>4
<1> QED BY <1>4, <1>5

(* However lanes are given, dropped and made again, and the windows move,  *)
(* an action without a place of its own acts where the agent left its      *)
(* pointer, and the plugin refuses what the daemon let pass only for a     *)
(* change since (agentseatplugin.cpp, interaction.rs, input_actions.rs).   *)
THEOREM LanesServeTheirAgentHolds == SpecLanes => LanesServeTheirAgent
<1>1. SpecLanes => ActsWhereLeft
  BY LanesInvariant, ActsWhereLeftStep, PTL DEF SpecLanes, ActsWhereLeft
<1>2. SpecLanes => RefusedForCause
  BY LanesInvariant, RefusedStep, PTL DEF SpecLanes, RefusedForCause
<1> QED BY <1>1, <1>2 DEF LanesServeTheirAgent

-----------------------------------------------------------------------------
(* Which element a semantic action acts on.                                *)

\* An element that was there all the time has been found, once it was visited.
VisitedFound ==
    \A e \in steady \ missed : e < next /\ screen[e] \in Suitable =>
        \E m \in found : m.element = e /\ m.read = screen[e]

\* The window list that was read for the guard does not exclude the match.
Guarded ==
    /\ oneProcess \/ within[chosen.element] = ask.guard
    /\ \E u \in titles[ask.guard] : TextIdentityMatches(u, chosen.title)

SemanticInv ==
    /\ SemanticTypeOK /\ IsFiniteSet(found)
    /\ steady \subseteq Elements /\ titles \in [Frames -> SUBSET Titles]
    /\ \A f \in Frames : title[f] \in titles[f]
    /\ \A e \in steady : listed[e] = screen[e]
    /\ VisitedFound
    /\ \A m \in found : m.title \in titles[within[m.element]] \cup {NoTitle}
    /\ at \in {"authorize", "act"} => Candidates = {chosen}
    /\ at = "act" /\ ask.guard # Unguarded => Guarded

LEMMA SemanticStart == InitSemantic => SemanticInv
<1> SUFFICES ASSUME InitSemantic PROVE SemanticInv
  OBVIOUS
<1>1. IsFiniteSet(found) /\ found = {} /\ Cardinality(found) = 0
  BY FS_EmptySet DEF InitSemantic
<1>2. SemanticTypeOK
  BY <1>1, SemanticAssumption DEF InitSemantic, SemanticTypeOK, NoRequest
<1>3. VisitedFound
  BY DEF InitSemantic, VisitedFound, Elements
<1> QED BY <1>1, <1>2, <1>3 DEF InitSemantic, SemanticInv

\* The request goes on while the applications keep still, and finds nothing new.
LEMMA RequestStep ==
    ASSUME SemanticInv, UNCHANGED applications,
           at \in {"idle", "search", "resolve", "authorize", "act"},
           ask' \in [guard: Frames \cup {Unguarded}, cached: BOOLEAN, maxNodes: Nat],
           at' \in {"search", "resolve", "authorize", "act", "acted", "ended"},
           left' \in 0..ElementCount,
           UNCHANGED <<next, found, missed>>,
           listed' \in {listed, screen},
           at' \in {"authorize", "act"} => Candidates = {chosen'},
           at' = "acted" => at = "act" /\ chosen' = chosen,
           at' = "act" /\ ask'.guard # Unguarded => Guarded'
    PROVE  SemanticInv'
<1>1. /\ UNCHANGED <<screen, within, title, oneProcess, changes, steady, titles>>
      /\ Candidates' = Candidates
  BY DEF applications, Candidates
<1>2. Candidates \subseteq found
  BY DEF Candidates
<1>3. at' \in {"authorize", "act", "acted"} => chosen' \in found'
  BY <1>2 DEF SemanticInv, SemanticTypeOK
<1>4. SemanticTypeOK'
  BY <1>1, <1>3 DEF SemanticInv, SemanticTypeOK
<1>5. VisitedFound'
  BY <1>1 DEF SemanticInv, VisitedFound
<1>6. \A e \in steady' : listed'[e] = screen'[e]
  BY <1>1 DEF SemanticInv
<1> QED BY <1>1, <1>4, <1>5, <1>6 DEF SemanticInv

LEMMA StartKeeps ==
    ASSUME SemanticInv, NEW guard \in Frames \cup {Unguarded}, NEW cached \in BOOLEAN,
           NEW maxNodes \in Elements, StartSemantic(guard, cached, maxNodes)
    PROVE  SemanticInv'
<1>1. ask' \in [guard: Frames \cup {Unguarded}, cached: BOOLEAN, maxNodes: Nat]
  BY SemanticAssumption DEF StartSemantic, Elements
<1>2. /\ UNCHANGED applications /\ at = "idle" /\ at' = "search" /\ left' \in 0..ElementCount
      /\ UNCHANGED <<next, found, missed>> /\ listed' \in {listed, screen}
  BY SemanticAssumption DEF StartSemantic, Elements
<1> QED BY <1>1, <1>2, RequestStep

\* The search goes on by one element, which is missed or found as it is.
LEMMA SearchStep ==
    ASSUME SemanticInv, UNCHANGED applications, UNCHANGED <<ask, at, listed, chosen>>,
           at = "search", ~SearchOver, next' = next + 1,
           left' \in {left, IF Costs(next) THEN left - 1 ELSE left},
           missed' \in {missed, missed \cup {next}},
           \/ UNCHANGED found
           \/ \E m \in Match : /\ found' = found \cup {m}
                              /\ m.element = next
                              /\ m.title \in titles[within[next]] \cup {NoTitle},
           next \notin missed' /\ next \in steady /\ screen[next] \in Suitable =>
               \E m \in found' : m.element = next /\ m.read = screen[next]
    PROVE  SemanticInv'
<1>1. /\ UNCHANGED <<screen, within, title, oneProcess, changes, steady, titles, ask, at, listed, chosen>>
      /\ at = "search" /\ next \in Elements /\ next' = next + 1
  BY SemanticAssumption DEF applications, SearchOver, SemanticInv, SemanticTypeOK, Elements
<1>2. \A e \in steady : e < next + 1 => e < next \/ e = next
  <2>1. \A e \in Elements : e \in Int
    BY DEF Elements
  <2>2. steady \subseteq Elements
    BY DEF SemanticInv
  <2>3. \A i, k \in Int : i < k + 1 => i < k \/ i = k
    OBVIOUS
  <2> QED BY <1>1, <2>1, <2>2, <2>3
<1>3. left' \in 0..ElementCount
  BY <1>1, SemanticAssumption DEF SearchOver, SemanticInv, SemanticTypeOK
<1>4. next' \in 1..ElementCount + 1 /\ missed' \subseteq Elements
  BY <1>1, SemanticAssumption DEF Elements, SemanticInv, SemanticTypeOK
<1>5. /\ found \subseteq found' /\ found' \subseteq Match
      /\ IsFiniteSet(found') /\ Cardinality(found') <= MaxResults
      /\ \A x \in found' : x.title \in titles[within[x.element]] \cup {NoTitle}
  <2>1. /\ IsFiniteSet(found) /\ Cardinality(found) \in Nat
        /\ Cardinality(found) < MaxResults /\ found \subseteq Match
    BY FS_CardinalityType, SemanticAssumption DEF SearchOver, SemanticInv, SemanticTypeOK
  <2>2. CASE UNCHANGED found
    BY <2>1, <2>2, SemanticAssumption DEF SemanticInv, SemanticTypeOK
  <2>3. ASSUME NEW m \in Match, found' = found \cup {m}, m.element = next,
               m.title \in titles[within[next]] \cup {NoTitle}
        PROVE  /\ found \subseteq found' /\ found' \subseteq Match
               /\ IsFiniteSet(found') /\ Cardinality(found') <= MaxResults
               /\ \A x \in found' : x.title \in titles[within[x.element]] \cup {NoTitle}
    <3>1. /\ IsFiniteSet(found \cup {m})
          /\ Cardinality(found \cup {m}) = IF m \in found THEN Cardinality(found) ELSE Cardinality(found) + 1
      BY <2>1, FS_AddElement
    <3>2. Cardinality(found') <= MaxResults
      BY <2>1, <2>3, <3>1, SemanticAssumption
    <3> QED BY <2>1, <2>3, <3>1, <3>2 DEF SemanticInv
  <2> QED BY <2>2, <2>3
<1>6. SemanticTypeOK'
  BY <1>1, <1>3, <1>4, <1>5 DEF SemanticInv, SemanticTypeOK
<1>7. VisitedFound'
  <2> SUFFICES ASSUME NEW e \in steady \ missed', e < next + 1, screen[e] \in Suitable
               PROVE  \E m \in found' : m.element = e /\ m.read = screen[e]
    BY <1>1 DEF VisitedFound
  <2>1. e \in steady \ missed
    OBVIOUS
  <2>2. CASE e < next
    BY <1>5, <2>1, <2>2 DEF SemanticInv, VisitedFound
  <2>3. CASE ~(e < next)
    <3>1. e = next
      BY <1>2, <2>3
    <3> QED BY <3>1
  <2> QED BY <2>2, <2>3
<1> QED BY <1>1, <1>5, <1>6, <1>7 DEF SemanticInv

LEMMA VisitKeeps == SemanticInv /\ Visit => SemanticInv'
<1> SUFFICES ASSUME SemanticInv, Visit PROVE SemanticInv'
  OBVIOUS
<1>1. /\ UNCHANGED applications /\ UNCHANGED <<ask, at, listed, chosen, missed>>
      /\ at = "search" /\ ~SearchOver /\ next' = next + 1
      /\ left' = IF Costs(next) THEN left - 1 ELSE left
  BY DEF Visit
<1>2. next \in Elements
  BY <1>1, SemanticAssumption DEF SearchOver, SemanticInv, SemanticTypeOK, Elements
<1>3. CASE ~NameMatches(next)
  <2>1. found' = found
    BY <1>3 DEF Visit
  <2>2. next \in steady => screen[next] = "gone"
    BY <1>3 DEF NameMatches, SemanticInv
  <2>3. "gone" \notin Suitable
    BY DEF Suitable
  <2> QED BY <1>1, <2>1, <2>2, <2>3, SearchStep
<1>4. CASE NameMatches(next)
  <2>1. PICK m \in ReadNode(next) : found' = found \cup {m}
    BY <1>4 DEF Visit
  <2>2. /\ m.element = next /\ m.title \in titles[within[next]] \cup {NoTitle} /\ m \in Match
        /\ m.read = (IF screen[next] \notin Suitable THEN "unfit"
                     ELSE IF ask.cached THEN listed[next] ELSE screen[next])
    BY <1>2, <2>1 DEF ReadNode, Match, SemanticInv, SemanticTypeOK, Answers
  <2>3. next \in steady /\ screen[next] \in Suitable => m.read = screen[next]
    BY <2>2 DEF SemanticInv
  <2>4. m \in found'
    BY <2>1
  <2> QED BY <1>1, <2>1, <2>2, <2>3, <2>4, SearchStep
<1> QED BY <1>3, <1>4

LEMMA VisitFailsKeeps == SemanticInv /\ VisitFails => SemanticInv'
<1> SUFFICES ASSUME SemanticInv, VisitFails PROVE SemanticInv'
  OBVIOUS
<1>1. /\ UNCHANGED applications /\ UNCHANGED <<ask, at, listed, chosen>>
      /\ at = "search" /\ ~SearchOver /\ next' = next + 1
      /\ left' = IF Costs(next) THEN left - 1 ELSE left
      /\ missed' = missed \cup {next}
  BY DEF VisitFails
<1>2. next \in Elements
  BY <1>1, SemanticAssumption DEF SearchOver, SemanticInv, SemanticTypeOK, Elements
<1>3. \/ UNCHANGED found
      \/ \E m \in Match : /\ found' = found \cup {m}
                         /\ m.element = next
                         /\ m.title \in titles[within[next]] \cup {NoTitle}
  <2>1. ASSUME NEW m \in MisreadNode(next)
        PROVE  /\ m \in Match /\ m.element = next
               /\ m.title \in titles[within[next]] \cup {NoTitle}
    BY <1>2 DEF MisreadNode, Match, SemanticInv, SemanticTypeOK, Answers
  <2> QED BY <2>1 DEF VisitFails
<1>4. next \in missed'
  BY <1>1
<1> QED BY <1>1, <1>3, <1>4, SearchStep

LEMMA PassOverKeeps == SemanticInv /\ PassOver => SemanticInv'
BY SearchStep DEF PassOver

LEMMA ResolveKeeps == SemanticInv /\ ResolveMatch => SemanticInv'
<1> SUFFICES ASSUME SemanticInv, ResolveMatch PROVE SemanticInv'
  OBVIOUS
<1>1. /\ UNCHANGED applications /\ UNCHANGED <<ask, next, left, listed, found, missed>> /\ at = "resolve"
      /\ at' \in {"authorize", "ended"}
  BY DEF ResolveMatch
<1>2. at' = "authorize" => Candidates = {chosen'}
  <2> SUFFICES ASSUME at' = "authorize" PROVE Candidates = {chosen'}
    OBVIOUS
  <2>1. Cardinality(Candidates) = 1 /\ \E m \in Candidates : chosen' = m
    BY DEF ResolveMatch
  <2>2. Candidates \in SUBSET found
    BY DEF Candidates
  <2>3. IsFiniteSet(Candidates)
    BY <2>2, FS_Subset DEF SemanticInv
  <2>4. \E x : Candidates = {x}
    BY <2>1, <2>3, FS_Singleton
  <2> QED BY <2>1, <2>4
<1> QED BY <1>1, <1>2, RequestStep DEF SemanticInv, SemanticTypeOK

LEMMA AuthorizeKeeps == SemanticInv /\ AuthorizeTarget => SemanticInv'
<1> SUFFICES ASSUME SemanticInv, AuthorizeTarget PROVE SemanticInv'
  OBVIOUS
<1>1. /\ UNCHANGED applications /\ UNCHANGED <<ask, next, left, listed, found, chosen, missed>> /\ at = "authorize"
      /\ at' \in {"act", "ended"} /\ (at' = "act" /\ ask.guard # Unguarded => Correlated)
  BY DEF AuthorizeTarget
<1>2. at' = "act" /\ ask'.guard # Unguarded => Guarded'
  <2> SUFFICES ASSUME at' = "act", ask.guard # Unguarded PROVE Guarded
    BY <1>1 DEF Guarded, applications
  <2>1. ask.guard \in Frames
    BY DEF SemanticInv, SemanticTypeOK
  <2> QED BY <1>1, <2>1 DEF Correlated, Guarded, SemanticInv
<1> QED BY <1>1, <1>2, RequestStep DEF SemanticInv, SemanticTypeOK

LEMMA ElementKeeps == ASSUME SemanticInv, NEW e \in Elements, ElementChanges(e) PROVE SemanticInv'
<1>1. PICK answer \in Answers : screen' = [screen EXCEPT ![e] = answer]
  BY DEF ElementChanges
<1>2. /\ steady' = steady \ {e}
      /\ UNCHANGED <<within, title, oneProcess, titles, ask, at, next, left, listed, found, chosen, missed>>
  BY DEF ElementChanges, Request
<1>3. screen' \in [Elements -> Answers] /\ \A d \in steady' : d \in steady /\ screen'[d] = screen[d]
  BY <1>1, <1>2 DEF SemanticInv, SemanticTypeOK
<1>4. SemanticTypeOK'
  BY <1>2, <1>3 DEF SemanticInv, SemanticTypeOK
<1>5. VisitedFound' /\ Candidates' = Candidates /\ Guarded' = Guarded
  BY <1>2, <1>3 DEF SemanticInv, VisitedFound, Candidates, Guarded
<1> QED BY <1>2, <1>3, <1>4, <1>5 DEF SemanticInv

LEMMA TitleKeeps == ASSUME SemanticInv, NEW f \in Frames, TitleChanges(f) PROVE SemanticInv'
<1>1. PICK t \in Titles : /\ title' = [title EXCEPT ![f] = t]
                          /\ titles' = [titles EXCEPT ![f] = @ \cup {t}]
  BY DEF TitleChanges
<1>2. UNCHANGED <<screen, within, oneProcess, steady, ask, at, next, left, listed, found, chosen, missed>>
  BY DEF TitleChanges, Request
<1>3. /\ title' \in [Frames -> Titles] /\ titles' \in [Frames -> SUBSET Titles]
      /\ \A g \in Frames : title'[g] \in titles'[g] /\ titles[g] \subseteq titles'[g]
  BY <1>1 DEF SemanticInv, SemanticTypeOK
<1>4. SemanticTypeOK'
  BY <1>2, <1>3 DEF SemanticInv, SemanticTypeOK
<1>5. VisitedFound' /\ Candidates' = Candidates
  BY <1>2 DEF SemanticInv, VisitedFound, Candidates
<1>6. \A m \in found : within[m.element] \in Frames
  BY DEF SemanticInv, SemanticTypeOK, Match
<1>7. ask.guard # Unguarded => ask.guard \in Frames
  BY DEF SemanticInv, SemanticTypeOK
<1>8. at' = "act" /\ ask'.guard # Unguarded => Guarded'
  BY <1>2, <1>3, <1>7 DEF SemanticInv, Guarded
<1>9. \A m \in found' : m.title \in titles'[within'[m.element]] \cup {NoTitle}
  BY <1>2, <1>3, <1>6 DEF SemanticInv
<1> QED BY <1>2, <1>3, <1>4, <1>5, <1>8, <1>9 DEF SemanticInv

LEMMA SemanticStepKeeps == SemanticInv /\ [NextSemantic]_semanticVars => SemanticInv'
<1> SUFFICES ASSUME SemanticInv, [NextSemantic]_semanticVars PROVE SemanticInv'
  OBVIOUS
<1>1. CASE SearchEnds
  BY <1>1, RequestStep DEF SearchEnds, SemanticInv, SemanticTypeOK
<1>2. CASE ActOn
  BY <1>2, RequestStep DEF ActOn, SemanticInv, SemanticTypeOK
<1>3. CASE UNCHANGED semanticVars
  <2>1. SemanticTypeOK' /\ VisitedFound' /\ Candidates' = Candidates /\ Guarded' = Guarded
    BY <1>3 DEF semanticVars, SemanticInv, SemanticTypeOK, VisitedFound, Candidates, Guarded
  <2> QED BY <1>3, <2>1 DEF semanticVars, SemanticInv
<1> QED BY <1>1, <1>2, <1>3, StartKeeps, VisitKeeps, VisitFailsKeeps, PassOverKeeps, ResolveKeeps,
        AuthorizeKeeps, ElementKeeps, TitleKeeps
        DEF NextSemantic, SemanticStep

LEMMA SemanticInvariant == SpecSemantic => []SemanticInv
BY SemanticStart, SemanticStepKeeps, PTL DEF SpecSemantic

(* What a search and its correlation keep has its type, for any elements,  *)
(* windows and titles.                                                     *)
THEOREM SemanticTypeCorrect == SpecSemantic => []SemanticTypeOK
<1>1. SemanticInv => SemanticTypeOK
  BY DEF SemanticInv
<1> QED BY <1>1, SemanticInvariant, PTL

(* The element acted on is the one the request describes, of those that    *)
(* could be read and reached, for any number of elements and windows, any  *)
(* limit of the search and whatever the applications change while it goes  *)
(* on (target.rs, main.rs).                                                *)
THEOREM ActsOnRequestedHolds == SpecSemantic => ActsOnRequested
<1>1. SemanticInv /\ [NextSemantic]_semanticVars =>
          [Acts /\ next > ElementCount =>
             \A e \in steady \ ({chosen.element} \cup missed) : ~OtherMatch(e)]_semanticVars
  <2> SUFFICES ASSUME SemanticInv, Acts, next > ElementCount,
                      NEW e \in steady \ ({chosen.element} \cup missed)
               PROVE  ~OtherMatch(e)
    OBVIOUS
  <2>1. Candidates = {chosen} /\ chosen \in found
    BY DEF SemanticInv, SemanticTypeOK, Acts
  <2>2. e \in steady /\ e \in Nat /\ e < next /\ e # chosen.element
    BY SemanticAssumption DEF SemanticInv, SemanticTypeOK, Elements
  <2>3. screen[e] \in Suitable => \E m \in found : m.element = e /\ m.read = screen[e]
    BY <2>2 DEF SemanticInv, VisitedFound
  <2>4. ASSUME screen[e] = "exact" PROVE FALSE
    <3>1. PICK m \in found : m.element = e /\ m.read = "exact"
      BY <2>3, <2>4 DEF Suitable
    <3>2. m \in Candidates
      BY <3>1 DEF Candidates, Suitable
    <3> QED BY <2>1, <2>2, <3>1, <3>2
  <2>5. ASSUME chosen.read = "contains", screen[e] = "contains" PROVE FALSE
    <3>1. PICK m \in found : m.element = e /\ m.read = "contains"
      BY <2>3, <2>5 DEF Suitable
    <3>2. ~\E x \in found : x.read = "exact"
      BY <2>1, <2>5 DEF Candidates, Suitable
    <3>3. m \in Candidates
      BY <3>1, <3>2 DEF Candidates, Suitable
    <3> QED BY <2>1, <2>2, <3>1, <3>3
  <2> QED BY <2>4, <2>5 DEF OtherMatch
<1>2. SemanticInv /\ [NextSemantic]_semanticVars =>
          [Acts /\ ask.guard # Unguarded =>
             LET f == within[chosen.element]
             IN  \/ f = ask.guard
                 \/ /\ oneProcess
                    /\ \E t \in titles[f], u \in titles[ask.guard] :
                          TextIdentityMatches(t, u)]_semanticVars
  <2> SUFFICES ASSUME SemanticInv, Acts, ask.guard # Unguarded, within[chosen.element] # ask.guard
               PROVE  /\ oneProcess
                      /\ \E t \in titles[within[chosen.element]], u \in titles[ask.guard] :
                            TextIdentityMatches(t, u)
    OBVIOUS
  <2>1. Guarded /\ chosen.title \in titles[within[chosen.element]] \cup {NoTitle}
    BY DEF SemanticInv, SemanticTypeOK, Acts
  <2>2. ask.guard \in Frames /\ titles[ask.guard] \subseteq Titles
    BY DEF SemanticInv, SemanticTypeOK
  <2>3. chosen.title # NoTitle
    BY <2>1, <2>2 DEF Guarded, TextIdentityMatches, NoTitle, Titles
  <2> QED BY <2>1, <2>3 DEF Guarded, TextIdentityMatches
<1>3. SpecSemantic => ActsOnTheOnlyMatch
  BY <1>1, SemanticInvariant, PTL DEF SpecSemantic, ActsOnTheOnlyMatch
<1>4. SpecSemantic => ActsInGuardedWindow
  BY <1>2, SemanticInvariant, PTL DEF SpecSemantic, ActsInGuardedWindow
<1> QED BY <1>3, <1>4 DEF ActsOnRequested

-----------------------------------------------------------------------------
(* What a client is told after an action.                                  *)

\* Nothing of the kind has changed since the first look, nor was a look missed.
Still(what) == ~blind /\ what \notin moved

\* What was read of the active window and of the focused element is still so.
Fits(sample) ==
    /\ sample \in Samples
    /\ Still("active") => sample.active = activePlace
    /\ Still("focus") => sample.element = focused

\* The stages of the two ways to wait.
StageOK ==
    /\ asked \in [condition: Conditions, window: Places \cup {Unread}]
    /\ asked.condition = "focus" => asked.window # Unread
    /\ stage \in {"read_before", "subscribe", "listen", "read_after", "compare"} =>
          asked.condition = "target_change"
    /\ stage \in {"before", "before_element", "sample", "sample_element", "judge"} =>
          asked.condition # "target_change"
    /\ stage \in {"before", "before_element"} => asked.condition # "none"

PollingOK ==
    /\ stage \in {"before_element", "sample_element"} /\ Still("active") => half = activePlace
    /\ stage \in {"dispatch", "sample", "sample_element", "judge"}
          /\ asked.condition \notin {"none", "target_change"} => Fits(before)
    /\ stage = "judge" /\ asked.condition # "none" => Fits(current)

\* What was read since the action is what was active since then.
ActiveOK ==
    /\ stage \in {"sample", "sample_element", "judge"} => activePlace \in wasActive
    /\ stage = "sample_element" => half \in wasActive \cup {Unread}
    /\ stage = "judge" => current.active \in wasActive \cup {Unread}

TargetOK ==
    /\ stage \in {"subscribe", "dispatch", "listen", "read_after", "compare"}
          /\ asked.condition = "target_change" /\ Still("target") => before = Reading(TRUE)
    /\ stage = "compare" /\ Still("target") => current = Reading(FALSE)
    /\ signal => moved \cap {"target", "window"} # {}

\* The inductive invariant: what was read of the desktop differs from it only
\* by what has moved since the first look.
PostInv == PostTypeOK /\ StageOK /\ PollingOK /\ ActiveOK /\ TargetOK /\ ConfirmedHasReason

LEMMA PostStart == InitPost => PostInv
<1> SUFFICES ASSUME InitPost PROVE PostInv
  OBVIOUS
<1>1. PostTypeOK
  <2>1. /\ activePlace \in Places /\ focused \in Widgets /\ targetValue \in Values /\ targetState \in TargetStates
        /\ asked.condition \in Conditions /\ asked.window \in Places \cup {Unread}
        /\ stage = "idle" /\ outcome = "none" /\ half \in Places \cup {Unread} /\ wasActive = {}
    BY DEF InitPost, Conditions, Polled, TargetStates
  <2>2. {before, previous, current} \subseteq [value: Values, state: TargetStates \cup {"unread"}]
    <3>1. NotRead \in [value: Values, state: TargetStates \cup {"unread"}]
      BY DEF NotRead, Values
    <3>2. before = NotRead /\ previous = NotRead /\ current = NotRead
      BY DEF InitPost
    <3> QED BY <3>1, <3>2
  <2>3. subscribed = FALSE /\ signal = FALSE /\ blind = FALSE
    BY DEF InitPost
  <2>4. moves \in 0..MaxMoves
    BY PostActionAssumption DEF InitPost
  <2> QED BY <2>1, <2>2, <2>3, <2>4 DEF PostTypeOK
<1>2. StageOK /\ PollingOK /\ ActiveOK /\ TargetOK /\ ConfirmedHasReason
  BY DEF InitPost, StageOK, PollingOK, ActiveOK, TargetOK, ConfirmedHasReason, Conditions, Polled
<1> QED BY <1>1, <1>2 DEF PostInv

LEMMA AskPostKeeps ==
    ASSUME PostInv, NEW condition \in Conditions, NEW window \in Places \cup {Unread},
           condition = "focus" => window # Unread, AskPost(condition, window)
    PROVE  PostInv'
<1>1. PostTypeOK'
  BY DEF AskPost, Reaches, FirstLook, desktop, samples, postHistories, PostInv, PostTypeOK
<1>2. StageOK'
  BY DEF AskPost, Reaches, FirstLook, desktop, samples, postHistories, PostInv, StageOK
<1>3. PollingOK'
  BY DEF AskPost, Reaches, FirstLook, desktop, samples, postHistories, PostInv, PollingOK, Fits, Still
<1>4. ActiveOK'
  BY DEF AskPost, Reaches, FirstLook, desktop, samples, postHistories, PostInv, ActiveOK
<1>5. TargetOK'
  BY DEF AskPost, Reaches, FirstLook, desktop, samples, postHistories, PostInv, TargetOK, Still, Reading
<1>6. ConfirmedHasReason'
  BY DEF AskPost, Reaches, FirstLook, desktop, samples, postHistories, PostInv, ConfirmedHasReason, PostTypeOK
<1> QED BY <1>1, <1>2, <1>3, <1>4, <1>5, <1>6 DEF PostInv

LEMMA ReadActiveKeeps ==
    ASSUME PostInv, NEW from, NEW to, ReadActive(from, to),
           <<from, to>> \in {<<"before", "before_element">>, <<"sample", "sample_element">>}
    PROVE  PostInv'
<1>1. PostTypeOK'
  BY DEF ReadActive, Reaches, desktop, samples, postHistories, PostInv, PostTypeOK
<1>2. StageOK'
  BY DEF ReadActive, Reaches, desktop, samples, postHistories, PostInv, StageOK
<1>3. PollingOK'
  BY DEF ReadActive, Reaches, desktop, samples, postHistories, PostInv, PollingOK, Fits, Still
<1>4. ActiveOK'
  BY DEF ReadActive, Reaches, desktop, samples, postHistories, PostInv, ActiveOK
<1>5. TargetOK'
  <2>1. stage' \in {"before_element", "sample_element"} /\ signal' = signal /\ moved' = moved
    BY DEF ReadActive, Reaches
  <2> QED BY <2>1 DEF PostInv, TargetOK
<1>6. ConfirmedHasReason'
  BY DEF ReadActive, Reaches, desktop, samples, postHistories, PostInv, ConfirmedHasReason, PostTypeOK
<1> QED BY <1>1, <1>2, <1>3, <1>4, <1>5, <1>6 DEF PostInv

LEMMA SampleBeforeKeeps == PostInv /\ SampleBefore => PostInv'
<1> SUFFICES ASSUME PostInv, SampleBefore PROVE PostInv'
  OBVIOUS
<1>1. PostTypeOK'
  BY DEF SampleBefore, Reaches, desktop, samples, postHistories, PostInv, PostTypeOK, Sampled, Samples
<1>2. StageOK'
  BY DEF SampleBefore, Reaches, desktop, samples, postHistories, PostInv, StageOK
<1>3. PollingOK'
  BY DEF SampleBefore, Reaches, desktop, samples, postHistories, PostInv, PollingOK, Fits, Still, Sampled, Samples, PostTypeOK
<1>4. ActiveOK'
  BY DEF SampleBefore, Reaches, desktop, samples, postHistories, PostInv, ActiveOK
<1>5. TargetOK'
  <2>1. /\ stage' = "dispatch" /\ asked' = asked /\ asked.condition # "target_change"
        /\ signal' = signal /\ moved' = moved
    BY DEF SampleBefore, Reaches, PostInv, StageOK
  <2> QED BY <2>1 DEF PostInv, TargetOK
<1>6. ConfirmedHasReason'
  BY DEF SampleBefore, Reaches, desktop, samples, postHistories, PostInv, ConfirmedHasReason, PostTypeOK
<1> QED BY <1>1, <1>2, <1>3, <1>4, <1>5, <1>6 DEF PostInv

LEMMA DispatchKeeps == PostInv /\ Dispatch => PostInv'
<1> SUFFICES ASSUME PostInv, Dispatch PROVE PostInv'
  OBVIOUS
<1>1. PostTypeOK'
  BY DEF Dispatch, Reaches, desktop, samples, postHistories, PostInv, PostTypeOK
<1>2. StageOK'
  BY DEF Dispatch, Reaches, desktop, samples, postHistories, PostInv, StageOK
<1>3. PollingOK'
  BY DEF Dispatch, Reaches, desktop, samples, postHistories, PostInv, PollingOK, Fits, Still
<1>4. ActiveOK'
  BY DEF Dispatch, Reaches, desktop, samples, postHistories, PostInv, ActiveOK
<1>5. TargetOK'
  BY DEF Dispatch, Reaches, desktop, samples, postHistories, PostInv, TargetOK, Still, Reading
<1>6. ConfirmedHasReason'
  BY DEF Dispatch, Reaches, desktop, samples, postHistories, PostInv, ConfirmedHasReason, PostTypeOK
<1> QED BY <1>1, <1>2, <1>3, <1>4, <1>5, <1>6 DEF PostInv

LEMMA SampleAfterKeeps == PostInv /\ SampleAfter => PostInv'
<1> SUFFICES ASSUME PostInv, SampleAfter PROVE PostInv'
  OBVIOUS
<1>1. PostTypeOK'
  BY DEF SampleAfter, Reaches, desktop, samples, postHistories, PostInv, PostTypeOK, Sampled, Samples
<1>2. StageOK'
  BY DEF SampleAfter, Reaches, desktop, samples, postHistories, PostInv, StageOK
<1>3. PollingOK'
  BY DEF SampleAfter, Reaches, desktop, samples, postHistories, PostInv, PollingOK, Fits, Still, Sampled, Samples, PostTypeOK, StageOK
<1>4. ActiveOK'
  BY DEF SampleAfter, Reaches, desktop, samples, postHistories, PostInv, ActiveOK, Sampled, Samples
<1>5. TargetOK'
  BY DEF SampleAfter, Reaches, desktop, samples, postHistories, PostInv, TargetOK, Still, Reading
<1>6. ConfirmedHasReason'
  BY DEF SampleAfter, Reaches, desktop, samples, postHistories, PostInv, ConfirmedHasReason, PostTypeOK
<1> QED BY <1>1, <1>2, <1>3, <1>4, <1>5, <1>6 DEF PostInv

LEMMA JudgeKeeps == PostInv /\ Judge => PostInv'
<1> SUFFICES ASSUME PostInv, Judge PROVE PostInv'
  OBVIOUS
<1>1. PostTypeOK'
  BY DEF Judge, Reaches, desktop, samples, postHistories, PostInv, PostTypeOK
<1>2. StageOK'
  BY DEF Judge, Reaches, desktop, samples, postHistories, PostInv, StageOK
<1>3. PollingOK'
  BY DEF Judge, Reaches, desktop, samples, postHistories, PostInv, PollingOK, Fits, Still
<1>4. ActiveOK'
  BY DEF Judge, Reaches, desktop, samples, postHistories, PostInv, ActiveOK
<1>5. TargetOK'
  BY DEF Judge, Reaches, desktop, samples, postHistories, PostInv, TargetOK, Still, Reading
<1>6. ConfirmedHasReason'
  <2> SUFFICES ASSUME outcome' = "confirmed" PROVE ConfirmedHasReason'
    BY DEF ConfirmedHasReason
  <2>1. /\ ConditionMet /\ stage = "judge"
        /\ UNCHANGED <<asked, before, current, moved, blind, wasActive>>
    BY DEF Judge, samples, postHistories, PostInv, PostTypeOK
  <2>2. /\ asked.condition # "none" => Fits(before) /\ Fits(current)
        /\ current.active \in wasActive \cup {Unread}
    BY <2>1 DEF PostInv, PollingOK, StageOK, ActiveOK
  <2>3. asked.condition # "none" /\ Still("active") => current.active = before.active
    BY <2>2 DEF Fits
  <2>4. asked.condition # "none" /\ Still("focus") => current.element = before.element
    BY <2>2 DEF Fits
  <2>5. asked.condition # "none" /\ Still("active") /\ Still("focus") => current = before
    BY <2>2, <2>3, <2>4 DEF Fits, Samples
  <2>6. asked.condition \in Conditions \ {"target_change"} /\ (asked.condition = "focus" => asked.window # Unread)
    BY <2>1 DEF PostInv, StageOK
  <2>7. CASE asked.condition \in {"none", "stable", "focus"}
    BY <2>1, <2>2, <2>6, <2>7 DEF ConfirmedHasReason, ConditionMet
  <2>8. CASE asked.condition = "active_change"
    BY <2>1, <2>3, <2>8 DEF ConfirmedHasReason, ConditionMet, Still
  <2>9. CASE asked.condition = "accessibility_change"
    BY <2>1, <2>4, <2>9 DEF ConfirmedHasReason, ConditionMet, Still
  <2>10. CASE asked.condition = "any_change"
    BY <2>1, <2>5, <2>10 DEF ConfirmedHasReason, ConditionMet, Still
  <2> QED BY <2>6, <2>7, <2>8, <2>9, <2>10 DEF Conditions, Polled
<1> QED BY <1>1, <1>2, <1>3, <1>4, <1>5, <1>6 DEF PostInv

LEMMA ReadBeforeKeeps == PostInv /\ ReadBefore => PostInv'
<1> SUFFICES ASSUME PostInv, ReadBefore PROVE PostInv'
  OBVIOUS
<1>1. PostTypeOK'
  <2>1. {before', previous', current'} \subseteq Samples \cup [value: Values, state: TargetStates \cup {"unread"}]
    <3>1. Reading(TRUE) \in [value: Values, state: TargetStates] /\ NotRead \in [value: Values, state: {"unread"}]
      BY DEF PostInv, PostTypeOK, Reading, NotRead, Values
    <3> QED BY <3>1 DEF ReadBefore, PostInv, PostTypeOK
  <2>2. blind' \in BOOLEAN
    BY DEF ReadBefore, PostInv, PostTypeOK
  <2> QED BY <2>1, <2>2 DEF ReadBefore, Reaches, desktop, PostInv, PostTypeOK
<1>2. StageOK'
  BY DEF ReadBefore, Reaches, desktop, samples, postHistories, PostInv, StageOK
<1>3. PollingOK'
  BY DEF ReadBefore, Reaches, desktop, samples, postHistories, PostInv, PollingOK, Fits, Still
<1>4. ActiveOK'
  BY DEF ReadBefore, Reaches, desktop, samples, postHistories, PostInv, ActiveOK
<1>5. TargetOK'
  BY DEF ReadBefore, Reaches, desktop, samples, postHistories, PostInv, TargetOK, Still, Reading, NotRead
<1>6. ConfirmedHasReason'
  BY DEF ReadBefore, Reaches, desktop, samples, postHistories, PostInv, ConfirmedHasReason, PostTypeOK
<1> QED BY <1>1, <1>2, <1>3, <1>4, <1>5, <1>6 DEF PostInv

LEMMA SubscribeKeeps == PostInv /\ Subscribe => PostInv'
<1> SUFFICES ASSUME PostInv, Subscribe PROVE PostInv'
  OBVIOUS
<1>1. PostTypeOK'
  BY DEF Subscribe, Reaches, desktop, samples, postHistories, PostInv, PostTypeOK
<1>2. StageOK'
  BY DEF Subscribe, Reaches, desktop, samples, postHistories, PostInv, StageOK
<1>3. PollingOK'
  <2>1. stage' = "dispatch" /\ asked' = asked /\ asked.condition = "target_change"
    BY DEF Subscribe, Reaches, PostInv, StageOK
  <2> QED BY <2>1 DEF PollingOK
<1>4. ActiveOK'
  BY DEF Subscribe, Reaches, desktop, samples, postHistories, PostInv, ActiveOK
<1>5. TargetOK'
  BY DEF Subscribe, Reaches, desktop, samples, postHistories, PostInv, TargetOK, Still, Reading
<1>6. ConfirmedHasReason'
  BY DEF Subscribe, Reaches, desktop, samples, postHistories, PostInv, ConfirmedHasReason, PostTypeOK
<1> QED BY <1>1, <1>2, <1>3, <1>4, <1>5, <1>6 DEF PostInv

LEMMA ListenKeeps == PostInv /\ Listen => PostInv'
<1> SUFFICES ASSUME PostInv, Listen PROVE PostInv'
  OBVIOUS
<1>1. PostTypeOK'
  BY DEF Listen, Reaches, desktop, samples, postHistories, PostInv, PostTypeOK
<1>2. StageOK'
  BY DEF Listen, Reaches, desktop, samples, postHistories, PostInv, StageOK
<1>3. PollingOK'
  BY DEF Listen, Reaches, desktop, samples, postHistories, PostInv, PollingOK, Fits, Still
<1>4. ActiveOK'
  BY DEF Listen, Reaches, desktop, samples, postHistories, PostInv, ActiveOK
<1>5. TargetOK'
  BY DEF Listen, Reaches, desktop, samples, postHistories, PostInv, TargetOK, Still, Reading
<1>6. ConfirmedHasReason'
  BY DEF Listen, Reaches, desktop, samples, postHistories, PostInv, ConfirmedHasReason, PostTypeOK
<1> QED BY <1>1, <1>2, <1>3, <1>4, <1>5, <1>6 DEF PostInv

LEMMA ReadAfterKeeps == PostInv /\ ReadAfter => PostInv'
<1> SUFFICES ASSUME PostInv, ReadAfter PROVE PostInv'
  OBVIOUS
<1>1. PostTypeOK'
  <2>1. {current', previous', before'} \subseteq Samples \cup [value: Values, state: TargetStates \cup {"unread"}]
    <3>1. Reading(FALSE) \in [value: Values, state: TargetStates] /\ NotRead \in [value: Values, state: {"unread"}]
      BY DEF PostInv, PostTypeOK, Reading, NotRead, Values
    <3> QED BY <3>1 DEF ReadAfter, PostInv, PostTypeOK
  <2>2. blind' \in BOOLEAN
    BY DEF ReadAfter, PostInv, PostTypeOK
  <2> QED BY <2>1, <2>2 DEF ReadAfter, Reaches, desktop, PostInv, PostTypeOK
<1>2. StageOK'
  BY DEF ReadAfter, Reaches, desktop, samples, postHistories, PostInv, StageOK
<1>3. PollingOK'
  BY DEF ReadAfter, Reaches, desktop, samples, postHistories, PostInv, PollingOK, Fits, Still
<1>4. ActiveOK'
  BY DEF ReadAfter, Reaches, desktop, samples, postHistories, PostInv, ActiveOK
<1>5. TargetOK'
  BY DEF ReadAfter, Reaches, desktop, samples, postHistories, PostInv, TargetOK, Still, Reading, NotRead
<1>6. ConfirmedHasReason'
  BY DEF ReadAfter, Reaches, desktop, samples, postHistories, PostInv, ConfirmedHasReason, PostTypeOK
<1> QED BY <1>1, <1>2, <1>3, <1>4, <1>5, <1>6 DEF PostInv

LEMMA CompareKeeps == PostInv /\ Compare => PostInv'
<1> SUFFICES ASSUME PostInv, Compare PROVE PostInv'
  OBVIOUS
<1>1. PostTypeOK'
  BY DEF Compare, Reaches, desktop, samples, postHistories, PostInv, PostTypeOK
<1>2. StageOK'
  BY DEF Compare, Reaches, desktop, samples, postHistories, PostInv, StageOK
<1>3. PollingOK'
  BY DEF Compare, Reaches, desktop, samples, postHistories, PostInv, PollingOK, Fits, Still
<1>4. ActiveOK'
  BY DEF Compare, Reaches, desktop, samples, postHistories, PostInv, ActiveOK
<1>5. TargetOK'
  BY DEF Compare, Reaches, desktop, samples, postHistories, PostInv, TargetOK, Still, Reading
<1>6. ConfirmedHasReason'
  <2> SUFFICES ASSUME outcome' = "confirmed" PROVE ConfirmedHasReason'
    BY DEF ConfirmedHasReason
  <2>1. /\ signal \/ current # before
        /\ stage = "compare" /\ asked.condition = "target_change"
        /\ UNCHANGED <<asked, before, moved, blind>>
    BY DEF Compare, samples, postHistories, PostInv, PostTypeOK, StageOK
  <2>2. Still("target") => before = Reading(TRUE) /\ current = Reading(FALSE)
    BY <2>1 DEF PostInv, TargetOK
  <2>3. ASSUME Still("target"), before.value = "" PROVE current = before
    <3>1. before = [value |-> targetValue, state |-> targetState]
      BY <2>2, <2>3 DEF Reading
    <3>2. targetValue = ""
      BY <2>3, <3>1
    <3> QED BY <2>2, <2>3, <3>1, <3>2 DEF Reading
  <2>4. signal => moved \cap {"target", "window"} # {}
    BY DEF PostInv, TargetOK
  <2> QED BY <2>1, <2>3, <2>4 DEF ConfirmedHasReason, Still
<1> QED BY <1>1, <1>2, <1>3, <1>4, <1>5, <1>6 DEF PostInv

\* A move of the desktop is remembered, and the requests see it by and by.
LEMMA MovesKeep ==
    ASSUME PostInv, NEW what, Moves(what), signal' \in BOOLEAN,
           activePlace' \in Places, focused' \in Widgets, targetValue' \in Values, targetState' \in TargetStates,
           what # "active" => activePlace' = activePlace /\ wasActive' = wasActive,
           what = "active" => wasActive' = IF wasActive = {} THEN {} ELSE wasActive \cup {activePlace'},
           what # "focus" => focused' = focused,
           what # "target" => targetValue' = targetValue /\ targetState' = targetState,
           signal' => signal \/ what \in {"target", "window"}
    PROVE  PostInv'
<1>1. /\ moved' = moved \cup {what} /\ stage \notin {"idle", "done"} /\ moves' \in 0..MaxMoves
      /\ UNCHANGED <<asked, stage, half, before, previous, current, subscribed, outcome, blind>>
  BY PostActionAssumption DEF Moves, samples, PostInv, PostTypeOK
<1>2. wasActive' \subseteq Places /\ wasActive \subseteq wasActive'
      /\ (wasActive # {} /\ activePlace \in wasActive => activePlace' \in wasActive')
  BY DEF PostInv, PostTypeOK
<1>3. PostTypeOK'
  BY <1>1, <1>2 DEF PostInv, PostTypeOK
<1>4. /\ Still("active")' => Still("active") /\ activePlace' = activePlace
      /\ Still("focus")' => Still("focus") /\ focused' = focused
      /\ Still("target")' => /\ Still("target")
                             /\ targetValue' = targetValue /\ targetState' = targetState
  BY <1>1 DEF Still
<1>5. StageOK'
  BY <1>1 DEF PostInv, StageOK
<1>6. PollingOK'
  BY <1>1, <1>4 DEF PostInv, PollingOK, Fits
<1>7. ActiveOK'
  BY <1>1, <1>2 DEF PostInv, ActiveOK
<1>8. TargetOK'
  BY <1>1, <1>4 DEF PostInv, TargetOK, Reading
<1>9. ConfirmedHasReason'
  BY <1>1 DEF PostInv, PostTypeOK, ConfirmedHasReason
<1> QED BY <1>3, <1>5, <1>6, <1>7, <1>8, <1>9 DEF PostInv

LEMMA PostStep == PostInv /\ [NextPost]_postVars => PostInv'
<1> SUFFICES ASSUME PostInv, [NextPost]_postVars PROVE PostInv'
  OBVIOUS
<1> USE DEF Values, TargetStates
<1>1. ASSUME NEW condition \in Polled \cup {"target_change"}, AskPost(condition, Unread) PROVE PostInv'
  BY <1>1, AskPostKeeps DEF Conditions, Polled
<1>2. ASSUME NEW w \in Places, AskPost("focus", w) PROVE PostInv'
  BY <1>2, AskPostKeeps, PostActionAssumption DEF Conditions
<1>3. CASE ReadActive("before", "before_element") \/ ReadActive("sample", "sample_element")
  BY <1>3, ReadActiveKeeps
<1>4. ASSUME NEW w \in Places, PlaceActivated(w) PROVE PostInv'
  <2>1. /\ Moves("active") /\ activePlace' = w /\ UNCHANGED <<focused, targetValue, targetState, signal>>
        /\ wasActive' = IF wasActive = {} THEN {} ELSE wasActive \cup {activePlace'}
    BY <1>4 DEF PlaceActivated
  <2>2. signal' \in BOOLEAN /\ focused' \in Widgets /\ targetValue' \in Values /\ targetState' \in TargetStates
    BY <2>1 DEF PostInv, PostTypeOK
  <2> QED BY <2>1, <2>2, MovesKeep
<1>5. ASSUME NEW n \in Widgets, FocusMoves(n) PROVE PostInv'
  <2>1. Moves("focus") /\ focused' = n /\ UNCHANGED <<activePlace, targetValue, targetState, signal, wasActive>>
    BY <1>5 DEF FocusMoves
  <2>2. signal' \in BOOLEAN /\ activePlace' \in Places /\ targetValue' \in Values /\ targetState' \in TargetStates
    BY <2>1 DEF PostInv, PostTypeOK
  <2> QED BY <2>1, <2>2, MovesKeep
<1>6. ASSUME NEW value \in Values, NEW state \in TargetStates, TargetMoves(value, state) PROVE PostInv'
  <2>1. /\ Moves("target") /\ targetValue' = value /\ targetState' = state
        /\ UNCHANGED <<activePlace, focused, wasActive>>
    BY <1>6 DEF TargetMoves
  <2>2. signal' \in BOOLEAN
    BY <1>6 DEF TargetMoves, Signals
  <2>3. activePlace' \in Places /\ focused' \in Widgets
    BY <2>1 DEF PostInv, PostTypeOK
  <2> QED BY <2>1, <2>2, <2>3, MovesKeep
<1>7. ASSUME NEW source \in {"element", "window"}, ApplicationMoves(source) PROVE PostInv'
  <2>1. Moves(source) /\ UNCHANGED <<activePlace, focused, targetValue, targetState, wasActive>>
    BY <1>7 DEF ApplicationMoves, desktop
  <2>2. signal' \in BOOLEAN /\ (signal' => signal \/ source = "window")
    BY <1>7 DEF ApplicationMoves, Signals, EventIsRelevant
  <2>3. activePlace' \in Places /\ focused' \in Widgets /\ targetValue' \in Values /\ targetState' \in TargetStates
    BY <2>1 DEF PostInv, PostTypeOK
  <2> QED BY <2>1, <2>2, <2>3, MovesKeep
<1>8. CASE UNCHANGED postVars
  <2>1. PostTypeOK'
    BY <1>8 DEF postVars, PostInv, PostTypeOK
  <2>2. StageOK'
    BY <1>8 DEF postVars, PostInv, StageOK
  <2>3. PollingOK'
    BY <1>8 DEF postVars, PostInv, PollingOK, Fits, Still
  <2>4. ActiveOK'
    BY <1>8 DEF postVars, PostInv, ActiveOK
  <2>5. TargetOK'
    BY <1>8 DEF postVars, PostInv, TargetOK, Still, Reading
  <2>6. ConfirmedHasReason'
    BY <1>8 DEF postVars, PostInv, ConfirmedHasReason
  <2> QED BY <2>1, <2>2, <2>3, <2>4, <2>5, <2>6 DEF PostInv
<1> QED BY <1>1, <1>2, <1>3, <1>4, <1>5, <1>6, <1>7, <1>8, SampleBeforeKeeps, DispatchKeeps, SampleAfterKeeps, JudgeKeeps,
           ReadBeforeKeeps, SubscribeKeeps, ListenKeeps, ReadAfterKeeps, CompareKeeps DEF NextPost

LEMMA PostInvariant == SpecPost => []PostInv
BY PostStart, PostStep, PTL DEF SpecPost

(* The requests and the desktop have their types at every look, for any    *)
(* windows and elements and any number of moves.                           *)
THEOREM PostTypeCorrect == SpecPost => []PostTypeOK
<1>1. PostInv => PostTypeOK
  BY DEF PostInv
<1> QED BY <1>1, PostInvariant, PTL

(* Whatever moves on the desktop between the looks, a client that asked    *)
(* for a change is told "confirmed" only after such a change, or a look    *)
(* that failed; and a window it is told is focused was active after the    *)
(* action (main.rs, semantic_settle.rs).                                   *)
THEOREM ConfirmedHasReasonHolds == SpecPost => []ConfirmedHasReason
<1>1. PostInv => ConfirmedHasReason
  BY DEF PostInv
<1> QED BY <1>1, PostInvariant, PTL

-----------------------------------------------------------------------------
(* How many control requests pass the rate limiter.                          *)

Stops == {"idle", "policy", "handle", "target", "clock", "rate", "prepare", "executing"}

Standing == [at: Stops, class: Classes, client: Clients \cup {Nil},
             handle: Handles \cup {Nil}, age: 0..MaxDelay]

GateTypes ==
    /\ gate \in [Inflight -> Standing]
    /\ accepted \in Seq(Nat) /\ admitted \in Seq(Nat)

\* The i-th of the acceptances within the window, as it stands in the queue.
InQueue(i) == accepted[Len(accepted) - Len(admitted) + i]

\* The acceptances within the window are the last of the queue, in their order,
\* each with a time that was read MaxDelay before it at most.
WindowInQueue ==
    /\ Len(admitted) <= Len(accepted)
    /\ \A i \in DOMAIN admitted :
          /\ admitted[i] < RateWindow - MaxDelay
          /\ InQueue(i) <= admitted[i] + MaxDelay
          /\ \A j \in DOMAIN admitted : i <= j => admitted[j] <= admitted[i]

RateInv == GateTypes /\ Len(accepted) <= Limit /\ WindowInQueue

(* What is left of a queue of ages, and what is before a new one.           *)
LEMMA AgesFrom ==
    ASSUME NEW ages \in Seq(Nat), NEW k \in 1..Len(ages)
    PROVE  /\ SubSeq(ages, k, Len(ages)) \in Seq(Nat)
           /\ Len(SubSeq(ages, k, Len(ages))) = Len(ages) - (k - 1)
           /\ \A i \in 1..Len(ages) - (k - 1) : SubSeq(ages, k, Len(ages))[i] = ages[(k - 1) + i]
<1> DEFINE sub == SubSeq(ages, k, Len(ages))
<1>1. \A i \in k..Len(ages) : ages[i] \in Nat
  OBVIOUS
<1>2. /\ sub \in Seq(Nat)
      /\ Len(sub) = IF k <= Len(ages) THEN Len(ages) - k + 1 ELSE 0
      /\ \A i \in 1..Len(ages) - k + 1 : sub[i] = ages[k + i - 1]
  BY <1>1, SubSeqProperties
<1> HIDE DEF sub
<1>3. Len(ages) - (k - 1) = Len(ages) - k + 1 /\ k <= Len(ages)
  OBVIOUS
<1>4. \A i \in 1..Len(ages) - (k - 1) : (k - 1) + i = k + i - 1
  OBVIOUS
<1> QED BY <1>2, <1>3, <1>4 DEF sub

LEMMA AgesBefore ==
    ASSUME NEW ages \in Seq(Nat), NEW age \in Nat, NEW i \in 1..Len(ages)
    PROVE  Append(ages, age)[i] = ages[i]
BY AppendProperties

\* What an acceptance adds is one age, the last.
LEMMA AgesAppended ==
    ASSUME NEW ages \in Seq(Nat), NEW age \in Nat
    PROVE  /\ Len(Append(ages, age)) = Len(ages) + 1
           /\ Append(ages, age)[Len(ages) + 1] = age
BY AppendProperties

(* Since drops the ages at the front that have reached `most`, and no others. *)
LEMMA SinceDrops ==
    ASSUME NEW ages \in Seq(Nat), NEW most \in Nat
    PROVE  \E k \in 0..Len(ages) :
              /\ Since(ages, most) \in Seq(Nat)
              /\ Len(Since(ages, most)) = Len(ages) - k
              /\ \A i \in 1..Len(ages) - k : Since(ages, most)[i] = ages[k + i]
              /\ \A i \in 1..k : ages[i] >= most
              /\ k < Len(ages) => ages[k + 1] < most
<1> DEFINE I == {i \in 1..Len(ages) : ages[i] < most}
           kept == IF I # {} THEN CHOOSE m \in I : \A i \in I : m <= i ELSE 0
<1>1. Since(ages, most) = IF kept = 0 THEN <<>> ELSE SubSeq(ages, kept, Len(ages))
  BY DEF Since, SelectInSeq, Min
<1>2. CASE I = {}
  <2>1. Since(ages, most) = <<>>
    BY <1>1, <1>2
  <2>2. \A i \in 1..Len(ages) : ages[i] >= most
    BY <1>2
  <2> QED BY <2>1, <2>2
<1>3. CASE I # {}
  <2>1. \E m \in I : \A i \in I : m <= i
    <3>1. I \subseteq Nat
      OBVIOUS
    <3> HIDE DEF I
    <3> QED BY <1>3, <3>1, LeastNat
  <2>2. kept \in I /\ \A i \in I : kept <= i
    BY <1>3, <2>1
  <2>3. PICK k \in 1..Len(ages) : k = kept
    BY <2>2
  <2> HIDE DEF kept
  <2>4. Since(ages, most) = SubSeq(ages, k, Len(ages))
    BY <1>1, <2>3
  <2>5. /\ SubSeq(ages, k, Len(ages)) \in Seq(Nat)
        /\ Len(SubSeq(ages, k, Len(ages))) = Len(ages) - (k - 1)
        /\ \A i \in 1..Len(ages) - (k - 1) : SubSeq(ages, k, Len(ages))[i] = ages[(k - 1) + i]
    BY AgesFrom
  <2>6. \A i \in 1..(k - 1) : ages[i] >= most
    <3> SUFFICES ASSUME NEW i \in 1..(k - 1), ages[i] < most PROVE FALSE
      OBVIOUS
    <3> QED BY <2>2, <2>3
  <2>7. k - 1 \in 0..Len(ages) /\ (k - 1) + 1 = k /\ ages[k] < most
    BY <2>2, <2>3
  <2> QED BY <2>4, <2>5, <2>6, <2>7
<1> QED BY <1>2, <1>3

LEMMA RateInit == InitGates => RateInv
<1> SUFFICES ASSUME InitGates PROVE RateInv
  OBVIOUS
<1> USE GatesAssumption
<1>1. GateTypes
  BY DEF InitGates, GateTypes, Standing, AtRest, Stops, Classes
<1>2. Len(accepted) = 0 /\ Len(admitted) = 0
  BY DEF InitGates
<1> QED BY <1>1, <1>2 DEF RateInv, WindowInQueue

MovesOn(r, station, age) == gate' = [gate EXCEPT ![r].at = station, ![r].age = age]

\* A request that moves on, or is refused, stands again at one of the gates.
LEMMA StandsAgain ==
    ASSUME gate \in [Inflight -> Standing], NEW r \in Inflight,
           Refused(r) \/ (\E station \in Stops : Passes(r, station) \/ \E age \in 0..MaxDelay : MovesOn(r, station, age))
    PROVE  gate' \in [Inflight -> Standing]
<1>1. CASE Refused(r)
  <2>1. AtRest \in Standing
    BY GatesAssumption DEF AtRest, Standing, Stops, Classes
  <2> QED BY <1>1, <2>1 DEF Refused
<1>2. ASSUME NEW station \in Stops, Passes(r, station) PROVE gate' \in [Inflight -> Standing]
  BY <1>2 DEF Passes, Standing
<1>3. ASSUME NEW station \in Stops, NEW age \in 0..MaxDelay, MovesOn(r, station, age)
      PROVE  gate' \in [Inflight -> Standing]
  <2>1. gate[r] \in Standing
    OBVIOUS
  <2>2. [gate[r] EXCEPT !.at = station, !.age = age] \in Standing
    BY <2>1 DEF Standing
  <2>3. gate' = [gate EXCEPT ![r] = [gate[r] EXCEPT !.at = station, !.age = age]]
    BY <1>3 DEF MovesOn
  <2> QED BY <2>2, <2>3
<1> QED BY <1>1, <1>2, <1>3

\* A request moves on, and the queue stays as it is.
LEMMA GateMoves ==
    ASSUME RateInv, UNCHANGED <<accepted, admitted>>,
           gate' \in [Inflight -> Standing]
    PROVE  RateInv'
BY DEF RateInv, GateTypes, WindowInQueue, InQueue

(* The lock: what was accepted within the window outlives the pruning, and   *)
(* what is accepted now comes last.                                          *)
LEMMA RateChecked ==
    ASSUME RateInv, NEW r \in Inflight, CheckRate(r)
    PROVE  RateInv'
<1> DEFINE queue == Pruned(gate[r].age)
<1>0. gate[r].age \in 0..MaxDelay /\ accepted \in Seq(Nat) /\ admitted \in Seq(Nat)
  BY DEF RateInv, GateTypes, Standing
<1>9. /\ RateWindow \in Nat /\ Limit \in Nat /\ MaxDelay \in Nat /\ MaxDelay < RateWindow
      /\ Len(accepted) \in Nat /\ Len(admitted) \in Nat /\ gate[r].age \in Nat /\ gate[r].age <= MaxDelay
  BY <1>0, GatesAssumption
<1>1. PICK k \in 0..Len(accepted) :
        /\ queue \in Seq(Nat)
        /\ Len(queue) = Len(accepted) - k
        /\ \A i \in 1..Len(accepted) - k : queue[i] = accepted[k + i]
        /\ \A i \in 1..k : accepted[i] >= RateWindow + gate[r].age
  <2>1. RateWindow + gate[r].age \in Nat
    BY <1>9
  <2> QED BY <1>0, <2>1, SinceDrops DEF Pruned
<1>2. gate' \in [Inflight -> Standing]
  <2>1. "prepare" \in Stops /\ 0 \in 0..MaxDelay
    BY <1>9 DEF Stops
  <2>2. MovesOn(r, "prepare", 0) \/ Refused(r)
    BY DEF CheckRate, MovesOn
  <2>3. gate \in [Inflight -> Standing]
    BY DEF RateInv, GateTypes
  <2> QED BY <2>1, <2>2, <2>3, StandsAgain
<1> HIDE DEF queue
<1>8. Len(queue) \in Nat /\ k \in Nat
  BY <1>1
\* Only what is older than the window is pruned.
<1>3. k + Len(admitted) <= Len(accepted)
  <2> SUFFICES ASSUME k + Len(admitted) > Len(accepted) PROVE FALSE
    BY <1>8, <1>9
  <2>1. CASE Len(admitted) = 0
    BY <2>1, <1>1, <1>9
  <2>2. CASE Len(admitted) # 0
    <3>1. 1 \in DOMAIN admitted /\ Len(accepted) - Len(admitted) + 1 \in 1..k
      BY <2>2, <1>0, <1>1, <1>9 DEF RateInv, WindowInQueue
    <3>2. InQueue(1) >= RateWindow + gate[r].age
      BY <3>1, <1>1 DEF InQueue
    <3>3. InQueue(1) <= admitted[1] + MaxDelay /\ admitted[1] < RateWindow - MaxDelay /\ admitted[1] \in Nat
      BY <3>1, <1>0 DEF RateInv, WindowInQueue
    <3>4. InQueue(1) \in Nat
      BY <3>1, <1>0 DEF InQueue
    <3> QED BY <3>2, <3>3, <3>4, <1>9
  <2> QED BY <2>1, <2>2
<1>4. \A i \in DOMAIN admitted : queue[Len(queue) - Len(admitted) + i] = InQueue(i)
  <2> SUFFICES ASSUME NEW i \in DOMAIN admitted
               PROVE  queue[Len(queue) - Len(admitted) + i] = InQueue(i)
    OBVIOUS
  <2>0. i \in 1..Len(admitted)
    BY <1>0
  <2>1. Len(queue) - Len(admitted) + i \in 1..Len(accepted) - k
    BY <1>1, <1>3, <1>8, <1>9, <2>0
  <2>2. k + (Len(queue) - Len(admitted) + i) = Len(accepted) - Len(admitted) + i
    BY <1>1, <1>8, <1>9
  <2> QED BY <1>1, <2>1, <2>2 DEF InQueue
<1>5. CASE Full(queue) /\ accepted' = queue /\ UNCHANGED admitted
  <2>1. GateTypes'
    BY <1>0, <1>1, <1>2, <1>5 DEF GateTypes
  <2>2. (Len(accepted) <= Limit)'
    BY <1>1, <1>5, <1>8, <1>9 DEF RateInv
  <2>3. (Len(admitted) <= Len(accepted))'
    BY <1>1, <1>3, <1>5, <1>8, <1>9
  <2>4. \A i \in DOMAIN admitted : InQueue(i)' = InQueue(i)
    BY <1>4, <1>5 DEF InQueue
  <2> QED BY <1>5, <2>1, <2>2, <2>3, <2>4 DEF RateInv, WindowInQueue
<1>6. CASE ~Full(queue) /\ accepted' = Append(queue, gate[r].age) /\ admitted' = Append(admitted, 0)
  <2>1. GateTypes'
    BY <1>0, <1>1, <1>2, <1>6 DEF GateTypes
  <2>2. Len(accepted') = Len(queue) + 1 /\ Len(admitted') = Len(admitted) + 1
    <3>1. Len(Append(queue, gate[r].age)) = Len(queue) + 1
      <4>1. queue \in Seq(Nat) /\ gate[r].age \in Nat
        BY <1>1, <1>9
      <4> QED BY <4>1, AgesAppended
    <3>2. Len(Append(admitted, 0)) = Len(admitted) + 1
      BY <1>0
    <3> QED BY <1>6, <3>1, <3>2
  <2>3. (Len(accepted) <= Limit)' /\ (Len(admitted) <= Len(accepted))'
    BY <1>1, <1>3, <1>6, <1>8, <1>9, <2>2 DEF Full
  <2>4. Len(accepted') - Len(admitted') = Len(queue) - Len(admitted)
    BY <1>8, <1>9, <2>2
  <2>5. \A i \in DOMAIN admitted : InQueue(i)' = InQueue(i) /\ admitted'[i] = admitted[i]
    <3> SUFFICES ASSUME NEW i \in DOMAIN admitted
                 PROVE  InQueue(i)' = InQueue(i) /\ admitted'[i] = admitted[i]
      OBVIOUS
    <3>0. i \in 1..Len(admitted)
      BY <1>0
    <3>1. Len(queue) - Len(admitted) + i \in 1..Len(queue)
      <4>1. Len(queue) = Len(accepted) - k
        BY <1>1
      <4>2. Len(admitted) <= Len(queue)
        BY <1>3, <1>8, <1>9, <4>1
      <4> QED BY <1>8, <1>9, <3>0, <4>2
    <3>2. Append(queue, gate[r].age)[Len(queue) - Len(admitted) + i] = queue[Len(queue) - Len(admitted) + i]
      <4>1. queue \in Seq(Nat) /\ gate[r].age \in Nat
        BY <1>1, <1>9
      <4> QED BY <3>1, <4>1, AgesBefore
    <3>3. Append(admitted, 0)[i] = admitted[i]
      BY <1>0, <3>0, AgesBefore
    <3>4. InQueue(i)' = queue[Len(queue) - Len(admitted) + i]
      BY <1>6, <2>4, <3>2 DEF InQueue
    <3> QED BY <1>4, <1>6, <3>3, <3>4
  <2>10. PICK n \in Nat : n = Len(admitted) + 1
    BY <1>9
  <2>6. InQueue(n)' = gate[r].age /\ admitted'[n] = 0
    <3>1. Len(queue) - Len(admitted) + n = Len(queue) + 1
      BY <1>8, <1>9, <2>10
    <3>2. Append(queue, gate[r].age)[Len(queue) + 1] = gate[r].age
      <4>1. queue \in Seq(Nat) /\ gate[r].age \in Nat
        BY <1>1, <1>9
      <4> QED BY <4>1, AgesAppended
    <3>3. Append(admitted, 0)[n] = 0
      BY <1>0, <2>10
    <3>4. InQueue(n)' = gate[r].age
      BY <1>6, <2>4, <3>1, <3>2 DEF InQueue
    <3> QED BY <1>6, <3>3, <3>4
  <2>7. DOMAIN admitted' = DOMAIN admitted \cup {n}
    BY <1>0, <1>6, <2>10
  <2>8. \A i \in DOMAIN admitted' :
          /\ admitted'[i] < RateWindow - MaxDelay
          /\ InQueue(i)' <= admitted'[i] + MaxDelay
    <3> SUFFICES ASSUME NEW i \in DOMAIN admitted'
                 PROVE  admitted'[i] < RateWindow - MaxDelay /\ InQueue(i)' <= admitted'[i] + MaxDelay
      OBVIOUS
    <3>1. CASE i \in DOMAIN admitted
      BY <2>5, <3>1 DEF RateInv, WindowInQueue
    <3>2. CASE i = n
      BY <1>9, <2>6, <3>2
    <3> QED BY <2>7, <3>1, <3>2
  <2>9. \A i, j \in DOMAIN admitted' : i <= j => admitted'[j] <= admitted'[i]
    <3> SUFFICES ASSUME NEW i \in DOMAIN admitted', NEW j \in DOMAIN admitted', i <= j
                 PROVE  admitted'[j] <= admitted'[i]
      OBVIOUS
    <3>0. admitted'[i] \in Nat
      BY <2>1 DEF GateTypes
    <3>1. CASE j = n
      BY <3>0, <3>1, <2>6
    <3>2. CASE j \in DOMAIN admitted
      <4>1. i \in DOMAIN admitted
        BY <1>0, <2>10, <2>7, <3>2
      <4> QED BY <2>5, <3>2, <4>1 DEF RateInv, WindowInQueue
    <3> QED BY <2>7, <3>1, <3>2
  <2> QED BY <2>1, <2>3, <2>8, <2>9 DEF RateInv, WindowInQueue
<1> QED BY <1>5, <1>6 DEF CheckRate, queue

\* A tick: the ages grow together, and what leaves the window is the oldest.
LEMMA RateTicks ==
    ASSUME RateInv, Tick
    PROVE  RateInv'
<1> DEFINE older == [i \in DOMAIN admitted |-> admitted[i] + 1]
<1>1. accepted \in Seq(Nat) /\ admitted \in Seq(Nat) /\ gate \in [Inflight -> Standing]
  BY DEF RateInv, GateTypes
<1>2. /\ RateWindow \in Nat /\ MaxDelay \in Nat /\ MaxDelay < RateWindow
      /\ Len(accepted) \in Nat /\ Len(admitted) \in Nat
  BY <1>1, GatesAssumption
<1>3. gate' \in [Inflight -> Standing]
  <2> SUFFICES ASSUME NEW r \in Inflight PROVE gate'[r] \in Standing
    BY DEF Tick
  <2>1. gate[r] \in Standing /\ (gate[r].at = "rate" => gate[r].age < MaxDelay)
    BY <1>1 DEF Tick
  <2>2. gate'[r] = IF gate[r].at = "rate" THEN [gate[r] EXCEPT !.age = gate[r].age + 1] ELSE gate[r]
    BY DEF Tick
  <2> QED BY <1>2, <2>1, <2>2 DEF Standing
<1>4. /\ accepted' \in Seq(Nat) /\ Len(accepted') = Len(accepted)
      /\ \A i \in 1..Len(accepted) : accepted'[i] <= accepted[i] + 1
  <2>1. \A i \in 1..Len(accepted) : Older(accepted[i], RateWindow + MaxDelay) \in Nat
                                    /\ Older(accepted[i], RateWindow + MaxDelay) <= accepted[i] + 1
    BY <1>1, <1>2 DEF Older
  <2>2. accepted' = [i \in 1..Len(accepted) |-> Older(accepted[i], RateWindow + MaxDelay)]
    BY <1>1 DEF Tick
  <2> QED BY <1>2, <2>1, <2>2
<1>5. older \in Seq(Nat) /\ Len(older) = Len(admitted) /\ \A i \in 1..Len(admitted) : older[i] = admitted[i] + 1
  <2>1. DOMAIN admitted = 1..Len(admitted) /\ \A i \in 1..Len(admitted) : admitted[i] + 1 \in Nat
    BY <1>1
  <2>2. older = [i \in 1..Len(admitted) |-> admitted[i] + 1]
    BY <2>1
  <2> QED BY <1>2, <2>1, <2>2
<1>6. PICK k \in 0..Len(older) :
        /\ admitted' \in Seq(Nat)
        /\ Len(admitted') = Len(older) - k
        /\ \A i \in 1..Len(older) - k : admitted'[i] = older[k + i]
        /\ k < Len(older) => older[k + 1] < RateWindow - MaxDelay
  <2>1. RateWindow - MaxDelay \in Nat
    BY <1>2
  <2>2. admitted' = Since(older, RateWindow - MaxDelay)
    BY DEF Tick
  <2> HIDE DEF older
  <2> QED BY <1>5, <2>1, <2>2, SinceDrops
<1> HIDE DEF older
<1>7. k \in Nat /\ k <= Len(admitted) /\ Len(admitted') = Len(admitted) - k
  BY <1>2, <1>5, <1>6
<1>8. \A i \in DOMAIN admitted' : k + i \in DOMAIN admitted /\ admitted'[i] = admitted[k + i] + 1
  <2> SUFFICES ASSUME NEW i \in DOMAIN admitted'
               PROVE  k + i \in DOMAIN admitted /\ admitted'[i] = admitted[k + i] + 1
    OBVIOUS
  <2>1. i \in 1..Len(admitted) - k
    BY <1>6, <1>7
  <2>2. k + i \in 1..Len(admitted)
    BY <1>2, <1>7, <2>1
  <2> QED BY <1>1, <1>5, <1>6, <2>1, <2>2
<1>9. \A i \in DOMAIN admitted' : InQueue(i)' <= InQueue(k + i) + 1
  <2> SUFFICES ASSUME NEW i \in DOMAIN admitted'
               PROVE  InQueue(i)' <= InQueue(k + i) + 1
    OBVIOUS
  <2>0. k + i \in 1..Len(admitted) /\ i \in Nat
    BY <1>1, <1>6, <1>8
  <2>1. Len(accepted') - Len(admitted') + i = Len(accepted) - Len(admitted) + (k + i)
    BY <1>2, <1>4, <1>7, <2>0
  <2>2. Len(accepted) - Len(admitted) + (k + i) \in 1..Len(accepted)
    BY <1>2, <2>0 DEF RateInv, WindowInQueue
  <2> QED BY <1>4, <2>1, <2>2 DEF InQueue
<1>10. \A i \in DOMAIN admitted : InQueue(i) \in Nat
  <2> SUFFICES ASSUME NEW i \in DOMAIN admitted PROVE InQueue(i) \in Nat
    OBVIOUS
  <2>1. Len(accepted) - Len(admitted) + i \in 1..Len(accepted)
    BY <1>1, <1>2 DEF RateInv, WindowInQueue
  <2> QED BY <1>1, <2>1 DEF InQueue
<1>11. WindowInQueue'
  <2>1. Len(admitted') <= Len(accepted')
    BY <1>2, <1>4, <1>7 DEF RateInv, WindowInQueue
  <2>2. \A i, j \in DOMAIN admitted' : i <= j => admitted'[j] <= admitted'[i]
    <3> SUFFICES ASSUME NEW i \in DOMAIN admitted', NEW j \in DOMAIN admitted', i <= j
                 PROVE  admitted'[j] <= admitted'[i]
      OBVIOUS
    <3>1. k + i \in DOMAIN admitted /\ k + j \in DOMAIN admitted /\ i \in Nat /\ j \in Nat
      BY <1>6, <1>8
    <3>2. admitted[k + j] <= admitted[k + i]
      <4>1. k + i <= k + j
        BY <1>7, <3>1
      <4> QED BY <3>1, <4>1 DEF RateInv, WindowInQueue
    <3>3. admitted[k + i] \in Nat /\ admitted[k + j] \in Nat
      BY <1>1, <3>1
    <3> QED BY <1>8, <3>2, <3>3
  <2>3. \A i \in DOMAIN admitted' : admitted'[i] < RateWindow - MaxDelay
    <3> SUFFICES ASSUME NEW i \in DOMAIN admitted' PROVE admitted'[i] < RateWindow - MaxDelay
      OBVIOUS
    <3>1. i \in 1..Len(admitted) - k /\ 1 \in 1..Len(admitted) - k
      BY <1>6, <1>7
    <3>2. k < Len(older) /\ admitted'[1] = older[k + 1]
      BY <1>2, <1>5, <1>6, <1>7, <3>1
    <3>3. 1 \in DOMAIN admitted' /\ admitted'[i] \in Nat /\ admitted'[1] \in Nat /\ i >= 1
      BY <1>6, <1>7, <3>1
    <3>4. admitted'[i] <= admitted'[1]
      BY <2>2, <3>3
    <3> QED BY <1>2, <1>6, <3>2, <3>3, <3>4
  <2>4. \A i \in DOMAIN admitted' : InQueue(i)' <= admitted'[i] + MaxDelay
    <3> SUFFICES ASSUME NEW i \in DOMAIN admitted' PROVE InQueue(i)' <= admitted'[i] + MaxDelay
      OBVIOUS
    <3>1. k + i \in DOMAIN admitted
      BY <1>8
    <3>2. InQueue(k + i) <= admitted[k + i] + MaxDelay
      BY <3>1 DEF RateInv, WindowInQueue
    <3>3. InQueue(i)' \in Nat
      <4>0. i \in 1..Len(admitted') /\ Len(admitted') \in Nat
        BY <1>6
      <4>1. Len(accepted') - Len(admitted') + i \in 1..Len(accepted')
        BY <1>2, <1>4, <2>1, <4>0
      <4> QED BY <1>4, <4>1 DEF InQueue
    <3>4. InQueue(k + i) \in Nat /\ admitted[k + i] \in Nat
      BY <1>1, <1>10, <3>1
    <3> QED BY <1>2, <1>8, <1>9, <3>2, <3>3, <3>4
  <2> QED BY <2>1, <2>2, <2>3, <2>4 DEF WindowInQueue
<1>12. Len(accepted') <= Limit
  BY <1>4 DEF RateInv
<1> QED BY <1>3, <1>4, <1>6, <1>11, <1>12 DEF RateInv, GateTypes

LEMMA RateNext == RateInv /\ [NextGates]_gateVars => RateInv'
<1> SUFFICES ASSUME RateInv, [NextGates]_gateVars PROVE RateInv'
  OBVIOUS
<1>1. gate \in [Inflight -> Standing]
  BY DEF RateInv, GateTypes
<1>2. {"policy", "handle", "target", "clock", "rate", "prepare", "executing"} \subseteq Stops
  BY DEF Stops
<1>3. 0 \in 0..MaxDelay
  BY GatesAssumption
<1>4. ASSUME NEW r \in Inflight, NEW class \in Classes, NEW h \in Handles \cup {Nil}, Receive(r, class, h)
      PROVE  RateInv'
  <2>1. PICK c \in Clients \cup {Nil} :
          gate' = [gate EXCEPT ![r] = [at |-> "policy", class |-> class, client |-> c, handle |-> h, age |-> 0]]
    BY <1>4 DEF Receive
  <2>2. [at |-> "policy", class |-> class, client |-> c, handle |-> h, age |-> 0] \in Standing
    BY <1>2, <1>3 DEF Standing
  <2>3. gate' \in [Inflight -> Standing]
    BY <1>1, <2>1, <2>2
  <2> QED BY <1>4, <2>3, GateMoves DEF Receive
<1>5. ASSUME NEW r \in Inflight,
             CheckPolicy(r) \/ ResolveHandle(r) \/ CheckTarget(r) \/ ReadClock(r) \/ Execute(r) \/ Respond(r)
      PROVE  RateInv'
  <2>1. Refused(r) \/ (\E station \in Stops : Passes(r, station) \/ MovesOn(r, station, 0))
    <3>1. CASE CheckPolicy(r)
      BY <1>2, <3>1 DEF CheckPolicy
    <3>2. CASE ResolveHandle(r)
      BY <1>2, <3>2 DEF ResolveHandle
    <3>3. CASE CheckTarget(r)
      BY <1>2, <3>3 DEF CheckTarget
    <3>4. CASE ReadClock(r)
      BY <1>2, <3>4 DEF ReadClock, MovesOn
    <3>5. CASE Execute(r) \/ Respond(r)
      BY <1>2, <3>5 DEF Execute, Respond
    <3> QED BY <1>5, <3>1, <3>2, <3>3, <3>4, <3>5
  <2>2. gate' \in [Inflight -> Standing]
    BY <1>1, <1>3, <2>1, StandsAgain
  <2>3. UNCHANGED <<accepted, admitted>>
    BY <1>5 DEF CheckPolicy, ResolveHandle, CheckTarget, ReadClock, Execute, Respond
  <2> QED BY <2>2, <2>3, GateMoves
<1>6. ASSUME NEW h \in Handles, NEW c \in Clients, IssueHandle(h, c) PROVE RateInv'
  BY <1>1, <1>6, GateMoves DEF IssueHandle
<1>7. CASE UNCHANGED gateVars
  BY <1>1, <1>7, GateMoves DEF gateVars
<1>8. ASSUME NEW r \in Inflight, CheckRate(r) PROVE RateInv'
  BY <1>8, RateChecked
<1>9. CASE Tick
  BY <1>9, RateTicks
<1> QED BY <1>4, <1>5, <1>6, <1>7, <1>8, <1>9 DEF NextGates

(* In any window shorter than the limiter's by the longest delay between a   *)
(* request's clock read and its lock no more than Limit control requests are *)
(* accepted, for any limit, window and delay, and any number of requests,    *)
(* clients and handles (safety_runtime.rs:84).                               *)
THEOREM RateBoundedHolds == SpecGates => []RateBounded
<1>1. RateInv => RateBounded
  BY GatesAssumption DEF RateInv, GateTypes, WindowInQueue, RateBounded
<1> QED BY RateInit, RateNext, <1>1, PTL DEF SpecGates

-----------------------------------------------------------------------------
(* What an EIS session leaves behind.                                        *)

(* A set of places of a queue that is not empty has a last one.              *)
LEMMA LastPlace ==
    ASSUME NEW n \in Nat, NEW S, S \subseteq 1..n, S # {}
    PROVE  Max(S) \in S /\ \A k \in S : k <= Max(S)
<1> DEFINE D == {n - k : k \in S}
<1>1. D \subseteq Nat /\ D # {}
  <2>1. \A k \in S : n - k \in Nat
    OBVIOUS
  <2>2. D \subseteq Nat
    BY <2>1
  <2>3. PICK k \in S : TRUE
    OBVIOUS
  <2>4. n - k \in D
    BY <2>3
  <2> QED BY <2>2, <2>4
<1>2. PICK d \in D : \A e \in D : d <= e
  <2> HIDE DEF D
  <2> QED BY <1>1, LeastNat
<1>3. PICK m \in S : d = n - m
  OBVIOUS
<1>4. \A k \in S : m >= k
  <2> SUFFICES ASSUME NEW k \in S PROVE m >= k
    OBVIOUS
  <2>1. d <= n - k
    BY <1>2
  <2> QED BY <1>3, <2>1
<1>5. \E x \in S : \A k \in S : x >= k
  BY <1>4
<1>6. Max(S) \in S /\ \A k \in S : Max(S) >= k
  BY <1>5 DEF Max
<1> QED BY <1>6

ServerEvents ==
         [type: {"Connect", "Disconnect", "SeatRemoved"}]
    \cup [type: {"SeatAdded"}, capabilities: SUBSET Capabilities]
    \cup [type: {"DeviceAdded", "DeviceResumed", "DevicePaused", "DeviceRemoved"}, device: Devices]

\* g[s] is the state after the events at the places s have been read in their order.
ReadsAll(g, start, queue, wanted) ==
    g = [s \in SUBSET DOMAIN queue |->
            IF s = {} THEN start ELSE Read(g[s \ {Max(s)}], queue[Max(s)], wanted)]

\* The state after a queue has been read to its end.
After(start, queue, wanted) == FoldLeft(LAMBDA state, event : Read(state, event, wanted), start, queue)

\* FoldLeft is defined by such a g.
LEMMA AfterIs ==
    ASSUME NEW start, NEW queue, NEW wanted
    PROVE  After(start, queue, wanted) = (CHOOSE g : ReadsAll(g, start, queue, wanted))[DOMAIN queue]
BY DEF After, FoldLeft, MapThenFoldSet, ReadsAll

\* There is such a g: the places are read one after the other.
LEMMA ReadsAllExists ==
    ASSUME NEW start, NEW queue \in Seq(ServerEvents), NEW wanted
    PROVE  \E g : ReadsAll(g, start, queue, wanted)
<1> DEFINE Upto(g, m) ==
              g = [s \in SUBSET (1..m) |->
                     IF s = {} THEN start ELSE Read(g[s \ {Max(s)}], queue[Max(s)], wanted)]
           Missing == {m \in 0..Len(queue) : ~\E g : Upto(g, m)}
<1>1. Len(queue) \in Nat /\ DOMAIN queue = 1..Len(queue)
  OBVIOUS
<1>2. ASSUME Missing # {} PROVE FALSE
  <2>1. PICK m \in Missing : \A k \in Missing : m <= k
    <3>1. Missing \subseteq Nat
      BY <1>1
    <3> HIDE DEF Missing
    <3> QED BY <1>2, <3>1, LeastNat
  <2>2. m \in 0..Len(queue) /\ ~\E g : Upto(g, m)
    BY <2>1
  <2>3. CASE m = 0
    <3>1. SUBSET (1..m) = {{}}
      BY <2>3
    <3> DEFINE g == [s \in SUBSET (1..m) |-> start]
    <3>2. Upto(g, m)
      BY <3>1
    <3> QED BY <2>2, <3>2
  <2>4. CASE m # 0
    <3>1. m - 1 \in 0..Len(queue) /\ ~(m <= m - 1)
      BY <1>1, <2>2, <2>4
    <3>2. m - 1 \notin Missing
      BY <2>1, <3>1
    <3>3. PICK g : Upto(g, m - 1)
      BY <3>1, <3>2
    <3> DEFINE h == [s \in SUBSET (1..m) |->
                       IF m \in s THEN Read(g[s \ {m}], queue[m], wanted) ELSE g[s]]
               Step(s) == IF s = {} THEN start ELSE Read(h[s \ {Max(s)}], queue[Max(s)], wanted)
    <3>4. \A s \in SUBSET (1..m) : h[s] = Step(s)
      <4> SUFFICES ASSUME NEW s \in SUBSET (1..m) PROVE h[s] = Step(s)
        OBVIOUS
      <4>1. CASE s = {}
        <5>1. {} \in SUBSET (1..(m - 1))
          OBVIOUS
        <5>2. g[{}] = start
          BY <3>3, <5>1
        <5> QED BY <4>1, <5>2
      <4>2. CASE s # {}
        <5>1. Max(s) \in s /\ \A k \in s : k <= Max(s)
          <6>1. m \in Nat /\ s \subseteq 1..m
            BY <1>1, <2>2
          <6> QED BY <4>2, <6>1, LastPlace
        <5>4. PICK x \in s : x = Max(s) /\ \A k \in s : k <= x
          BY <5>1
        <5>2. CASE m \in s
          <6>1. x = m
            <7>1. x \in 1..m /\ m \in Nat
              BY <1>1, <2>2
            <7>2. m <= x
              BY <5>2, <5>4
            <7> QED BY <7>1, <7>2
          <6>2. s \ {m} \in SUBSET (1..m) /\ m \notin s \ {m}
            OBVIOUS
          <6>3. h[s \ {m}] = g[s \ {m}] /\ h[s] = Read(g[s \ {m}], queue[m], wanted)
            BY <5>2, <6>2
          <6> HIDE DEF h
          <6> QED BY <4>2, <5>4, <6>1, <6>3
        <5>3. CASE m \notin s
          <6>1. s \in SUBSET (1..(m - 1))
            BY <2>2, <5>3
          <6>2. g[s] = Read(g[s \ {x}], queue[x], wanted)
            BY <3>3, <4>2, <5>4, <6>1
          <6>3. s \ {x} \in SUBSET (1..m) /\ m \notin s \ {x}
            BY <5>3
          <6>4. h[s \ {x}] = g[s \ {x}] /\ h[s] = g[s]
            BY <5>3, <6>3
          <6> HIDE DEF h
          <6> QED BY <4>2, <5>4, <6>2, <6>4
        <5> QED BY <5>2, <5>3
      <4> QED BY <4>1, <4>2
    <3>5. h = [s \in SUBSET (1..m) |-> Step(s)]
      <4>1. h = [s \in SUBSET (1..m) |-> h[s]]
        OBVIOUS
      <4> HIDE DEF h, Step
      <4> QED BY <3>4, <4>1
    <3>6. Upto(h, m)
      <4> HIDE DEF h
      <4> QED BY <3>5
    <3> QED BY <2>2, <3>6
  <2> QED BY <2>3, <2>4
<1>3. \E g : Upto(g, Len(queue))
  <2>1. Len(queue) \in 0..Len(queue)
    BY <1>1
  <2>2. Len(queue) \notin Missing
    BY <1>2
  <2> HIDE DEF Upto
  <2> QED BY <2>1, <2>2
<1> QED BY <1>1, <1>3 DEF ReadsAll

\* Reading the places up to m is reading those before it, and then m.
LEMMA ReadsOneMore ==
    ASSUME NEW start, NEW queue \in Seq(ServerEvents), NEW wanted,
           NEW g, ReadsAll(g, start, queue, wanted), NEW m \in 1..Len(queue)
    PROVE  g[1..m] = Read(g[1..(m - 1)], queue[m], wanted)
<1>1. m \in Nat /\ m \in 1..m /\ 1..m \subseteq 1..Len(queue) /\ DOMAIN queue = 1..Len(queue)
  OBVIOUS
<1>2. PICK x \in 1..m : x = Max(1..m) /\ \A k \in 1..m : k <= x
  <2>1. 1..m # {}
    BY <1>1
  <2> QED BY <1>1, <2>1, LastPlace
<1>3. x = m
  BY <1>1, <1>2
<1>4. (1..m) \ {m} = 1..(m - 1)
  BY <1>1
<1>5. g[1..m] = Read(g[(1..m) \ {x}], queue[x], wanted)
  BY <1>1, <1>2 DEF ReadsAll
<1> QED BY <1>3, <1>4, <1>5

\* A queue is read from its front to its end.
LEMMA AfterNone ==
    ASSUME NEW start, NEW wanted
    PROVE  After(start, <<>>, wanted) = start
<1>1. <<>> \in Seq(ServerEvents) /\ DOMAIN <<>> = {}
  OBVIOUS
<1> DEFINE f == CHOOSE g : ReadsAll(g, start, <<>>, wanted)
<1>2. ReadsAll(f, start, <<>>, wanted)
  BY <1>1, ReadsAllExists
<1> HIDE DEF f
<1>3. f[{}] = start
  BY <1>1, <1>2 DEF ReadsAll
<1> QED BY <1>1, <1>3, AfterIs DEF f

LEMMA AfterAppend ==
    ASSUME NEW start, NEW queue \in Seq(ServerEvents), NEW wanted, NEW event \in ServerEvents
    PROVE  After(start, Append(queue, event), wanted) = Read(After(start, queue, wanted), event, wanted)
<1> DEFINE longer == Append(queue, event)
           f == CHOOSE g : ReadsAll(g, start, queue, wanted)
           h == CHOOSE g : ReadsAll(g, start, longer, wanted)
           Differs == {m \in 0..Len(queue) : f[1..m] # h[1..m]}
<1>1. /\ longer \in Seq(ServerEvents) /\ Len(queue) \in Nat /\ Len(longer) = Len(queue) + 1
      /\ longer[Len(queue) + 1] = event /\ \A i \in 1..Len(queue) : longer[i] = queue[i]
      /\ DOMAIN queue = 1..Len(queue) /\ DOMAIN longer = 1..(Len(queue) + 1)
  BY AppendProperties
<1> HIDE DEF longer
<1>2. ReadsAll(f, start, queue, wanted)
  BY ReadsAllExists
<1>3. ReadsAll(h, start, longer, wanted)
  BY <1>1, ReadsAllExists
<1> HIDE DEF f, h
<1>4. ASSUME Differs # {} PROVE FALSE
  <2>1. PICK m \in Differs : \A k \in Differs : m <= k
    <3>1. Differs \subseteq Nat
      BY <1>1
    <3> HIDE DEF Differs
    <3> QED BY <1>4, <3>1, LeastNat
  <2>2. m \in 0..Len(queue) /\ f[1..m] # h[1..m]
    BY <2>1
  <2>3. CASE m = 0
    <3>1. 1..m = {}
      BY <2>3
    <3>2. f[{}] = start /\ h[{}] = start
      BY <1>1, <1>2, <1>3 DEF ReadsAll
    <3> QED BY <2>2, <3>1, <3>2
  <2>4. CASE m # 0
    <3>1. /\ m - 1 \in 0..Len(queue) /\ ~(m <= m - 1)
          /\ m \in 1..Len(queue) /\ m \in 1..Len(longer)
      BY <1>1, <2>2, <2>4
    <3>2. f[1..(m - 1)] = h[1..(m - 1)]
      BY <2>1, <3>1
    <3>3. f[1..m] = Read(f[1..(m - 1)], queue[m], wanted)
      BY <1>2, <3>1, ReadsOneMore
    <3>4. h[1..m] = Read(h[1..(m - 1)], longer[m], wanted)
      BY <1>1, <1>3, <3>1, ReadsOneMore
    <3> QED BY <1>1, <2>2, <3>1, <3>2, <3>3, <3>4
  <2> QED BY <2>3, <2>4
<1>5. f[1..Len(queue)] = h[1..Len(queue)]
  <2>1. Len(queue) \in 0..Len(queue)
    BY <1>1
  <2> QED BY <1>4, <2>1
<1>6. h[1..(Len(queue) + 1)] = Read(h[1..Len(queue)], event, wanted)
  <2>1. Len(queue) + 1 \in 1..Len(longer) /\ (Len(queue) + 1) - 1 = Len(queue)
    BY <1>1
  <2> QED BY <1>1, <1>3, <2>1, ReadsOneMore
<1>7. After(start, queue, wanted) = f[1..Len(queue)]
  BY <1>1, AfterIs DEF f
<1>8. After(start, longer, wanted) = h[1..(Len(queue) + 1)]
  BY <1>1, AfterIs DEF h
<1> QED BY <1>5, <1>6, <1>7, <1>8 DEF longer

-----------------------------------------------------------------------------
(* What a plan sends, and what the server makes of it.                       *)

Codes == {"button", "modifier", "key"}
PlanEvents ==
         [event: {"StartEmulating", "StopEmulating", "Frame", "PointerMotionAbsolute",
                  "ScrollDiscrete", "ScrollStop"}]
    \cup [event: {"TextUtf8"}, nul: BOOLEAN]
    \cup [event: {"Press", "Release"}, code: Codes]
    \cup [event: {"TextKeysym"}, press: BOOLEAN]

IsText(event) == event.event \in {"TextUtf8", "TextKeysym"}

\* What is pressed is lifted later.
Lifted(events) ==
    \A i \in DOMAIN events : events[i].event = "Press" =>
        \E j \in DOMAIN events : i < j /\ events[j] = Lift(events[i].code)

\* Of the events of a plan, and of what is left of them: the last one stops.
Tidy(events) == Lifted(events) /\ (events # <<>> => events[Len(events)] = Stop)

NoText(events) == \A i \in DOMAIN events : ~IsText(events[i])
NoPress(events) == \A i \in DOMAIN events : events[i].event # "Press"

\* Text is for the keyboard, and nothing is pressed beside it.
TextAlone(d, events) == NoText(events) \/ (d = "keyboard" /\ NoPress(events))

EisTypes ==
    /\ unread \in Seq(ServerEvents) /\ device \in DeviceStates /\ seat \subseteq Capabilities
    /\ held \subseteq Devices \X Codes /\ emulating \subseteq Devices
    /\ textApi \in BOOLEAN

\* Once it has read what the server sent, the daemon knows the server's devices.
CaughtUp(state) ==
    /\ state.devices = device
    /\ state.retained = {d \in Devices : device[d] = "resumed"}

\* A device that is paused or gone holds nothing.
HeldByResumed ==
    \A d \in Devices : device[d] # "resumed" =>
        d \notin emulating /\ \A c \in Codes : <<d, c>> \notin held

\* What is held while a plan is sent is lifted by the rest of it.
SendingOK ==
    sending # Idle =>
        /\ sending = [device |-> sending.device, events |-> sending.events]
        /\ sending.device \in Devices
        /\ sending.events \in Seq(PlanEvents) /\ sending.events # <<>>
        /\ Tidy(sending.events)
        /\ TextAlone(sending.device, sending.events)
        /\ NoText(sending.events) \/ held = {}
        /\ \A h \in held :
              h[1] = sending.device /\ \E j \in DOMAIN sending.events : sending.events[j] = Lift(h[2])
        /\ emulating \subseteq {"keyboard", sending.device}
        /\ cut \/ emulating \subseteq {sending.device}

EisInv ==
    /\ EisTypes
    /\ ResumedIsRetained
    /\ \A wanted \in SUBSET Capabilities : CaughtUp(Dispatched(wanted))
    /\ HeldByResumed /\ SendingOK /\ NothingLeftDown

LEMMA EisInit == InitEis => EisInv
<1> SUFFICES ASSUME InitEis PROVE EisInv
  OBVIOUS
<1>1. /\ unread = <<>> /\ runtime = Disconnected /\ device = NoDevices /\ seat = {}
      /\ sending = Idle /\ emulating = {} /\ held = {} /\ cut = FALSE /\ textApi \in BOOLEAN
  BY DEF InitEis
<1>2. NoDevices \in DeviceStates /\ \A d \in Devices : NoDevices[d] # "resumed"
  BY DEF NoDevices, DeviceStates
<1>3. EisTypes
  BY <1>1, <1>2 DEF EisTypes
<1>4. Disconnected.devices = NoDevices /\ Disconnected.retained = {}
  BY DEF Disconnected
<1>5. ResumedIsRetained
  BY <1>1, <1>2, <1>4 DEF ResumedIsRetained
<1>6. ASSUME NEW wanted \in SUBSET Capabilities PROVE CaughtUp(Dispatched(wanted))
  <2>1. Dispatched(wanted) = After(runtime, unread, wanted)
    BY DEF Dispatched, After
  <2>2. Dispatched(wanted) = Disconnected
    BY <1>1, <2>1, AfterNone
  <2> QED BY <1>1, <1>2, <1>4, <2>2 DEF CaughtUp
<1>7. HeldByResumed /\ SendingOK /\ NothingLeftDown
  BY <1>1 DEF HeldByResumed, SendingOK, NothingLeftDown
<1> QED BY <1>3, <1>5, <1>6, <1>7 DEF EisInv

-----------------------------------------------------------------------------
\* What the server announces is what becomes of its devices.
LEMMA ServerTold ==
    ASSUME EisInv, NEW event \in ServerEvents, Announce(event), UNCHANGED runtime,
           device' = DevicesAfter(device, event),
           {d \in Devices : device'[d] = "resumed"} =
              RetainedAfter({d \in Devices : device[d] = "resumed"}, event)
    PROVE  /\ \A wanted \in SUBSET Capabilities : CaughtUp(Dispatched(wanted))'
           /\ unread' \in Seq(ServerEvents)
<1>1. unread \in Seq(ServerEvents) /\ unread' = Append(unread, event)
  BY DEF EisInv, EisTypes, Announce
<1>2. ASSUME NEW wanted \in SUBSET Capabilities PROVE CaughtUp(Dispatched(wanted))'
  <2>1. Dispatched(wanted) = After(runtime, unread, wanted)
    BY DEF Dispatched, After
  <2>2. Dispatched(wanted)' = After(runtime', unread', wanted)
    BY DEF Dispatched, After, FoldLeft, MapThenFoldSet
  <2>3. Dispatched(wanted)' = Read(Dispatched(wanted), event, wanted)
    BY <1>1, <2>1, <2>2, AfterAppend
  <2>4. PICK state : state = Dispatched(wanted)
    OBVIOUS
  <2>5. state.devices = device /\ state.retained = {d \in Devices : device[d] = "resumed"}
    BY <2>4 DEF EisInv, CaughtUp
  <2>6. PICK read : read = Read(state, event, wanted)
    OBVIOUS
  <2>7. read.devices = device' /\ read.retained = {d \in Devices : device'[d] = "resumed"}
    BY <2>5, <2>6 DEF Read
  <2>8. Dispatched(wanted)' = read
    BY <2>3, <2>4, <2>6
  <2> QED BY <2>7, <2>8 DEF CaughtUp
<1>3. unread' \in Seq(ServerEvents)
  BY <1>1
<1> QED BY <1>2, <1>3

\* A server that lets go of what was held leaves the rest of the invariant alone.
LEMMA ServerLetsGo ==
    ASSUME EisInv, UNCHANGED <<session, devices, textApi, runtime, sending, cut>>,
           emulating' \subseteq emulating, held' \subseteq held,
           device' \in DeviceStates, seat' \subseteq Capabilities, unread' \in Seq(ServerEvents),
           \A wanted \in SUBSET Capabilities : CaughtUp(Dispatched(wanted))',
           \A d \in Devices : device'[d] # "resumed" =>
               d \notin emulating' /\ \A c \in Codes : <<d, c>> \notin held'
    PROVE  EisInv'
<1>1. EisTypes'
  BY DEF EisInv, EisTypes
<1>2. ResumedIsRetained'
  BY DEF EisInv, ResumedIsRetained
<1>3. HeldByResumed'
  BY DEF HeldByResumed
<1>4. SendingOK'
  BY DEF EisInv, SendingOK
<1>5. NothingLeftDown'
  BY DEF EisInv, NothingLeftDown
<1> QED BY <1>1, <1>2, <1>3, <1>4, <1>5 DEF EisInv

LEMMA ServerKeeps == EisInv /\ Server => EisInv'
<1> SUFFICES ASSUME EisInv, Server PROVE EisInv'
  OBVIOUS
<1> USE DEF Devices
<1>0. /\ UNCHANGED <<session, devices, textApi, runtime, sending, cut>>
      /\ device \in DeviceStates /\ seat \subseteq Capabilities
      /\ held \subseteq Devices \X Codes /\ emulating \subseteq Devices
  BY DEF Server, EisInv, EisTypes
<1>1. NoDevices \in DeviceStates /\ \A d \in Devices : NoDevices[d] # "resumed"
  BY DEF NoDevices, DeviceStates
<1>2. CASE ServerConnects \/ \E c \in {Capabilities, Capabilities \ {"Text"}} : ServerAddsSeat(c)
  <2>1. PICK event \in ServerEvents : Announce(event) /\ event.type \in {"Connect", "SeatAdded"}
    BY <1>2 DEF ServerConnects, ServerAddsSeat, ServerEvents
  <2>2. UNCHANGED <<device, emulating, held>> /\ seat' \subseteq Capabilities
    BY <1>0, <1>2 DEF ServerConnects, ServerAddsSeat
  <2>3. /\ DevicesAfter(device, event) = device
        /\ \A s : RetainedAfter(s, event) = s
    BY <2>1 DEF DevicesAfter, RetainedAfter
  <2>4. /\ \A wanted \in SUBSET Capabilities : CaughtUp(Dispatched(wanted))'
        /\ unread' \in Seq(ServerEvents)
    BY <1>0, <2>1, <2>2, <2>3, ServerTold
  <2>5. \A d \in Devices : device'[d] # "resumed" => d \notin emulating' /\ \A c \in Codes : <<d, c>> \notin held'
    BY <2>2 DEF EisInv, HeldByResumed
  <2> QED BY <1>0, <2>2, <2>4, <2>5, ServerLetsGo
<1>3. CASE ServerRemovesSeat \/ ServerDisconnects
  <2>1. PICK event \in ServerEvents : Announce(event) /\ event.type \in {"Disconnect", "SeatRemoved"}
    BY <1>3 DEF ServerRemovesSeat, ServerDisconnects, ServerEvents
  <2>2. /\ device' = NoDevices /\ seat' = {}
        /\ emulating' = emulating \ Devices /\ held' = {h \in held : h[1] \notin Devices}
    BY <1>3 DEF ServerRemovesSeat, ServerDisconnects, Release
  <2>3. /\ DevicesAfter(device, event) = NoDevices
        /\ \A s : RetainedAfter(s, event) = {}
    BY <2>1 DEF DevicesAfter, RetainedAfter
  <2>4. {d \in Devices : device'[d] = "resumed"} = {}
    BY <1>1, <2>2
  <2>5. /\ \A wanted \in SUBSET Capabilities : CaughtUp(Dispatched(wanted))'
        /\ unread' \in Seq(ServerEvents)
    BY <1>0, <2>1, <2>2, <2>3, <2>4, ServerTold
  <2>6. \A d \in Devices : d \notin emulating' /\ \A c \in Codes : <<d, c>> \notin held'
    BY <2>2
  <2> QED BY <1>0, <1>1, <2>2, <2>5, <2>6, ServerLetsGo
<1>4. ASSUME NEW d \in Devices, ServerChangesDevice(d) PROVE EisInv'
  <2>1. PICK event \in ServerEvents :
          /\ Announce(event) /\ event.device = d
          /\ \/ event.type = "DeviceAdded" /\ device[d] = "none" /\ device' = [device EXCEPT ![d] = "paused"]
             \/ event.type = "DeviceResumed" /\ device[d] = "paused" /\ device' = [device EXCEPT ![d] = "resumed"]
             \/ event.type = "DevicePaused" /\ device[d] = "resumed" /\ device' = [device EXCEPT ![d] = "paused"]
             \/ event.type = "DeviceRemoved" /\ device[d] # "none" /\ device' = [device EXCEPT ![d] = "none"]
    BY <1>4 DEF ServerChangesDevice, ServerEvents
  <2>2. device' \in DeviceStates
    BY <1>0, <2>1 DEF DeviceStates
  <2>3. device' = DevicesAfter(device, event)
    BY <2>1 DEF DevicesAfter
  <2>4. {e \in Devices : device'[e] = "resumed"} = RetainedAfter({e \in Devices : device[e] = "resumed"}, event)
    <3>1. \A e \in Devices \ {d} : device'[e] = device[e]
      BY <1>0, <2>1 DEF DeviceStates
    <3>2. device'[d] = CASE event.type = "DeviceResumed" -> "resumed" [] event.type = "DeviceRemoved" -> "none" [] OTHER -> "paused"
      BY <1>0, <2>1 DEF DeviceStates
    <3>3. CASE event.type = "DeviceAdded"
      <4>1. \A s : RetainedAfter(s, event) = s
        BY <3>3 DEF RetainedAfter
      <4> QED BY <2>1, <3>1, <3>2, <3>3, <4>1
    <3>4. CASE event.type = "DeviceResumed"
      <4>1. \A s : RetainedAfter(s, event) = s \cup {d}
        BY <2>1, <3>4 DEF RetainedAfter
      <4> QED BY <3>1, <3>2, <3>4, <4>1
    <3>5. CASE event.type \in {"DevicePaused", "DeviceRemoved"}
      <4>1. \A s : RetainedAfter(s, event) = s \ {d}
        BY <2>1, <3>5 DEF RetainedAfter
      <4> QED BY <3>1, <3>2, <3>5, <4>1
    <3> QED BY <2>1, <3>3, <3>4, <3>5
  <2>5. /\ \A wanted \in SUBSET Capabilities : CaughtUp(Dispatched(wanted))'
        /\ unread' \in Seq(ServerEvents)
    BY <1>0, <2>1, <2>3, <2>4, ServerTold
  <2>6. /\ emulating' = emulating \ {e \in Devices : device'[e] # "resumed"}
        /\ held' = {h \in held : h[1] \notin {e \in Devices : device'[e] # "resumed"}}
        /\ seat' = seat
    BY <1>4 DEF ServerChangesDevice, Release
  <2>7. \A e \in Devices : device'[e] # "resumed" => e \notin emulating' /\ \A c \in Codes : <<e, c>> \notin held'
    BY <2>6
  <2> QED BY <1>0, <2>2, <2>5, <2>6, <2>7, ServerLetsGo
<1> QED BY <1>2, <1>3, <1>4 DEF Server

\* Parts of a plan make a plan.
LEMMA ConcatKeeps ==
    ASSUME NEW s \in Seq(PlanEvents), NEW t \in Seq(PlanEvents)
    PROVE  /\ s \o t \in Seq(PlanEvents)
           /\ Lifted(s) /\ Lifted(t) => Lifted(s \o t)
           /\ NoText(s) /\ NoText(t) => NoText(s \o t)
           /\ NoPress(s) /\ NoPress(t) => NoPress(s \o t)
<1> DEFINE both == s \o t
<1>1. /\ both \in Seq(PlanEvents) /\ Len(s) \in Nat /\ Len(t) \in Nat /\ Len(both) = Len(s) + Len(t)
      /\ DOMAIN s = 1..Len(s) /\ DOMAIN t = 1..Len(t) /\ DOMAIN both = 1..(Len(s) + Len(t))
  BY ConcatProperties
<1>2. /\ \A i \in 1..Len(s) : both[i] = s[i]
      /\ \A i \in 1..(Len(s) + Len(t)) : i > Len(s) => both[i] = t[i - Len(s)]
  BY ConcatProperties
<1> HIDE DEF both
<1>3. \A i \in DOMAIN both : (i \in DOMAIN s /\ both[i] = s[i]) \/ (i - Len(s) \in DOMAIN t /\ both[i] = t[i - Len(s)])
  BY <1>1, <1>2
<1>4. ASSUME Lifted(s), Lifted(t) PROVE Lifted(both)
  <2> SUFFICES ASSUME NEW i \in DOMAIN both, both[i].event = "Press"
               PROVE  \E j \in DOMAIN both : i < j /\ both[j] = Lift(both[i].code)
    BY DEF Lifted
  <2>1. CASE i \in DOMAIN s /\ both[i] = s[i]
    <3>1. PICK j \in DOMAIN s : i < j /\ s[j] = Lift(both[i].code)
      BY <1>4, <2>1 DEF Lifted
    <3>2. j \in DOMAIN both /\ both[j] = s[j]
      BY <1>1, <1>2
    <3> QED BY <3>1, <3>2
  <2>2. CASE i - Len(s) \in DOMAIN t /\ both[i] = t[i - Len(s)]
    <3>1. PICK j \in DOMAIN t : i - Len(s) < j /\ t[j] = Lift(both[i].code)
      BY <1>4, <2>2 DEF Lifted
    <3>2. /\ j + Len(s) \in 1..(Len(s) + Len(t)) /\ j + Len(s) > Len(s)
          /\ (j + Len(s)) - Len(s) = j /\ i < j + Len(s)
      BY <1>1, <3>1
    <3>3. both[j + Len(s)] = t[j]
      BY <1>2, <3>2
    <3> QED BY <1>1, <3>1, <3>2, <3>3
  <2> QED BY <1>3, <2>1, <2>2
<1>5. NoText(s) /\ NoText(t) => NoText(both)
  BY <1>3 DEF NoText
<1>6. NoPress(s) /\ NoPress(t) => NoPress(both)
  BY <1>3 DEF NoPress
<1> QED BY <1>1, <1>4, <1>5, <1>6 DEF both

\* What a plan does between its start and its stop.
LEMMA BodyTidy ==
    ASSUME NEW plan \in Plans, NEW d \in Devices, Required(plan) \subseteq CapabilitiesOf(d)
    PROVE  /\ Body(plan) \in Seq(PlanEvents) /\ Lifted(Body(plan))
           /\ NoText(Body(plan)) \/ (d = "keyboard" /\ NoPress(Body(plan)))
<1> USE DEF PlanEvents, Lifted, NoText, NoPress, IsText, Codes, Frame, Motion, Press, Lift
<1>1. CASE plan \in {"text_utf8", "text_with_nul"}
  <2> DEFINE nul == plan = "text_with_nul"
  <2>1. Body(plan) = <<Utf8(nul), Frame>> /\ nul \in BOOLEAN
    BY <1>1 DEF Body
  <2>2. d = "keyboard"
    BY <1>1 DEF Required, Texts, CapabilitiesOf, Devices, PointerCapabilities
  <2> HIDE DEF nul
  <2> QED BY <2>1, <2>2 DEF Utf8
<1>2. CASE plan = "text_keysyms"
  <2>1. Body(plan) = <<TextPress, TextLift, Frame>>
    BY <1>2 DEF Body
  <2>2. d = "keyboard"
    BY <1>2 DEF Required, Texts, CapabilitiesOf, Devices, PointerCapabilities
  <2> QED BY <2>1, <2>2 DEF TextPress, TextLift
<1>3. CASE plan = "key_combo"
  <2>1. Body(plan) = <<Press("modifier"), Press("key"), Frame, Lift("key"), Lift("modifier"), Frame>>
    BY <1>3 DEF Body
  <2> QED BY <2>1
<1>4. <<Motion, Frame>> \in Seq(PlanEvents) /\ Lifted(<<Motion, Frame>>) /\ NoText(<<Motion, Frame>>)
  OBVIOUS
<1>5. Click \in Seq(PlanEvents) /\ Lifted(Click) /\ NoText(Click)
  BY DEF Click
<1>6. CASE plan = "move"
  <2>1. Body(plan) = <<Motion, Frame>>
    BY <1>6 DEF Body
  <2> QED BY <1>4, <2>1
<1>7. CASE plan = "click"
  <2>1. Body(plan) = <<Motion, Frame>> \o Click
    BY <1>7 DEF Body
  <2> HIDE DEF PlanEvents, Lifted, NoText, NoPress, IsText, Frame, Motion
  <2> QED BY <1>4, <1>5, <2>1, ConcatKeeps
<1>8. CASE plan = "double_click"
  <2>1. Body(plan) = (<<Motion, Frame>> \o Click) \o Click
    BY <1>8 DEF Body
  <2> HIDE DEF PlanEvents, Lifted, NoText, NoPress, IsText, Frame, Motion
  <2>2. /\ <<Motion, Frame>> \o Click \in Seq(PlanEvents)
        /\ Lifted(<<Motion, Frame>> \o Click) /\ NoText(<<Motion, Frame>> \o Click)
    BY <1>4, <1>5, ConcatKeeps
  <2> QED BY <1>5, <2>1, <2>2, ConcatKeeps
<1>9. CASE plan = "drag"
  <2>1. Body(plan) = <<Motion, Frame, Press("button"), Frame, Motion, Frame, Lift("button"), Frame>>
    BY <1>9 DEF Body, Drag
  <2> QED BY <2>1
<1>10. CASE plan = "scroll"
  <2>1. Body(plan) = <<[event |-> "ScrollDiscrete"], Frame, [event |-> "ScrollStop"], Frame>>
    BY <1>10 DEF Body
  <2> QED BY <2>1
<1> QED BY <1>1, <1>2, <1>3, <1>6, <1>7, <1>8, <1>9, <1>10 DEF Plans, Texts

LEMMA PlanTidy ==
    ASSUME NEW plan \in Plans, NEW d \in Devices, Required(plan) \subseteq CapabilitiesOf(d)
    PROVE  /\ Events(plan) \in Seq(PlanEvents) /\ Events(plan) # <<>>
           /\ Tidy(Events(plan)) /\ TextAlone(d, Events(plan))
<1> DEFINE body == Body(plan)
           opened == <<Start>> \o body
           whole == opened \o <<Stop>>
<1>1. /\ body \in Seq(PlanEvents) /\ Lifted(body)
      /\ NoText(body) \/ (d = "keyboard" /\ NoPress(body))
  BY BodyTidy
<1> HIDE DEF body
<1>2. ASSUME NEW e \in {Start, Stop}
      PROVE  <<e>> \in Seq(PlanEvents) /\ Lifted(<<e>>) /\ NoText(<<e>>) /\ NoPress(<<e>>)
  BY DEF Start, Stop, PlanEvents, Lifted, NoText, NoPress, IsText
<1>3. /\ opened \in Seq(PlanEvents) /\ Lifted(opened)
      /\ NoText(opened) \/ (d = "keyboard" /\ NoPress(opened))
  BY <1>1, <1>2, ConcatKeeps
<1> HIDE DEF opened
<1>4. /\ whole \in Seq(PlanEvents) /\ Lifted(whole)
      /\ NoText(whole) \/ (d = "keyboard" /\ NoPress(whole))
  BY <1>2, <1>3, ConcatKeeps
<1>5. Len(whole) = Len(opened) + 1 /\ Len(opened) \in Nat /\ whole[Len(opened) + 1] = Stop
  <2>1. <<Stop>> \in Seq(PlanEvents) /\ Len(<<Stop>>) = 1 /\ <<Stop>>[1] = Stop
    BY <1>2
  <2>2. Len(opened) \in Nat /\ Len(whole) = Len(opened) + Len(<<Stop>>)
    BY <1>3, <2>1, ConcatProperties
  <2>3. /\ Len(opened) + 1 \in 1..(Len(opened) + Len(<<Stop>>))
        /\ Len(opened) + 1 > Len(opened) /\ (Len(opened) + 1) - Len(opened) = 1
    BY <2>1, <2>2
  <2>4. whole[Len(opened) + 1] = <<Stop>>[(Len(opened) + 1) - Len(opened)]
    BY <1>3, <2>1, <2>3, ConcatProperties
  <2> QED BY <2>1, <2>2, <2>3, <2>4
<1> HIDE DEF whole
<1>6. Tidy(whole) /\ whole # <<>> /\ TextAlone(d, whole)
  BY <1>4, <1>5 DEF Tidy, TextAlone
<1> QED BY <1>4, <1>6 DEF Events, whole, opened, body

\* The daemon has read what the server sent: it knows the server's devices.
LEMMA ReadToTheEnd ==
    ASSUME EisInv, NEW wanted \in SUBSET Capabilities,
           runtime' = Dispatched(wanted), unread' = <<>>, UNCHANGED device
    PROVE  /\ ResumedIsRetained'
           /\ \A w \in SUBSET Capabilities : CaughtUp(Dispatched(w))'
<1>1. CaughtUp(runtime')
  BY DEF EisInv
<1>2. ResumedIsRetained'
  BY <1>1 DEF CaughtUp, ResumedIsRetained
<1>3. ASSUME NEW w \in SUBSET Capabilities PROVE CaughtUp(Dispatched(w))'
  <2>1. Dispatched(w)' = After(runtime', unread', w)
    BY DEF Dispatched, After, FoldLeft, MapThenFoldSet
  <2>2. Dispatched(w)' = runtime'
    BY <2>1, AfterNone
  <2> QED BY <1>1, <2>2 DEF CaughtUp
<1> QED BY <1>2, <1>3

\* A session that is dropped leaves nothing behind.
LEMMA DropKeeps == EisInv /\ DropSession /\ UNCHANGED <<devices, textApi, sending>> => EisInv'
<1> SUFFICES ASSUME EisInv, DropSession, UNCHANGED <<devices, textApi, sending>> PROVE EisInv'
  OBVIOUS
<1>1. /\ device' = NoDevices /\ seat' = {} /\ unread' = <<>> /\ runtime' = Disconnected
      /\ emulating' = {} /\ held' = {} /\ cut' = FALSE /\ textApi' = textApi /\ sending' = sending
  BY DEF DropSession
<1>2. NoDevices \in DeviceStates /\ \A d \in Devices : NoDevices[d] # "resumed"
  BY DEF NoDevices, DeviceStates
<1>3. Disconnected.devices = NoDevices /\ Disconnected.retained = {}
  BY DEF Disconnected
<1>4. EisTypes'
  BY <1>1, <1>2 DEF EisTypes, EisInv
<1>5. ResumedIsRetained'
  BY <1>1, <1>2, <1>3 DEF ResumedIsRetained
<1>6. ASSUME NEW w \in SUBSET Capabilities PROVE CaughtUp(Dispatched(w))'
  <2>1. Dispatched(w)' = After(runtime', unread', w)
    BY DEF Dispatched, After, FoldLeft, MapThenFoldSet
  <2>2. Dispatched(w)' = Disconnected
    BY <1>1, <2>1, AfterNone
  <2> QED BY <1>1, <1>2, <1>3, <2>2 DEF CaughtUp
<1>7. HeldByResumed' /\ NothingLeftDown'
  BY <1>1 DEF HeldByResumed, NothingLeftDown
<1>8. SendingOK'
  BY <1>1 DEF EisInv, SendingOK
<1> QED BY <1>4, <1>5, <1>6, <1>7, <1>8 DEF EisInv

\* Nothing new has been announced or read.
LEMMA NothingRead ==
    ASSUME EisInv, UNCHANGED <<device, runtime, unread>>
    PROVE  /\ ResumedIsRetained'
           /\ \A w \in SUBSET Capabilities : CaughtUp(Dispatched(w))'
<1>1. ResumedIsRetained'
  BY DEF EisInv, ResumedIsRetained
<1>2. ASSUME NEW w \in SUBSET Capabilities PROVE CaughtUp(Dispatched(w))'
  <2>1. Dispatched(w)' = After(runtime', unread', w) /\ Dispatched(w) = After(runtime, unread, w)
    BY DEF Dispatched, After, FoldLeft, MapThenFoldSet
  <2>2. Dispatched(w)' = Dispatched(w)
    BY <2>1
  <2> QED BY <2>2 DEF EisInv, CaughtUp
<1> QED BY <1>1, <1>2

\* What is left of a plan is as tidy as the plan.
LEMMA TailKeeps ==
    ASSUME NEW events \in Seq(PlanEvents), events # <<>>, Tidy(events), NEW d, TextAlone(d, events)
    PROVE  /\ Tail(events) \in Seq(PlanEvents) /\ Head(events) = events[1] /\ Head(events) \in PlanEvents
           /\ Tidy(Tail(events)) /\ TextAlone(d, Tail(events))
           /\ NoText(events) => NoText(Tail(events))
           /\ \A j \in DOMAIN events : j > 1 => \E k \in DOMAIN Tail(events) : Tail(events)[k] = events[j]
           /\ Tail(events) = <<>> => DOMAIN events = {1} /\ Head(events) = Stop
<1> DEFINE rest == Tail(events)
<1>1. /\ Len(events) \in Nat /\ Len(events) > 0 /\ DOMAIN events = 1..Len(events)
      /\ rest \in Seq(PlanEvents) /\ Len(rest) = Len(events) - 1 /\ DOMAIN rest = 1..(Len(events) - 1)
      /\ \A i \in 1..(Len(events) - 1) : rest[i] = events[i + 1]
      /\ Head(events) = events[1]
  OBVIOUS
<1> HIDE DEF rest
<1>2. Head(events) \in PlanEvents
  BY <1>1
<1>3. \A j \in DOMAIN events : j > 1 => j - 1 \in DOMAIN rest /\ rest[j - 1] = events[j]
  <2> SUFFICES ASSUME NEW j \in DOMAIN events, j > 1 PROVE j - 1 \in DOMAIN rest /\ rest[j - 1] = events[j]
    OBVIOUS
  <2>1. j - 1 \in 1..(Len(events) - 1) /\ (j - 1) + 1 = j
    BY <1>1
  <2> QED BY <1>1, <2>1
<1>4. \A i \in DOMAIN rest : i + 1 \in DOMAIN events /\ i + 1 > 1 /\ rest[i] = events[i + 1]
  BY <1>1
<1>5. Lifted(rest)
  <2> SUFFICES ASSUME NEW i \in DOMAIN rest, rest[i].event = "Press"
               PROVE  \E j \in DOMAIN rest : i < j /\ rest[j] = Lift(rest[i].code)
    BY DEF Lifted
  <2>1. PICK j \in DOMAIN events : i + 1 < j /\ events[j] = Lift(rest[i].code)
    BY <1>4 DEF Tidy, Lifted
  <2>2. i < j - 1 /\ j > 1
    BY <1>1, <2>1
  <2> QED BY <1>3, <2>1, <2>2
<1>6. rest # <<>> => rest[Len(rest)] = Stop
  <2> SUFFICES ASSUME rest # <<>> PROVE rest[Len(rest)] = Stop
    OBVIOUS
  <2>1. Len(rest) \in 1..(Len(events) - 1) /\ Len(rest) + 1 = Len(events)
    BY <1>1
  <2> QED BY <1>1, <2>1 DEF Tidy
<1>7. NoText(events) => NoText(rest)
  BY <1>4 DEF NoText
<1>8. TextAlone(d, rest)
  BY <1>4 DEF TextAlone, NoText, NoPress
<1>9. rest = <<>> => DOMAIN events = {1} /\ Head(events) = Stop
  <2> SUFFICES ASSUME rest = <<>> PROVE DOMAIN events = {1} /\ Head(events) = Stop
    OBVIOUS
  <2>1. Len(rest) = 0
    OBVIOUS
  <2>2. Len(events) \in Nat /\ Len(events) - 1 = 0
    BY <1>1, <2>1
  <2>4. Len(events) = 1
    BY <2>2
  <2> QED BY <1>1, <2>4 DEF Tidy
<1>10. \A j \in DOMAIN events : j > 1 => \E k \in DOMAIN rest : rest[k] = events[j]
  BY <1>3
<1> QED BY <1>1, <1>2, <1>5, <1>6, <1>7, <1>8, <1>9, <1>10 DEF Tidy, rest

LEMMA SendKeeps == EisInv /\ SendEvent => EisInv'
<1> SUFFICES ASSUME EisInv, SendEvent PROVE EisInv'
  OBVIOUS
<1>1. PICK d, events, event, rest :
         /\ d = sending.device /\ events = sending.events
         /\ event = Head(events) /\ rest = Tail(events)
  OBVIOUS
<1>2. /\ sending # Idle /\ sending = [device |-> d, events |-> events]
      /\ sending' = IF Fails(event) \/ rest = <<>> THEN Idle ELSE [sending EXCEPT !.events = rest]
      /\ IF ~Fails(event) /\ device[d] = "resumed" THEN Effect(d, event) ELSE UNCHANGED <<emulating, held>>
      /\ cut' = (Fails(event) \/ (cut /\ ~(event = Stop /\ d = "keyboard")))
      /\ UNCHANGED <<session, devices, textApi, server, unread, runtime>>
  BY <1>1 DEF SendEvent, EisInv, SendingOK
<1>3. /\ d \in Devices /\ events \in Seq(PlanEvents) /\ events # <<>>
      /\ Tidy(events) /\ TextAlone(d, events)
      /\ NoText(events) \/ held = {}
      /\ \A h \in held : h[1] = d /\ \E j \in DOMAIN events : events[j] = Lift(h[2])
      /\ emulating \subseteq {"keyboard", d}
      /\ cut \/ emulating \subseteq {d}
  BY <1>1, <1>2 DEF EisInv, SendingOK
<1>4. /\ rest \in Seq(PlanEvents) /\ event = events[1] /\ event \in PlanEvents
      /\ Tidy(rest) /\ TextAlone(d, rest)
      /\ NoText(events) => NoText(rest)
      /\ \A j \in DOMAIN events : j > 1 => \E k \in DOMAIN rest : rest[k] = events[j]
      /\ rest = <<>> => DOMAIN events = {1} /\ event = Stop
  BY <1>1, <1>3, TailKeeps
<1>5. /\ 1 \in DOMAIN events /\ \A j \in DOMAIN events : j = 1 \/ j > 1
  BY <1>3
<1>6. /\ device \in DeviceStates /\ device' = device /\ seat' = seat /\ textApi' = textApi
      /\ unread' = unread /\ runtime' = runtime
      /\ held \subseteq Devices \X Codes /\ emulating \subseteq Devices
  BY <1>2 DEF EisInv, EisTypes, server
<1>7. device[d] # "resumed" => d \notin emulating /\ held = {}
  BY <1>3, <1>6 DEF EisInv, HeldByResumed
<1>8. /\ emulating' \subseteq emulating \cup {d}
      /\ held' \subseteq held \cup {h \in Devices \X Codes : event.event = "Press" /\ h = <<d, event.code>>}
      /\ device[d] # "resumed" => held' = held /\ emulating' = emulating
  <2>1. event.event = "Press" => event.code \in Codes
    BY <1>4 DEF PlanEvents
  <2> QED BY <1>2, <1>3, <2>1 DEF Effect
<1>9. EisTypes'
  BY <1>3, <1>6, <1>8 DEF EisInv, EisTypes
<1>10. /\ ResumedIsRetained' /\ \A w \in SUBSET Capabilities : CaughtUp(Dispatched(w))'
  BY <1>6, NothingRead
<1>11. HeldByResumed'
  <2> SUFFICES ASSUME NEW e \in Devices, device[e] # "resumed"
               PROVE  e \notin emulating' /\ \A c \in Codes : <<e, c>> \notin held'
    BY <1>6 DEF HeldByResumed
  <2>1. e \notin emulating /\ \A c \in Codes : <<e, c>> \notin held
    BY DEF EisInv, HeldByResumed
  <2>2. CASE e = d
    BY <1>8, <2>1, <2>2
  <2>3. CASE e # d
    BY <1>8, <2>1, <2>3
  <2> QED BY <2>2, <2>3
<1>12. CASE Fails(event)
  <2>1. sending' = Idle /\ emulating' = emulating /\ held' = held /\ cut'
    BY <1>2, <1>12
  <2>2. ~NoText(events)
    BY <1>4, <1>5, <1>12 DEF NoText, IsText, Fails
  <2>3. held = {} /\ d = "keyboard"
    BY <1>3, <2>2 DEF TextAlone
  <2>4. NothingLeftDown'
    BY <1>3, <1>6, <2>1, <2>3 DEF NothingLeftDown
  <2>5. SendingOK'
    BY <2>1 DEF SendingOK, Idle
  <2> QED BY <1>9, <1>10, <1>11, <2>4, <2>5 DEF EisInv
<1>13. CASE ~Fails(event) /\ rest = <<>>
  <2>1. sending' = Idle /\ event = Stop /\ DOMAIN events = {1}
    BY <1>2, <1>4, <1>13
  <2>2. held = {}
    <3>1. \A h \in held : Stop = Lift(h[2])
      BY <1>3, <1>4, <2>1
    <3>2. \A c : Stop # Lift(c)
      <4>1. \A c : Stop.event # Lift(c).event
        BY DEF Stop, Lift
      <4> QED BY <4>1
    <3> QED BY <3>1, <3>2
  <2>3. held' = {} /\ emulating' = emulating \ {d}
    <3>1. CASE device[d] = "resumed"
      BY <1>2, <1>13, <2>1, <2>2, <3>1 DEF Effect, Stop
    <3>2. CASE device[d] # "resumed"
      BY <1>7, <1>8, <2>2, <3>2
    <3> QED BY <3>1, <3>2
  <2>4. NothingLeftDown'
    BY <1>2, <1>3, <1>6, <1>13, <2>1, <2>3 DEF NothingLeftDown
  <2>5. SendingOK'
    BY <2>1 DEF SendingOK, Idle
  <2> QED BY <1>9, <1>10, <1>11, <2>4, <2>5 DEF EisInv
<1>14. CASE ~Fails(event) /\ rest # <<>>
  <2>1. sending' = [device |-> d, events |-> rest]
    BY <1>2, <1>14
  <2>2. sending' # Idle
    <3>1. [device |-> d, events |-> rest].events # Idle.events
      BY <1>14 DEF Idle
    <3> QED BY <2>1, <3>1
  <2>3. NothingLeftDown'
    BY <2>2 DEF NothingLeftDown
  <2>4. NoText(rest) \/ held' = {}
    <3>1. CASE NoText(events)
      BY <1>4, <3>1
    <3>2. CASE ~NoText(events)
      <4>1. held = {} /\ event.event # "Press"
        BY <1>3, <1>4, <1>5, <3>2 DEF TextAlone, NoPress
      <4> QED BY <1>8, <4>1
    <3> QED BY <3>1, <3>2
  <2>5. ASSUME NEW h \in held' PROVE h[1] = d /\ \E k \in DOMAIN rest : rest[k] = Lift(h[2])
    <3>1. CASE h \in held
      <4>1. PICK j \in DOMAIN events : events[j] = Lift(h[2])
        BY <1>3, <3>1
      <4>2. ASSUME j = 1 PROVE FALSE
        <5>1. event = Lift(h[2])
          BY <1>4, <4>1, <4>2
        <5>2. event.event = "Release" /\ event.code = h[2]
          BY <5>1 DEF Lift
        <5>3. device[d] = "resumed"
          BY <1>7, <3>1
        <5>4. held' = held \ {<<d, h[2]>>}
          BY <1>2, <1>14, <5>2, <5>3 DEF Effect
        <5>5. h = <<d, h[2]>>
          BY <1>3, <1>6, <3>1
        <5> QED BY <2>5, <5>4, <5>5
      <4>3. j > 1
        BY <1>5, <4>2
      <4> QED BY <1>3, <1>4, <3>1, <4>1, <4>3
    <3>2. CASE h \notin held
      <4>1. event.event = "Press" /\ h = <<d, event.code>>
        BY <1>8, <2>5, <3>2
      <4>2. PICK j \in DOMAIN events : 1 < j /\ events[j] = Lift(event.code)
        BY <1>3, <1>4, <1>5, <4>1 DEF Tidy, Lifted
      <4>3. h[1] = d /\ h[2] = event.code /\ j > 1
        BY <1>5, <4>1, <4>2
      <4> QED BY <1>4, <4>2, <4>3
    <3> QED BY <3>1, <3>2
  <2>6. /\ emulating' \subseteq {"keyboard", d}
        /\ cut' \/ emulating' \subseteq {d}
    BY <1>2, <1>3, <1>6, <1>8
  <2>7. SendingOK'
    <3>1. sending'.device = d /\ sending'.events = rest
      BY <2>1
    <3>2. \A h \in held' : h[1] = d /\ \E k \in DOMAIN rest : rest[k] = Lift(h[2])
      BY <2>5
    <3> QED BY <1>3, <1>4, <1>14, <2>1, <2>4, <2>6, <3>1, <3>2 DEF SendingOK
  <2> QED BY <1>9, <1>10, <1>11, <2>3, <2>7 DEF EisInv
<1> QED BY <1>12, <1>13, <1>14

\* A step of the session or of a plan that sends nothing.
LEMMA StepKeeps ==
    ASSUME EisInv, UNCHANGED <<device, seat, textApi, emulating, held, cut>>, unread' \in Seq(ServerEvents),
           ResumedIsRetained', \A w \in SUBSET Capabilities : CaughtUp(Dispatched(w))',
           sending' # sending => SendingOK' /\ sending' # Idle
    PROVE  EisInv'
<1>1. EisTypes' /\ HeldByResumed'
  BY DEF EisInv, EisTypes, HeldByResumed
<1>2. SendingOK'
  <2>1. CASE sending' = sending
    BY <2>1 DEF EisInv, SendingOK
  <2> QED BY <2>1
<1>3. NothingLeftDown'
  BY DEF EisInv, NothingLeftDown
<1> QED BY <1>1, <1>2, <1>3 DEF EisInv

LEMMA ExecuteKeeps ==
    ASSUME EisInv, NEW plan \in Plans, ExecutePlan(plan)
    PROVE  EisInv'
<1>1. /\ sending = Idle /\ runtime' = Dispatched(Required(plan)) /\ unread' = <<>>
      /\ UNCHANGED <<device, seat, textApi, emulating, held, cut>>
  BY DEF ExecutePlan, server
<1>2. Required(plan) \in SUBSET Capabilities
  BY DEF Required, Capabilities, KeyboardCapabilities, PointerCapabilities, Plans
<1>3. ResumedIsRetained' /\ \A w \in SUBSET Capabilities : CaughtUp(Dispatched(w))'
  BY <1>1, <1>2, ReadToTheEnd
<1>4. unread' \in Seq(ServerEvents)
  BY <1>1
<1>5. ASSUME sending' # sending PROVE SendingOK' /\ sending' # Idle
  <2>1. PICK d \in Devices : Required(plan) \subseteq CapabilitiesOf(d) /\ sending' = [device |-> d, events |-> Events(plan)]
    BY <1>5 DEF ExecutePlan, Selectable
  <2>2. PICK events : events = Events(plan)
    OBVIOUS
  <2>3. /\ events \in Seq(PlanEvents) /\ events # <<>>
        /\ Tidy(events) /\ TextAlone(d, events)
    BY <2>1, <2>2, PlanTidy
  <2>4. sending' = [device |-> d, events |-> events]
    BY <2>1, <2>2
  <2>5. sending'.device = d /\ sending'.events = events /\ sending' # Idle
    BY <1>1, <1>5, <2>4
  <2>6. held = {} /\ emulating \subseteq {"keyboard"} /\ (cut \/ emulating = {})
    BY <1>1 DEF EisInv, NothingLeftDown
  <2> QED BY <1>1, <2>3, <2>4, <2>5, <2>6 DEF SendingOK
<1> QED BY <1>1, <1>3, <1>4, <1>5, StepKeeps

LEMMA EisNext == EisInv /\ [NextEis]_eisVars => EisInv'
<1> SUFFICES ASSUME EisInv, [NextEis]_eisVars PROVE EisInv'
  OBVIOUS
<1>0. unread \in Seq(ServerEvents)
  BY DEF EisInv, EisTypes
<1>1. CASE Server
  BY <1>1, ServerKeeps
<1>2. ASSUME NEW kinds \in SUBSET Devices, StartEis(kinds) PROVE EisInv'
  <2>1. UNCHANGED <<seat, device, textApi, unread, runtime, sending, emulating, held, cut>>
    BY <1>2 DEF StartEis
  <2> QED BY <1>0, <2>1, NothingRead, StepKeeps
<1>3. CASE InitializeRuntime
  <2>1. UNCHANGED <<devices, textApi, sending>>
    BY <1>3 DEF InitializeRuntime
  <2>2. CASE DropSession
    BY <2>1, <2>2, DropKeeps
  <2>3. CASE runtime' = Dispatched(Requested(devices)) /\ unread' = <<>> /\ UNCHANGED <<server, emulating, held, cut>>
    <3>1. Requested(devices) \in SUBSET Capabilities
      BY DEF Requested, CapabilitiesOf, Capabilities
    <3>2. UNCHANGED <<device, seat>> /\ unread' \in Seq(ServerEvents)
      BY <2>3 DEF server
    <3> QED BY <2>1, <2>3, <3>1, <3>2, ReadToTheEnd, StepKeeps
  <2> QED BY <1>3, <2>2, <2>3 DEF InitializeRuntime
<1>4. CASE InitializationTimesOut
  BY <1>4, DropKeeps DEF InitializationTimesOut
<1>5. CASE StopEis
  BY <1>5, DropKeeps DEF StopEis
<1>6. ASSUME NEW plan \in Plans, ExecutePlan(plan) PROVE EisInv'
  BY <1>6, ExecuteKeeps
<1>7. CASE SendEvent
  BY <1>7, SendKeeps
<1>8. CASE UNCHANGED eisVars
  <2>1. UNCHANGED <<seat, device, textApi, unread, runtime, sending, emulating, held, cut>>
    BY <1>8 DEF eisVars, server
  <2> QED BY <1>0, <2>1, NothingRead, StepKeeps
<1> QED BY <1>1, <1>2, <1>3, <1>4, <1>5, <1>6, <1>7, <1>8 DEF NextEis

(* Whatever the server announces and takes away, between the events of a     *)
(* plan as well, the retained devices are those that are known as resumed,   *)
(* and a plan that is over leaves nothing pressed and no device emulating    *)
(* but the keyboard, after a text that could not be sent and until its next  *)
(* plan ends: for any number of events on their way (lib.rs:566, 1008).      *)
THEOREM SeatLeftCleanHolds == SpecEis => []SeatLeftClean
<1>1. EisInv => SeatLeftClean
  BY DEF EisInv, SeatLeftClean
<1> QED BY <1>1, EisInit, EisNext, PTL DEF SpecEis

-----------------------------------------------------------------------------
(* The checks of a request.                                                 *)

\* The check did not apply, or it was one that may let pass, and did.
Met(check) ==
    Applies(check, demand) =>
        /\ check \in cleared /\ check \notin Decided
        /\ check = "owner" => "foreign" \notin SessionIds(demand)

\* What executing adds to the checks.
AuthorizedLate ==
    /\ EffectOf(demand)[2] \in {"pinned", "resolved"} \/ demand.kind = "close_window" =>
          "app" \in cleared
    /\ EffectOf(demand) = <<"user seat", "pinned">> => {"panic", "pause"} \subseteq cleared

\* The inductive invariant: the checks before the one a request stands at have
\* been met, and nothing is done before the last.
RoutingInv ==
    /\ RoutingTypeOK /\ config \in Configs
    /\ stop # 0 => \A n \in DOMAIN Checks : n < stop => Met(Checks[n])
    /\ stop <= Len(Checks) + 1 => doing = <<"nothing", "none">>
    /\ doing[1] \notin {"nothing", "error"} => doing = EffectOf(demand) /\ AuthorizedLate

LEMMA ChecksNumber == Len(Checks) = 13 /\ DOMAIN Checks = 1..13
BY DEF Checks

LEMMA ChecksList ==
    /\ Checks[2] = "policy" /\ Checks[4] = "panic" /\ Checks[5] = "pause" /\ Checks[6] = "owner"
    /\ Checks[8] = "required guard" /\ Checks[10] = "app" /\ Checks[12] = "rate"
BY DEF Checks

LEMMA ConfigFields ==
    ASSUME NEW c \in Configs
    PROVE  /\ c.agentSeat \in BOOLEAN /\ c.pauses \in BOOLEAN
           /\ c.guardRequired \in BOOLEAN /\ c.appPolicy \in BOOLEAN
BY DEF Configs

LEMMA DemandFields ==
    ASSUME NEW d \in Demands
    PROVE  /\ d.kind \in Kinds /\ d.session \in Whose /\ d.image \in Whose
           /\ d.session # "none" => d.kind \in SessionField
           /\ d.kind \in FrameKinds \cup LifecycleKinds => d.session # "none"
           /\ d.guarded \in BOOLEAN /\ d.targeted \in BOOLEAN
           /\ d.kind = "page_zoom" => d.guarded
           /\ d.targeted => d.kind \in NamedKinds
BY DEF Demands

\* A table says "control" of every kind that has an effect on the desktop.
LEMMA EffectTable ==
    ASSUME NEW d \in Demands, config \in Configs
    PROVE  /\ d.kind \in RawKinds /\ config.agentSeat /\ d.session # "none" =>
                 EffectOf(d) = <<"agent seat", "pinned">>
           /\ d.kind \in RawKinds /\ d.session # "none" => EffectOf(d)[2] = "pinned"
           /\ d.kind \in NamedKinds /\ d.targeted => EffectOf(d)[2] = "resolved"
<1>1. config.agentSeat \in BOOLEAN
  BY ConfigFields
<1>2. CASE d.kind \in RawKinds
  <2>1. d.kind # "page_zoom" /\ d.kind \notin NamedKinds \cup NodeKinds \cup WindowKinds \cup PortalKinds
          \cup FrameKinds \cup LifecycleKinds
    BY <1>2 DEF RawKinds, Pointing, NamedKinds, NodeKinds, WindowKinds, PortalKinds, FrameKinds,
       LifecycleKinds
  <2> QED BY <1>1, <1>2, <2>1 DEF EffectOf
<1>3. CASE d.kind \in NamedKinds
  <2>1. d.kind # "page_zoom" /\ d.kind \notin RawKinds \cup NodeKinds \cup WindowKinds \cup PortalKinds
          \cup FrameKinds \cup LifecycleKinds
    BY <1>3 DEF RawKinds, Pointing, NamedKinds, NodeKinds, WindowKinds, PortalKinds, FrameKinds,
       LifecycleKinds
  <2> QED BY <1>3, <2>1 DEF EffectOf
<1> QED BY <1>2, <1>3

LEMMA ControlsAreControl ==
    ASSUME NEW d \in Demands, EffectOf(d)[1] \in Controls
    PROVE  /\ IsControl(d)
           /\ d.kind \in RawKinds \cup {"page_zoom"} \cup NamedKinds \cup NodeKinds \cup WindowKinds
<1>1. d.kind \in RawKinds \cup {"page_zoom"} \cup NamedKinds \cup NodeKinds \cup WindowKinds
  BY DemandFields DEF EffectOf, Controls
<1>2. d.kind \notin PolicyKinds \cup ImageKinds \cup LookKinds \cup ClipboardKinds \cup PortalKinds
  BY <1>1 DEF RawKinds, Pointing, NamedKinds, NodeKinds, WindowKinds, PolicyKinds, ImageKinds,
     LookKinds, ClipboardKinds, PortalKinds, LifecycleKinds, FrameKinds, ReadKinds
<1>3. d.kind # "clipboard_get" /\ d.kind # "clipboard_set"
  BY <1>2 DEF ClipboardKinds
<1>4. IsControl(d)
  BY <1>2, <1>3 DEF IsControl, SafetyClass
<1> QED BY <1>1, <1>4

LEMMA EffectTyped ==
    ASSUME NEW d \in Demands
    PROVE  EffectOf(d) \in {"error", "look", "consent", "session"} \X {"none"}
                             \cup Controls \X {"pinned", "active", "resolved", "element", "explicit"}
BY DEF EffectOf, Controls

LEMMA RoutingFacts ==
    ASSUME RoutingInv
    PROVE  /\ demand \in Demands /\ config \in Configs /\ stop \in 0..15
           /\ stop # 0 => \A n \in 1..13 : n < stop => Met(Checks[n])
           /\ stop <= 14 => doing = <<"nothing", "none">>
<1>1. 13 + 1 = 14 /\ 13 + 2 = 15
  OBVIOUS
<1> QED BY <1>1, ChecksNumber DEF RoutingInv, RoutingTypeOK

LEMMA RoutingStart == InitRouting => RoutingInv
<1> SUFFICES ASSUME InitRouting PROVE RoutingInv
  OBVIOUS
<1>1. demand \in Demands /\ config \in Configs /\ stop = 1 /\ cleared = {}
      /\ doing = <<"nothing", "none">> /\ doing[1] = "nothing"
  BY DEF InitRouting
<1>2. RoutingTypeOK
  <2>1. stop \in 0..(Len(Checks) + 2)
    BY <1>1, ChecksNumber
  <2> QED BY <1>1, <2>1 DEF RoutingTypeOK
<1>3. \A n \in DOMAIN Checks : ~(n < stop)
  BY <1>1, ChecksNumber
<1> QED BY <1>1, <1>2, <1>3 DEF RoutingInv

LEMMA PassCheckKeeps == RoutingInv /\ PassCheck => RoutingInv'
<1> SUFFICES ASSUME RoutingInv, PassCheck PROVE RoutingInv'
  OBVIOUS
<1>1. stop \in 1..13 /\ stop' = stop + 1
  BY ChecksNumber DEF PassCheck
<1>2. demand' = demand /\ config' = config /\ doing' = doing
  BY DEF PassCheck
<1>3. cleared \subseteq cleared' /\ cleared' \subseteq cleared \cup {Checks[stop]}
  BY DEF PassCheck
<1>4. stop' \in 2..14
  BY <1>1
<1>5. doing = <<"nothing", "none">> /\ doing[1] = "nothing"
  BY <1>1, RoutingFacts
<1>6. RoutingTypeOK'
  <2>1. stop' \in 0..(Len(Checks) + 2)
    BY <1>4, ChecksNumber
  <2>2. cleared' \subseteq {Checks[n] : n \in DOMAIN Checks} \cup {"lease"}
    BY <1>1, <1>3, ChecksNumber DEF RoutingInv, RoutingTypeOK
  <2> QED BY <1>2, <2>1, <2>2 DEF RoutingInv, RoutingTypeOK
<1>7. ASSUME NEW check, Met(check) PROVE Met(check)'
  BY <1>2, <1>3, <1>7 DEF Met, Applies, SessionIds, InteractionSession, UsesAgentSeat, IsControl, SafetyClass
<1>8. Applies(Checks[stop], demand) =>
         /\ Checks[stop] \in cleared' /\ Checks[stop] \notin Decided
         /\ Checks[stop] = "owner" => "foreign" \notin SessionIds(demand)
  BY DEF PassCheck
<1>9. ASSUME NEW n \in 1..13, n < stop' PROVE Met(Checks[n])'
  <2>1. n = stop \/ n < stop
    BY <1>1, <1>9
  <2>2. CASE n = stop
    BY <1>2, <1>3, <1>7, <1>8, <2>2
       DEF Met, Applies, SessionIds, InteractionSession, UsesAgentSeat, IsControl, SafetyClass
  <2>3. CASE n < stop
    <3>1. stop # 0
      BY <1>1
    <3>2. Met(Checks[n])
      BY <2>3, <3>1, RoutingFacts
    <3> QED BY <1>7, <3>2
  <2> QED BY <2>1, <2>2, <2>3
<1>10. config' \in Configs /\ doing' = <<"nothing", "none">> /\ doing'[1] = "nothing"
  BY <1>2, <1>5, RoutingFacts
<1> QED BY <1>6, <1>9, <1>10, ChecksNumber DEF RoutingInv

LEMMA RefuseCheckKeeps == RoutingInv /\ RefuseCheck => RoutingInv'
<1> SUFFICES ASSUME RoutingInv, RefuseCheck PROVE RoutingInv'
  OBVIOUS
<1>1. stop \in 1..13 /\ stop' = 0 /\ UNCHANGED <<demand, config, cleared, doing>>
  BY ChecksNumber DEF RefuseCheck
<1>2. doing' = <<"nothing", "none">> /\ doing'[1] = "nothing"
  BY <1>1, RoutingFacts
<1>3. stop' \in 0..(Len(Checks) + 2)
  BY <1>1, ChecksNumber
<1>4. RoutingTypeOK'
  BY <1>1, <1>3 DEF RoutingInv, RoutingTypeOK
<1> QED BY <1>1, <1>2, <1>4 DEF RoutingInv

LEMMA ExecuteRequestKeeps == RoutingInv /\ ExecuteRequest => RoutingInv'
<1> SUFFICES ASSUME RoutingInv, ExecuteRequest PROVE RoutingInv'
  OBVIOUS
<1>1. stop = 14 /\ stop' = 15
  <2>1. stop = Len(Checks) + 1 /\ stop' = stop + 1
    BY DEF ExecuteRequest
  <2> QED BY <2>1, ChecksNumber
<1>2. demand' = demand /\ config' = config /\ doing' \in {EffectOf(demand), <<"error", "none">>}
  BY DEF ExecuteRequest
<1>3. /\ cleared \subseteq cleared'
      /\ cleared' \subseteq cleared \cup {"app", "panic", "pause", "lease"}
  BY DEF ExecuteRequest
<1>4. /\ EffectOf(demand)[2] \in {"pinned", "resolved"} \/ demand.kind = "close_window" => "app" \in cleared'
      /\ EffectOf(demand) = <<"user seat", "pinned">> => {"panic", "pause"} \subseteq cleared'
  BY DEF ExecuteRequest
<1>5. ASSUME NEW check, Met(check) PROVE Met(check)'
  BY <1>2, <1>3, <1>5 DEF Met, Applies, SessionIds, InteractionSession, UsesAgentSeat, IsControl, SafetyClass
<1>6. EffectOf(demand)' = EffectOf(demand)
  BY <1>2 DEF EffectOf
<1>7. RoutingTypeOK'
  <2>1. stop' \in 0..(Len(Checks) + 2)
    BY <1>1, ChecksNumber
  <2>2. {"app", "panic", "pause"} \subseteq {Checks[n] : n \in DOMAIN Checks}
    <3>1. 4 \in DOMAIN Checks /\ 5 \in DOMAIN Checks /\ 10 \in DOMAIN Checks
      BY ChecksNumber
    <3> QED BY <3>1, ChecksList
  <2>3. cleared' \subseteq {Checks[n] : n \in DOMAIN Checks} \cup {"lease"}
    BY <1>3, <2>2 DEF RoutingInv, RoutingTypeOK
  <2>4. demand' \in Demands
    BY <1>2, RoutingFacts
  <2>5. doing' \in {"nothing", "error", "look", "consent", "session"} \X {"none"}
          \cup Controls \X {"pinned", "active", "resolved", "element", "explicit"}
    BY <1>2, EffectTyped, RoutingFacts
  <2> QED BY <2>1, <2>3, <2>4, <2>5 DEF RoutingTypeOK
<1>8. \A n \in 1..13 : Met(Checks[n])'
  <2>1. stop # 0 /\ \A n \in 1..13 : n < stop
    BY <1>1
  <2> QED BY <1>5, <2>1, RoutingFacts
<1>9. doing'[1] \notin {"nothing", "error"} => doing' = EffectOf(demand)' /\ AuthorizedLate'
  <2>1. AuthorizedLate'
    BY <1>2, <1>4, <1>6 DEF AuthorizedLate
  <2> QED BY <1>2, <1>6, <2>1
<1>10. ~(stop' <= Len(Checks) + 1) /\ config' \in Configs
  BY <1>1, <1>2, ChecksNumber, RoutingFacts
<1> QED BY <1>7, <1>8, <1>9, <1>10, ChecksNumber DEF RoutingInv

LEMMA RoutingInvariant == SpecRouting => []RoutingInv
<1>1. RoutingInv /\ [NextRouting]_routingVars => RoutingInv'
  <2>1. ASSUME RoutingInv, UNCHANGED routingVars PROVE RoutingInv'
    BY <2>1 DEF routingVars, RoutingInv, RoutingTypeOK, Met, AuthorizedLate, Applies, SessionIds,
       InteractionSession, UsesAgentSeat, IsControl, SafetyClass, EffectOf
  <2> QED BY <2>1, PassCheckKeeps, RefuseCheckKeeps, ExecuteRequestKeeps DEF NextRouting
<1> QED BY <1>1, RoutingStart, PTL DEF SpecRouting

\* At its effect a request has met every check.
LEMMA AllMet ==
    ASSUME RoutingInv, doing[1] \notin {"nothing", "error"}
    PROVE  /\ \A check \in {"policy", "panic", "pause", "owner", "required guard", "app", "rate"} :
                 Met(check)
           /\ demand \in Demands /\ doing = EffectOf(demand) /\ AuthorizedLate
<1>1. ~(stop <= 14)
  BY RoutingFacts
<1>2. stop # 0 /\ \A n \in 1..13 : n < stop
  BY <1>1, RoutingFacts
<1>3. \A n \in 1..13 : Met(Checks[n])
  BY <1>2, RoutingFacts
<1>4. /\ Met(Checks[2]) /\ Met(Checks[4]) /\ Met(Checks[5]) /\ Met(Checks[6])
      /\ Met(Checks[8]) /\ Met(Checks[10]) /\ Met(Checks[12])
  BY <1>3
<1> QED BY <1>4, ChecksList, RoutingFacts DEF RoutingInv

LEMMA GatedEffects == RoutingInv => EffectsAreGated
<1> SUFFICES ASSUME RoutingInv, doing[1] \in Controls
             PROVE  /\ {"policy", "panic", "rate"} \subseteq cleared
                    /\ config.pauses /\ doing[1] # "agent seat" => "pause" \in cleared
  BY DEF EffectsAreGated
<1>1. Met("policy") /\ Met("panic") /\ Met("rate") /\ Met("pause")
      /\ demand \in Demands /\ doing = EffectOf(demand)
  BY AllMet DEF Controls
<1>2. IsControl(demand)
  BY <1>1, ControlsAreControl
<1>3. {"policy", "panic", "rate"} \subseteq cleared
  BY <1>1, <1>2 DEF Met, Applies
<1>4. ASSUME UsesAgentSeat(demand) PROVE doing[1] = "agent seat"
  <2>1. demand.kind \in RawKinds /\ config.agentSeat /\ demand.session # "none"
    BY <1>4 DEF UsesAgentSeat, InteractionSession
  <2>2. EffectOf(demand) = <<"agent seat", "pinned">>
    BY <1>1, <2>1, EffectTable, RoutingFacts
  <2>3. <<"agent seat", "pinned">>[1] = "agent seat"
    OBVIOUS
  <2> QED BY <1>1, <2>2, <2>3
<1> QED BY <1>1, <1>2, <1>3, <1>4 DEF Met, Applies

LEMMA SessionsOwned ==
    ASSUME RoutingInv, doing[1] \notin {"nothing", "error"}
    PROVE  "foreign" \notin {demand.session, demand.image}
<1>1. Met("owner") /\ demand \in Demands
  BY AllMet
<1>2. "foreign" \notin SessionIds(demand)
  BY <1>1 DEF Met, Applies
<1>3. demand.image # "foreign"
  BY <1>2 DEF SessionIds
<1>4. demand.session # "foreign"
  BY <1>1, <1>2, DemandFields DEF SessionIds, InteractionSession, SessionField
<1> QED BY <1>3, <1>4

LEMMA TargetsChecked == RoutingInv => TargetsAreChecked
<1> SUFFICES ASSUME RoutingInv, doing[1] \in Controls
             PROVE  /\ config.appPolicy => "app" \in cleared
                    /\ config.guardRequired =>
                          demand.guarded \/ demand.targeted \/ demand.session # "none"
  BY SessionsOwned DEF TargetsAreChecked
<1>1. Met("app") /\ Met("required guard")
      /\ demand \in Demands /\ doing = EffectOf(demand) /\ AuthorizedLate
  BY AllMet DEF Controls
<1>2. IsControl(demand)
      /\ demand.kind \in RawKinds \cup {"page_zoom"} \cup NamedKinds \cup NodeKinds \cup WindowKinds
  BY <1>1, ControlsAreControl
<1>3. demand.kind \notin PortalKinds
  BY <1>2 DEF RawKinds, Pointing, NamedKinds, NodeKinds, WindowKinds, PortalKinds
<1>4. ASSUME config.appPolicy PROVE "app" \in cleared
  <2>1. CASE Applies("app", demand)
    BY <1>1, <2>1 DEF Met
  <2>2. CASE demand.targeted
    <3>1. demand.kind \in NamedKinds
      BY <1>1, <2>2, DemandFields
    <3>2. EffectOf(demand)[2] = "resolved"
      BY <1>1, <2>2, <3>1, EffectTable, RoutingFacts
    <3> QED BY <1>1, <3>2 DEF AuthorizedLate
  <2>3. CASE InteractionSession(demand) # "none"
    <3>1. demand.kind \in RawKinds \cup {"close_window"} /\ demand.session # "none"
      BY <2>3 DEF InteractionSession
    <3>2. CASE demand.kind = "close_window"
      BY <1>1, <3>2 DEF AuthorizedLate
    <3>3. CASE demand.kind \in RawKinds
      <4>1. EffectOf(demand)[2] = "pinned"
        BY <1>1, <3>1, <3>3, EffectTable, RoutingFacts
      <4> QED BY <1>1, <4>1 DEF AuthorizedLate
    <3> QED BY <3>1, <3>2, <3>3
  <2> QED BY <1>2, <1>3, <1>4, <2>1, <2>2, <2>3 DEF Applies
<1>5. ASSUME config.guardRequired
      PROVE  demand.guarded \/ demand.targeted \/ demand.session # "none"
  BY <1>1, <1>2, <1>5 DEF Met, Applies, Decided, InteractionSession
<1> QED BY <1>4, <1>5

(* A request of any kind is at a check or past them, and does one thing.    *)
THEOREM RoutingTypeCorrect == SpecRouting => []RoutingTypeOK
<1>1. RoutingInv => RoutingTypeOK
  BY DEF RoutingInv
<1> QED BY <1>1, RoutingInvariant, PTL

(* No kind of request, with any client and settings, does what one of the   *)
(* checks is there for without having met it (handle_request, main.rs).     *)
THEOREM ChecksFitEffectsHolds == SpecRouting => []ChecksFitEffects
<1>1. RoutingInv => ChecksFitEffects
  BY GatedEffects, TargetsChecked DEF ChecksFitEffects
<1> QED BY <1>1, RoutingInvariant, PTL

-----------------------------------------------------------------------------
(* All of it, each part at rest while another moves.                       *)

LEMMA PartsOfRequests ==
    SpecRequestSide =>
        SpecRouting /\ SpecGates /\ SpecLanes /\ SpecEis /\ SpecSemantic /\ SpecPost
<1>1. InitRequestSide =>
          InitRouting /\ InitGates /\ InitLanes /\ InitEis /\ InitSemantic /\ InitPost
  BY DEF InitRequestSide
<1>2. [NextRequestSide]_requestSideVars => [NextRouting]_routingVars
  BY DEF NextRequestSide, Routing, Gates, Lanes, Eis, Semantic, Post, requestSideVars
<1>3. [NextRequestSide]_requestSideVars => [NextGates]_gateVars
  BY DEF NextRequestSide, Routing, Gates, Lanes, Eis, Semantic, Post, requestSideVars
<1>4. [NextRequestSide]_requestSideVars => [NextLanes]_laneVars
  BY DEF NextRequestSide, Routing, Gates, Lanes, Eis, Semantic, Post, requestSideVars
<1>5. [NextRequestSide]_requestSideVars => [NextEis]_eisVars
  BY DEF NextRequestSide, Routing, Gates, Lanes, Eis, Semantic, Post, requestSideVars
<1>6. [NextRequestSide]_requestSideVars => [NextSemantic]_semanticVars
  BY DEF NextRequestSide, Routing, Gates, Lanes, Eis, Semantic, Post, requestSideVars
<1>7. [NextRequestSide]_requestSideVars => [NextPost]_postVars
  BY DEF NextRequestSide, Routing, Gates, Lanes, Eis, Semantic, Post, requestSideVars
<1> QED BY <1>1, <1>2, <1>3, <1>4, <1>5, <1>6, <1>7, PTL
        DEF SpecRequestSide, SpecRouting, SpecGates, SpecLanes, SpecEis, SpecSemantic, SpecPost

(* A request, a semantic search and an action's aftermath keep their types,  *)
(* whichever part of the request side moves.                                 *)
THEOREM RequestTypeCorrect == SpecRequestSide => []RequestSideTypeOK
<1>1. SpecRequestSide => []RoutingTypeOK /\ []SemanticTypeOK /\ []PostTypeOK
  BY PartsOfRequests, RoutingTypeCorrect, SemanticTypeCorrect, PostTypeCorrect
<1> QED BY <1>1, PTL DEF RequestSideTypeOK

(* What is proved of the checks of a request, the rate limiter, the lanes,   *)
(* an EIS session, the semantic actions and what a client is told holds of   *)
(* all of them together.                                                     *)
THEOREM RequestSideSafe ==
    SpecRequestSide =>
        /\ [](SeatLeftClean /\ RateBounded /\ ConfirmedHasReason /\ ChecksFitEffects)
        /\ ActsOnRequested /\ LanesServeTheirAgent
<1>1. SpecRequestSide => []SeatLeftClean /\ []RateBounded
  BY PartsOfRequests, SeatLeftCleanHolds, RateBoundedHolds
<1>2. SpecRequestSide => []ConfirmedHasReason /\ []ChecksFitEffects
  BY PartsOfRequests, ConfirmedHasReasonHolds, ChecksFitEffectsHolds
<1>3. SpecRequestSide => ActsOnRequested /\ LanesServeTheirAgent
  BY PartsOfRequests, ActsOnRequestedHolds, LanesServeTheirAgentHolds
<1> QED BY <1>1, <1>2, <1>3, PTL
=============================================================================
