-------------------------- MODULE WindowSide_proofs --------------------------
(***************************************************************************)
(* Proofs about the daemon's side of the KWin bridge: the supervision of   *)
(* its bus name, and the window actions, for every number of launches,     *)
(* orders and windows, and every length of the queues; and about the user  *)
(* and the agents at the same windows, for every set of actions, events    *)
(* and windows, and every length of the history.                           *)
(***************************************************************************)
EXTENDS MCWindowSide, InteractionSessions_proofs, Queues_proofs

-----------------------------------------------------------------------------
(* The name on the bus.                                                    *)

(* The inductive invariant.  What the loop has found out stays true of its *)
(* connection until it looks again, and `seen' is never ahead of the bus.  *)
OwnershipInv ==
    /\ step \in {"check", "request", "recheck", "start", "publish", "sleep"}
    /\ connection \in BOOLEAN /\ registered \in BOOLEAN /\ owned \in BOOLEAN /\ seen \in BOOLEAN
    /\ retries \in 0..MaxRetries
    /\ seen => connection /\ owner = "this"
    /\ step \in {"request", "recheck"} => connection
    /\ step \in {"request", "recheck", "start"} => ~owned /\ ~seen
    /\ step = "publish" => IF owned THEN connection ELSE ~seen /\ retries > 0
    /\ StatusMatchesOwner

LEMMA OwnershipStart == InitOwnership => OwnershipInv
<1>1. 0 \in 0..MaxRetries
  BY RetriesAssumption
<1> SUFFICES ASSUME InitOwnership PROVE OwnershipInv
  OBVIOUS
<1>2. connection \in BOOLEAN /\ registered = connection /\ seen = connection /\ owned = FALSE
  BY DEF InitOwnership
<1>3. retries = 0 /\ step = "check" /\ (connection => owner = "this")
  BY DEF InitOwnership
<1>4. ~(seen /\ ~connection)
  BY <1>2, Zenon
<1>5. seen => connection /\ owner = "this"
  BY <1>2, <1>3, Zenon
<1>6. registered \in BOOLEAN /\ seen \in BOOLEAN /\ owned \in BOOLEAN
  BY <1>2, Zenon
<1> QED BY <1>1, <1>2, <1>3, <1>5, <1>6 DEF OwnershipInv, StatusMatchesOwner

LEMMA OwnershipStep == OwnershipInv /\ [NextOwnership]_ownershipVars => OwnershipInv'
<1> SUFFICES ASSUME OwnershipInv, [NextOwnership]_ownershipVars PROVE OwnershipInv'
  OBVIOUS
<1> USE RetriesAssumption DEF OwnershipInv, StatusMatchesOwner
<1>1. CASE OthersAct
  BY <1>1 DEF OthersAct
<1>2. CASE NameLost
  BY <1>2 DEF NameLost
\* A failure is counted, and the count never returns to 0 by it.
<1>3. ASSUME NEW next, FailOwnership(next)
      PROVE  retries' \in 0..MaxRetries /\ retries' > 0 /\ step' = next
  BY <1>3 DEF FailOwnership
<1>4. CASE CheckOwner
  <2>1. CASE ~connection /\ owned' = FALSE /\ step' = "start" /\ UNCHANGED <<owner, connection, registered, retries, seen>>
    BY <2>1
  <2>2. CASE connection /\ owner = "this" /\ Finds /\ UNCHANGED <<owner, connection, registered, retries>>
    BY <2>2 DEF Finds
  <2>3. CASE /\ connection /\ owner # "this" /\ owned' = FALSE /\ step' = "request"
             /\ UNCHANGED <<owner, connection, registered, retries, seen>>
    BY <2>3
  <2>4. CASE connection /\ owned' = FALSE /\ DropConnection /\ FailOwnership("start") /\ UNCHANGED registered
    <3>1. retries' \in 0..MaxRetries /\ retries' > 0 /\ step' = "start"
      BY <1>3, <2>4
    <3>2. connection' = FALSE /\ seen' = FALSE /\ owned' = FALSE /\ registered' \in BOOLEAN
      BY <2>4, Zenon DEF DropConnection
    <3> QED BY <3>1, <3>2
  <2> QED BY <1>4, <2>1, <2>2, <2>3, <2>4 DEF CheckOwner
<1>5. CASE RequestName
  BY <1>3, <1>5 DEF RequestName
<1>6. CASE Recheck
  <2>1. CASE owner = "this" /\ Finds /\ UNCHANGED <<owner, connection, registered, retries>>
    <3>1. owned' = TRUE /\ seen' = TRUE /\ step' = "publish" /\ owner' = "this" /\ retries' = retries
      BY <2>1 DEF Finds
    <3>2. registered' \in BOOLEAN /\ step = "recheck" /\ connection' = connection
      BY <1>6, <2>1, Zenon DEF Recheck
    <3>3. connection' = TRUE
      BY <3>2
    <3> QED BY <3>1, <3>2, <3>3
  <2>2. CASE FailOwnership("publish") /\ UNCHANGED <<owner, connection, registered, owned, seen>>
    BY <1>3, <1>6, <2>2 DEF Recheck
  <2>3. CASE DropConnection /\ FailOwnership("start") /\ UNCHANGED <<registered, owned>>
    <3>1. retries' \in 0..MaxRetries /\ retries' > 0 /\ step' = "start" /\ step = "recheck"
      BY <1>3, <1>6, <2>3 DEF Recheck
    <3>2. connection' = FALSE /\ seen' = FALSE
      BY <2>3 DEF DropConnection
    <3>3. owned' = owned /\ ~owned
      BY <2>3, <3>1
    <3>4. registered' \in BOOLEAN /\ owned' \in BOOLEAN
      BY <2>3, <3>3, Zenon
    <3> QED BY <3>1, <3>2, <3>3, <3>4
  <2> QED BY <1>6, <2>1, <2>2, <2>3 DEF Recheck
<1>7. CASE StartBridge
  <2>1. CASE owner' = "this" /\ connection' = TRUE /\ Finds /\ UNCHANGED <<registered, retries>>
    BY <2>1 DEF Finds
  <2>2. CASE FailOwnership("publish") /\ UNCHANGED <<owner, connection, registered, owned, seen>>
    BY <1>3, <1>7, <2>2 DEF StartBridge
  <2> QED BY <1>7, <2>1, <2>2 DEF StartBridge
<1>8. CASE Publish
  BY <1>8 DEF Publish
<1>9. CASE Wake
  BY <1>9 DEF Wake
<1>10. CASE UNCHANGED ownershipVars
  BY <1>10 DEF ownershipVars
<1> QED BY <1>1, <1>2, <1>4, <1>5, <1>6, <1>7, <1>8, <1>9, <1>10 DEF NextOwnership

(* After each round the status tells what the round has found: window      *)
(* actions are enabled only on a connection that was seen to own the name, *)
(* and failures are counted exactly while they are not, whatever the bus   *)
(* and the other daemons do between the calls of the loop.                 *)
THEOREM StatusMatchesOwnerHolds == SpecOwnership => []StatusMatchesOwner
<1>1. OwnershipInv => StatusMatchesOwner
  BY DEF OwnershipInv
<1> QED BY <1>1, OwnershipStart, OwnershipStep, PTL DEF SpecOwnership

-----------------------------------------------------------------------------
(* The window actions: what the requests and the calls on the way are.     *)

Results == NewWindows \cup {"error"}
Calls == {Acknowledge(l) : l \in Launches}
         \cup {Result(x, r) : x \in Launches \cup Orders, r \in Results}
OrderRecords ==
    [state: {"idle", "waiting", "done", "failed"}, action: {Nothing, "close_window", "move_window"},
     by: Launches \cup {Nothing}, window: NewWindows \cup {Nothing}]

(* Requests and calls are what their fields say, and the fields are those   *)
(* of the handlers.                                                         *)
LEMMA RequestFields ==
    /\ \A l : LaunchWindow(l).id = l /\ LaunchWindow(l).action = "launch_window"
    /\ \A l : CancelLaunch(l).id = l /\ CancelLaunch(l).action = "cancel_launch_window"
    /\ \A o, w : /\ CloseWindow(o, w).id = o /\ CloseWindow(o, w).window = w
                 /\ CloseWindow(o, w).action = "close_window"
    /\ \A o, w : /\ MoveWindow(o, w).id = o /\ MoveWindow(o, w).window = w
                 /\ MoveWindow(o, w).action = "move_window"
    /\ \A l : Acknowledge(l).id = l /\ Acknowledge(l).call = "AcknowledgeAction"
    /\ \A x, r : Result(x, r).id = x /\ Result(x, r).result = r /\ Result(x, r).call = "CompleteAction"
BY DEF LaunchWindow, CancelLaunch, CloseWindow, MoveWindow, Acknowledge, Result

LEMMA RequestKinds ==
    /\ \A l \in Launches : LaunchWindow(l) \in WindowRequests /\ CancelLaunch(l) \in WindowRequests
    /\ \A o \in Orders, w \in NewWindows :
           CloseWindow(o, w) \in WindowRequests /\ MoveWindow(o, w) \in WindowRequests
    /\ \A a \in WindowRequests :
           \/ \E l \in Launches : a = LaunchWindow(l)
           \/ \E l \in Launches : a = CancelLaunch(l)
           \/ \E o \in Orders, w \in NewWindows : a = CloseWindow(o, w)
           \/ \E o \in Orders, w \in NewWindows : a = MoveWindow(o, w)
    /\ \A l \in Launches : Acknowledge(l) \in Calls
    /\ \A x \in Launches \cup Orders, r \in Results : Result(x, r) \in Calls
    /\ \A c \in Calls : \/ \E l \in Launches : c = Acknowledge(l)
                        \/ \E x \in Launches \cup Orders, r \in Results : c = Result(x, r)
BY DEF WindowRequests, Calls

(* What remove() leaves in the queue.                                       *)
LEMMA HasRemoved ==
    ASSUME NEW s \in Seq(WindowRequests), NEW id
    PROVE  /\ RemoveFrom(s, id) \in Seq(WindowRequests)
           /\ \A x : Has(RemoveFrom(s, id), x) <=>
                     Has(s, x) /\ ~(x.id = id /\ x.action # "cancel_launch_window")
           /\ \A x : Once(s, x) => Once(RemoveFrom(s, id), x)
<1> DEFINE X == {a \in ToSet(s) : a.id = id /\ a.action # "cancel_launch_window"}
<1>1. \A x : Has(s, x) => (x \in X <=> x.id = id /\ x.action # "cancel_launch_window")
  BY DEF Has, ToSet
<1>2. RemoveFrom(s, id) = Without(s, X)
  BY DEF RemoveFrom
<1> HIDE DEF X
<1> QED BY <1>1, <1>2, HasWithout

(* One call, handled once.                                                   *)
LEMMA HasCalledOff ==
    ASSUME NEW l, launchIntents \in Seq(Launches)
    PROVE  /\ CalledOff(l) \in Seq(Launches)
           /\ \A x : Has(CalledOff(l), x) <=> Has(launchIntents, x) /\ x # l
           /\ \A x : Once(launchIntents, x) => Once(CalledOff(l), x)
BY HasWithout DEF CalledOff

-----------------------------------------------------------------------------
(* The inductive invariant of the window actions.                          *)

\* How far a request has come.
LaunchStates == {"idle", "arming", "launching", "finishing", "done", "unarmed", "failed", "unpolled"}
Reported(x, r) == Has(calls, Result(x, r))
Answered(x) ==
    \/ \E w \in NewWindows : <<x, w>> \in settling
    \/ \E r \in Results : Reported(x, r)
Taken(l) == Answered(l) \/ outcome[l] # Nothing
Begun(l) == \/ Has(calls, Acknowledge(l)) \/ Has(launchIntents, l) \/ Taken(l)
            \/ launch[l] \in {"launching", "finishing", "done", "failed", "unpolled"}

\* A launch goes through the queue, the reply, the intent and the result once
\* and in this order, and is called off as long as the script holds its intent.
LaunchOK(l) ==
    /\ Has(pending, LaunchWindow(l)) =>
          launch[l] = "arming" /\ ~Has(replies, LaunchWindow(l)) /\ ~Begun(l)
    /\ Has(replies, LaunchWindow(l)) => ~Begun(l)
    /\ launch[l] = "idle" => ~Has(replies, LaunchWindow(l)) /\ ~Begun(l)
    /\ Once(pending, LaunchWindow(l)) /\ Once(replies, LaunchWindow(l)) /\ Once(launchIntents, l)
    /\ Has(launchIntents, l) => ~Taken(l)
    /\ l \in waiters => outcome[l] = Nothing /\ launch[l] \in {"arming", "launching", "finishing", "unpolled"}
    /\ launch[l] = "failed" /\ Has(launchIntents, l) =>
          Has(pending, CancelLaunch(l)) \/ Has(replies, CancelLaunch(l))

\* What is under way for an order is its own request, which a queue holds once.
RequestOf(o) == [action |-> order[o].action, id |-> o, window |-> order[o].window]
OrderOK(o) ==
    /\ \A a \in WindowRequests : a.id = o /\ (Has(pending, a) \/ Has(replies, a)) =>
          a = RequestOf(o) /\ order[o].state # "idle"
    /\ Has(pending, RequestOf(o)) =>
          order[o].state = "waiting" /\ ~Has(replies, RequestOf(o)) /\ ~Answered(o)
    /\ Once(pending, RequestOf(o))
    /\ order[o].state = "idle" => ~Answered(o)
    /\ order[o].action = "close_window" =>
          order[o].by \in Launches /\ order[o].window \in NewWindows
            /\ outcome[order[o].by] = order[o].window

\* A window that has been taken for a launch is taken for no other, and stays so
\* until its client is told.
Claims(l, w) == <<l, w>> \in settling \/ Reported(l, w) \/ outcome[l] = w
WindowOK(w) ==
    /\ \A l, k \in Launches : Claims(l, w) /\ Claims(k, w) => l = k
    /\ \A l \in Launches : Claims(l, w) => opener[w] # Nothing
    /\ launched[w] # Nothing => outcome[launched[w]] = w

Typed == WindowTypeOK /\ calls \in Seq(Calls) /\ order \in [Orders -> OrderRecords]

WindowInv ==
    /\ Typed
    /\ \A l \in Launches : LaunchOK(l)
    /\ \A o \in Orders : OrderOK(o)
    /\ \A w \in NewWindows : WindowOK(w)

\* Steps in which a launch, an order or a window only loses what it has.
LaunchKept(l) ==
    /\ launch'[l] = launch[l] /\ outcome'[l] = outcome[l]
    /\ l \in waiters' => l \in waiters
    /\ Has(pending', LaunchWindow(l)) => Has(pending, LaunchWindow(l))
    /\ Has(replies', LaunchWindow(l)) => Has(replies, LaunchWindow(l))
    /\ Has(launchIntents', l) => Has(launchIntents, l)
    /\ Has(calls', Acknowledge(l)) => Has(calls, Acknowledge(l))
    /\ Answered(l)' => Answered(l)
    /\ Once(pending, LaunchWindow(l)) => Once(pending', LaunchWindow(l))
    /\ Once(replies, LaunchWindow(l)) => Once(replies', LaunchWindow(l))
    /\ Once(launchIntents, l) => Once(launchIntents', l)
    /\ Has(launchIntents', l) /\ (Has(pending, CancelLaunch(l)) \/ Has(replies, CancelLaunch(l))) =>
          Has(pending', CancelLaunch(l)) \/ Has(replies', CancelLaunch(l))

OutcomesKept == \A l \in Launches : outcome[l] # Nothing => outcome'[l] = outcome[l]

OrderKept(o) ==
    /\ order'[o] = order[o]
    /\ \A a \in WindowRequests : a.id = o => /\ Has(pending', a) => Has(pending, a)
                                             /\ Has(replies', a) => Has(replies, a)
    /\ \A a : a.id = o /\ Once(pending, a) => Once(pending', a)
    /\ Answered(o)' => Answered(o)

WindowKept(w) ==
    /\ \A l \in Launches : Claims(l, w)' => Claims(l, w)
    /\ opener[w] # Nothing => opener'[w] # Nothing
    /\ launched'[w] \in {launched[w], Nothing}

\* What only loses keeps its part of the invariant.
LEMMA LaunchStays == ASSUME NEW l \in Launches, LaunchOK(l), LaunchKept(l) PROVE LaunchOK(l)'
BY DEF LaunchOK, LaunchKept, Begun, Taken

LEMMA OrderStays ==
    ASSUME NEW o \in Orders, Typed, Typed', OrderOK(o), OrderKept(o), OutcomesKept,
           Nothing \notin NewWindows
    PROVE  OrderOK(o)'
<1>1. RequestOf(o)' = RequestOf(o) /\ RequestOf(o).id = o
  BY DEF RequestOf, OrderKept
<1>2. order[o].action = "close_window" => outcome'[order[o].by] = outcome[order[o].by]
  BY DEF OrderOK, OutcomesKept
<1>3. order[o].action \in {Nothing, "close_window", "move_window"} /\ order[o].window \in NewWindows \cup {Nothing}
  BY DEF Typed, OrderRecords
<1>4. Once(pending', RequestOf(o)) 
  BY <1>1 DEF OrderOK, OrderKept
<1>5. \A a \in WindowRequests : a.id = o /\ (Has(pending', a) \/ Has(replies', a)) =>
          a = RequestOf(o) /\ order'[o].state # "idle"
  BY DEF OrderOK, OrderKept
<1>6. Has(pending', RequestOf(o)) => Has(pending, RequestOf(o)) /\ (Has(replies', RequestOf(o)) => Has(replies, RequestOf(o)))
  <2> SUFFICES ASSUME Has(pending', RequestOf(o)) PROVE RequestOf(o) \in WindowRequests
    BY <1>1 DEF OrderKept
  <2> QED BY DEF Has, Typed, WindowTypeOK
<1> HIDE DEF RequestOf
<1>7. order'[o] = order[o] /\ (Answered(o)' => Answered(o))
  BY DEF OrderKept
<1> QED BY <1>1, <1>2, <1>4, <1>5, <1>6, <1>7 DEF OrderOK

LEMMA WindowStays ==
    ASSUME NEW w \in NewWindows, Typed, WindowOK(w), WindowKept(w), OutcomesKept, Nothing \notin NewWindows
    PROVE  WindowOK(w)'
<1>1. launched'[w] # Nothing => launched'[w] = launched[w] /\ launched[w] \in Launches /\ outcome'[launched[w]] = w
  BY DEF WindowOK, WindowKept, OutcomesKept, Typed, WindowTypeOK
<1>2. \A l \in Launches : Claims(l, w)' => Claims(l, w) /\ opener'[w] # Nothing
  BY DEF WindowOK, WindowKept
<1> QED BY <1>1, <1>2 DEF WindowOK, WindowKept

\* It is enough to say which launches, orders and windows a step concerns.
LEMMA InvKept ==
    ASSUME WindowInv, Typed', OutcomesKept,
           \A l \in Launches : LaunchKept(l) \/ LaunchOK(l)',
           \A o \in Orders : OrderKept(o) \/ OrderOK(o)',
           \A w \in NewWindows : WindowKept(w) \/ WindowOK(w)'
    PROVE  WindowInv'
<1>1. Nothing \notin NewWindows
  BY WindowAssumption
<1>2. \A l \in Launches : LaunchOK(l)'
  BY LaunchStays DEF WindowInv
<1>3. \A o \in Orders : OrderOK(o)'
  BY <1>1, OrderStays DEF WindowInv
<1>4. \A w \in NewWindows : WindowOK(w)'
  BY <1>1, WindowStays DEF WindowInv
<1> QED BY <1>2, <1>3, <1>4 DEF WindowInv

-----------------------------------------------------------------------------
(* The daemon's steps.                                                     *)

LEMMA ArmLaunchKeeps == ASSUME WindowInv, NEW l \in Launches, ArmLaunch(l) PROVE WindowInv'
<1>1. pending \in Seq(WindowRequests) /\ LaunchWindow(l) \in WindowRequests
  BY RequestKinds DEF WindowInv, Typed, WindowTypeOK
<1>2. /\ pending' \in Seq(WindowRequests)
      /\ \A x : Has(pending', x) <=> Has(pending, x) \/ x = LaunchWindow(l)
      /\ \A x : Once(pending, x) /\ ~(x = LaunchWindow(l) /\ Has(pending, LaunchWindow(l))) => Once(pending', x)
  BY <1>1, HasAppend DEF ArmLaunch
<1>3. UNCHANGED <<replies, calls, script, ready, stops, launchIntents, settling, starting, opener, open,
                  outcome, launched, order>>
  BY DEF ArmLaunch, scripts, screen
<1>4. launch[l] = "idle" /\ launch' = [launch EXCEPT ![l] = "arming"]
      /\ waiters' = waiters \cup {l} /\ acknowledgements' = acknowledgements \cup {l}
  BY DEF ArmLaunch, Becomes
<1>5. Typed'
  <2>1. launch' \in [Launches -> LaunchStates]
    BY <1>4 DEF LaunchStates, WindowInv, Typed, WindowTypeOK
  <2>2. \A k \in Launches : launch'[k] = "arming" <=> k \in acknowledgements'
    BY <1>4 DEF WindowInv, Typed, WindowTypeOK
  <2>3. \A o \in Orders : order'[o].state = "waiting" <=> o \in waiters'
    BY <1>3, <1>4, WindowAssumption DEF WindowInv, Typed, WindowTypeOK
  <2> QED BY <1>2, <1>3, <1>4, <2>1, <2>2, <2>3 DEF WindowInv, Typed, WindowTypeOK
<1>6. OutcomesKept
  BY <1>3 DEF OutcomesKept
<1>7. ASSUME NEW k \in Launches, k # l PROVE LaunchKept(k)
  <2>1. LaunchWindow(k) # LaunchWindow(l)
    BY <1>7, RequestFields
  <2>2. launch'[k] = launch[k]
    BY <1>4, <1>7 DEF WindowInv, Typed, WindowTypeOK
  <2> QED BY <1>2, <1>3, <1>4, <1>7, <2>1, <2>2 DEF LaunchKept, Answered, Reported
<1>8. LaunchOK(l)'
  <2>1. launch'[l] = "arming" /\ LaunchOK(l)
    BY <1>4 DEF WindowInv, Typed, WindowTypeOK
  <2> QED BY <1>2, <1>3, <1>4, <2>1 DEF LaunchOK, Begun, Taken, Answered, Reported
<1>9. \A o \in Orders : OrderKept(o)
  <2> SUFFICES ASSUME NEW o \in Orders PROVE OrderKept(o)
    OBVIOUS
  <2>1. LaunchWindow(l).id # o
    BY RequestFields, WindowAssumption
  <2> QED BY <1>2, <1>3, <2>1 DEF OrderKept, Answered, Reported
<1>10. \A w \in NewWindows : WindowKept(w)
  BY <1>3 DEF WindowKept, Claims, Reported
<1> QED BY <1>5, <1>6, <1>7, <1>8, <1>9, <1>10, InvKept

LEMMA ArmTimeoutKeeps == ASSUME WindowInv, NEW l \in Launches, ArmTimeout(l) PROVE WindowInv'
<1>1. pending \in Seq(WindowRequests)
  BY DEF WindowInv, Typed, WindowTypeOK
<1>2. /\ pending' \in Seq(WindowRequests)
      /\ \A x : Has(pending', x) <=> Has(pending, x) /\ ~(x.id = l /\ x.action # "cancel_launch_window")
      /\ \A x : Once(pending, x) => Once(pending', x)
  BY <1>1, HasRemoved DEF ArmTimeout, Forget
<1>3. UNCHANGED <<replies, calls, script, ready, stops, launchIntents, settling, starting, opener, open,
                  outcome, launched, order>>
  BY DEF ArmTimeout, scripts, screen
<1>4. launch[l] = "arming" /\ launch' = [launch EXCEPT ![l] = "unarmed"]
      /\ waiters' = waiters \ {l} /\ acknowledgements' = acknowledgements \ {l}
  BY DEF ArmTimeout, Forget, Becomes
<1>5. Typed'
  <2>1. launch' \in [Launches -> LaunchStates]
    BY <1>4 DEF LaunchStates, WindowInv, Typed, WindowTypeOK
  <2>2. \A k \in Launches : launch'[k] = "arming" <=> k \in acknowledgements'
    BY <1>4 DEF WindowInv, Typed, WindowTypeOK
  <2>3. \A o \in Orders : order'[o].state = "waiting" <=> o \in waiters'
    BY <1>3, <1>4, WindowAssumption DEF WindowInv, Typed, WindowTypeOK
  <2> QED BY <1>2, <1>3, <1>4, <2>1, <2>2, <2>3 DEF WindowInv, Typed, WindowTypeOK
<1>6. OutcomesKept
  BY <1>3 DEF OutcomesKept
<1>7. ASSUME NEW k \in Launches, k # l PROVE LaunchKept(k)
  <2>1. launch'[k] = launch[k]
    BY <1>4, <1>7 DEF WindowInv, Typed, WindowTypeOK
  <2>2. CancelLaunch(k).action = "cancel_launch_window"
    BY RequestFields
  <2> QED BY <1>2, <1>3, <1>4, <1>7, <2>1, <2>2 DEF LaunchKept, Answered, Reported
<1>8. LaunchOK(l)'
  <2>1. launch'[l] = "unarmed" /\ LaunchOK(l)
    BY <1>4 DEF WindowInv, Typed, WindowTypeOK
  <2>2. LaunchWindow(l).id = l /\ LaunchWindow(l).action # "cancel_launch_window"
    BY RequestFields
  <2> QED BY <1>2, <1>3, <1>4, <2>1, <2>2 DEF LaunchOK, Begun, Taken, Answered, Reported
<1>9. \A o \in Orders : OrderKept(o)
  BY <1>2, <1>3 DEF OrderKept, Answered, Reported
<1>10. \A w \in NewWindows : WindowKept(w)
  BY <1>3 DEF WindowKept, Claims, Reported
<1> QED BY <1>5, <1>6, <1>7, <1>8, <1>9, <1>10, InvKept

(* What cancel_launch_window() leaves in the queue.                          *)
LEMMA HasCancelled ==
    ASSUME NEW l \in Launches, pending \in Seq(WindowRequests), CancelLaunchWindow(l)
    PROVE  /\ pending' \in Seq(WindowRequests)
           /\ \A x : Has(pending', x) <=> \/ x = CancelLaunch(l)
                                          \/ Has(pending, x) /\ ~(x.id = l /\ x.action # "cancel_launch_window")
           /\ \A x : x # CancelLaunch(l) /\ Once(pending, x) => Once(pending', x)
           /\ waiters' = waiters \ {l} /\ acknowledgements' = acknowledgements \ {l}
<1> DEFINE left == RemoveFrom(pending, l)
<1>1. /\ left \in Seq(WindowRequests)
      /\ \A x : Has(left, x) <=> Has(pending, x) /\ ~(x.id = l /\ x.action # "cancel_launch_window")
      /\ \A x : Once(pending, x) => Once(left, x)
  BY HasRemoved
<1>2. CancelLaunch(l) \in WindowRequests
  BY RequestKinds
<1>3. pending' = Append(left, CancelLaunch(l))
  BY DEF CancelLaunchWindow
<1> HIDE DEF left
<1>4. /\ pending' \in Seq(WindowRequests)
      /\ \A x : Has(pending', x) <=> Has(left, x) \/ x = CancelLaunch(l)
      /\ \A x : Once(left, x) /\ ~(x = CancelLaunch(l) /\ Has(left, x)) => Once(pending', x)
  BY <1>1, <1>2, <1>3, HasAppend
<1> QED BY <1>1, <1>4 DEF CancelLaunchWindow

\* A launch that is given up after it was armed.
LEMMA GivenUpKeeps ==
    ASSUME WindowInv, NEW l \in Launches, launch[l] \in {"launching", "finishing"},
           Becomes(l, "failed"), CancelLaunchWindow(l), starting' \subseteq Launches,
           UNCHANGED <<replies, calls, script, ready, stops, launchIntents, settling, opener, open,
                  outcome, launched, order>>
    PROVE WindowInv'
<1>1. pending \in Seq(WindowRequests)
  BY DEF WindowInv, Typed, WindowTypeOK
<1>2. /\ pending' \in Seq(WindowRequests)
      /\ \A x : Has(pending', x) <=> \/ x = CancelLaunch(l)
                                     \/ Has(pending, x) /\ ~(x.id = l /\ x.action # "cancel_launch_window")
      /\ \A x : x # CancelLaunch(l) /\ Once(pending, x) => Once(pending', x)
      /\ waiters' = waiters \ {l} /\ acknowledgements' = acknowledgements \ {l}
  BY <1>1, HasCancelled
<1>4. launch' = [launch EXCEPT ![l] = "failed"]
  BY DEF Becomes
<1>5. Typed'
  <2>1. launch' \in [Launches -> LaunchStates]
    BY <1>4 DEF LaunchStates, WindowInv, Typed, WindowTypeOK
  <2>2. \A k \in Launches : launch'[k] = "arming" <=> k \in acknowledgements'
    BY <1>2, <1>4 DEF WindowInv, Typed, WindowTypeOK
  <2>3. \A o \in Orders : order'[o].state = "waiting" <=> o \in waiters'
    BY <1>2, WindowAssumption DEF WindowInv, Typed, WindowTypeOK
  <2> QED BY <1>2, <2>1, <2>2, <2>3 DEF LaunchStates, WindowInv, Typed, WindowTypeOK
<1>6. OutcomesKept
  BY DEF OutcomesKept
<1>7. ASSUME NEW k \in Launches, k # l PROVE LaunchKept(k)
  <2>1. launch'[k] = launch[k]
    BY <1>4, <1>7 DEF WindowInv, Typed, WindowTypeOK
  <2>2. /\ CancelLaunch(k).action = "cancel_launch_window"
        /\ LaunchWindow(k) # CancelLaunch(l) /\ LaunchWindow(k).id # l
    BY <1>7, RequestFields
  <2> QED BY <1>2, <1>7, <2>1, <2>2 DEF LaunchKept, Answered, Reported
<1>8. LaunchOK(l)'
  <2>1. launch'[l] = "failed" /\ LaunchOK(l)
    BY <1>4 DEF WindowInv, Typed, WindowTypeOK
  <2>2. /\ LaunchWindow(l).id = l /\ LaunchWindow(l).action # "cancel_launch_window"
        /\ LaunchWindow(l) # CancelLaunch(l)
    BY RequestFields
  <2> QED BY <1>2, <2>1, <2>2 DEF LaunchOK, Begun, Taken, Answered, Reported
<1>9. \A o \in Orders : OrderKept(o)
  <2> SUFFICES ASSUME NEW o \in Orders PROVE OrderKept(o)
    OBVIOUS
  <2>1. CancelLaunch(l).id # o
    BY RequestFields, WindowAssumption
  <2> QED BY <1>2, <2>1 DEF OrderKept, Answered, Reported
<1>10. \A w \in NewWindows : WindowKept(w)
  BY DEF WindowKept, Claims, Reported
<1> QED BY <1>5, <1>6, <1>7, <1>8, <1>9, <1>10, InvKept

LEMMA LaunchEntryKeeps == ASSUME WindowInv, NEW l \in Launches, LaunchEntry(l) PROVE WindowInv'
<1>1. starting' \subseteq Launches
  BY DEF LaunchEntry, WindowInv, Typed, WindowTypeOK
<1>2. /\ launch[l] = "launching"
      /\ UNCHANGED <<replies, calls, script, ready, stops, launchIntents, settling, opener, open,
                     outcome, launched, order>>
  BY DEF LaunchEntry, scripts
<1>3. CASE Becomes(l, "failed") /\ CancelLaunchWindow(l)
  BY <1>1, <1>2, <1>3, GivenUpKeeps
<1>4. CASE (Becomes(l, "finishing") \/ Becomes(l, "unpolled")) /\ UNCHANGED queue
  <2>0. PICK s \in {"finishing", "unpolled"} : launch' = [launch EXCEPT ![l] = s]
    BY <1>4 DEF Becomes
  <2>1. launch' = [launch EXCEPT ![l] = s] /\ UNCHANGED <<pending, waiters, acknowledgements>>
    BY <1>4, <2>0 DEF queue
  <2>2. Typed'
    <3>1. launch' \in [Launches -> LaunchStates]
      BY <2>1 DEF LaunchStates, WindowInv, Typed, WindowTypeOK
    <3>2. \A k \in Launches : launch'[k] = "arming" <=> k \in acknowledgements'
      BY <1>2, <2>1 DEF WindowInv, Typed, WindowTypeOK
    <3> QED BY <1>1, <1>2, <2>1, <3>1, <3>2 DEF LaunchStates, WindowInv, Typed, WindowTypeOK
  <2>3. OutcomesKept
    BY <1>2 DEF OutcomesKept
  <2>4. ASSUME NEW k \in Launches, k # l PROVE LaunchKept(k)
    <3>1. launch'[k] = launch[k]
      BY <2>1, <2>4 DEF WindowInv, Typed, WindowTypeOK
    <3> QED BY <1>2, <2>1, <3>1 DEF LaunchKept, Answered, Reported
  <2>5. LaunchOK(l)'
    <3>1. launch'[l] = s /\ LaunchOK(l)
      BY <2>1 DEF WindowInv, Typed, WindowTypeOK
    <3> QED BY <1>2, <2>1, <3>1 DEF LaunchOK, Begun, Taken, Answered, Reported
  <2>6. \A o \in Orders : OrderKept(o)
    BY <1>2, <2>1 DEF OrderKept, Answered, Reported
  <2>7. \A w \in NewWindows : WindowKept(w)
    BY <1>2 DEF WindowKept, Claims, Reported
  <2> QED BY <2>2, <2>3, <2>4, <2>5, <2>6, <2>7, InvKept
<1> QED BY <1>3, <1>4 DEF LaunchEntry

LEMMA FinishTimeoutKeeps == ASSUME WindowInv, NEW l \in Launches, FinishTimeout(l) PROVE WindowInv'
<1>1. starting' \subseteq Launches
  BY DEF FinishTimeout, screen, WindowInv, Typed, WindowTypeOK
<1>2. /\ launch[l] = "finishing" /\ Becomes(l, "failed") /\ CancelLaunchWindow(l)
      /\ UNCHANGED <<replies, calls, script, ready, stops, launchIntents, settling, opener, open,
                     outcome, launched, order>>
  BY DEF FinishTimeout, scripts, screen
<1> QED BY <1>1, <1>2, GivenUpKeeps

LEMMA FinishLaunchKeeps == ASSUME WindowInv, NEW l \in Launches, FinishLaunch(l) PROVE WindowInv'
<1>1. /\ launch[l] = "finishing" /\ outcome[l] # Nothing
      /\ UNCHANGED <<pending, waiters, acknowledgements, replies, calls, script, ready, stops, launchIntents,
                     settling, starting, opener, open, outcome, order>>
  BY DEF FinishLaunch, queue, scripts, screen
<1>2. PICK s \in {"done", "failed"} : launch' = [launch EXCEPT ![l] = s]
  BY DEF FinishLaunch, Becomes
<1>3. \/ launched' = launched
      \/ outcome[l] \in NewWindows /\ launched' = [launched EXCEPT ![outcome[l]] = l]
  BY DEF FinishLaunch
<1>4. launch' \in [Launches -> LaunchStates]
      /\ launch'[l] = s /\ \A k \in Launches : k # l => launch'[k] = launch[k]
  BY <1>2 DEF LaunchStates, WindowInv, Typed, WindowTypeOK
<1>5. Typed'
  <2>1. launched' \in [NewWindows -> Launches \cup {Nothing}]
    BY <1>3 DEF WindowInv, Typed, WindowTypeOK
  <2>2. \A k \in Launches : launch'[k] = "arming" <=> k \in acknowledgements'
    BY <1>1, <1>4 DEF WindowInv, Typed, WindowTypeOK
  <2> QED BY <1>1, <1>4, <2>1, <2>2 DEF LaunchStates, WindowInv, Typed, WindowTypeOK
<1>6. OutcomesKept
  BY <1>1 DEF OutcomesKept
<1>7. ASSUME NEW k \in Launches, k # l PROVE LaunchKept(k)
  BY <1>1, <1>4, <1>7 DEF LaunchKept, Answered, Reported
<1>8. LaunchOK(l)'
  <2>1. LaunchOK(l)
    BY DEF WindowInv
  <2>2. l \notin waiters /\ ~Has(launchIntents, l)
    BY <1>1, <2>1 DEF LaunchOK, Taken
  <2> QED BY <1>1, <1>4, <2>1, <2>2 DEF LaunchOK, Begun, Taken, Answered, Reported
<1>9. \A o \in Orders : OrderKept(o)
  BY <1>1 DEF OrderKept, Answered, Reported
<1>10. ASSUME NEW w \in NewWindows PROVE WindowOK(w)'
  <2>1. WindowOK(w) /\ launched[w] \in Launches \cup {Nothing}
    BY DEF WindowInv, Typed, WindowTypeOK
  <2>2. launched'[w] = launched[w] \/ (launched'[w] = l /\ outcome[l] = w)
    BY <1>3 DEF WindowInv, Typed, WindowTypeOK
  <2> QED BY <1>1, <2>1, <2>2 DEF WindowOK, Claims, Reported
<1> QED BY <1>5, <1>6, <1>7, <1>8, <1>9, <1>10, InvKept

LEMMA LaunchedExpiresKeeps == ASSUME WindowInv, NEW w \in NewWindows, LaunchedExpires(w) PROVE WindowInv'
<1>1. /\ launched' = [launched EXCEPT ![w] = Nothing]
      /\ UNCHANGED <<pending, waiters, acknowledgements, replies, calls, script, ready, stops, launchIntents,
                     settling, starting, opener, open, launch, outcome, order>>
  BY DEF LaunchedExpires, queue, scripts, screen
<1>2. Typed'
  BY <1>1 DEF WindowInv, Typed, WindowTypeOK
<1>3. OutcomesKept /\ \A k \in Launches : LaunchKept(k)
  BY <1>1 DEF OutcomesKept, LaunchKept, Answered, Reported
<1>4. \A o \in Orders : OrderKept(o)
  BY <1>1 DEF OrderKept, Answered, Reported
<1>5. \A v \in NewWindows : WindowKept(v)
  BY <1>1 DEF WindowKept, Claims, Reported, WindowInv, Typed, WindowTypeOK
<1> QED BY <1>2, <1>3, <1>4, <1>5, InvKept

\* A close or a move is ordered.
LEMMA EnqueueKeeps ==
    ASSUME WindowInv, NEW o \in Orders, NEW w \in NewWindows, NEW l \in Launches \cup {Nothing}, NEW a,
           Enqueue(o, a, l, w),
           \/ a = CloseWindow(o, w) /\ l \in Launches /\ outcome[l] = w
           \/ a = MoveWindow(o, w)
    PROVE  WindowInv'
<1>1. pending \in Seq(WindowRequests) /\ a \in WindowRequests
  BY RequestKinds DEF WindowInv, Typed, WindowTypeOK
<1>2. /\ pending' \in Seq(WindowRequests)
      /\ \A x : Has(pending', x) <=> Has(pending, x) \/ x = a
      /\ \A x : Once(pending, x) /\ ~(x = a /\ Has(pending, a)) => Once(pending', x)
  BY <1>1, HasAppend DEF Enqueue
<1>3. UNCHANGED <<acknowledgements, replies, calls, script, ready, stops, launchIntents, settling,
                  starting, opener, open, launch, outcome, launched>>
  BY DEF Enqueue, scripts, screen
<1>4. a.id = o /\ a.action \in {"close_window", "move_window"} /\ a.window = w
      /\ a = [action |-> a.action, id |-> o, window |-> w]
  BY DEF CloseWindow, MoveWindow
<1> DEFINE r == [state |-> "waiting", action |-> a.action, by |-> l, window |-> w]
<1>5. order[o].state = "idle" /\ waiters' = waiters \cup {o} /\ order' = [order EXCEPT ![o] = r]
  BY DEF Enqueue
<1>6. r \in OrderRecords /\ r.state = "waiting" /\ r.action = a.action /\ r.by = l /\ r.window = w
  BY <1>4 DEF OrderRecords
<1> HIDE DEF r
<1>7. order' \in [Orders -> OrderRecords] /\ order'[o] = r /\ \A p \in Orders : p # o => order'[p] = order[p]
  BY <1>5, <1>6 DEF WindowInv, Typed
<1>8. Typed'
  <2> DEFINE States == {"idle", "waiting", "done", "failed"}
  <2>0. \A p \in Orders : order[p].state \in States /\ (order[p].state = "waiting" <=> p \in waiters)
    BY DEF WindowInv, Typed, WindowTypeOK
  <2>1. \A p \in Orders : order'[p].state \in States /\ (order'[p].state = "waiting" <=> p \in waiters')
    BY <2>0, <1>5, <1>6, <1>7
  <2> QED BY <1>2, <1>3, <1>5, <1>7, <2>1 DEF WindowInv, Typed, WindowTypeOK
<1>9. OutcomesKept
  BY <1>3 DEF OutcomesKept
<1>10. ASSUME NEW k \in Launches PROVE LaunchKept(k)
  <2>1. LaunchWindow(k) # a /\ CancelLaunch(k) # a /\ k # o
    BY <1>4, RequestFields, WindowAssumption
  <2> QED BY <1>2, <1>3, <1>5, <2>1 DEF LaunchKept, Answered, Reported
<1>11. ASSUME NEW p \in Orders, p # o PROVE OrderKept(p)
  BY <1>2, <1>3, <1>4, <1>7, <1>11 DEF OrderKept, Answered, Reported
<1>12. OrderOK(o)'
  <2>1. OrderOK(o)
    BY DEF WindowInv
  <2>2. RequestOf(o)' = a
    BY <1>4, <1>6, <1>7 DEF RequestOf
  <2>3. \A x \in WindowRequests : x.id = o => ~Has(pending, x) /\ ~Has(replies, x)
    BY <1>5, <2>1 DEF OrderOK
  <2>4. ~Answered(o)' /\ ~Has(pending, a) /\ ~Has(replies', a)
    BY <1>1, <1>3, <1>4, <1>5, <2>1, <2>3 DEF OrderOK, Answered, Reported
  <2>5. Once(pending', a)
    <3>1. Once(pending, a)
      BY <2>4 DEF Has, Once
    <3> QED BY <1>2, <2>4, <3>1
  <2>6. a.action = "close_window" => l \in Launches /\ outcome'[l] = w
    BY <1>3 DEF MoveWindow
  <2> QED BY <1>2, <1>3, <1>6, <1>7, <2>2, <2>3, <2>4, <2>5, <2>6 DEF OrderOK
<1>13. \A v \in NewWindows : WindowKept(v)
  BY <1>3 DEF WindowKept, Claims, Reported
<1> QED BY <1>8, <1>9, <1>10, <1>11, <1>12, <1>13, InvKept

LEMMA OrderCloseKeeps ==
    ASSUME WindowInv, NEW o \in Orders, NEW l \in Launches, NEW w \in NewWindows, OrderClose(o, l, w)
    PROVE  WindowInv'
<1>1. launched[w] = l /\ Enqueue(o, CloseWindow(o, w), l, w)
  BY DEF OrderClose, OwnedExact
<1>2. outcome[l] = w
  BY <1>1, WindowAssumption DEF WindowInv, WindowOK
<1> QED BY <1>1, <1>2, EnqueueKeeps

LEMMA OrderMoveKeeps ==
    ASSUME WindowInv, NEW o \in Orders, NEW w \in NewWindows, OrderMove(o, w)
    PROVE  WindowInv'
BY EnqueueKeeps DEF OrderMove

LEMMA OrderTimeoutKeeps == ASSUME WindowInv, NEW o \in Orders, OrderTimeout(o) PROVE WindowInv'
<1>1. pending \in Seq(WindowRequests)
  BY DEF WindowInv, Typed, WindowTypeOK
<1>2. /\ pending' \in Seq(WindowRequests)
      /\ \A x : Has(pending', x) <=> Has(pending, x) /\ ~(x.id = o /\ x.action # "cancel_launch_window")
      /\ \A x : Once(pending, x) => Once(pending', x)
      /\ waiters' = waiters \ {o} /\ acknowledgements' = acknowledgements \ {o}
  BY <1>1, HasRemoved DEF OrderTimeout, Forget
<1>3. UNCHANGED <<replies, calls, script, ready, stops, launchIntents, settling, starting, opener, open,
                  launch, outcome, launched>>
  BY DEF OrderTimeout, scripts, screen
<1>4. order[o].state = "waiting" /\ order' = [order EXCEPT ![o].state = "failed"]
  BY DEF OrderTimeout
<1>5. /\ order' \in [Orders -> OrderRecords]
      /\ order'[o].state = "failed" /\ order'[o].action = order[o].action
      /\ order'[o].by = order[o].by /\ order'[o].window = order[o].window
      /\ \A p \in Orders : p # o => order'[p] = order[p]
  BY <1>4 DEF WindowInv, Typed, OrderRecords
<1>6. Typed'
  <2> DEFINE States == {"idle", "waiting", "done", "failed"}
  <2>0. \A p \in Orders : order[p].state \in States /\ (order[p].state = "waiting" <=> p \in waiters)
    BY DEF WindowInv, Typed, WindowTypeOK
  <2>1. \A p \in Orders : order'[p].state \in States /\ (order'[p].state = "waiting" <=> p \in waiters')
    BY <2>0, <1>2, <1>5
  <2>2. acknowledgements' = acknowledgements
    BY <1>2, WindowAssumption DEF WindowInv, Typed, WindowTypeOK
  <2> QED BY <1>2, <1>3, <1>5, <2>1, <2>2 DEF WindowInv, Typed, WindowTypeOK
<1>7. OutcomesKept
  BY <1>3 DEF OutcomesKept
<1>8. ASSUME NEW k \in Launches PROVE LaunchKept(k)
  <2>1. LaunchWindow(k).id # o /\ CancelLaunch(k).id # o
    BY RequestFields, WindowAssumption
  <2> QED BY <1>2, <1>3, <2>1 DEF LaunchKept, Answered, Reported
<1>9. ASSUME NEW p \in Orders, p # o PROVE OrderKept(p)
  BY <1>2, <1>3, <1>5, <1>9 DEF OrderKept, Answered, Reported
<1>10. OrderOK(o)'
  <2>1. OrderOK(o)
    BY DEF WindowInv
  <2>2. RequestOf(o)' = RequestOf(o) /\ RequestOf(o).id = o
    BY <1>5 DEF RequestOf
  <2>3. \A x \in WindowRequests : x.id = o => ~Has(pending', x)
    <3>1. \A x \in WindowRequests : x.id = o => x.action # "cancel_launch_window"
      BY RequestKinds, RequestFields, WindowAssumption
    <3> QED BY <1>2, <3>1
  <2>4. ~Has(pending', RequestOf(o))
    <3> SUFFICES ASSUME Has(pending', RequestOf(o)) PROVE RequestOf(o) \in WindowRequests
      BY <2>2, <2>3
    <3> QED BY <1>2 DEF Has
  <2>5. Once(pending', RequestOf(o))
    BY <2>4 DEF Has, Once
  <2>6. \A x \in WindowRequests : x.id = o /\ Has(replies', x) => x = RequestOf(o)
    BY <1>3, <2>1 DEF OrderOK
  <2> QED BY <1>3, <1>5, <2>1, <2>2, <2>3, <2>4, <2>5, <2>6 DEF OrderOK
<1>11. \A v \in NewWindows : WindowKept(v)
  BY <1>3 DEF WindowKept, Claims, Reported
<1> QED BY <1>6, <1>7, <1>8, <1>9, <1>10, <1>11, InvKept

\* What a call taken off the way leaves there.
LEMMA CallTaken ==
    ASSUME Typed, Deliver
    PROVE  /\ calls' \in Seq(Calls) /\ Head(calls) \in Calls /\ Has(calls, Head(calls))
           /\ \A x : Has(calls', x) => Has(calls, x)
           /\ \A x : Has(calls, x) => Has(calls', x) \/ x = Head(calls)
           /\ UNCHANGED <<pending, replies, script, ready, stops, launchIntents, settling,
                          starting, opener, open>>
           /\ \A x : Answered(x)' => Answered(x)
<1>1. calls \in Seq(Calls) /\ calls # <<>> /\ calls' = Tail(calls)
  BY DEF Typed, Deliver
<1>2. /\ calls' \in Seq(Calls) /\ Head(calls) \in Calls /\ Has(calls, Head(calls))
      /\ \A x : Has(calls', x) => Has(calls, x)
      /\ \A x : Has(calls, x) => Has(calls', x) \/ x = Head(calls)
  BY <1>1, HasTail
<1>3. UNCHANGED <<pending, replies, script, ready, stops, launchIntents, settling, starting, opener, open>>
  BY DEF Deliver, scripts, screen
<1> QED BY <1>2, <1>3 DEF Answered, Reported

\* The three calls of the script.
LEMMA AcknowledgedKeeps ==
    ASSUME WindowInv, Deliver, NEW l \in Launches, Head(calls) = Acknowledge(l), Acknowledged(l)
    PROVE  WindowInv'
<1>1. /\ calls' \in Seq(Calls) /\ Has(calls, Acknowledge(l))
      /\ \A x : Has(calls', x) => Has(calls, x)
      /\ UNCHANGED <<pending, replies, script, ready, stops, launchIntents, settling, starting, opener, open>>
      /\ \A x : Answered(x)' => Answered(x)
  BY CallTaken DEF WindowInv
<1>2. acknowledgements' = acknowledgements \ {l} /\ UNCHANGED <<waiters, outcome, launched, order>>
  BY DEF Acknowledged
<1>3. \/ l \notin acknowledgements /\ launch' = launch
      \/ l \in acknowledgements /\ launch' = [launch EXCEPT ![l] = "launching"]
  BY DEF Acknowledged, Becomes
<1>4. \A k \in Launches : launch[k] = "arming" <=> k \in acknowledgements
  BY DEF WindowInv, Typed, WindowTypeOK
<1>5. /\ launch' \in [Launches -> LaunchStates]
      /\ \A k \in Launches : k # l => launch'[k] = launch[k]
      /\ \/ launch'[l] = launch[l] /\ launch[l] # "arming"
         \/ launch[l] = "arming" /\ launch'[l] = "launching"
  BY <1>3, <1>4 DEF LaunchStates, WindowInv, Typed, WindowTypeOK
<1>6. Typed'
  <2>1. ASSUME NEW k \in Launches PROVE launch'[k] = "arming" <=> k \in acknowledgements'
    <3>1. CASE k = l
      <4>1. launch'[l] # "arming" /\ l \notin acknowledgements'
        BY <1>2, <1>5
      <4> QED BY <3>1, <4>1
    <3>2. CASE k # l
      BY <1>2, <1>4, <1>5, <3>2
    <3> QED BY <3>1, <3>2
  <2> QED BY <1>1, <1>2, <1>5, <2>1 DEF LaunchStates, WindowInv, Typed, WindowTypeOK
<1>7. OutcomesKept
  BY <1>2 DEF OutcomesKept
<1>8. ASSUME NEW k \in Launches, launch'[k] = launch[k] PROVE LaunchKept(k)
  BY <1>1, <1>2, <1>8 DEF LaunchKept
<1>9. ASSUME launch[l] = "arming", launch'[l] = "launching" PROVE LaunchOK(l)'
  <2>1. LaunchOK(l) /\ Begun(l)
    BY <1>1 DEF WindowInv, Begun
  <2>2. ~Has(pending, LaunchWindow(l)) /\ ~Has(replies, LaunchWindow(l))
    BY <2>1 DEF LaunchOK
  <2> QED BY <1>1, <1>2, <1>9, <2>1, <2>2 DEF LaunchOK, Begun, Taken
<1>10. \A o \in Orders : OrderKept(o)
  BY <1>1, <1>2 DEF OrderKept
<1>11. \A w \in NewWindows : WindowKept(w)
  BY <1>1, <1>2 DEF WindowKept, Claims, Reported
<1>12. \A k \in Launches : LaunchKept(k) \/ LaunchOK(k)'
  <2> SUFFICES ASSUME NEW k \in Launches, launch'[k] # launch[k] PROVE LaunchOK(k)'
    BY <1>8
  <2>1. k = l
    BY <1>5
  <2> QED BY <1>5, <1>9, <2>1
<1> QED BY <1>6, <1>7, <1>10, <1>11, <1>12, InvKept

LEMMA LaunchCompletedKeeps ==
    ASSUME WindowInv, Deliver, NEW l \in Launches, NEW r \in Results,
           Head(calls) = Result(l, r), LaunchCompleted(l, r)
    PROVE  WindowInv'
<1>1. /\ calls' \in Seq(Calls) /\ Has(calls, Result(l, r))
      /\ \A x : Has(calls', x) => Has(calls, x)
      /\ UNCHANGED <<pending, replies, script, ready, stops, launchIntents, settling, starting, opener, open>>
      /\ \A x : Answered(x)' => Answered(x)
  BY CallTaken DEF WindowInv
<1>2. waiters' = waiters \ {l} /\ UNCHANGED <<acknowledgements, launch, launched, order>>
  BY DEF LaunchCompleted
<1>3. outcome' = IF l \in waiters /\ launch[l] # "unpolled" THEN [outcome EXCEPT ![l] = r] ELSE outcome
  BY DEF LaunchCompleted
<1>4. /\ outcome' \in [Launches -> NewWindows \cup {"error", Nothing}]
      /\ \A k \in Launches : k # l => outcome'[k] = outcome[k]
      /\ outcome'[l] = outcome[l] \/ (l \in waiters /\ outcome'[l] = r)
  BY <1>3 DEF WindowInv, Typed, WindowTypeOK, Results
<1>5. Typed'
  <2>1. \A o \in Orders : order'[o].state = "waiting" <=> o \in waiters'
    BY <1>2, WindowAssumption DEF WindowInv, Typed, WindowTypeOK
  <2> QED BY <1>1, <1>2, <1>4, <2>1 DEF WindowInv, Typed, WindowTypeOK
<1>6. LaunchOK(l) /\ Taken(l)
  BY <1>1 DEF WindowInv, Taken, Answered, Reported
<1>7. OutcomesKept
  <2>1. outcome[l] # Nothing => l \notin waiters
    BY <1>6 DEF LaunchOK
  <2> QED BY <1>4, <2>1 DEF OutcomesKept
<1>8. ASSUME NEW k \in Launches, k # l PROVE LaunchKept(k)
  BY <1>1, <1>2, <1>4, <1>8 DEF LaunchKept
<1>9. LaunchOK(l)'
  <2>1. ~Has(pending, LaunchWindow(l)) /\ ~Has(replies, LaunchWindow(l)) /\ launch[l] # "idle" /\ ~Has(launchIntents, l)
    BY <1>6 DEF LaunchOK, Begun
  <2> QED BY <1>1, <1>2, <1>6, <2>1 DEF LaunchOK
<1>10. \A o \in Orders : OrderKept(o)
  BY <1>1, <1>2 DEF OrderKept
<1>11. ASSUME NEW w \in NewWindows PROVE WindowKept(w)
  <2>1. Reported(l, r) /\ (outcome'[l] = r \/ outcome'[l] = outcome[l])
    BY <1>1, <1>4 DEF Reported
  <2>2. outcome'[l] = w => outcome[l] = w \/ Reported(l, w)
    BY <2>1
  <2> QED BY <1>1, <1>2, <1>4, <2>2 DEF WindowKept, Claims, Reported
<1> QED BY <1>5, <1>7, <1>8, <1>9, <1>10, <1>11, InvKept

LEMMA OrderCompletedKeeps ==
    ASSUME WindowInv, Deliver, NEW o \in Orders, NEW r \in Results,
           Head(calls) = Result(o, r), OrderCompleted(o, r)
    PROVE  WindowInv'
<1>1. /\ calls' \in Seq(Calls) /\ Has(calls, Result(o, r))
      /\ \A x : Has(calls', x) => Has(calls, x)
      /\ UNCHANGED <<pending, replies, script, ready, stops, launchIntents, settling, starting, opener, open>>
      /\ \A x : Answered(x)' => Answered(x)
  BY CallTaken DEF WindowInv
<1>2. waiters' = waiters \ {o} /\ UNCHANGED <<acknowledgements, launch, outcome>>
  BY DEF OrderCompleted
<1>3. PICK s \in {"done", "failed"} :
         order' = IF o \notin waiters THEN order ELSE [order EXCEPT ![o].state = s]
  BY DEF OrderCompleted
<1>4. launched' = launched \/ launched' = [launched EXCEPT ![order[o].window] = Nothing]
  BY DEF OrderCompleted
<1>5. OrderOK(o) /\ Answered(o)
  BY <1>1 DEF WindowInv, Answered, Reported
<1>6. order \in [Orders -> OrderRecords]
  BY DEF WindowInv, Typed
<1>7. /\ order' \in [Orders -> OrderRecords]
      /\ order'[o].action = order[o].action /\ order'[o].by = order[o].by /\ order'[o].window = order[o].window
      /\ o \notin waiters => order'[o] = order[o]
      /\ o \in waiters => order'[o].state = s
      /\ \A p \in Orders : p # o => order'[p] = order[p]
  BY <1>3, <1>6 DEF OrderRecords
<1>8. Typed'
  <2> DEFINE States == {"idle", "waiting", "done", "failed"}
  <2>1. \A p \in Orders : order[p].state \in States /\ (order[p].state = "waiting" <=> p \in waiters)
    BY DEF WindowInv, Typed, WindowTypeOK
  <2>2. \A p \in Orders : order'[p].state \in States /\ (order'[p].state = "waiting" <=> p \in waiters')
    BY <1>2, <1>7, <2>1
  <2>3. launched' \in [NewWindows -> Launches \cup {Nothing}]
    BY <1>4 DEF WindowInv, Typed, WindowTypeOK
  <2>4. waiters' \subseteq Launches \cup Orders
    BY <1>2 DEF WindowInv, Typed, WindowTypeOK
  <2> HIDE DEF Calls, OrderRecords
  <2> QED BY <1>1, <1>2, <1>7, <2>2, <2>3, <2>4 DEF WindowInv, Typed, WindowTypeOK
<1>9. OutcomesKept
  BY <1>2 DEF OutcomesKept
<1>10. \A k \in Launches : LaunchKept(k)
  BY <1>1, <1>2 DEF LaunchKept
<1>11. \A p \in Orders : p # o => OrderKept(p)
  BY <1>1, <1>7 DEF OrderKept
<1>12. OrderOK(o)'
  <2>1. RequestOf(o)' = RequestOf(o)
    BY <1>7 DEF RequestOf
  <2>2. order[o].state # "idle" /\ order'[o].state # "idle" /\ ~Has(pending, RequestOf(o))
    BY <1>5, <1>7 DEF OrderOK
  <2>3. \A a \in WindowRequests : a.id = o /\ (Has(pending', a) \/ Has(replies', a)) => a = RequestOf(o)
    BY <1>1, <1>5 DEF OrderOK
  <2> QED BY <1>1, <1>2, <1>5, <1>7, <2>1, <2>2, <2>3 DEF OrderOK
<1>13. \A w \in NewWindows : WindowKept(w)
  <2>1. \A w \in NewWindows : launched'[w] \in {launched[w], Nothing}
    BY <1>4 DEF WindowInv, Typed, WindowTypeOK
  <2> QED BY <1>1, <1>2, <2>1 DEF WindowKept, Claims, Reported
<1> QED BY <1>8, <1>9, <1>10, <1>11, <1>12, <1>13, InvKept

LEMMA DeliverKeeps == ASSUME WindowInv, Deliver PROVE WindowInv'
<1>1. Head(calls) \in Calls
  BY CallTaken DEF WindowInv
<1>2. CASE \E l \in Launches : Head(calls) = Acknowledge(l)
  <2>1. PICK l \in Launches : Head(calls) = Acknowledge(l)
    BY <1>2
  <2>2. Acknowledged(l)
    BY <2>1, RequestFields DEF Deliver
  <2> QED BY <2>1, <2>2, AcknowledgedKeeps
<1>3. CASE \E x \in Launches \cup Orders, r \in Results : Head(calls) = Result(x, r)
  <2>1. PICK x \in Launches \cup Orders, r \in Results : Head(calls) = Result(x, r)
    BY <1>3
  <2>2. \/ x \in Launches /\ LaunchCompleted(x, r)
        \/ x \in Orders /\ OrderCompleted(x, r)
    BY <2>1, RequestFields DEF Deliver
  <2> QED BY <2>1, <2>2, LaunchCompletedKeeps, OrderCompletedKeeps
<1> QED BY <1>1, <1>2, <1>3, RequestKinds

-----------------------------------------------------------------------------
(* The script's steps.                                                     *)

LEMMA PollKeeps == ASSUME WindowInv, Poll PROVE WindowInv'
<1> DEFINE a == Head(pending)
<1>1. pending \in Seq(WindowRequests) /\ pending # <<>> /\ replies \in Seq(WindowRequests)
  BY DEF WindowInv, Typed, WindowTypeOK, Poll
<1>2. /\ pending' = Tail(pending) /\ replies' = Append(replies, a) /\ ready' = TRUE
      /\ UNCHANGED <<waiters, acknowledgements, calls, script, stops, launchIntents, settling,
                     starting, opener, open, launch, outcome, launched, order>>
  BY DEF Poll, screen, tasks
<1>3. /\ pending' \in Seq(WindowRequests) /\ a \in WindowRequests /\ Has(pending, a)
      /\ \A x : Has(pending', x) => Has(pending, x)
      /\ \A x : Has(pending, x) => Has(pending', x) \/ x = a
      /\ \A x : Once(pending, x) => Once(pending', x) /\ ~(x = a /\ Has(pending', x))
  BY <1>1, <1>2, HasTail
<1>4. /\ replies' \in Seq(WindowRequests)
      /\ \A x : Has(replies', x) <=> Has(replies, x) \/ x = a
      /\ \A x : Once(replies, x) /\ ~(x = a /\ Has(replies, x)) => Once(replies', x)
  <2> HIDE DEF a
  <2> QED BY <1>1, <1>2, <1>3, HasAppend
<1> HIDE DEF a
<1>5. Typed'
  BY <1>2, <1>3, <1>4 DEF WindowInv, Typed, WindowTypeOK
<1>6. OutcomesKept
  BY <1>2 DEF OutcomesKept
<1>7. /\ \A x : Answered(x)' <=> Answered(x)
      /\ \A k \in Launches : (Taken(k)' <=> Taken(k)) /\ (Begun(k)' <=> Begun(k))
  BY <1>2 DEF Answered, Reported, Taken, Begun
<1>8. ASSUME NEW l \in Launches PROVE LaunchKept(l) \/ LaunchOK(l)'
  <2>1. LaunchOK(l)
    BY DEF WindowInv
  <2>2. CASE a = LaunchWindow(l)
    <3>1. ~Has(replies, a) /\ ~Begun(l) /\ ~Has(pending', a) /\ launch[l] = "arming"
      BY <1>3, <2>1, <2>2 DEF LaunchOK
    <3> QED BY <1>2, <1>3, <1>4, <1>7, <2>1, <2>2, <3>1 DEF LaunchOK
  <2>3. CASE a # LaunchWindow(l)
    BY <1>2, <1>3, <1>4, <1>7, <2>3 DEF LaunchKept
  <2> QED BY <2>2, <2>3
<1>9. ASSUME NEW o \in Orders PROVE OrderOK(o)'
  <2>1. OrderOK(o) /\ RequestOf(o)' = RequestOf(o)
    BY <1>2 DEF WindowInv, RequestOf
  <2>2. Has(pending', RequestOf(o)) => ~Has(replies', RequestOf(o))
    BY <1>3, <1>4, <2>1 DEF OrderOK
  <2>3. \A x \in WindowRequests : x.id = o /\ (Has(pending', x) \/ Has(replies', x)) =>
            x = RequestOf(o) /\ order[o].state # "idle"
    BY <1>3, <1>4, <2>1 DEF OrderOK
  <2> QED BY <1>2, <1>3, <1>7, <2>1, <2>2, <2>3 DEF OrderOK
<1>10. \A w \in NewWindows : WindowKept(w)
  BY <1>2 DEF WindowKept, Claims, Reported
<1> QED BY <1>5, <1>6, <1>8, <1>9, <1>10, InvKept

\* What the script has read is no longer on its way.
LEMMA ReplyTaken ==
    ASSUME Typed, HandleReply
    PROVE  /\ replies' \in Seq(WindowRequests) /\ Head(replies) \in WindowRequests
           /\ Has(replies, Head(replies))
           /\ \A x : Has(replies', x) => Has(replies, x)
           /\ \A x : Has(replies, x) => Has(replies', x) \/ x = Head(replies)
           /\ \A x : Once(replies, x) => Once(replies', x) /\ ~(x = Head(replies) /\ Has(replies', x))
           /\ UNCHANGED <<pending, waiters, acknowledgements, script, ready, stops, starting, opener, open,
                          launch, outcome, launched, order>>
<1>1. replies \in Seq(WindowRequests) /\ replies # <<>> /\ replies' = Tail(replies)
  BY DEF Typed, WindowTypeOK, HandleReply
<1>2. UNCHANGED <<pending, waiters, acknowledgements, script, ready, stops, starting, opener, open,
                  launch, outcome, launched, order>>
  BY DEF HandleReply, queue, screen, tasks
<1> QED BY <1>1, <1>2, HasTail

\* The intent of a launch is taken in.
LEMMA IntentKeeps ==
    ASSUME WindowInv, HandleReply, NEW l \in Launches, Head(replies) = LaunchWindow(l),
           launchIntents' = Append(launchIntents, l), calls' = Append(calls, Acknowledge(l)),
           UNCHANGED settling
    PROVE  WindowInv'
<1>1. /\ replies' \in Seq(WindowRequests) /\ Has(replies, LaunchWindow(l))
      /\ \A x : Has(replies', x) => Has(replies, x)
      /\ \A x : Has(replies, x) => Has(replies', x) \/ x = LaunchWindow(l)
      /\ \A x : Once(replies, x) => Once(replies', x) /\ ~(x = LaunchWindow(l) /\ Has(replies', x))
      /\ UNCHANGED <<pending, waiters, acknowledgements, script, ready, stops, starting, opener, open,
                     launch, outcome, launched, order>>
  BY ReplyTaken DEF WindowInv
<1>2. /\ launchIntents' \in Seq(Launches)
      /\ \A x : Has(launchIntents', x) <=> Has(launchIntents, x) \/ x = l
      /\ \A x : Once(launchIntents, x) /\ ~(x = l /\ Has(launchIntents, x)) => Once(launchIntents', x)
  BY HasAppend DEF WindowInv, Typed, WindowTypeOK
<1>3. calls' \in Seq(Calls) /\ \A x : Has(calls', x) <=> Has(calls, x) \/ x = Acknowledge(l)
  BY HasAppend, RequestKinds DEF WindowInv, Typed
<1>4. /\ \A x, r : Result(x, r) # Acknowledge(l)
      /\ \A k : k # l => Acknowledge(k) # Acknowledge(l) /\ LaunchWindow(k) # LaunchWindow(l)
      /\ \A k : CancelLaunch(k) # LaunchWindow(l)
  BY RequestFields
<1>5. \A x, r : Reported(x, r)' <=> Reported(x, r)
  BY <1>3, <1>4 DEF Reported
<1>6. \A x : Answered(x)' <=> Answered(x)
  BY <1>5 DEF Answered
<1>7. Typed'
  BY <1>1, <1>2, <1>3 DEF WindowInv, Typed, WindowTypeOK
<1>8. OutcomesKept
  BY <1>1 DEF OutcomesKept
<1>9. ASSUME NEW k \in Launches, k # l PROVE LaunchKept(k)
  BY <1>1, <1>2, <1>3, <1>4, <1>6, <1>9 DEF LaunchKept
<1>10. LaunchOK(l)'
  <2>1. LaunchOK(l) /\ ~Begun(l) /\ ~Has(pending, LaunchWindow(l)) /\ ~Has(replies', LaunchWindow(l))
    BY <1>1 DEF WindowInv, LaunchOK
  <2>2. ~Has(launchIntents, l) /\ ~Taken(l)' /\ launch[l] # "idle" /\ launch[l] # "failed"
    BY <1>1, <1>6, <2>1 DEF Begun, Taken, LaunchOK
  <2> QED BY <1>1, <1>2, <2>1, <2>2 DEF LaunchOK
<1>11. \A o \in Orders : OrderKept(o)
  BY <1>1, <1>6 DEF OrderKept
<1>12. \A w \in NewWindows : WindowKept(w)
  BY <1>1, <1>5 DEF WindowKept, Claims
<1> QED BY <1>7, <1>8, <1>9, <1>10, <1>11, <1>12, InvKept

\* A launch is called off in the script.
LEMMA CancelKeeps ==
    ASSUME WindowInv, HandleReply, NEW l \in Launches, Head(replies) = CancelLaunch(l),
           launchIntents' = CalledOff(l), UNCHANGED <<calls, settling>>
    PROVE  WindowInv'
<1>1. /\ replies' \in Seq(WindowRequests)
      /\ \A x : Has(replies', x) => Has(replies, x)
      /\ \A x : Has(replies, x) => Has(replies', x) \/ x = CancelLaunch(l)
      /\ \A x : Once(replies, x) => Once(replies', x)
      /\ UNCHANGED <<pending, waiters, acknowledgements, script, ready, stops, starting, opener, open,
                     launch, outcome, launched, order>>
  BY ReplyTaken DEF WindowInv
<1>2. /\ launchIntents' \in Seq(Launches)
      /\ \A x : Has(launchIntents', x) <=> Has(launchIntents, x) /\ x # l
      /\ \A x : Once(launchIntents, x) => Once(launchIntents', x)
  BY HasCalledOff DEF WindowInv, Typed, WindowTypeOK
<1>3. Typed'
  BY <1>1, <1>2 DEF WindowInv, Typed, WindowTypeOK
<1>4. OutcomesKept /\ \A x : Answered(x)' => Answered(x)
  BY <1>1 DEF OutcomesKept, Answered, Reported
<1>5. ASSUME NEW k \in Launches PROVE LaunchKept(k)
  <2>1. CancelLaunch(k) = CancelLaunch(l) => k = l
    BY RequestFields
  <2> QED BY <1>1, <1>2, <1>4, <2>1 DEF LaunchKept
<1>6. \A o \in Orders : OrderKept(o)
  BY <1>1, <1>4 DEF OrderKept
<1>7. \A w \in NewWindows : WindowKept(w)
  BY <1>1 DEF WindowKept, Claims, Reported
<1> QED BY <1>3, <1>4, <1>5, <1>6, <1>7, InvKept

\* An order is carried out, or found impossible.
LEMMA CarriedOutKeeps ==
    ASSUME WindowInv, HandleReply, NEW o \in Orders, NEW w \in NewWindows, NEW a,
           Head(replies) = a, a = CloseWindow(o, w) \/ a = MoveWindow(o, w),
           \/ settling' = settling \cup {<<o, w>>} /\ UNCHANGED calls
           \/ calls' = Append(calls, Result(o, "error")) /\ UNCHANGED settling,
           UNCHANGED launchIntents
    PROVE  WindowInv'
<1>1. /\ replies' \in Seq(WindowRequests) /\ Has(replies, a) /\ a \in WindowRequests
      /\ \A x : Has(replies', x) => Has(replies, x)
      /\ \A x : Has(replies, x) => Has(replies', x) \/ x = a
      /\ \A x : Once(replies, x) => Once(replies', x)
      /\ UNCHANGED <<pending, waiters, acknowledgements, script, ready, stops, starting, opener, open,
                     launch, outcome, launched, order>>
  BY ReplyTaken DEF WindowInv
<1>2. a.id = o /\ \A k \in Launches : CancelLaunch(k) # a /\ k # o
  BY RequestFields, WindowAssumption
<1>3. Result(o, "error") \in Calls /\ calls \in Seq(Calls)
  BY RequestKinds DEF Results, WindowInv, Typed
<1>4. /\ calls' \in Seq(Calls)
      /\ \A x : Has(calls', x) => Has(calls, x) \/ x = Result(o, "error")
  <2> DEFINE c == Result(o, "error")
  <2>1. CASE calls' = calls
    BY <1>3, <2>1
  <2>2. CASE calls' = Append(calls, c)
    <3> HIDE DEF c
    <3>1. /\ calls' \in Seq(Calls)
          /\ \A x : Has(calls', x) <=> Has(calls, x) \/ x = c
      BY <1>3, <2>2, HasAppend DEF c
    <3> QED BY <3>1 DEF c
  <2> QED BY <2>1, <2>2
<1>5. /\ settling' \subseteq (Launches \cup Orders) \X NewWindows
      /\ \A x \in settling' : x \in settling \/ x = <<o, w>>
  BY DEF WindowInv, Typed, WindowTypeOK
<1>6. /\ \A x, r : x # o => (Reported(x, r)' => Reported(x, r))
      /\ \A k : Acknowledge(k) # Result(o, "error")
  BY <1>4, RequestFields DEF Reported
<1>7. \A x : x # o => (Answered(x)' => Answered(x))
  BY <1>5, <1>6 DEF Answered
<1>8. Typed'
  BY <1>1, <1>4, <1>5 DEF WindowInv, Typed, WindowTypeOK
<1>9. OutcomesKept
  BY <1>1 DEF OutcomesKept
<1>10. ASSUME NEW k \in Launches PROVE LaunchKept(k)
  BY <1>1, <1>2, <1>4, <1>6, <1>7 DEF LaunchKept
<1>11. ASSUME NEW p \in Orders, p # o PROVE OrderKept(p)
  BY <1>1, <1>7, <1>11 DEF OrderKept
<1>12. OrderOK(o)'
  <2>1. OrderOK(o) /\ RequestOf(o)' = RequestOf(o)
    BY <1>1 DEF WindowInv, RequestOf
  <2>2. a = RequestOf(o) /\ order[o].state # "idle"
    BY <1>1, <1>2, <2>1 DEF OrderOK
  <2>3. ~Has(pending, RequestOf(o))
    BY <1>1, <2>1, <2>2 DEF OrderOK
  <2>4. \A x \in WindowRequests : x.id = o /\ (Has(pending', x) \/ Has(replies', x)) => x = RequestOf(o)
    BY <1>1, <2>1 DEF OrderOK
  <2> QED BY <1>1, <2>1, <2>2, <2>3, <2>4 DEF OrderOK
<1>13. \A v \in NewWindows : WindowKept(v)
  BY <1>1, <1>2, <1>5, <1>6 DEF WindowKept, Claims
<1> QED BY <1>8, <1>9, <1>10, <1>11, <1>12, <1>13, InvKept

LEMMA HandleReplyKeeps == ASSUME WindowInv, HandleReply PROVE WindowInv'
<1> DEFINE a == Head(replies)
<1>1. a \in WindowRequests
  BY ReplyTaken DEF WindowInv
<1>2. CASE \E l \in Launches : a = LaunchWindow(l)
  <2>1. PICK l \in Launches : a = LaunchWindow(l)
    BY <1>2
  <2>2. launchIntents' = Append(launchIntents, l) /\ calls' = Append(calls, Acknowledge(l)) /\ UNCHANGED settling
    BY <2>1, RequestFields DEF HandleReply
  <2> QED BY <2>1, <2>2, IntentKeeps
<1>3. CASE \E l \in Launches : a = CancelLaunch(l)
  <2>1. PICK l \in Launches : a = CancelLaunch(l)
    BY <1>3
  <2>2. launchIntents' = CalledOff(l) /\ UNCHANGED <<calls, settling>>
    BY <2>1, RequestFields DEF HandleReply
  <2> QED BY <2>1, <2>2, CancelKeeps
<1>4. CASE \E o \in Orders, w \in NewWindows : a = CloseWindow(o, w) \/ a = MoveWindow(o, w)
  <2>1. PICK o \in Orders, w \in NewWindows : a = CloseWindow(o, w) \/ a = MoveWindow(o, w)
    BY <1>4
  <2>2. a.id = o /\ a.window = w /\ a.action \in {"close_window", "move_window"}
    BY <2>1, RequestFields
  <2>3. /\ \/ settling' = settling \cup {<<o, w>>} /\ UNCHANGED calls
           \/ calls' = Append(calls, Result(o, "error")) /\ UNCHANGED settling
        /\ UNCHANGED launchIntents
    BY <2>2 DEF HandleReply
  <2> QED BY <2>1, <2>3, CarriedOutKeeps
<1> HIDE DEF a
<1> QED BY <1>1, <1>2, <1>3, <1>4, RequestKinds

\* An answer is on its way, instead of the timer that was running for it.
LEMMA SettledKeeps ==
    ASSUME WindowInv, NEW x \in Launches \cup Orders, NEW w \in NewWindows, NEW r \in {w, "error"},
           <<x, w>> \in settling, settling' = settling \ {<<x, w>>},
           calls' = Append(calls, Result(x, r)),
           UNCHANGED <<pending, waiters, acknowledgements, replies, script, ready, stops, launchIntents,
                       starting, opener, open, launch, outcome, launched, order>>
    PROVE  WindowInv'
<1> DEFINE c == Result(x, r)
<1>1. r \in Results /\ c \in Calls /\ calls \in Seq(Calls)
  BY RequestKinds DEF Results, WindowInv, Typed
<1>2. /\ \A k : Acknowledge(k) # c
      /\ \A y, q : Result(y, q) = c => y = x /\ q = r
  BY RequestFields
<1> HIDE DEF c
<1>3. calls' \in Seq(Calls) /\ \A y : Has(calls', y) <=> Has(calls, y) \/ y = c
  BY <1>1, HasAppend DEF c
<1>4. \A y, q : Reported(y, q)' => Reported(y, q) \/ (y = x /\ q = r)
  BY <1>2, <1>3 DEF Reported
<1>5. \A y : Answered(y)' => Answered(y)
  BY <1>4 DEF Answered
<1>6. Typed'
  BY <1>3 DEF WindowInv, Typed, WindowTypeOK
<1>7. OutcomesKept
  BY DEF OutcomesKept
<1>8. \A k \in Launches : LaunchKept(k)
  BY <1>2, <1>3, <1>5 DEF LaunchKept
<1>9. \A o \in Orders : OrderKept(o)
  BY <1>5 DEF OrderKept
<1>10. ASSUME NEW v \in NewWindows, NEW l \in Launches, Claims(l, v)' PROVE Claims(l, v)
  <2>1. CASE l = x /\ v = r
    <3>1. v = w
      BY <2>1, WindowAssumption
    <3> QED BY <2>1, <3>1 DEF Claims
  <2>2. CASE ~(l = x /\ v = r)
    BY <1>4, <1>10, <2>2 DEF Claims
  <2> QED BY <2>1, <2>2
<1>11. \A v \in NewWindows : WindowKept(v)
  BY <1>10 DEF WindowKept
<1> QED BY <1>6, <1>7, <1>8, <1>9, <1>11, InvKept

LEMMA OrderSettlesKeeps ==
    ASSUME WindowInv, NEW o \in Orders, NEW w \in NewWindows, OrderSettles(o, w) PROVE WindowInv'
<1>1. /\ <<o, w>> \in settling /\ settling' = settling \ {<<o, w>>}
      /\ UNCHANGED <<pending, waiters, acknowledgements, replies, script, ready, stops, launchIntents,
                     starting, opener, open, launch, outcome, launched, order>>
  BY DEF OrderSettles, queue, screen, tasks
<1>2. PICK r \in {w, "error"} : calls' = Append(calls, Result(o, r))
  BY DEF OrderSettles
<1> QED BY <1>1, <1>2, SettledKeeps

LEMMA LaunchSettlesKeeps ==
    ASSUME WindowInv, NEW l \in Launches, NEW w \in NewWindows, LaunchSettles(l, w) PROVE WindowInv'
<1>1. /\ <<l, w>> \in settling /\ settling' = settling \ {<<l, w>>}
      /\ UNCHANGED <<pending, waiters, acknowledgements, replies, script, ready, stops, launchIntents,
                     starting, opener, open, launch, outcome, launched, order>>
  BY DEF LaunchSettles, queue, screen, tasks
<1>2. PICK r \in {w, "error"} : calls' = Append(calls, Result(l, r))
  BY DEF LaunchSettles
<1> QED BY <1>1, <1>2, SettledKeeps

LEMMA PruneIntentKeeps == ASSUME WindowInv, NEW l \in Launches, PruneIntent(l) PROVE WindowInv'
<1> DEFINE c == Result(l, "error")
<1>1. /\ Has(launchIntents, l) /\ launchIntents' = CalledOff(l) /\ calls' = Append(calls, c)
      /\ UNCHANGED <<pending, waiters, acknowledgements, replies, script, ready, stops, settling,
                     starting, opener, open, launch, outcome, launched, order>>
  BY DEF PruneIntent, Contains, Has, queue, screen, tasks, WindowInv, Typed, WindowTypeOK
<1>2. c \in Calls /\ calls \in Seq(Calls)
  BY RequestKinds DEF Results, WindowInv, Typed
<1>3. /\ \A k : Acknowledge(k) # c
      /\ \A y, q : Result(y, q) = c => y = l /\ q = "error"
  BY RequestFields
<1> HIDE DEF c
<1>4. calls' \in Seq(Calls) /\ \A y : Has(calls', y) <=> Has(calls, y) \/ y = c
  BY <1>1, <1>2, HasAppend
<1>5. \A y, q : Reported(y, q)' => Reported(y, q) \/ (y = l /\ q = "error")
  BY <1>3, <1>4 DEF Reported
<1>6. \A y : y # l => (Answered(y)' => Answered(y))
  BY <1>1, <1>5 DEF Answered
<1>7. /\ launchIntents' \in Seq(Launches)
      /\ \A x : Has(launchIntents', x) <=> Has(launchIntents, x) /\ x # l
      /\ \A x : Once(launchIntents, x) => Once(launchIntents', x)
  BY <1>1, HasCalledOff DEF WindowInv, Typed, WindowTypeOK
<1>8. Typed'
  BY <1>1, <1>4, <1>7 DEF WindowInv, Typed, WindowTypeOK
<1>9. OutcomesKept
  BY <1>1 DEF OutcomesKept
<1>10. ASSUME NEW k \in Launches, k # l PROVE LaunchKept(k)
  BY <1>1, <1>3, <1>4, <1>6, <1>7, <1>10 DEF LaunchKept
<1>11. LaunchOK(l)'
  <2>1. LaunchOK(l) /\ Begun(l)
    BY <1>1 DEF WindowInv, Begun
  <2>2. ~Has(pending, LaunchWindow(l)) /\ ~Has(replies, LaunchWindow(l)) /\ launch[l] # "idle" /\ ~Has(launchIntents', l)
    BY <1>7, <2>1 DEF LaunchOK
  <2> QED BY <1>1, <1>7, <2>1, <2>2 DEF LaunchOK
<1>12. \A o \in Orders : OrderKept(o)
  BY <1>1, <1>6, WindowAssumption DEF OrderKept
<1>13. \A w \in NewWindows : WindowKept(w)
  BY <1>1, <1>5, WindowAssumption DEF WindowKept, Claims
<1> QED BY <1>8, <1>9, <1>10, <1>11, <1>12, <1>13, InvKept

LEMMA WindowAddedKeeps ==
    ASSUME WindowInv, NEW w \in NewWindows, NEW by \in Launches \cup {"user"}, WindowAdded(w, by)
    PROVE  WindowInv'
<1>1. /\ opener[w] = Nothing /\ opener' = [opener EXCEPT ![w] = by]
      /\ open' = open \cup {w} /\ starting' = starting \ {by}
      /\ UNCHANGED <<pending, waiters, acknowledgements, replies, calls, script, ready, stops,
                     launch, outcome, launched, order>>
  BY DEF WindowAdded, queue, tasks
<1>2. by # Nothing
  BY WindowAssumption
<1>3. /\ opener' \in [NewWindows -> Launches \cup {"user", Nothing}]
      /\ \A v \in NewWindows : opener[v] # Nothing => opener'[v] # Nothing
      /\ opener'[w] # Nothing
  BY <1>1, <1>2 DEF WindowInv, Typed, WindowTypeOK
<1>4. open' \subseteq {v \in NewWindows : opener'[v] # Nothing}
  BY <1>1, <1>3 DEF WindowInv, Typed, WindowTypeOK
<1>5. OutcomesKept
  BY <1>1 DEF OutcomesKept
<1>6. CASE UNCHANGED <<launchIntents, settling>>
  <2>1. Typed'
    BY <1>1, <1>3, <1>4, <1>6 DEF WindowInv, Typed, WindowTypeOK
  <2>2. \A k \in Launches : LaunchKept(k)
    BY <1>1, <1>6 DEF LaunchKept, Answered, Reported
  <2>3. \A o \in Orders : OrderKept(o)
    BY <1>1, <1>6 DEF OrderKept, Answered, Reported
  <2>4. \A v \in NewWindows : WindowKept(v)
    BY <1>1, <1>3, <1>6 DEF WindowKept, Claims, Reported
  <2> QED BY <1>5, <2>1, <2>2, <2>3, <2>4, InvKept
<1>7. CASE TakeIntent(w)
  <2>1. launchIntents \in Seq(Launches) /\ launchIntents # <<>> /\ launchIntents' = Tail(launchIntents)
    BY <1>7 DEF TakeIntent, WindowInv, Typed, WindowTypeOK
  <2>0. PICK l \in Launches : l = Head(launchIntents)
    BY <2>1, HasTail
  <2>2. /\ launchIntents' \in Seq(Launches) /\ Has(launchIntents, l)
        /\ \A x : Has(launchIntents', x) => Has(launchIntents, x)
        /\ \A x : Once(launchIntents, x) => Once(launchIntents', x) /\ ~(x = l /\ Has(launchIntents', x))
    BY <2>0, <2>1, HasTail
  <2>3. settling' = settling \cup {<<l, w>>}
    BY <1>7, <2>0 DEF TakeIntent
  <2>4. \A x : x # l => (Answered(x)' => Answered(x))
    BY <1>1, <2>3 DEF Answered, Reported
  <2>5. Typed'
    <3>1. settling' \subseteq (Launches \cup Orders) \X NewWindows
      BY <2>2, <2>3 DEF WindowInv, Typed, WindowTypeOK
    <3> QED BY <1>1, <1>3, <1>4, <2>2, <3>1 DEF WindowInv, Typed, WindowTypeOK
  <2>6. ASSUME NEW k \in Launches, k # l PROVE LaunchKept(k)
    BY <1>1, <2>2, <2>4, <2>6 DEF LaunchKept
  <2>7. LaunchOK(l)'
    <3>1. LaunchOK(l) /\ Begun(l)
      BY <2>2 DEF WindowInv, Begun
    <3>2. ~Has(pending, LaunchWindow(l)) /\ ~Has(replies, LaunchWindow(l)) /\ launch[l] # "idle" /\ ~Has(launchIntents', l)
      BY <2>2, <3>1 DEF LaunchOK
    <3> QED BY <1>1, <2>2, <3>1, <3>2 DEF LaunchOK
  <2>8. \A o \in Orders : OrderKept(o)
    BY <1>1, <2>2, <2>4, WindowAssumption DEF OrderKept
  <2>9. ASSUME NEW v \in NewWindows, v # w PROVE WindowKept(v)
    BY <1>1, <1>3, <2>3, <2>9 DEF WindowKept, Claims, Reported
  <2>10. WindowOK(w)'
    <3>1. WindowOK(w) /\ launched[w] \in Launches \cup {Nothing}
      BY DEF WindowInv, Typed, WindowTypeOK
    <3>2. \A k \in Launches : ~Claims(k, w)
      BY <1>1, <3>1 DEF WindowOK
    <3>3. \A k \in Launches : Claims(k, w)' => k = l
      BY <1>1, <2>3, <3>2 DEF Claims, Reported
    <3> QED BY <1>1, <1>3, <3>1, <3>3 DEF WindowOK
  <2> QED BY <1>5, <2>5, <2>6, <2>7, <2>8, <2>9, <2>10, InvKept
<1> QED BY <1>6, <1>7 DEF WindowAdded

\* Steps that touch nothing of a launch, an order or an owner.
LEMMA ScriptKeeps ==
    ASSUME WindowInv,
           \/ ScriptStops \/ ScriptStarts \/ HeartbeatStale
           \/ \E w \in NewWindows : WindowCloses(w)
           \/ UNCHANGED windowVars
    PROVE  WindowInv'
<1>1. /\ UNCHANGED <<pending, waiters, acknowledgements, calls, starting, opener, launch, outcome, launched, order>>
      /\ open' \subseteq open /\ settling' \subseteq settling
      /\ launchIntents' \in {launchIntents, <<>>} /\ replies' \in {replies, <<>>}
      /\ script' \in {TRUE, FALSE, script} /\ ready' \in {TRUE, FALSE, ready}
  BY DEF ScriptStops, ScriptStarts, HeartbeatStale, WindowCloses, windowVars, queue, scripts, screen, tasks
<1>2. stops' \in 0..MaxStops
  BY WindowAssumption DEF ScriptStops, ScriptStarts, HeartbeatStale, WindowCloses, windowVars, scripts,
     WindowInv, Typed, WindowTypeOK
<1>3. script' \in BOOLEAN /\ ready' \in BOOLEAN
  BY <1>1 DEF WindowInv, Typed, WindowTypeOK
<1>4. launchIntents' \in Seq(Launches) /\ replies' \in Seq(WindowRequests)
  <2>1. launchIntents \in Seq(Launches) /\ replies \in Seq(WindowRequests)
    BY DEF WindowInv, Typed, WindowTypeOK
  <2>2. \A S : <<>> \in Seq(S)
    OBVIOUS
  <2> QED BY <1>1, <2>1, <2>2
<1>5. Typed'
  BY <1>1, <1>2, <1>3, <1>4 DEF WindowInv, Typed, WindowTypeOK
<1>6. /\ \A x : Has(launchIntents', x) => Has(launchIntents, x)
      /\ \A x : Has(replies', x) => Has(replies, x)
      /\ \A x : Once(launchIntents, x) => Once(launchIntents', x)
      /\ \A x : Once(replies, x) => Once(replies', x)
  BY <1>1, EmptyHasNothing
<1>7. OutcomesKept /\ \A x : Answered(x)' => Answered(x)
  BY <1>1 DEF OutcomesKept, Answered, Reported
<1>8. ASSUME NEW k \in Launches PROVE LaunchKept(k)
  <2>1. Has(launchIntents', k) => replies' = replies
    <3>1. ScriptStops => launchIntents' = <<>>
      BY DEF ScriptStops
    <3>2. ~ScriptStops => replies' = replies
      BY DEF ScriptStarts, HeartbeatStale, WindowCloses, windowVars
    <3> QED BY <3>1, <3>2, EmptyHasNothing
  <2> QED BY <1>1, <1>6, <1>7, <2>1 DEF LaunchKept
<1>9. \A o \in Orders : OrderKept(o)
  BY <1>1, <1>6, <1>7 DEF OrderKept
<1>10. \A w \in NewWindows : WindowKept(w)
  BY <1>1 DEF WindowKept, Claims, Reported
<1> QED BY <1>5, <1>7, <1>8, <1>9, <1>10, InvKept

-----------------------------------------------------------------------------
(* The specification.                                                      *)

LEMMA WindowStart == InitWindows => WindowInv
<1> SUFFICES ASSUME InitWindows PROVE WindowInv
  OBVIOUS
<1>1. \A S : <<>> \in Seq(S)
  OBVIOUS
<1>2. Typed
  <2>1. order \in [Orders -> OrderRecords] /\ \A o \in Orders : order[o].state = "idle"
    BY DEF InitWindows, NoOrder, OrderRecords
  <2>2. 0 \in 0..MaxStops
    BY WindowAssumption
  <2>3. \A o \in Orders : /\ order[o].state \in {"idle", "waiting", "done", "failed"}
                          /\ order[o].state = "waiting" <=> o \in waiters
    BY <2>1 DEF InitWindows
  <2> QED BY <1>1, <2>1, <2>2, <2>3 DEF Typed, WindowTypeOK, InitWindows
<1>3. \A x : ~Has(pending, x) /\ ~Has(replies, x) /\ ~Has(calls, x) /\ ~Has(launchIntents, x)
  BY EmptyHasNothing DEF InitWindows
<1>4. \A x : Once(pending, x) /\ Once(replies, x) /\ Once(launchIntents, x)
  BY EmptyHasNothing DEF InitWindows
<1>5. \A x : ~Answered(x)
  BY <1>3 DEF Answered, Reported, InitWindows
<1>6. ASSUME NEW l \in Launches PROVE LaunchOK(l)
  BY <1>3, <1>4, <1>5 DEF LaunchOK, Begun, Taken, InitWindows
<1>7. ASSUME NEW o \in Orders PROVE OrderOK(o)
  <2>1. order[o].action = Nothing
    BY DEF InitWindows, NoOrder
  <2>2. order[o].action # "close_window"
    BY <2>1, WindowAssumption
  <2> QED BY <1>3, <1>4, <1>5, <2>2 DEF OrderOK
<1>8. ASSUME NEW w \in NewWindows PROVE WindowOK(w)
  <2>1. \A l \in Launches : outcome[l] # w
    BY WindowAssumption DEF InitWindows
  <2>2. launched[w] = Nothing
    BY DEF InitWindows
  <2> QED BY <1>3, <2>1, <2>2 DEF WindowOK, Claims, Reported, InitWindows
<1> QED BY <1>2, <1>6, <1>7, <1>8 DEF WindowInv

LEMMA WindowStep == WindowInv /\ [NextWindows]_windowVars => WindowInv'
<1> SUFFICES ASSUME WindowInv, [NextWindows]_windowVars PROVE WindowInv'
  OBVIOUS
<1>1. ASSUME NEW l \in Launches,
             \/ ArmLaunch(l) \/ ArmTimeout(l) \/ LaunchEntry(l)
             \/ FinishLaunch(l) \/ FinishTimeout(l) \/ PruneIntent(l)
      PROVE  WindowInv'
  BY <1>1, ArmLaunchKeeps, ArmTimeoutKeeps, LaunchEntryKeeps, FinishLaunchKeeps, FinishTimeoutKeeps, PruneIntentKeeps
<1>2. ASSUME NEW w \in NewWindows, LaunchedExpires(w) PROVE WindowInv'
  BY <1>2, LaunchedExpiresKeeps
<1>3. ASSUME NEW o \in Orders, NEW l \in Launches, NEW w \in NewWindows, OrderClose(o, l, w) PROVE WindowInv'
  BY <1>3, OrderCloseKeeps
<1>4. ASSUME NEW o \in Orders, NEW w \in NewWindows, OrderMove(o, w) \/ OrderSettles(o, w) PROVE WindowInv'
  BY <1>4, OrderMoveKeeps, OrderSettlesKeeps
<1>5. ASSUME NEW o \in Orders, OrderTimeout(o) PROVE WindowInv'
  BY <1>5, OrderTimeoutKeeps
<1>6. ASSUME NEW w \in NewWindows, NEW by \in Launches \cup {"user"}, WindowAdded(w, by) PROVE WindowInv'
  BY <1>6, WindowAddedKeeps
<1>7. ASSUME NEW l \in Launches, NEW w \in NewWindows, LaunchSettles(l, w) PROVE WindowInv'
  BY <1>7, LaunchSettlesKeeps
<1>8. CASE Deliver \/ Poll \/ HandleReply
  BY <1>8, DeliverKeeps, PollKeeps, HandleReplyKeeps
<1>9. CASE \/ ScriptStops \/ ScriptStarts \/ HeartbeatStale
           \/ \E w \in NewWindows : WindowCloses(w)
           \/ UNCHANGED windowVars
  BY <1>9, ScriptKeeps
<1> QED BY <1>1, <1>2, <1>3, <1>4, <1>5, <1>6, <1>7, <1>8, <1>9 DEF NextWindows

LEMMA WindowInvariant == SpecWindows => []WindowInv
BY WindowStart, WindowStep, PTL DEF SpecWindows

(* The queue, the tasks of the daemon and what the script keeps have the     *)
(* types their code gives them; a sender waits exactly for an order that is  *)
(* not over, and for the acknowledgement of a launch that is armed.          *)
THEOREM WindowTypeCorrect == SpecWindows => []WindowTypeOK
<1>1. WindowInv => WindowTypeOK
  BY DEF WindowInv, Typed
<1> QED BY <1>1, WindowInvariant, PTL

\* What has ended has left the queue.
LEMMA EndedForgotten == WindowInv => EndedRequestsForgotten
<1> SUFFICES ASSUME WindowInv PROVE EndedRequestsForgotten
  OBVIOUS
<1>1. pending \in Seq(WindowRequests)
  BY DEF WindowInv, Typed, WindowTypeOK
<1>2. ASSUME NEW l \in Launches, launch[l] \in {"done", "unarmed", "failed", "unpolled"}
      PROVE  /\ l \in waiters \cup acknowledgements => l \in waiters /\ launch[l] = "unpolled"
             /\ ~Contains(pending, LaunchWindow(l))
  <2>1. LaunchOK(l) /\ (launch[l] = "arming" <=> l \in acknowledgements)
    BY DEF WindowInv, Typed, WindowTypeOK
  <2>2. (l \in waiters => launch[l] = "unpolled") /\ ~Has(pending, LaunchWindow(l))
    BY <1>2, <2>1 DEF LaunchOK
  <2> QED BY <1>1, <1>2, <2>1, <2>2 DEF Contains, Has
<1>3. ASSUME NEW o \in Orders, order[o].state \in {"done", "failed"}
      PROVE  o \notin waiters /\ \A i \in DOMAIN pending : pending[i].id # o
  <2>1. OrderOK(o) /\ (order[o].state = "waiting" <=> o \in waiters)
    BY DEF WindowInv, Typed, WindowTypeOK
  <2>2. ASSUME NEW i \in DOMAIN pending, pending[i].id = o PROVE FALSE
    <3>1. pending[i] \in WindowRequests /\ Has(pending, pending[i])
      BY <1>1 DEF Has
    <3> QED BY <1>3, <2>1, <2>2, <3>1 DEF OrderOK
  <2> QED BY <1>3, <2>1, <2>2
<1> QED BY <1>2, <1>3 DEF EndedRequestsForgotten

\* What has been given up is called off.
LEMMA CancelFollows == WindowInv => CancelFollowsLaunch
<1> SUFFICES ASSUME WindowInv, NEW l \in Launches, launch[l] = "failed", Contains(launchIntents, l)
             PROVE  Contains(pending \o replies, CancelLaunch(l))
  BY DEF CancelFollowsLaunch
<1>1. pending \in Seq(WindowRequests) /\ replies \in Seq(WindowRequests) /\ launchIntents \in Seq(Launches)
  BY DEF WindowInv, Typed, WindowTypeOK
<1>2. Has(launchIntents, l)
  BY <1>1 DEF Contains, Has
<1>3. Has(pending, CancelLaunch(l)) \/ Has(replies, CancelLaunch(l))
  BY <1>2 DEF WindowInv, LaunchOK
<1>4. /\ Len(pending \o replies) = Len(pending) + Len(replies)
      /\ Len(pending) \in Nat /\ Len(replies) \in Nat
      /\ \A i \in 1..Len(pending) : (pending \o replies)[i] = pending[i]
      /\ \A i \in 1..Len(replies) : (pending \o replies)[Len(pending) + i] = replies[i]
  BY <1>1
<1>5. CASE Has(pending, CancelLaunch(l))
  <2>1. PICK i \in 1..Len(pending) : pending[i] = CancelLaunch(l)
    BY <1>1, <1>5 DEF Has
  <2>2. i \in 1..Len(pending \o replies) /\ (pending \o replies)[i] = CancelLaunch(l)
    BY <1>4, <2>1
  <2> QED BY <2>2 DEF Contains
<1>6. CASE Has(replies, CancelLaunch(l))
  <2>1. PICK i \in 1..Len(replies) : replies[i] = CancelLaunch(l)
    BY <1>1, <1>6 DEF Has
  <2>2. Len(pending) + i \in 1..Len(pending \o replies) /\ (pending \o replies)[Len(pending) + i] = CancelLaunch(l)
    BY <1>4, <2>1
  <2> QED BY <2>2 DEF Contains
<1> QED BY <1>3, <1>5, <1>6

-----------------------------------------------------------------------------
(* The sender that is left of a launch whose launcher could not be asked.  *)

InHand(l) == Has(launchIntents, l) \/ Answered(l)
Called(l) == Has(pending, CancelLaunch(l)) \/ Has(replies, CancelLaunch(l))

\* From its acknowledgement on, a launch that is waited for is in the script's
\* hands: only one that is given up is called off, and it has no sender.
SenderOK(l) ==
    /\ Called(l) => launch[l] = "failed"
    /\ /\ l \in waiters /\ stops = 0
       /\ Has(calls, Acknowledge(l)) \/ launch[l] \in {"launching", "finishing", "unpolled"}
       => InHand(l)

SenderInv == WindowInv /\ \A l \in Launches : SenderOK(l)

\* Steps that concern another request.
SenderKept(l) ==
    /\ launch'[l] = launch[l]
    /\ Called(l)' => Called(l)
    /\ l \in waiters' => l \in waiters
    /\ stops' = 0 => stops = 0
    /\ Has(calls', Acknowledge(l)) => Has(calls, Acknowledge(l))
    /\ InHand(l) /\ stops' = 0 => InHand(l)'

LEMMA SenderStays == ASSUME NEW l \in Launches, SenderOK(l), SenderKept(l) PROVE SenderOK(l)'
BY DEF SenderOK, SenderKept

\* A launch that is given up.
LEMMA GivenUpSender ==
    ASSUME SenderInv, WindowInv', NEW l \in Launches, launch[l] \in {"launching", "finishing"},
           Becomes(l, "failed"), CancelLaunchWindow(l),
           UNCHANGED <<replies, calls, stops, launchIntents, settling>>,
           NEW k \in Launches
    PROVE  SenderOK(k)'
<1>1. /\ \A x : Has(pending', x) <=> \/ x = CancelLaunch(l)
                                     \/ Has(pending, x) /\ ~(x.id = l /\ x.action # "cancel_launch_window")
      /\ waiters' = waiters \ {l}
  BY HasCancelled DEF SenderInv, WindowInv, Typed, WindowTypeOK
<1>2. launch' = [launch EXCEPT ![l] = "failed"] /\ launch'[l] = "failed"
  BY DEF Becomes, SenderInv, WindowInv, Typed, WindowTypeOK
<1>3. CASE k = l
  BY <1>1, <1>2, <1>3 DEF SenderOK
<1>4. CASE k # l
  <2>1. CancelLaunch(k) # CancelLaunch(l)
    BY <1>4, RequestFields
  <2>2. launch'[k] = launch[k]
    BY <1>2, <1>4 DEF SenderInv, WindowInv, Typed, WindowTypeOK
  <2>3. SenderKept(k)
    BY <1>1, <2>1, <2>2 DEF SenderKept, Called, InHand, Answered, Reported
  <2> QED BY <2>3, SenderStays DEF SenderInv
<1> QED BY <1>3, <1>4

\* The other steps of the requests.
LEMMA RequestSenders ==
    ASSUME SenderInv, WindowInv', NEW l \in Launches, NEW k \in Launches,
           \/ ArmLaunch(l) \/ ArmTimeout(l) \/ LaunchEntry(l)
           \/ FinishLaunch(l) \/ FinishTimeout(l)
    PROVE  SenderOK(k)'
<1>1. /\ WindowInv /\ LaunchOK(l) /\ SenderOK(l) /\ SenderOK(k)
      /\ pending \in Seq(WindowRequests) /\ launch \in [Launches -> LaunchStates]
      /\ \A x : LaunchWindow(l) # CancelLaunch(x)
  BY RequestFields DEF SenderInv, WindowInv, Typed, WindowTypeOK, LaunchStates
<1>2. UNCHANGED <<replies, calls, stops, launchIntents, settling>>
  BY DEF ArmLaunch, ArmTimeout, LaunchEntry, FinishLaunch, FinishTimeout, scripts
<1>3. InHand(k)' <=> InHand(k)
  BY <1>2 DEF InHand, Answered, Reported
\* In these steps no cancellation is queued.
<1>4. ASSUME NEW s \in LaunchStates, launch' = [launch EXCEPT ![l] = s],
             \A x : Has(pending', CancelLaunch(x)) => Has(pending, CancelLaunch(x)),
             waiters' \ {l} \subseteq waiters, launch[l] # "failed", SenderOK(l)'
      PROVE  SenderOK(k)'
  <2>1. CASE k = l
    BY <1>4, <2>1
  <2>2. CASE k # l
    <3>1. launch'[k] = launch[k] /\ (k \in waiters' => k \in waiters)
      BY <1>1, <1>4, <2>2
    <3>2. SenderKept(k)
      BY <1>2, <1>3, <1>4, <3>1 DEF SenderKept, Called
    <3> QED BY <1>1, <3>2, SenderStays
  <2> QED BY <2>1, <2>2
<1>5. CASE ArmLaunch(l)
  <2>1. /\ \A x : Has(pending', x) <=> Has(pending, x) \/ x = LaunchWindow(l)
        /\ waiters' = waiters \cup {l}
        /\ launch[l] = "idle" /\ launch' = [launch EXCEPT ![l] = "arming"] /\ launch'[l] = "arming"
    BY <1>1, <1>5, HasAppend, RequestKinds DEF ArmLaunch, Becomes
  <2>2. ~Has(calls', Acknowledge(l)) /\ ~Called(l)'
    BY <1>1, <1>2, <2>1 DEF LaunchOK, Begun, SenderOK, Called
  <2>3. SenderOK(l)'
    BY <2>1, <2>2 DEF SenderOK
  <2> QED BY <1>1, <1>4, <2>1, <2>3 DEF LaunchStates
<1>6. CASE ArmTimeout(l)
  <2>1. /\ \A x : Has(pending', x) => Has(pending, x)
        /\ waiters' = waiters \ {l}
        /\ launch[l] = "arming" /\ launch' = [launch EXCEPT ![l] = "unarmed"]
    BY <1>1, <1>6, HasRemoved DEF ArmTimeout, Becomes, Forget
  <2>2. SenderOK(l)'
    BY <1>1, <1>2, <2>1 DEF SenderOK, Called
  <2> QED BY <1>4, <2>1, <2>2 DEF LaunchStates
<1>7. CASE LaunchEntry(l)
  <2>1. CASE Becomes(l, "failed") /\ CancelLaunchWindow(l)
    BY <1>2, <1>7, <2>1, GivenUpSender DEF LaunchEntry
  <2>2. CASE (Becomes(l, "finishing") \/ Becomes(l, "unpolled")) /\ UNCHANGED queue
    <3>1. PICK s \in {"finishing", "unpolled"} : launch' = [launch EXCEPT ![l] = s]
      BY <2>2 DEF Becomes
    <3>2. launch[l] = "launching" /\ launch'[l] = s /\ UNCHANGED <<pending, waiters>>
      BY <1>1, <1>7, <2>2, <3>1 DEF LaunchEntry, queue
    <3>3. SenderOK(l)'
      BY <1>1, <1>2, <3>2 DEF SenderOK, Called, InHand, Answered, Reported
    <3> QED BY <1>4, <3>1, <3>2, <3>3 DEF LaunchStates
  <2> QED BY <1>7, <2>1, <2>2 DEF LaunchEntry
<1>8. CASE FinishLaunch(l)
  <2>1. PICK s \in {"done", "failed"} : launch' = [launch EXCEPT ![l] = s]
    BY <1>8 DEF FinishLaunch, Becomes
  <2>2. launch[l] = "finishing" /\ outcome[l] # Nothing /\ UNCHANGED <<pending, waiters>>
    BY <1>8 DEF FinishLaunch, queue
  <2>3. l \notin waiters'
    BY <1>1, <2>2 DEF LaunchOK
  <2>4. SenderOK(l)'
    BY <1>1, <1>2, <2>2, <2>3 DEF SenderOK, Called
  <2> QED BY <1>4, <2>1, <2>2, <2>4 DEF LaunchStates
<1>9. CASE FinishTimeout(l)
  BY <1>2, <1>9, GivenUpSender DEF FinishTimeout
<1> QED BY <1>5, <1>6, <1>7, <1>8, <1>9

\* Steps in which nothing moves that a launch is in the hands of.
LEMMA SenderUntouched ==
    ASSUME SenderInv, NEW k \in Launches, UNCHANGED <<launch, stops, calls, launchIntents, settling>>,
           Called(k)' => Called(k), k \in waiters' => k \in waiters
    PROVE  SenderOK(k)'
<1>1. SenderKept(k)
  BY DEF SenderKept, InHand, Answered, Reported
<1> QED BY <1>1, SenderStays DEF SenderInv

LEMMA OrderSenders ==
    ASSUME SenderInv, NEW k \in Launches, NEW o \in Orders,
           \/ \E w \in NewWindows : OrderMove(o, w) \/ \E l \in Launches : OrderClose(o, l, w)
           \/ OrderTimeout(o)
    PROVE  SenderOK(k)'
<1>1. pending \in Seq(WindowRequests) /\ k # o
  BY WindowAssumption DEF SenderInv, WindowInv, Typed, WindowTypeOK
<1>2. UNCHANGED <<launch, stops, calls, launchIntents, settling, replies>>
  BY DEF OrderClose, OrderMove, OrderTimeout, Enqueue, scripts
<1>3. waiters' \in {waiters \cup {o}, waiters \ {o}}
  BY DEF OrderClose, OrderMove, OrderTimeout, Enqueue, Forget
<1>4. Has(pending', CancelLaunch(k)) => Has(pending, CancelLaunch(k))
  <2>1. CASE OrderTimeout(o)
    BY <1>1, <2>1, HasRemoved DEF OrderTimeout, Forget
  <2>2. CASE \E w \in NewWindows : OrderMove(o, w) \/ \E l \in Launches : OrderClose(o, l, w)
    <3>0. PICK w \in NewWindows : OrderMove(o, w) \/ \E l \in Launches : OrderClose(o, l, w)
      BY <2>2
    <3>1. PICK a \in {CloseWindow(o, w), MoveWindow(o, w)} : pending' = Append(pending, a)
      BY <3>0 DEF OrderClose, OrderMove, Enqueue
    <3>2. a \in WindowRequests /\ CancelLaunch(k) # a
      BY RequestKinds, RequestFields
    <3> QED BY <1>1, <3>1, <3>2, HasAppend
  <2> QED BY <2>1, <2>2
<1> QED BY <1>1, <1>2, <1>3, <1>4, SenderUntouched DEF Called

LEMMA QuietSenders ==
    ASSUME SenderInv, NEW k \in Launches,
           \/ Poll \/ ScriptStarts \/ HeartbeatStale \/ UNCHANGED windowVars
           \/ \E w \in NewWindows : LaunchedExpires(w) \/ WindowCloses(w)
    PROVE  SenderOK(k)'
<1>1. UNCHANGED <<launch, stops, calls, launchIntents, settling, waiters>>
  BY DEF Poll, ScriptStarts, HeartbeatStale, LaunchedExpires, WindowCloses, windowVars,
         queue, scripts, screen, tasks
<1>2. Called(k)' => Called(k)
  <2>1. CASE Poll
    <3>1. /\ pending \in Seq(WindowRequests) /\ pending # <<>> /\ replies \in Seq(WindowRequests)
          /\ pending' = Tail(pending) /\ replies' = Append(replies, Head(pending))
      BY <2>1 DEF Poll, SenderInv, WindowInv, Typed, WindowTypeOK
    <3>2. PICK a \in WindowRequests : a = Head(pending) /\ Has(pending, a)
      BY <3>1, HasTail
    <3>3. \A x : Has(pending', x) => Has(pending, x)
      BY <3>1, HasTail
    <3>4. \A x : Has(replies', x) <=> Has(replies, x) \/ x = a
      BY <3>1, <3>2, HasAppend
    <3> QED BY <3>2, <3>3, <3>4 DEF Called
  <2>2. CASE ~Poll
    BY <2>2 DEF ScriptStarts, HeartbeatStale, LaunchedExpires, WindowCloses, windowVars,
                queue, Called
  <2> QED BY <2>1, <2>2
<1> QED BY <1>1, <1>2, SenderUntouched

\* A launch passes from the script's hands into a call, and stays in hand.
LEMMA SettlingSenders ==
    ASSUME SenderInv, NEW k \in Launches, NEW x \in Launches \cup Orders,
           \/ x \in Launches /\ PruneIntent(x)
           \/ x \in Launches /\ \E w \in NewWindows : LaunchSettles(x, w)
           \/ x \in Orders /\ \E w \in NewWindows : OrderSettles(x, w)
    PROVE  SenderOK(k)'
<1>1. UNCHANGED <<launch, stops, waiters, pending, replies>>
  BY DEF PruneIntent, LaunchSettles, OrderSettles, queue, tasks
<1>2. PICK r \in Results : calls' = Append(calls, Result(x, r))
  BY DEF PruneIntent, LaunchSettles, OrderSettles, Results
<1>3. calls \in Seq(Calls) /\ launchIntents \in Seq(Launches) /\ Result(x, r) \in Calls
  BY RequestKinds DEF SenderInv, WindowInv, Typed, WindowTypeOK
<1>4. \A c : Has(calls', c) <=> Has(calls, c) \/ c = Result(x, r)
  BY <1>2, <1>3, HasAppend
<1>5. ~(Has(calls', Acknowledge(k)) /\ ~Has(calls, Acknowledge(k)))
  BY <1>4, RequestFields
<1>6. Answered(x)'
  BY <1>4 DEF Answered, Reported
<1>7. ASSUME InHand(k), k # x PROVE InHand(k)'
  <2>1. Has(launchIntents, k) => Has(launchIntents', k)
    BY <1>3, <1>7, HasCalledOff DEF PruneIntent, LaunchSettles, OrderSettles
  <2>2. \A v \in NewWindows : <<k, v>> \in settling => <<k, v>> \in settling'
    BY <1>7 DEF PruneIntent, LaunchSettles, OrderSettles
  <2>3. \A q \in Results : Reported(k, q) => Reported(k, q)'
    BY <1>4 DEF Reported
  <2> QED BY <1>7, <2>1, <2>2, <2>3 DEF InHand, Answered
<1>8. SenderKept(k)
  BY <1>1, <1>5, <1>6, <1>7 DEF SenderKept, Called, InHand
<1> QED BY <1>8, SenderStays DEF SenderInv

LEMMA WindowAddedSenders ==
    ASSUME SenderInv, NEW k \in Launches, NEW w \in NewWindows, NEW by, WindowAdded(w, by)
    PROVE  SenderOK(k)'
<1>1. UNCHANGED <<launch, stops, waiters, calls, pending, replies>>
  BY DEF WindowAdded, queue, tasks
<1>2. InHand(k) => InHand(k)'
  <2>1. CASE TakeIntent(w)
    <3>1. /\ launchIntents \in Seq(Launches) /\ launchIntents # <<>> /\ launchIntents' = Tail(launchIntents)
          /\ settling' = settling \cup {<<Head(launchIntents), w>>}
      BY <2>1 DEF TakeIntent, SenderInv, WindowInv, Typed, WindowTypeOK
    <3>2. Has(launchIntents, k) => Has(launchIntents', k) \/ k = Head(launchIntents)
      BY <3>1, HasTail
    <3>3. Answered(k) => Answered(k)'
      BY <1>1, <3>1 DEF Answered, Reported
    <3>4. k = Head(launchIntents) => Answered(k)'
      BY <3>1 DEF Answered
    <3> QED BY <3>2, <3>3, <3>4 DEF InHand
  <2>2. CASE UNCHANGED <<launchIntents, settling>>
    BY <1>1, <2>2 DEF InHand, Answered, Reported
  <2> QED BY <2>1, <2>2 DEF WindowAdded
<1>3. SenderKept(k)
  BY <1>1, <1>2 DEF SenderKept, Called
<1> QED BY <1>3, SenderStays DEF SenderInv

\* The script stops: what it had in hand is excused.
LEMMA StopSenders == ASSUME SenderInv, NEW k \in Launches, ScriptStops PROVE SenderOK(k)'
<1>1. stops' # 0 /\ UNCHANGED <<pending, calls, launch>> /\ replies' = <<>>
  BY WindowAssumption DEF ScriptStops, queue, tasks, SenderInv, WindowInv, Typed, WindowTypeOK
<1>2. Called(k)' => Called(k)
  BY <1>1, EmptyHasNothing DEF Called
<1> QED BY <1>1, <1>2 DEF SenderInv, SenderOK

\* The script takes a launch in hand, lets one go that was called off, or
\* carries out an order.
LEMMA HandleReplySenders == ASSUME SenderInv, HandleReply, NEW k \in Launches PROVE SenderOK(k)'
<1>1. /\ Head(replies) \in WindowRequests /\ Has(replies, Head(replies))
      /\ \A x : Has(replies', x) => Has(replies, x)
      /\ UNCHANGED <<pending, waiters, stops, launch>>
  BY ReplyTaken DEF SenderInv, WindowInv
<1>2. /\ SenderOK(k) /\ LaunchOK(k) /\ launchIntents \in Seq(Launches) /\ calls \in Seq(Calls)
      /\ Called(k)' => Called(k)
  BY <1>1 DEF SenderInv, WindowInv, Typed, WindowTypeOK, Called
<1>3. CASE \E l \in Launches : Head(replies) = LaunchWindow(l)
  <2>1. PICK l \in Launches : Head(replies) = LaunchWindow(l)
    BY <1>3
  <2>2. launchIntents' = Append(launchIntents, l) /\ calls' = Append(calls, Acknowledge(l)) /\ UNCHANGED settling
    BY <2>1, RequestFields DEF HandleReply
  <2>3. \A x : Has(launchIntents', x) <=> Has(launchIntents, x) \/ x = l
    BY <1>2, <2>2, HasAppend
  <2>4. \A x : Has(calls', x) <=> Has(calls, x) \/ x = Acknowledge(l)
    BY <1>2, <2>2, HasAppend, RequestKinds
  <2>5. InHand(k) => InHand(k)'
    BY <2>2, <2>3, <2>4 DEF InHand, Answered, Reported
  <2>6. k = l => InHand(k)'
    BY <2>3 DEF InHand
  <2>7. k # l => Acknowledge(k) # Acknowledge(l)
    BY RequestFields
  <2> QED BY <1>1, <1>2, <2>4, <2>5, <2>6, <2>7 DEF SenderOK
<1>4. CASE \E l \in Launches : Head(replies) = CancelLaunch(l)
  <2>1. PICK l \in Launches : Head(replies) = CancelLaunch(l)
    BY <1>4
  <2>2. launchIntents' = CalledOff(l) /\ UNCHANGED <<calls, settling>>
    BY <2>1, RequestFields DEF HandleReply
  <2>3. k # l /\ InHand(k) => InHand(k)'
    BY <1>2, <2>2, HasCalledOff DEF InHand, Answered, Reported
  <2>4. k = l => k \notin waiters
    BY <1>1, <1>2, <2>1 DEF SenderOK, Called, LaunchOK
  <2> QED BY <1>1, <1>2, <2>2, <2>3, <2>4 DEF SenderOK
<1>5. CASE \E o \in Orders, w \in NewWindows : Head(replies) = CloseWindow(o, w) \/ Head(replies) = MoveWindow(o, w)
  <2>1. PICK o \in Orders, w \in NewWindows : Head(replies) = CloseWindow(o, w) \/ Head(replies) = MoveWindow(o, w)
    BY <1>5
  <2>2. PICK a : a = Head(replies) /\ a.id = o /\ a.window = w /\ a.action \in {"close_window", "move_window"}
    BY <2>1, RequestFields
  <2>3. /\ UNCHANGED launchIntents /\ settling \subseteq settling'
        /\ calls' = calls \/ calls' = Append(calls, Result(o, "error"))
    BY <2>2 DEF HandleReply
  <2>4. /\ \A x : Has(calls, x) => Has(calls', x)
        /\ \A x : Has(calls', x) => Has(calls, x) \/ x = Result(o, "error")
    <3>1. PICK c \in Calls : c = Result(o, "error")
      BY RequestKinds DEF Results
    <3>2. CASE calls' = Append(calls, c)
      BY <1>2, <3>1, <3>2, HasAppend
    <3> QED BY <2>3, <3>1, <3>2
  <2>5. InHand(k) => InHand(k)'
    BY <2>3, <2>4 DEF InHand, Answered, Reported
  <2>6. Acknowledge(k) # Result(o, "error")
    BY RequestFields
  <2> QED BY <1>1, <1>2, <2>4, <2>5, <2>6 DEF SenderOK
<1> QED BY <1>1, <1>3, <1>4, <1>5, RequestKinds

\* An acknowledgement finds the launch in hand, and a result takes its sender.
LEMMA DeliverSenders == ASSUME SenderInv, Deliver, NEW k \in Launches PROVE SenderOK(k)'
<1>1. /\ Head(calls) \in Calls /\ Has(calls, Head(calls))
      /\ \A x : Has(calls', x) => Has(calls, x)
      /\ \A x : Has(calls, x) => Has(calls', x) \/ x = Head(calls)
      /\ UNCHANGED <<pending, replies, stops, launchIntents, settling>>
  BY CallTaken DEF SenderInv, WindowInv
<1>2. SenderOK(k) /\ launch \in [Launches -> LaunchStates]
  BY DEF SenderInv, WindowInv, Typed, WindowTypeOK, LaunchStates
<1>3. Called(k)' <=> Called(k)
  BY <1>1 DEF Called
<1>4. ASSUME Acknowledge(k) # Head(calls), \A q \in Results : Result(k, q) # Head(calls) 
      PROVE  InHand(k) => InHand(k)'
  BY <1>1, <1>4 DEF InHand, Answered, Reported
<1>5. CASE \E l \in Launches : Head(calls) = Acknowledge(l)
  <2>1. PICK l \in Launches : Head(calls) = Acknowledge(l)
    BY <1>5
  <2>2. /\ waiters' = waiters
        /\ launch' = launch \/ (l \in acknowledgements /\ launch' = [launch EXCEPT ![l] = "launching"])
    BY <2>1, RequestFields DEF Deliver, Acknowledged, Becomes
  <2>3. InHand(k) => InHand(k)'
    BY <1>1, <2>1, RequestFields DEF InHand, Answered, Reported
  <2>4. CASE launch'[k] = launch[k]
    BY <1>1, <1>2, <1>3, <2>2, <2>3, <2>4 DEF SenderOK
  <2>5. CASE launch'[k] # launch[k]
    <3>1. k = l /\ l \in acknowledgements
      BY <1>2, <2>2, <2>5
    <3>2. launch[k] = "arming"
      BY <3>1 DEF SenderInv, WindowInv, Typed, WindowTypeOK
    <3> QED BY <1>1, <1>2, <1>3, <2>1, <2>2, <2>3, <3>1, <3>2 DEF SenderOK
  <2> QED BY <2>4, <2>5
<1>6. CASE \E x \in Launches \cup Orders, r \in Results : Head(calls) = Result(x, r)
  <2>1. PICK x \in Launches \cup Orders, r \in Results : Head(calls) = Result(x, r)
    BY <1>6
  <2>2. waiters' = waiters \ {x} /\ launch' = launch
    <3>1. \/ x \in Launches /\ LaunchCompleted(x, r)
          \/ x \in Orders /\ OrderCompleted(x, r)
      BY <2>1, RequestFields DEF Deliver
    <3> QED BY <3>1 DEF LaunchCompleted, OrderCompleted
  <2>3. CASE k = x
    BY <1>2, <1>3, <2>2, <2>3 DEF SenderOK
  <2>4. CASE k # x
    <3>1. InHand(k) => InHand(k)'
      BY <1>4, <2>1, <2>4, RequestFields
    <3> QED BY <1>1, <1>2, <1>3, <2>2, <3>1 DEF SenderOK
  <2> QED BY <2>3, <2>4
<1> QED BY <1>1, <1>5, <1>6, RequestKinds

LEMMA SenderStart == InitWindows => SenderInv
<1> SUFFICES ASSUME InitWindows, NEW l \in Launches PROVE SenderOK(l)
  BY WindowStart DEF SenderInv
<1> QED BY EmptyHasNothing DEF SenderOK, Called, InitWindows

LEMMA SenderStep == SenderInv /\ [NextWindows]_windowVars => SenderInv'
<1> SUFFICES ASSUME SenderInv, [NextWindows]_windowVars PROVE SenderInv'
  OBVIOUS
<1>1. WindowInv'
  BY WindowStep DEF SenderInv
<1> SUFFICES ASSUME NEW k \in Launches PROVE SenderOK(k)'
  BY <1>1 DEF SenderInv
<1>2. ASSUME NEW l \in Launches,
             ArmLaunch(l) \/ ArmTimeout(l) \/ LaunchEntry(l) \/ FinishLaunch(l) \/ FinishTimeout(l)
      PROVE  SenderOK(k)'
  BY <1>1, <1>2, RequestSenders
<1>3. ASSUME NEW l \in Launches, PruneIntent(l) PROVE SenderOK(k)'
  BY <1>3, SettlingSenders
<1>4. ASSUME NEW o \in Orders,
             \/ \E w \in NewWindows : OrderMove(o, w) \/ \E l \in Launches : OrderClose(o, l, w)
             \/ OrderTimeout(o)
      PROVE  SenderOK(k)'
  BY <1>4, OrderSenders
<1>5. ASSUME NEW w \in NewWindows,
             \/ \E l \in Launches : LaunchSettles(l, w)
             \/ \E o \in Orders : OrderSettles(o, w)
      PROVE  SenderOK(k)'
  BY <1>5, SettlingSenders
<1>6. CASE \/ Poll \/ ScriptStarts \/ HeartbeatStale \/ UNCHANGED windowVars
           \/ \E w \in NewWindows : LaunchedExpires(w) \/ WindowCloses(w)
  BY <1>6, QuietSenders
<1>7. ASSUME NEW w \in NewWindows, NEW by, WindowAdded(w, by) PROVE SenderOK(k)'
  BY <1>7, WindowAddedSenders
<1>8. CASE Deliver \/ HandleReply \/ ScriptStops
  BY <1>8, DeliverSenders, HandleReplySenders, StopSenders
<1> QED BY <1>2, <1>3, <1>4, <1>5, <1>6, <1>7, <1>8 DEF NextWindows

LEMMA SenderInvariant == SpecWindows => []SenderInv
BY SenderStart, SenderStep, PTL DEF SpecWindows

\* A sender that is left is answered.
LEMMA LeftAnswered == SenderInv => LeftSenderAnswered
<1> SUFFICES ASSUME SenderInv, NEW l \in waiters \cap Launches, launch[l] = "unpolled", stops = 0
             PROVE  \/ Contains(launchIntents, l)
                    \/ \E w \in NewWindows : <<l, w>> \in settling
                    \/ \E r \in NewWindows \cup {"error"} : Contains(calls, Result(l, r))
  BY DEF LeftSenderAnswered
<1>1. InHand(l) /\ launchIntents \in Seq(Launches) /\ calls \in Seq(Calls)
  BY DEF SenderInv, SenderOK, WindowInv, Typed, WindowTypeOK
<1>2. Has(launchIntents, l) => Contains(launchIntents, l)
  BY <1>1 DEF Contains, Has
<1>3. \A r : Reported(l, r) => Contains(calls, Result(l, r))
  BY <1>1 DEF Contains, Has, Reported
<1> QED BY <1>1, <1>2, <1>3 DEF InHand, Answered, Results

(* However a launch or an order ends, answered, refused or timed out, the    *)
(* daemon keeps no queued action of it and no sender but that of a launch    *)
(* whose launcher could not be asked, which is still to be answered; and an  *)
(* intent that the script still holds for a launch that was given up is      *)
(* about to be called off.                                                   *)
THEOREM RequestsCleanedUpHolds == SpecWindows => []RequestsCleanedUp
<1>1. SenderInv => RequestsCleanedUp
  BY EndedForgotten, CancelFollows, LeftAnswered DEF RequestsCleanedUp, SenderInv
<1> QED BY <1>1, SenderInvariant, PTL

(* A new window is handed to one launch at most, the launched-window store   *)
(* has it for the client of that launch, and a close that needs no approval  *)
(* is ordered for such a window and by that client only.                     *)
THEOREM LaunchedWindowsOwnedHolds == SpecWindows => []LaunchedWindowsOwned
<1>1. WindowInv => OneWindowPerLaunch
  <2> SUFFICES ASSUME WindowInv PROVE OneWindowPerLaunch
    OBVIOUS
  <2>1. \A l, k \in Launches : outcome[l] = outcome[k] /\ outcome[l] \in NewWindows => l = k
    BY DEF WindowInv, WindowOK, Claims
  <2>2. \A w \in NewWindows : launched[w] # Nothing => outcome[launched[w]] = w
    BY DEF WindowInv, WindowOK
  <2> QED BY <2>1, <2>2 DEF OneWindowPerLaunch
<1>2. WindowInv => UnpromptedCloseIsOwn
  BY DEF WindowInv, OrderOK, UnpromptedCloseIsOwn
<1>3. WindowInv => LaunchedWindowsOwned
  BY <1>1, <1>2 DEF LaunchedWindowsOwned
<1> QED BY <1>3, WindowInvariant, PTL

-----------------------------------------------------------------------------
(* The user and the agents at the same windows.                            *)

Snapshots == [backend: Nat, target: Nat, targeted: BOOLEAN]
Act == [at: {"idle", "refused", "quiet", "snapshot", "asked", "failed", "done"},
        window: Targets \cup {None}, available: BOOLEAN, snapshot: Snapshots \cup {None},
        verdict: {None, "quiet", "user_preempted", "unavailable"}]
Event == [at: {"none", "recorded", "done"}, window: Targets \cup {None}, behind: SUBSET Actions]

InFlight(a) == act[a].at \in {"snapshot", "asked"}

PreemptionTyped ==
    /\ ActivityTypeOK
    /\ stage \in [Actions -> Requests!Stages]
    /\ answer \in [Actions -> Requests!Answers]
    /\ act \in [Actions -> Act]
    /\ event \in [Events -> Event]
    /\ touched \subseteq Actions /\ forgotten \subseteq Actions

\* Where an action is, what it has read, and how far the backend has it.
ActOK(a) ==
    /\ act[a].at \in {"quiet", "snapshot", "asked", "done"} => act[a].window \in Targets
    /\ act[a].at \in {"snapshot", "asked", "done"} => act[a].snapshot \in Snapshots
    /\ act[a].at # "done" => act[a].verdict = None
    /\ act[a].at \in {"idle", "refused", "quiet"} => a \notin touched
    /\ stage[a] # "new" => act[a].at \in {"asked", "failed", "done"}
    /\ stage[a] = "asked" /\ answer[a] = "none" => act[a].at = "asked"

\* A count that was not dropped only grows, and a touch of the target since
\* the snapshot shows in it.
CountsOn(a) ==
    InFlight(a) /\ a \notin forgotten =>
        /\ backendGeneration >= act[a].snapshot.backend
        /\ generation[act[a].window] >= act[a].snapshot.target
        /\ a \in touched => generation[act[a].window] > act[a].snapshot.target

\* What was queued when a touch was recorded is still for the window that
\* its handler cancels, as long as it waits.
EventOK(e) ==
    /\ event[e].at = "recorded" => event[e].window \in Targets
    /\ \A a \in event[e].behind :
          /\ stage[a] # "new"
          /\ event[e].at = "recorded" /\ stage[a] = "asked" /\ answer[a] = "none" =>
                act[a].window = event[e].window

(* The inductive invariant. *)
PreemptionInv ==
    /\ PreemptionTyped
    /\ \A a \in Actions : ActOK(a) /\ CountsOn(a)
    /\ \A e \in Events : EventOK(e)
    /\ RecentTouchReported
    /\ NothingQueuedBehindTouch

-----------------------------------------------------------------------------
(* The tracker.                                                            *)

LEMMA NoneIsNoTarget == None \notin Targets /\ None \notin Backends /\ Spy # None /\ Legacy # None
BY BackendAssumption DEF Backends

LEMMA RecordTouchType ==
    ASSUME ActivityTypeOK, NEW b \in Backends, NEW w \in Targets \cup {None}, RecordTouch(b, w)
    PROVE  ActivityTypeOK'
<1>1. /\ backend' \in Backends \cup {None} /\ backendGeneration' \in Nat /\ interferenceGeneration' \in Nat
  BY DEF ActivityTypeOK, RecordTouch, SetBackend
<1>2. CASE w = None
  BY <1>1, <1>2 DEF ActivityTypeOK, RecordTouch
<1>3. CASE w # None
  <2>1. generation' = [v \in Targets |-> IF v = w THEN (IF v \in Forgotten THEN 0 ELSE generation[v]) + 1
                                         ELSE IF v \in Forgotten THEN 0 ELSE generation[v]]
    BY <1>3 DEF RecordTouch, CountTouch
  <2>2. lastTouch' = [v \in Targets |-> IF v = w THEN 0 ELSE IF v \in Forgotten THEN None ELSE lastTouch[v]]
    BY <1>3 DEF RecordTouch
  <2>3. generation' \in [Targets -> Nat]
    BY <2>1 DEF ActivityTypeOK
  <2>4. lastTouch' \in [Targets -> 0..HistoryTTL + 1 \cup {None}]
    BY <2>2, HistoryAssumption DEF ActivityTypeOK
  <2>5. \A v \in Targets : generation'[v] > 0 <=> lastTouch'[v] # None
    <3> SUFFICES ASSUME NEW v \in Targets PROVE generation'[v] > 0 <=> lastTouch'[v] # None
      OBVIOUS
    <3>1. CASE v = w
      <4>1. lastTouch'[v] = 0 /\ generation'[v] > 0
        BY <2>1, <2>2, <3>1 DEF ActivityTypeOK
      <4>2. None # 0
        BY <4>1, BackendAssumption DEF ActivityTypeOK
      <4> QED BY <4>1, <4>2
    <3>2. CASE v # w
      BY <2>1, <2>2, <3>2 DEF ActivityTypeOK
    <3> QED BY <3>1, <3>2
  <2> QED BY <1>1, <2>3, <2>4, <2>5 DEF ActivityTypeOK
<1> QED BY <1>2, <1>3

(* The counts of the targets whose touch is still remembered.              *)
LEMMA CountsGrow ==
    ASSUME ActivityTypeOK, NEW b \in Backends, NEW w \in Targets \cup {None}, RecordTouch(b, w),
           NEW v \in Targets, v \notin Forgotten \/ w = None
    PROVE  /\ backendGeneration' >= backendGeneration
           /\ generation'[v] >= generation[v]
           /\ v = w => generation'[v] > generation[v]
<1>1. backendGeneration' >= backendGeneration
  BY DEF ActivityTypeOK, RecordTouch, SetBackend
<1>2. CASE w = None
  BY <1>1, <1>2, NoneIsNoTarget DEF ActivityTypeOK, RecordTouch
<1>3. CASE w # None
  BY <1>1, <1>3 DEF ActivityTypeOK, RecordTouch, CountTouch
<1> QED BY <1>2, <1>3

-----------------------------------------------------------------------------
(* The steps of an action.                                                 *)

(* One action moves on; the tracker, the events and the other actions stay. *)
\* What is judged of an action: RecentTouchReported, one action at a time.
ReportedOn(a) == a \in Judged /\ FullHistory(a) /\ a \in touched => act[a].verdict = "user_preempted"

ActionOK(a) == ActOK(a) /\ CountsOn(a) /\ ReportedOn(a)

Stays(c) ==
    /\ UNCHANGED <<act[c], stage[c], answer[c]>>
    /\ c \in touched' <=> c \in touched
    /\ c \in forgotten' <=> c \in forgotten

\* Nothing that left its client comes back, or waits again for another window.
GoesOn(a) ==
    /\ stage[a] # "new" => stage'[a] # "new"
    /\ stage'[a] = "asked" /\ answer'[a] = "none" /\ stage[a] # "new" =>
         stage[a] = "asked" /\ answer[a] = "none" /\ act'[a].window = act[a].window

Moves(a) ==
    /\ UNCHANGED <<activityVars, event>>
    /\ PreemptionTyped'
    /\ \A c \in Actions : c # a => Stays(c)
    /\ GoesOn(a)

LEMMA ActionStep ==
    ASSUME PreemptionInv, NEW a \in Actions, Moves(a), ActionOK(a)'
    PROVE  PreemptionInv'
<1>1. ASSUME NEW c \in Actions PROVE ActOK(c)' /\ CountsOn(c)' /\ ReportedOn(c)'
  <2>1. CASE c = a
    BY <2>1 DEF ActionOK
  <2>2. CASE c # a
    <3>1. ActOK(c) /\ CountsOn(c) /\ ReportedOn(c)
      BY DEF PreemptionInv, RecentTouchReported, ReportedOn
    <3>2. Stays(c) /\ UNCHANGED <<backendGeneration, generation>>
      BY <2>2 DEF Moves, activityVars
    <3>3. ActOK(c)'
      BY <3>1, <3>2 DEF ActOK, Stays
    <3>4. CountsOn(c)'
      BY <3>1, <3>2 DEF CountsOn, InFlight, Stays
    <3>5. ReportedOn(c)'
      BY <3>1, <3>2 DEF ReportedOn, Judged, FullHistory, Stays
    <3> QED BY <3>3, <3>4, <3>5
  <2> QED BY <2>1, <2>2
<1>2. ASSUME NEW e \in Events PROVE EventOK(e)'
  <2>1. EventOK(e) /\ event'[e] = event[e] /\ event[e].behind \subseteq Actions
    BY DEF PreemptionInv, PreemptionTyped, Event, Moves
  <2>2. ASSUME NEW c \in Actions
        PROVE  GoesOn(c)
    BY <2>2 DEF Moves, GoesOn, Stays
  <2> QED BY <2>1, <2>2 DEF EventOK, GoesOn
<1>3. RecentTouchReported'
  BY <1>1 DEF RecentTouchReported, ReportedOn, Judged
<1>4. NothingQueuedBehindTouch'
  <2> SUFFICES ASSUME NEW e \in Events, event'[e].at = "done", NEW c \in event'[e].behind, stage'[c] = "asked"
               PROVE  answer'[c] # "none"
    BY DEF NothingQueuedBehindTouch
  <2>1. EventOK(e) /\ event'[e] = event[e] /\ c \in Actions
    BY DEF PreemptionInv, PreemptionTyped, Event, Moves
  <2>2. GoesOn(c)
    BY <2>1 DEF Moves, GoesOn, Stays
  <2>3. stage[c] = "asked" => answer[c] # "none"
    BY <2>1 DEF PreemptionInv, NothingQueuedBehindTouch
  <2> QED BY <2>1, <2>2, <2>3 DEF EventOK, GoesOn
<1>5. PreemptionTyped'
  BY DEF Moves
<1> QED BY <1>1, <1>2, <1>3, <1>4, <1>5 DEF PreemptionInv

LEMMA ActFields ==
    ASSUME PreemptionTyped, NEW a \in Actions
    PROVE  /\ act[a] \in Act /\ stage[a] \in Requests!Stages /\ answer[a] \in Requests!Answers
           /\ backendGeneration \in Nat /\ \A w \in Targets : generation[w] \in Nat
BY DEF PreemptionTyped, ActivityTypeOK

LEMMA CheckQuietStep ==
    ASSUME PreemptionInv, NEW a \in Actions, NEW w \in Targets, CheckQuiet(a, w)
    PROVE  PreemptionInv'
<1>1. /\ PreemptionTyped /\ ActOK(a) /\ act[a] \in Act /\ act[a].at = "idle"
      /\ UNCHANGED <<activityVars, stage, answer, event, touched, forgotten>>
  BY ActFields DEF CheckQuiet, PreemptionInv, requests, history
<1>2. ASSUME NEW t \in Act, act' = [act EXCEPT ![a] = t],
             t.at \in {"refused", "quiet"}, t.window \in Targets \/ t.at = "refused",
             t.verdict = None
      PROVE  PreemptionInv'
  <2>1. act' \in [Actions -> Act] /\ act'[a] = t /\ \A c \in Actions : c # a => act'[c] = act[c]
    BY <1>1, <1>2 DEF PreemptionTyped
  <2>2. ActOK(a)' /\ CountsOn(a)'
    BY <1>1, <1>2, <2>1 DEF ActOK, CountsOn, InFlight
  <2>3. a \notin touched'
    BY <1>1 DEF ActOK
  <2>4. stage[a] = "new"
    BY <1>1 DEF ActOK
  <2>5. Moves(a)
    <3>1. PreemptionTyped'
      BY <1>1, <2>1 DEF PreemptionTyped, ActivityTypeOK, activityVars
    <3> QED BY <1>1, <2>1, <2>4, <3>1 DEF Moves, Stays, GoesOn
  <2>6. ActionOK(a)'
    BY <2>2, <2>3 DEF ActionOK, ReportedOn
  <2> QED BY <2>5, <2>6, ActionStep
<1>3. CASE act' = [act EXCEPT ![a].at = "refused"]
  <2> DEFINE t == [act[a] EXCEPT !.at = "refused"]
  <2>1. t \in Act /\ t.at = "refused" /\ t.verdict = None
    BY <1>1 DEF Act, ActOK
  <2> QED BY <1>2, <1>3, <2>1
<1>4. CASE act' = [act EXCEPT ![a].at = "quiet", ![a].window = w, ![a].available = Available]
  <2> DEFINE t == [act[a] EXCEPT !.at = "quiet", !.window = w, !.available = Available]
  <2>1. Available \in BOOLEAN
    BY DEF Available
  <2>2. t \in Act /\ t.at = "quiet" /\ t.window = w /\ t.verdict = None
    BY <1>1, <2>1 DEF Act, ActOK
  <2>3. act' = [act EXCEPT ![a] = t]
    BY <1>1, <1>4 DEF Act
  <2> QED BY <1>2, <2>2, <2>3
<1> QED BY <1>3, <1>4 DEF CheckQuiet

LEMMA TakeSnapshotStep ==
    ASSUME PreemptionInv, NEW a \in Actions, TakeSnapshot(a)
    PROVE  PreemptionInv'
<1> DEFINE n == TargetSnapshot(act[a].window)
           t == [act[a] EXCEPT !.at = "snapshot", !.snapshot = n]
<1>1. /\ PreemptionTyped /\ ActOK(a) /\ act[a] \in Act /\ act[a].at = "quiet"
      /\ UNCHANGED <<activityVars, stage, answer, event, touched, forgotten>>
  BY ActFields DEF TakeSnapshot, PreemptionInv, requests, history
<1>2. act[a].window \in Targets /\ a \notin touched /\ stage[a] = "new"
  BY <1>1 DEF ActOK
<1>3. n \in Snapshots /\ n.backend = backendGeneration /\ n.target = generation[act[a].window]
  BY <1>1, <1>2 DEF TargetSnapshot, Snapshots, PreemptionTyped, ActivityTypeOK
<1> HIDE DEF n
<1>4. /\ t \in Act /\ t.at = "snapshot" /\ t.window = act[a].window /\ t.verdict = None
      /\ t.snapshot = n
  BY <1>1, <1>3 DEF Act, ActOK
<1>5. act' = [act EXCEPT ![a] = t]
  BY <1>1 DEF TakeSnapshot, Act, n
<1> HIDE DEF t
<1>6. act' \in [Actions -> Act] /\ act'[a] = t /\ \A c \in Actions : c # a => act'[c] = act[c]
  BY <1>1, <1>4, <1>5 DEF PreemptionTyped
<1>7. ActOK(a)'
  BY <1>1, <1>2, <1>3, <1>4, <1>6 DEF ActOK
<1>8. CountsOn(a)'
  <2>1. UNCHANGED <<backendGeneration, generation>>
    BY <1>1 DEF activityVars
  <2> QED BY <1>1, <1>2, <1>3, <1>4, <1>6, <2>1 DEF CountsOn, PreemptionTyped, ActivityTypeOK
<1>9. Moves(a)
  <2>1. PreemptionTyped'
    BY <1>1, <1>6 DEF PreemptionTyped, ActivityTypeOK, activityVars
  <2> QED BY <1>1, <1>2, <1>6, <2>1 DEF Moves, Stays, GoesOn
<1>10. ActionOK(a)'
  BY <1>1, <1>2, <1>7, <1>8 DEF ActionOK, ReportedOn
<1> QED BY <1>9, <1>10, ActionStep

LEMMA AskBackendStep ==
    ASSUME PreemptionInv, NEW a \in Actions, AskBackend(a)
    PROVE  PreemptionInv'
<1> DEFINE t == [act[a] EXCEPT !.at = "asked"]
<1>1. /\ PreemptionTyped /\ ActOK(a) /\ CountsOn(a) /\ act[a] \in Act /\ act[a].at = "snapshot"
      /\ UNCHANGED <<activityVars, event, touched, forgotten, answer>>
      /\ stage' = [stage EXCEPT ![a] = "asked"] /\ stage[a] = "new" /\ answer[a] = "none"
  BY ActFields DEF AskBackend, PreemptionInv, history, Requests!Ask
<1>2. /\ t \in Act /\ t.at = "asked" /\ t.window = act[a].window /\ t.verdict = None
      /\ t.snapshot = act[a].snapshot
  BY <1>1 DEF Act, ActOK
<1>3. act' = [act EXCEPT ![a] = t]
  BY DEF AskBackend
<1> HIDE DEF t
<1>4. act' \in [Actions -> Act] /\ act'[a] = t /\ \A c \in Actions : c # a => act'[c] = act[c]
  BY <1>1, <1>2, <1>3 DEF PreemptionTyped
<1>5. /\ stage' \in [Actions -> Requests!Stages] /\ stage'[a] = "asked"
      /\ \A c \in Actions : c # a => stage'[c] = stage[c]
  BY <1>1 DEF PreemptionTyped, Requests!Stages
<1>6. ActOK(a)'
  BY <1>1, <1>2, <1>4, <1>5 DEF ActOK
<1>7. CountsOn(a)'
  BY <1>1, <1>2, <1>4 DEF CountsOn, InFlight, activityVars
<1>8. Moves(a)
  <2>1. PreemptionTyped'
    BY <1>1, <1>4, <1>5 DEF PreemptionTyped, ActivityTypeOK, activityVars
  <2> QED BY <1>1, <1>4, <1>5, <2>1 DEF Moves, Stays, GoesOn
<1>9. ReportedOn(a)'
  BY <1>2, <1>4, VerdictAssumption DEF ReportedOn, Judged
<1> QED BY <1>6, <1>7, <1>8, <1>9, ActionStep DEF ActionOK

(* The backend and the queue tell an action how it went; the action itself *)
(* waits.                                                                  *)
LEMMA BackendStep ==
    ASSUME PreemptionInv, NEW a \in Actions, Backend(a)
    PROVE  PreemptionInv'
<1>1. /\ PreemptionTyped /\ ActOK(a) /\ CountsOn(a) /\ act[a].at = "asked"
      /\ UNCHANGED <<activityVars, act, event, touched, forgotten>>
  BY DEF Backend, PreemptionInv, history
<1>2. /\ stage' \in [Actions -> Requests!Stages] /\ answer' \in [Actions -> Requests!Answers]
      /\ \A c \in Actions : c # a => stage'[c] = stage[c] /\ answer'[c] = answer[c]
      /\ stage[a] # "new" => stage'[a] # "new"
      /\ stage'[a] = "asked" /\ answer'[a] = "none" => stage[a] = "asked" /\ answer[a] = "none"
  BY <1>1 DEF Backend, PreemptionTyped, Requests!Take, Requests!Perform, Requests!AnswerOk, Requests!AnswerError,
              Requests!Stages, Requests!Answers
<1>3. ActOK(a)' /\ CountsOn(a)'
  BY <1>1, <1>2 DEF ActOK, CountsOn, InFlight, activityVars
<1>4. ReportedOn(a)'
  BY <1>1 DEF PreemptionInv, RecentTouchReported, ReportedOn, Judged, FullHistory
<1>5. Moves(a)
  <2>1. PreemptionTyped'
    BY <1>1, <1>2 DEF PreemptionTyped, ActivityTypeOK, activityVars
  <2> QED BY <1>1, <1>2, <2>1 DEF Moves, Stays, GoesOn
<1> QED BY <1>3, <1>4, <1>5, ActionStep DEF ActionOK

LEMMA FailActionStep ==
    ASSUME PreemptionInv, NEW a \in Actions, FailAction(a)
    PROVE  PreemptionInv'
<1> DEFINE t == [NoAct EXCEPT !.at = "failed"]
<1>1. /\ PreemptionTyped /\ answer[a] = "error"
      /\ UNCHANGED <<activityVars, event, stage, answer>>
      /\ touched' = touched \ {a} /\ forgotten' = forgotten \ {a}
  BY DEF FailAction, PreemptionInv, requests
<1>2. t \in Act /\ t.at = "failed" /\ t.verdict = None
  BY DEF NoAct, Act
<1>3. act' = [act EXCEPT ![a] = t]
  BY DEF FailAction
<1> HIDE DEF t
<1>4. act' \in [Actions -> Act] /\ act'[a] = t /\ \A c \in Actions : c # a => act'[c] = act[c]
  BY <1>1, <1>2, <1>3 DEF PreemptionTyped
<1>5. ActOK(a)' /\ CountsOn(a)'
  BY <1>1, <1>2, <1>4 DEF ActOK, CountsOn, InFlight
<1>6. Moves(a)
  <2>1. PreemptionTyped'
    BY <1>1, <1>4 DEF PreemptionTyped, ActivityTypeOK, activityVars
  <2> QED BY <1>1, <1>4, <2>1 DEF Moves, Stays, GoesOn
<1> QED BY <1>1, <1>5, <1>6, ActionStep DEF ActionOK, ReportedOn

LEMMA JudgeStep ==
    ASSUME PreemptionInv, NEW a \in Actions, Judge(a)
    PROVE  PreemptionInv'
<1> DEFINE t == [act[a] EXCEPT !.at = "done", !.verdict = Verdict(a)]
<1>1. /\ PreemptionTyped /\ ActOK(a) /\ CountsOn(a) /\ act[a] \in Act /\ act[a].at = "asked" /\ answer[a] = "ok"
      /\ UNCHANGED <<activityVars, event, stage, answer, touched, forgotten>>
  BY ActFields DEF Judge, PreemptionInv, requests, history
<1>2. Verdict(a) \in {"quiet", "user_preempted", "unavailable"}
  BY DEF Verdict
<1>3. /\ t \in Act /\ t.at = "done" /\ t.window = act[a].window /\ t.snapshot = act[a].snapshot
      /\ t.verdict = Verdict(a)
  BY <1>1, <1>2 DEF Act
<1>4. act' = [act EXCEPT ![a] = t]
  BY <1>1 DEF Judge, Act
<1> HIDE DEF t
<1>5. act' \in [Actions -> Act] /\ act'[a] = t /\ \A c \in Actions : c # a => act'[c] = act[c]
  BY <1>1, <1>3, <1>4 DEF PreemptionTyped
<1>6. ActOK(a)' /\ CountsOn(a)'
  BY <1>1, <1>3, <1>5 DEF ActOK, CountsOn, InFlight
\* A touch shows in the count, and the count in the verdict.
<1>7. ASSUME a \in Judged', FullHistory(a)', a \in touched'
      PROVE  act'[a].verdict = "user_preempted"
  <2>1. act[a].snapshot.targeted /\ a \notin forgotten /\ a \in touched
    BY <1>1, <1>3, <1>5, <1>7 DEF FullHistory
  <2>2. generation[act[a].window] > act[a].snapshot.target
    BY <1>1, <2>1 DEF CountsOn, InFlight
  <2>3. act[a].snapshot.target \in Nat /\ generation[act[a].window] \in Nat
    BY <1>1 DEF ActOK, Snapshots, PreemptionTyped, ActivityTypeOK
  <2>4. ~TargetSafeSince(act[a].window, act[a].snapshot)
    BY <2>1, <2>2, <2>3 DEF TargetSafeSince
  <2>5. Verdict(a) \in {"unavailable", "user_preempted"}
    BY <2>4 DEF Verdict
  <2> QED BY <1>3, <1>5, <1>7, <2>5 DEF Judged
<1>8. Moves(a)
  <2>1. PreemptionTyped'
    BY <1>1, <1>5 DEF PreemptionTyped, ActivityTypeOK, activityVars
  <2> QED BY <1>1, <1>3, <1>5, <2>1 DEF Moves, Stays, GoesOn
<1> QED BY <1>6, <1>7, <1>8, ActionStep DEF ActionOK, ReportedOn

-----------------------------------------------------------------------------
(* The steps of the tracker and of the handler of a touch.                 *)

(* A touch is recorded: it counts for the actions in flight, and the       *)
(* handler notes what is queued for its window.                            *)
LEMMA RecordEventStep ==
    ASSUME PreemptionInv, NEW e \in Events, NEW b \in Backends, NEW w \in Targets \cup {None},
           RecordEvent(e, b, w)
    PROVE  PreemptionInv'
<1> DEFINE r == [at |-> IF b = Spy THEN "recorded" ELSE "done", window |-> w, behind |-> Queued(w)]
<1>1. /\ PreemptionTyped /\ RecordTouch(b, w) /\ UNCHANGED <<stage, answer, act>>
      /\ event' = [event EXCEPT ![e] = r]
      /\ touched' = touched \cup InFlightOn(w)
      /\ b = Spy <=> w # None
  BY DEF RecordEvent, PreemptionInv, requests
<1>2. PreemptionTyped'
  <2>1. r \in Event
    BY DEF Event, Queued
  <2>2. event' \in [Events -> Event] /\ touched' \subseteq Actions /\ forgotten' \subseteq Actions
    BY <1>1, <2>1 DEF PreemptionTyped, InFlightOn, RecordEvent
  <2>3. ActivityTypeOK'
    BY <1>1, RecordTouchType DEF PreemptionTyped
  <2> QED BY <1>1, <2>2, <2>3 DEF PreemptionTyped
<1>3. ASSUME NEW c \in Actions PROVE ActOK(c)' /\ CountsOn(c)' /\ ReportedOn(c)'
  <2>1. ActOK(c) /\ CountsOn(c) /\ ReportedOn(c)
    BY DEF PreemptionInv, RecentTouchReported, ReportedOn
  <2>2. ActOK(c)'
    BY <1>1, <2>1 DEF ActOK, InFlightOn
  <2>3. CountsOn(c)'
    <3> SUFFICES ASSUME InFlight(c)', c \notin forgotten'
                 PROVE  /\ backendGeneration' >= act[c].snapshot.backend
                        /\ generation'[act[c].window] >= act[c].snapshot.target
                        /\ c \in touched' => generation'[act[c].window] > act[c].snapshot.target
      BY <1>1 DEF CountsOn
    <3> DEFINE v == act[c].window
    <3>1. InFlight(c) /\ v \in Targets /\ act[c].snapshot \in Snapshots /\ c \in InFlightOn(v)
      BY <1>1, <2>1 DEF InFlight, InFlightOn, ActOK
    <3>2. c \notin forgotten /\ (v \notin Forgotten \/ w = None)
      BY <1>1, <3>1 DEF RecordEvent, Forgotten
    <3>3. /\ backendGeneration' >= backendGeneration
          /\ generation'[v] >= generation[v]
          /\ v = w => generation'[v] > generation[v]
      BY <1>1, <3>1, <3>2, CountsGrow DEF PreemptionTyped
    <3>4. c \in touched' => c \in touched \/ v = w
      BY <1>1 DEF InFlightOn
    <3>5. /\ backendGeneration >= act[c].snapshot.backend
          /\ generation[v] >= act[c].snapshot.target
          /\ c \in touched => generation[v] > act[c].snapshot.target
      BY <2>1, <3>1, <3>2 DEF CountsOn
    <3>6. /\ backendGeneration \in Nat /\ backendGeneration' \in Nat
          /\ generation[v] \in Nat /\ generation'[v] \in Nat
          /\ act[c].snapshot.backend \in Nat /\ act[c].snapshot.target \in Nat
      BY <1>1, <1>2, <3>1 DEF PreemptionTyped, ActivityTypeOK, Snapshots
    <3> HIDE DEF v
    <3>7. /\ backendGeneration' >= act[c].snapshot.backend
          /\ generation'[v] >= act[c].snapshot.target
      BY <3>3, <3>5, <3>6
    <3>8. c \in touched' => generation'[v] > act[c].snapshot.target
      BY <3>3, <3>4, <3>5, <3>6
    <3> QED BY <3>7, <3>8 DEF v
  <2>4. ReportedOn(c)'
    <3>1. c \in Judged' => act[c].at = "done"
      BY <1>1, <2>1, VerdictAssumption DEF Judged, ActOK
    <3>2. act[c].at = "done" => c \notin InFlightOn(w)
      BY DEF InFlightOn
    <3>3. forgotten \subseteq forgotten'
      BY DEF RecordEvent
    <3> QED BY <1>1, <2>1, <3>1, <3>2, <3>3 DEF ReportedOn, Judged, FullHistory
  <2> QED BY <2>2, <2>3, <2>4
<1>4. ASSUME NEW a \in Queued(w)
      PROVE  a \in Actions /\ stage[a] # "new" /\ act[a].window = w /\ w \in Targets /\ b = Spy
  BY <1>1, NoneIsNoTarget DEF Queued, PreemptionInv, ActOK
<1>5. event'[e] = r /\ \A x \in Events : x # e => event'[x] = event[x]
  BY <1>1 DEF PreemptionTyped
<1>6. ASSUME NEW x \in Events PROVE EventOK(x)'
  <2>1. CASE x = e
    BY <1>1, <1>4, <1>5, <2>1 DEF EventOK
  <2>2. CASE x # e
    BY <1>1, <1>5, <2>2 DEF EventOK, PreemptionInv
  <2> QED BY <2>1, <2>2
<1>7. NothingQueuedBehindTouch'
  BY <1>1, <1>4, <1>5 DEF NothingQueuedBehindTouch, PreemptionInv
<1>8. RecentTouchReported'
  BY <1>3 DEF RecentTouchReported, ReportedOn, Judged
<1> QED BY <1>2, <1>3, <1>6, <1>7, <1>8 DEF PreemptionInv

(* The handler cancels every action that still waits for its window, which *)
(* are all that were queued when it recorded the touch.                    *)
LEMMA CancelQueuedStep ==
    ASSUME PreemptionInv, NEW e \in Events, CancelQueued(e)
    PROVE  PreemptionInv'
<1> DEFINE w == event[e].window
           r == [event[e] EXCEPT !.at = "done", !.window = None]
<1>1. /\ PreemptionTyped /\ event[e] \in Event /\ event[e].at = "recorded" /\ w \in Targets
      /\ UNCHANGED <<activityVars, act, touched, forgotten, stage>>
      /\ answer' = [a \in Actions |-> IF a \in Queued(w) THEN "error" ELSE answer[a]]
  BY DEF CancelQueued, PreemptionInv, PreemptionTyped, history, Requests!AnswerError, EventOK
<1>2. r \in Event /\ r.at = "done" /\ r.behind = event[e].behind
  BY <1>1 DEF Event
<1>3. event' = [event EXCEPT ![e] = r]
  BY <1>1 DEF CancelQueued, Event
<1> HIDE DEF r
<1>4. /\ event' \in [Events -> Event] /\ event'[e] = r
      /\ \A x \in Events : x # e => event'[x] = event[x]
  BY <1>1, <1>2, <1>3 DEF PreemptionTyped
<1>5. answer' \in [Actions -> Requests!Answers] /\ \A a \in Actions : answer[a] # "none" => answer'[a] = answer[a]
  BY <1>1 DEF PreemptionTyped, Requests!Answers, Queued
<1>6. PreemptionTyped'
  BY <1>1, <1>4, <1>5 DEF PreemptionTyped, ActivityTypeOK, activityVars
<1>7. ASSUME NEW a \in Actions, answer'[a] = "none" PROVE answer[a] = "none" /\ a \notin Queued(w)
  BY <1>1, <1>7
<1>8. ASSUME NEW c \in Actions PROVE ActOK(c)' /\ CountsOn(c)'
  <2>1. ActOK(c) /\ CountsOn(c)
    BY DEF PreemptionInv
  <2>2. ActOK(c)'
    BY <1>1, <1>7, <2>1 DEF ActOK
  <2>3. CountsOn(c)'
    BY <1>1, <2>1 DEF CountsOn, InFlight, activityVars
  <2> QED BY <2>2, <2>3
<1>9. RecentTouchReported'
  BY <1>1 DEF RecentTouchReported, Judged, FullHistory, PreemptionInv
<1>10. ASSUME NEW x \in Events, NEW a \in event'[x].behind
       PROVE  /\ a \in Actions /\ stage'[a] # "new"
              /\ event'[x].at = "recorded" /\ stage'[a] = "asked" /\ answer'[a] = "none" =>
                    act'[a].window = event'[x].window
              /\ event'[x].at = "done" /\ stage'[a] = "asked" => answer'[a] # "none"
  <2>1. a \in event[x].behind
    BY <1>2, <1>4
  <2>2. a \in Actions
    BY <1>1, <2>1 DEF PreemptionTyped, Event
  <2>3. EventOK(x) /\ (event[x].at = "done" /\ stage[a] = "asked" => answer[a] # "none")
    BY <2>1 DEF PreemptionInv, NothingQueuedBehindTouch
  <2>4. CASE x = e
    \* What waits behind this touch waits for its window, and is cancelled.
    <3>1. stage[a] = "asked" /\ answer[a] = "none" => a \in Queued(w)
      BY <1>1, <2>1, <2>2, <2>3, <2>4 DEF EventOK, Queued
    <3> QED BY <1>1, <1>2, <1>4, <1>7, <2>1, <2>2, <2>3, <2>4, <3>1 DEF EventOK
  <2>5. CASE x # e
    BY <1>1, <1>4, <1>7, <2>1, <2>2, <2>3, <2>5 DEF EventOK
  <2> QED BY <2>4, <2>5
<1>11. ASSUME NEW x \in Events PROVE EventOK(x)'
  <2>1. event'[x].at = "recorded" => event'[x].window \in Targets
    BY <1>2, <1>4 DEF EventOK, PreemptionInv
  <2> QED BY <1>10, <2>1 DEF EventOK
<1>12. NothingQueuedBehindTouch'
  BY <1>10 DEF NothingQueuedBehindTouch
<1> QED BY <1>6, <1>8, <1>9, <1>11, <1>12 DEF PreemptionInv

(* Time passes and spies register: no count goes back.                     *)
LEMMA TrackerStep ==
    ASSUME PreemptionInv, UNCHANGED <<requests, act, event, history>>, ActivityTypeOK',
           generation' = generation, backendGeneration' >= backendGeneration
    PROVE  PreemptionInv'
<1>1. PreemptionTyped /\ UNCHANGED <<stage, answer, act, event, touched, forgotten>>
  BY DEF PreemptionInv, requests, history
<1>2. PreemptionTyped'
  BY <1>1 DEF PreemptionTyped
<1>3. ASSUME NEW c \in Actions PROVE ActOK(c)' /\ CountsOn(c)'
  <2>1. ActOK(c) /\ CountsOn(c)
    BY DEF PreemptionInv
  <2>2. ActOK(c)'
    BY <1>1, <2>1 DEF ActOK
  <2>3. InFlight(c) => act[c].snapshot.backend \in Nat
    BY <2>1 DEF InFlight, ActOK, Snapshots
  <2>4. backendGeneration \in Nat /\ backendGeneration' \in Nat
    BY <1>1, <1>2 DEF PreemptionTyped, ActivityTypeOK
  <2>5. InFlight(c) /\ c \notin forgotten => backendGeneration' >= act[c].snapshot.backend
    BY <2>1, <2>3, <2>4 DEF CountsOn
  <2>6. CountsOn(c)'
    BY <1>1, <2>1, <2>5 DEF CountsOn, InFlight
  <2> QED BY <2>2, <2>6
<1>4. \A x \in Events : EventOK(x)'
  BY <1>1 DEF PreemptionInv, EventOK
<1>5. RecentTouchReported' /\ NothingQueuedBehindTouch'
  BY <1>1 DEF PreemptionInv, RecentTouchReported, Judged, FullHistory, NothingQueuedBehindTouch
<1> QED BY <1>2, <1>3, <1>4, <1>5 DEF PreemptionInv

LEMMA RegisterSpyStep ==
    ASSUME PreemptionInv, NEW b \in Backends, RegisterSpy(b)
    PROVE  PreemptionInv'
<1>1. ActivityTypeOK /\ RegisterBackend(b) /\ UNCHANGED <<requests, act, event, history>>
  BY DEF RegisterSpy, PreemptionInv, PreemptionTyped
<1>2. /\ ActivityTypeOK' /\ generation' = generation
      /\ backendGeneration' >= backendGeneration
  BY <1>1 DEF ActivityTypeOK, RegisterBackend, SetBackend
<1> QED BY <1>1, <1>2, TrackerStep

LEMMA TimePassesStep ==
    ASSUME PreemptionInv, TimePasses
    PROVE  PreemptionInv'
<1>1. ActivityTypeOK /\ AgeActivity /\ UNCHANGED <<requests, act, event, history>>
  BY DEF TimePasses, PreemptionInv, PreemptionTyped
<1>2. lastTouch' \in [Targets -> 0..HistoryTTL + 1 \cup {None}]
  BY <1>1, HistoryAssumption DEF ActivityTypeOK, AgeActivity
<1>3. \A w \in Targets : lastTouch'[w] # None <=> lastTouch[w] # None
  <2> SUFFICES ASSUME NEW w \in Targets PROVE lastTouch'[w] # None <=> lastTouch[w] # None
    OBVIOUS
  <2>1. lastTouch'[w] = IF lastTouch[w] # None /\ lastTouch[w] <= HistoryTTL
                           THEN lastTouch[w] + 1 ELSE lastTouch[w]
    BY <1>1 DEF AgeActivity
  <2>2. lastTouch[w] # None => lastTouch[w] \in Nat
    BY <1>1, HistoryAssumption DEF ActivityTypeOK
  <2>3. lastTouch[w] \in Nat => lastTouch[w] + 1 # None
    BY BackendAssumption
  <2> QED BY <2>1, <2>2, <2>3
<1>4. ActivityTypeOK' /\ generation' = generation /\ backendGeneration' >= backendGeneration
  BY <1>1, <1>2, <1>3 DEF ActivityTypeOK, AgeActivity
<1> QED BY <1>1, <1>4, TrackerStep

-----------------------------------------------------------------------------
LEMMA PreemptionStart == Init => PreemptionInv
<1> SUFFICES ASSUME Init PROVE PreemptionInv
  OBVIOUS
<1>1. ActivityTypeOK
  BY DEF Init, InitActivity, ActivityTypeOK
<1>2. NoAct \in Act /\ NoAct.at = "idle" /\ NoAct.verdict = None
  BY DEF NoAct, Act
<1>3. \A e \in Events : event[e] \in Event /\ event[e].at = "none" /\ event[e].behind = {}
  BY DEF Init, Event
<1>4. \A a \in Actions : act[a] = NoAct /\ stage[a] = "new" /\ answer[a] = "none"
  BY DEF Init, Requests!InitRequests
<1>5. PreemptionTyped
  BY <1>1, <1>2, <1>3, <1>4 DEF PreemptionTyped, Init, Event, Requests!InitRequests, Requests!Stages, Requests!Answers
<1>6. \A a \in Actions : ActOK(a) /\ CountsOn(a)
  BY <1>2, <1>4 DEF ActOK, CountsOn, InFlight, Init
<1>7. \A e \in Events : EventOK(e)
  BY <1>3 DEF EventOK
<1>8. RecentTouchReported /\ NothingQueuedBehindTouch
  BY <1>3 DEF Init, RecentTouchReported, NothingQueuedBehindTouch
<1> QED BY <1>5, <1>6, <1>7, <1>8 DEF PreemptionInv

LEMMA PreemptionStep == PreemptionInv /\ [Next]_vars => PreemptionInv'
<1> SUFFICES ASSUME PreemptionInv, [Next]_vars PROVE PreemptionInv'
  OBVIOUS
<1>1. ASSUME NEW a \in Actions, NEW w \in Targets, CheckQuiet(a, w) PROVE PreemptionInv'
  BY <1>1, CheckQuietStep
<1>2. ASSUME NEW a \in Actions, TakeSnapshot(a) \/ AskBackend(a) \/ Backend(a) \/ FailAction(a) \/ Judge(a)
      PROVE  PreemptionInv'
  BY <1>2, TakeSnapshotStep, AskBackendStep, BackendStep, FailActionStep, JudgeStep
<1>3. ASSUME NEW b \in {Spy, Legacy}, RegisterSpy(b) PROVE PreemptionInv'
  BY <1>3, RegisterSpyStep DEF Backends
<1>4. ASSUME NEW e \in Events, NEW b \in {Spy, Legacy}, NEW w \in Targets \cup {None}, RecordEvent(e, b, w)
      PROVE  PreemptionInv'
  BY <1>4, RecordEventStep DEF Backends
<1>5. ASSUME NEW e \in Events, CancelQueued(e) PROVE PreemptionInv'
  BY <1>5, CancelQueuedStep
<1>6. CASE TimePasses
  BY <1>6, TimePassesStep
<1>7. CASE UNCHANGED vars
  <2>1. ActivityTypeOK /\ UNCHANGED <<requests, act, event, history, backendGeneration, generation>>
    BY <1>7 DEF vars, activityVars, PreemptionInv, PreemptionTyped
  <2>2. ActivityTypeOK' /\ backendGeneration' >= backendGeneration
    BY <1>7, <2>1 DEF vars, activityVars, ActivityTypeOK
  <2> QED BY <2>1, <2>2, TrackerStep
<1> QED BY <1>1, <1>2, <1>3, <1>4, <1>5, <1>6, <1>7 DEF Next

LEMMA PreemptionAlways == Spec => []PreemptionInv
BY PreemptionStart, PreemptionStep, PTL DEF Spec

-----------------------------------------------------------------------------
(* The tracker, the requests, the actions and the handlers keep their      *)
(* types.                                                                  *)
THEOREM PreemptionTypeCorrect == Spec => []PreemptionTypeOK
<1>1. PreemptionInv => PreemptionTypeOK
  <2> SUFFICES ASSUME PreemptionInv PROVE PreemptionTypeOK
    OBVIOUS
  <2>1. PreemptionTyped /\ \A e \in Events : EventOK(e)
    BY DEF PreemptionInv
  <2>2. \A a \in Actions : act[a] \in Act
    BY <2>1 DEF PreemptionTyped
  <2>3. \A e \in Events : event[e] \in Event
    BY <2>1 DEF PreemptionTyped
  <2> QED BY <2>1, <2>2, <2>3 DEF PreemptionTypeOK, PreemptionTyped, Act, Event, EventOK
<1> QED BY <1>1, PreemptionAlways, PTL

(* An agent whose target the user touched while its action was under way   *)
(* is told so: the count the action remembers cannot come back to its      *)
(* value unless the tracker dropped the target meanwhile                   *)
(* (execute_agent_seat_action, target_safe_since).                         *)
THEOREM RecentTouchReportedHolds == Spec => []RecentTouchReported
<1>1. PreemptionInv => RecentTouchReported
  BY DEF PreemptionInv
<1> QED BY <1>1, PreemptionAlways, PTL

(* The handler of a touch reaches everything that was queued for its       *)
(* window when it recorded the touch, however the queue moved in between   *)
(* (cancel_pending_for_target).                                            *)
THEOREM NothingQueuedBehindTouchHolds == Spec => []NothingQueuedBehindTouch
<1>1. PreemptionInv => NothingQueuedBehindTouch
  BY DEF PreemptionInv
<1> QED BY <1>1, PreemptionAlways, PTL

-----------------------------------------------------------------------------
(* All of it, each part at rest while another moves.                       *)

LEMMA PartsOfSide ==
    SpecSide => SpecInteraction /\ Spec /\ SpecWindows /\ SpecOwnership
<1>1. InitSide => InitInteraction /\ Init /\ InitWindows /\ InitOwnership
  BY DEF InitSide
<1>2. [NextSide]_sideVars => [NextInteraction]_interactionVars
  BY DEF NextSide, Interaction, UserAndAgents, BridgeActions, Ownership, sideVars
<1>3. [NextSide]_sideVars => [Next]_vars
  BY DEF NextSide, Interaction, UserAndAgents, BridgeActions, Ownership, sideVars
<1>4. [NextSide]_sideVars => [NextWindows]_windowVars
  BY DEF NextSide, Interaction, UserAndAgents, BridgeActions, Ownership, sideVars
<1>5. [NextSide]_sideVars => [NextOwnership]_ownershipVars
  BY DEF NextSide, Interaction, UserAndAgents, BridgeActions, Ownership, sideVars
<1> QED BY <1>1, <1>2, <1>3, <1>4, <1>5, PTL
        DEF SpecSide, SpecInteraction, Spec, SpecWindows, SpecOwnership

(* What the daemon keeps about windows keeps its types, whichever part of it *)
(* moves.                                                                    *)
THEOREM SideTypeCorrect == SpecSide => []SideTypeOK
<1>1. SpecSide => []TypeOK /\ []PreemptionTypeOK /\ []WindowTypeOK
  BY PartsOfSide, TypeCorrect, PreemptionTypeCorrect, WindowTypeCorrect
<1> QED BY <1>1, PTL DEF SideTypeOK

(* What is proved of the interaction store, which is the lock of AgentLeases *)
(* here too, of the user at the agents' windows, of the window actions and   *)
(* of the bridge's name holds of the four together.                          *)
THEOREM WindowSideSafe ==
    SpecSide => /\ ImplementsLeases
                /\ [](/\ WindowExclusive /\ LaneIsolation /\ LaneQuota
                      /\ RecentTouchReported /\ NothingQueuedBehindTouch
                      /\ RequestsCleanedUp /\ LaunchedWindowsOwned
                      /\ StatusMatchesOwner)
<1>1. SpecSide => []WindowExclusive /\ []LaneIsolation /\ []LaneQuota
  BY PartsOfSide, WindowExclusiveHolds, LaneIsolationHolds, LaneQuotaHolds
<1>2. SpecSide => []RecentTouchReported /\ []NothingQueuedBehindTouch
  BY PartsOfSide, RecentTouchReportedHolds, NothingQueuedBehindTouchHolds
<1>3. SpecSide => []RequestsCleanedUp /\ []LaunchedWindowsOwned /\ []StatusMatchesOwner
  BY PartsOfSide, RequestsCleanedUpHolds, LaunchedWindowsOwnedHolds, StatusMatchesOwnerHolds
<1>4. SpecSide => ImplementsLeases
  BY PartsOfSide, LeasesImplemented
<1> QED BY <1>1, <1>2, <1>3, <1>4, PTL
=============================================================================
