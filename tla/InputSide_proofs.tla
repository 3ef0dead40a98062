--------------------------- MODULE InputSide_proofs ---------------------------
(***************************************************************************)
(* Proofs about the two ways an agent's input reaches a window.  The       *)
(* agent-seat action queue, for every number of actions, windows and       *)
(* plugin connections and for every timeouts the constants' assumptions    *)
(* allow: its inductive invariant, what follows from it, and that the      *)
(* queue implements AgentRequests.  Then raw input under the focus lease.  *)
(***************************************************************************)
EXTENDS MCInputSide, Queues_proofs

-----------------------------------------------------------------------------
(* The inductive invariant.                                                *)

\* An action is in the queue once, before a poll has taken it, and only while
\* its submitter waits for a sender that nobody has used.
ActionOK(a) ==
    /\ Once(queue, a)
    /\ Has(queue, a) => submit[a] \in {"pushed", "waiting"} /\ a \in waiters /\ a \notin taken
    /\ a \in waiters => submit[a] \in {"pushed", "waiting"} /\ result[a] = None
    /\ submit[a] \in {"idle", "checked", "refused"} => a \notin taken /\ result[a] = None
    /\ submit[a] # "waiting" => age[a] = 0
    /\ result[a] = "ok" \/ submit[a] = "ok" => a \in performed

\* A connection polls to the end only after it has registered.  What it holds is
\* performed by no other, and while it is the registered one and waits, the
\* queued actions are younger than its wait can become long.
PollOK(p) ==
    /\ conn[p] \in {"down", "booted"} => poll[p] \in {"none", "called"} /\ caller # p
    /\ Once(sleepers, p)
    /\ Has(sleepers, p) => poll[p] = "asleep"
    /\ poll[p] # "asleep" => waited[p] = 0
    /\ reply[p] # None => reply[p] \in taken /\ reply[p] \notin performed
    /\ \A q \in Plugins : reply[p] # None /\ reply[q] = reply[p] => q = p
    /\ caller = p /\ poll[p] = "empty" => \A a \in Actions : Has(queue, a) => age[a] = 0
    /\ caller = p /\ poll[p] = "asleep" =>
          \A a \in Actions : Has(queue, a) => age[a] + (PollTimeout - waited[p]) < ActionTimeout

CompletionOK(c) == c.action \in taken /\ (c.outcome = "ok" => c.action \in performed)

SeatInv ==
    /\ SeatTypeOK
    /\ \A a \in Actions : ActionOK(a)
    /\ \A p \in Plugins : PollOK(p)
    /\ \A c \in completions : CompletionOK(c)

-----------------------------------------------------------------------------
(* Steps that leave an action, a connection or the completions alone.      *)

ActionKept(a) ==
    /\ submit'[a] = submit[a] /\ result'[a] = result[a] /\ age'[a] = age[a]
    /\ Has(queue', a) => Has(queue, a)
    /\ Once(queue, a) => Once(queue', a)
    /\ a \in waiters' <=> a \in waiters
    /\ a \in taken' <=> a \in taken
    /\ a \in performed => a \in performed'

PollKept(p) ==
    /\ poll'[p] = poll[p] /\ waited'[p] = waited[p] /\ conn'[p] = conn[p]
    /\ reply' = reply /\ taken \subseteq taken' /\ performed' = performed
    /\ caller' = p => caller = p
    /\ Has(sleepers', p) => Has(sleepers, p)
    /\ Once(sleepers, p) => Once(sleepers', p)
    /\ \A a \in Actions : Has(queue', a) => (Has(queue, a) /\ age'[a] = age[a]) \/ age'[a] = 0

CompletionsKept == completions' \subseteq completions /\ taken \subseteq taken' /\ performed \subseteq performed'

LEMMA ActionStays == ASSUME NEW a \in Actions, ActionOK(a), ActionKept(a) PROVE ActionOK(a)'
BY DEF ActionOK, ActionKept

LEMMA PollStays == ASSUME NEW p \in Plugins, SeatTypeOK, PollOK(p), PollKept(p) PROVE PollOK(p)'
<1>1. /\ conn'[p] \in {"down", "booted"} => poll'[p] \in {"none", "called"} /\ caller' # p
      /\ Once(sleepers', p) /\ (Has(sleepers', p) => poll'[p] = "asleep")
      /\ poll'[p] # "asleep" => waited'[p] = 0
  BY DEF PollOK, PollKept
<1>2. /\ reply'[p] # None => reply'[p] \in taken' /\ reply'[p] \notin performed'
      /\ \A q \in Plugins : reply'[p] # None /\ reply'[q] = reply'[p] => q = p
  BY DEF PollOK, PollKept
<1>3. caller' = p /\ poll'[p] = "empty" => \A a \in Actions : Has(queue', a) => age'[a] = 0
  BY DEF PollOK, PollKept
<1>4. ASSUME caller' = p, poll'[p] = "asleep", NEW a \in Actions, Has(queue', a)
      PROVE  age'[a] + (PollTimeout - waited'[p]) < ActionTimeout
  <2>1. waited[p] \in 0..PollTimeout /\ waited'[p] = waited[p] /\ caller = p /\ poll[p] = "asleep"
    BY <1>4 DEF SeatTypeOK, PollKept
  <2>2. CASE Has(queue, a) /\ age'[a] = age[a]
    BY <2>1, <2>2 DEF PollOK
  <2>3. CASE age'[a] = 0
    BY <2>1, <2>3, TimeoutAssumption
  <2> QED BY <1>4, <2>2, <2>3 DEF PollKept
<1> QED BY <1>1, <1>2, <1>3, <1>4 DEF PollOK

\* It is enough to say which actions and which connections a step concerns.
LEMMA SeatKept ==
    ASSUME SeatInv, SeatTypeOK', CompletionsKept,
           \A a \in Actions : ActionKept(a) \/ ActionOK(a)',
           \A p \in Plugins : PollKept(p) \/ PollOK(p)'
    PROVE  SeatInv'
<1>1. \A a \in Actions : ActionOK(a)'
  BY ActionStays DEF SeatInv
<1>2. \A p \in Plugins : PollOK(p)'
  BY PollStays DEF SeatInv
<1>3. \A c \in completions' : CompletionOK(c)'
  BY DEF SeatInv, CompletionsKept, CompletionOK
<1> QED BY <1>1, <1>2, <1>3 DEF SeatInv

-----------------------------------------------------------------------------
(* submit()                                                                *)

LEMMA CheckReadyKeeps == ASSUME SeatInv, NEW a \in Actions, CheckReady(a) PROVE SeatInv'
<1>1. /\ submit[a] = "idle"
      /\ UNCHANGED <<queue, waiters, result, age, aim, caller, lastSeen, permit, sleepers, poll, waited,
                     reply, conn, completions, taken, performed>>
  BY DEF CheckReady, linkVars, pluginVars
<1>2. PICK s \in {"checked", "refused"} : submit' = [submit EXCEPT ![a] = s]
  BY DEF CheckReady
<1>3. /\ submit' \in [Actions -> {"idle", "checked", "pushed", "waiting", "refused", "ok", "error"}]
      /\ submit'[a] = s
      /\ \A b \in Actions : b # a => submit'[b] = submit[b]
  BY <1>2 DEF SeatInv, SeatTypeOK
<1>4. SeatTypeOK'
  BY <1>1, <1>3 DEF SeatInv, SeatTypeOK
<1>5. \A b \in Actions : b # a => ActionKept(b)
  BY <1>1, <1>3 DEF ActionKept
<1>6. ActionOK(a)'
  <2>1. ActionOK(a)
    BY DEF SeatInv
  <2> QED BY <1>1, <1>3, <2>1 DEF ActionOK
<1>7. CompletionsKept /\ \A p \in Plugins : PollKept(p)
  BY <1>1 DEF CompletionsKept, PollKept
<1> QED BY <1>4, <1>5, <1>6, <1>7, SeatKept

LEMMA PushKeeps == ASSUME SeatInv, NEW a \in Actions, Push(a) PROVE SeatInv'
<1>1. /\ submit[a] = "checked" /\ waiters' = waiters \cup {a}
      /\ UNCHANGED <<result, age, aim, caller, lastSeen, permit, sleepers, poll, waited,
                     reply, conn, completions, taken, performed>>
  BY DEF Push, linkVars, pluginVars
<1>2. /\ submit' \in [Actions -> {"idle", "checked", "pushed", "waiting", "refused", "ok", "error"}]
      /\ submit'[a] = "pushed"
      /\ \A b \in Actions : b # a => submit'[b] = submit[b]
  BY DEF Push, SeatInv, SeatTypeOK
<1>3. /\ queue' \in Seq(Actions)
      /\ \A x : Has(queue', x) <=> Has(queue, x) \/ x = a
      /\ \A x : Once(queue, x) /\ ~(x = a /\ Has(queue, a)) => Once(queue', x)
  BY HasAppend DEF Push, SeatInv, SeatTypeOK
<1>4. SeatTypeOK'
  BY <1>1, <1>2, <1>3 DEF SeatInv, SeatTypeOK
<1>5. \A b \in Actions : b # a => ActionKept(b)
  BY <1>1, <1>2, <1>3 DEF ActionKept
<1>6. ActionOK(a)
  BY DEF SeatInv
<1>7. ActionOK(a)'
  BY <1>1, <1>2, <1>3, <1>6 DEF ActionOK
<1>8. age[a] = 0
  BY <1>1, <1>6 DEF ActionOK
<1>9. CompletionsKept /\ \A p \in Plugins : PollKept(p)
  BY <1>1, <1>3, <1>8 DEF CompletionsKept, PollKept
<1> QED BY <1>4, <1>5, <1>7, <1>9, SeatKept

LEMMA NotifyOneKeeps == ASSUME SeatInv, NEW a \in Actions, NotifyOne(a) PROVE SeatInv'
<1>1. /\ submit[a] = "pushed"
      /\ UNCHANGED <<queue, waiters, result, age, aim, caller, lastSeen, reply, conn, completions, taken, performed>>
  BY DEF NotifyOne, pluginVars
<1>2. /\ submit' \in [Actions -> {"idle", "checked", "pushed", "waiting", "refused", "ok", "error"}]
      /\ submit'[a] = "waiting"
      /\ \A b \in Actions : b # a => submit'[b] = submit[b]
  BY DEF NotifyOne, SeatInv, SeatTypeOK
<1>3. \A b \in Actions : b # a => ActionKept(b)
  BY <1>1, <1>2 DEF ActionKept
<1>4. ActionOK(a)'
  <2>1. ActionOK(a)
    BY DEF SeatInv
  <2> QED BY <1>1, <1>2, <2>1 DEF ActionOK
<1>5. CompletionsKept
  BY <1>1 DEF CompletionsKept
<1>6. CASE permit' = TRUE /\ UNCHANGED <<sleepers, poll, waited>>
  <2>1. SeatTypeOK'
    BY <1>1, <1>2, <1>6 DEF SeatInv, SeatTypeOK
  <2>2. \A p \in Plugins : PollKept(p)
    BY <1>1, <1>6 DEF PollKept
  <2> QED BY <1>3, <1>4, <1>5, <2>1, <2>2, SeatKept
<1>7. CASE sleepers # <<>> /\ WakeOne
  <2>1. sleepers \in Seq(Plugins)
    BY DEF SeatInv, SeatTypeOK
  <2>2. PICK p \in Plugins : p = Head(sleepers)
    BY <1>7, <2>1, HasTail
  <2>3. /\ poll' = [poll EXCEPT ![p] = "woken"] /\ waited' = [waited EXCEPT ![p] = 0]
        /\ sleepers' = Tail(sleepers) /\ permit' = permit
    BY <1>7, <2>2 DEF WakeOne
  <2>4. /\ sleepers' \in Seq(Plugins) /\ Has(sleepers, p)
        /\ \A x : Has(sleepers', x) => Has(sleepers, x)
        /\ \A x : Once(sleepers, x) => Once(sleepers', x) /\ ~(x = p /\ Has(sleepers', x))
    BY <1>7, <2>1, <2>2, <2>3, HasTail
  <2>5. /\ poll' \in [Plugins -> {"none", "called", "empty", "asleep", "woken"}]
        /\ waited' \in [Plugins -> 0..PollTimeout]
        /\ poll'[p] = "woken" /\ waited'[p] = 0
        /\ \A q \in Plugins : q # p => poll'[q] = poll[q] /\ waited'[q] = waited[q]
    <3>1. 0 \in 0..PollTimeout
      BY TimeoutAssumption
    <3> QED BY <2>3, <3>1 DEF SeatInv, SeatTypeOK
  <2>6. SeatTypeOK'
    BY <1>1, <1>2, <2>3, <2>4, <2>5 DEF SeatInv, SeatTypeOK
  <2>7. \A q \in Plugins : q # p => PollKept(q)
    BY <1>1, <2>4, <2>5 DEF PollKept
  <2>8. PollOK(p)'
    <3>1. PollOK(p)
      BY DEF SeatInv
    <3>2. conn[p] \notin {"down", "booted"}
      BY <2>4, <3>1 DEF PollOK
    <3> QED BY <1>1, <2>4, <2>5, <3>1, <3>2 DEF PollOK
  <2> QED BY <1>3, <1>4, <1>5, <2>6, <2>7, <2>8, SeatKept
<1> QED BY <1>6, <1>7 DEF NotifyOne, WakeOne

LEMMA ReceiveKeeps == ASSUME SeatInv, NEW a \in Actions, Receive(a) PROVE SeatInv'
<1>1. /\ submit[a] = "waiting" /\ result[a] # None
      /\ UNCHANGED <<queue, waiters, result, aim, caller, lastSeen, permit, sleepers, poll, waited,
                     reply, conn, completions, taken, performed>>
  BY DEF Receive, linkVars, pluginVars
<1>2. result[a] \in {"ok", "error"}
  BY <1>1 DEF SeatInv, SeatTypeOK
<1>3. /\ submit' \in [Actions -> {"idle", "checked", "pushed", "waiting", "refused", "ok", "error"}]
      /\ submit'[a] = result[a]
      /\ \A b \in Actions : b # a => submit'[b] = submit[b]
  BY <1>2 DEF Receive, SeatInv, SeatTypeOK
<1>4. /\ age' \in [Actions -> 0..ActionTimeout] /\ age'[a] = 0
      /\ \A b \in Actions : b # a => age'[b] = age[b]
  <2>1. 0 \in 0..ActionTimeout
    BY TimeoutAssumption
  <2> QED BY <2>1 DEF Receive, SeatInv, SeatTypeOK
<1>5. SeatTypeOK'
  BY <1>1, <1>3, <1>4 DEF SeatInv, SeatTypeOK
<1>6. \A b \in Actions : b # a => ActionKept(b)
  BY <1>1, <1>3, <1>4 DEF ActionKept
<1>7. ActionOK(a)
  BY DEF SeatInv
<1>8. ActionOK(a)'
  <2>1. a \notin waiters /\ ~Has(queue, a)
    BY <1>1, <1>7 DEF ActionOK
  <2> QED BY <1>1, <1>2, <1>3, <1>4, <1>7, <2>1 DEF ActionOK
<1>9. CompletionsKept /\ \A p \in Plugins : PollKept(p)
  BY <1>1, <1>4 DEF CompletionsKept, PollKept
<1> QED BY <1>5, <1>6, <1>8, <1>9, SeatKept

LEMMA TimeOutKeeps == ASSUME SeatInv, NEW a \in Actions, TimeOut(a) PROVE SeatInv'
<1>1. /\ submit[a] = "waiting" /\ result[a] = None /\ waiters' = waiters \ {a}
      /\ UNCHANGED <<result, aim, caller, lastSeen, permit, sleepers, poll, waited,
                     reply, conn, completions, taken, performed>>
  BY DEF TimeOut, linkVars, pluginVars
<1>2. /\ submit' \in [Actions -> {"idle", "checked", "pushed", "waiting", "refused", "ok", "error"}]
      /\ submit'[a] = "error"
      /\ \A b \in Actions : b # a => submit'[b] = submit[b]
  BY DEF TimeOut, SeatInv, SeatTypeOK
<1>3. /\ age' \in [Actions -> 0..ActionTimeout] /\ age'[a] = 0
      /\ \A b \in Actions : b # a => age'[b] = age[b]
  <2>1. 0 \in 0..ActionTimeout
    BY TimeoutAssumption
  <2> QED BY <2>1 DEF TimeOut, SeatInv, SeatTypeOK
<1>4. /\ queue' \in Seq(Actions)
      /\ \A x : Has(queue', x) <=> Has(queue, x) /\ x # a
      /\ \A x : Once(queue, x) => Once(queue', x)
  BY HasWithout DEF TimeOut, SeatInv, SeatTypeOK
<1>5. SeatTypeOK'
  BY <1>1, <1>2, <1>3, <1>4 DEF SeatInv, SeatTypeOK
<1>6. \A b \in Actions : b # a => ActionKept(b)
  BY <1>1, <1>2, <1>3, <1>4 DEF ActionKept
<1>7. ActionOK(a)'
  <2>1. ActionOK(a) /\ result[a] # "ok"
    BY <1>1, SeatNoneAssumption DEF SeatInv
  <2> QED BY <1>1, <1>2, <1>3, <1>4, <2>1 DEF ActionOK
<1>8. CompletionsKept /\ \A p \in Plugins : PollKept(p)
  BY <1>1, <1>3, <1>4 DEF CompletionsKept, PollKept
<1> QED BY <1>5, <1>6, <1>7, <1>8, SeatKept

LEMMA CancelTargetKeeps == ASSUME SeatInv, NEW w \in Targets, CancelTarget(w) PROVE SeatInv'
<1> DEFINE cancelled == {a \in ToSet(queue) : aim[a] = w}
<1>1. /\ queue' = Without(queue, cancelled) /\ waiters' = waiters \ cancelled
      /\ result' = [a \in Actions |-> IF a \in cancelled \cap waiters THEN "error" ELSE result[a]]
      /\ UNCHANGED <<submit, age, aim, caller, lastSeen, permit, sleepers, poll, waited,
                     reply, conn, completions, taken, performed>>
  BY DEF CancelTarget, linkVars, pluginVars
<1> HIDE DEF cancelled
<1>2. /\ queue' \in Seq(Actions)
      /\ \A x : Has(queue', x) <=> Has(queue, x) /\ x \notin cancelled
      /\ \A x : Once(queue, x) => Once(queue', x)
  BY <1>1, HasWithout DEF SeatInv, SeatTypeOK
<1>3. SeatTypeOK'
  <2>1. result' \in [Actions -> {None, "ok", "error"}]
    BY <1>1 DEF SeatInv, SeatTypeOK
  <2> QED BY <1>1, <1>2, <2>1 DEF SeatInv, SeatTypeOK
<1>4. ASSUME NEW a \in Actions PROVE ActionOK(a)'
  <2>1. ActionOK(a)
    BY DEF SeatInv
  <2>2. CASE a \in cancelled \cap waiters
    <3>1. /\ result'[a] = "error" /\ a \notin waiters' /\ ~Has(queue', a)
          /\ submit[a] \in {"pushed", "waiting"}
      BY <1>1, <1>2, <2>1, <2>2 DEF ActionOK
    <3> QED BY <1>1, <1>2, <2>1, <3>1 DEF ActionOK
  <2>3. CASE a \notin cancelled \cap waiters
    <3>1. result'[a] = result[a] /\ (a \in waiters' <=> a \in waiters)
      BY <1>1, <2>3 DEF SeatInv, SeatTypeOK
    <3> QED BY <1>1, <1>2, <2>1, <3>1 DEF ActionOK
  <2> QED BY <2>2, <2>3
<1>5. CompletionsKept /\ \A p \in Plugins : PollKept(p)
  BY <1>1, <1>2 DEF CompletionsKept, PollKept
<1> QED BY <1>3, <1>4, <1>5, SeatKept

-----------------------------------------------------------------------------
(* The calls of the plugin.                                                *)

LEMMA RegisterKeeps == ASSUME SeatInv, NEW p \in Plugins, Register(p) PROVE SeatInv'
<1>1. /\ conn[p] = "booted" /\ caller' = p /\ lastSeen' = 0
      /\ UNCHANGED <<queue, waiters, result, submit, age, aim, permit, sleepers, poll, waited,
                     reply, completions, taken, performed>>
  BY DEF Register, daemonVars
<1>2. /\ conn' \in [Plugins -> {"down", "booted", "up", "gone"}] /\ conn'[p] = "up"
      /\ \A q \in Plugins : q # p => conn'[q] = conn[q]
  BY DEF Register, SeatInv, SeatTypeOK
<1>3. SeatTypeOK'
  <2>1. 0 \in 0..HeartbeatTTL + 1
    BY TimeoutAssumption
  <2> QED BY <1>1, <1>2, <2>1 DEF SeatInv, SeatTypeOK
<1>4. \A a \in Actions : ActionKept(a)
  BY <1>1 DEF ActionKept
<1>5. \A q \in Plugins : q # p => PollKept(q)
  BY <1>1, <1>2 DEF PollKept
<1>6. PollOK(p)'
  <2>1. PollOK(p)
    BY DEF SeatInv
  <2>2. poll[p] \in {"none", "called"}
    BY <1>1, <2>1 DEF PollOK
  <2> QED BY <1>1, <1>2, <2>1, <2>2 DEF PollOK
<1>7. CompletionsKept
  BY <1>1 DEF CompletionsKept
<1> QED BY <1>3, <1>4, <1>5, <1>6, <1>7, SeatKept

\* take(), before or after a wait
LEMMA TakeKeeps ==
    ASSUME SeatInv, NEW p \in Plugins, poll[p] \in {"called", "woken"},
           NEW s \in {"empty", "none"}, TakeStep(p, s),
           UNCHANGED <<waiters, result, submit, age, aim, caller, permit, sleepers, waited,
                       conn, completions, performed>>
    PROVE  SeatInv'
<1>1. PollOK(p) /\ 0 \in 0..HeartbeatTTL + 1
  BY TimeoutAssumption DEF SeatInv
<1>2. ~Has(sleepers, p) /\ waited[p] = 0
  BY <1>1 DEF PollOK
<1>3. PICK t \in {"empty", "none"} : poll' = [poll EXCEPT ![p] = t]
                  /\ (t = "empty" => caller = p /\ queue = <<>> /\ UNCHANGED <<queue, taken, reply>>)
  BY DEF TakeStep
<1>4. /\ poll' \in [Plugins -> {"none", "called", "empty", "asleep", "woken"}]
      /\ poll'[p] = t
      /\ \A q \in Plugins : q # p => poll'[q] = poll[q]
  BY <1>3 DEF SeatInv, SeatTypeOK
<1>5. lastSeen' \in 0..HeartbeatTTL + 1
  BY <1>1 DEF TakeStep, SeatInv, SeatTypeOK
<1>6. CASE UNCHANGED <<queue, taken, reply>>
  <2>1. SeatTypeOK'
    BY <1>4, <1>5, <1>6 DEF SeatInv, SeatTypeOK
  <2>2. \A a \in Actions : ActionKept(a)
    BY <1>6 DEF ActionKept
  <2>3. \A q \in Plugins : q # p => PollKept(q)
    BY <1>4, <1>6 DEF PollKept
  <2>4. PollOK(p)'
    <3>1. t = "empty" => \A a : ~Has(queue', a)
      BY <1>3, <1>6, EmptyHasNothing
    <3>2. conn[p] \in {"down", "booted"} => t = "none"
      BY <1>1, <1>3 DEF PollOK
    <3> QED BY <1>1, <1>2, <1>4, <1>6, <3>1, <3>2 DEF PollOK
  <2>5. CompletionsKept
    BY <1>6 DEF CompletionsKept
  <2> QED BY <2>1, <2>2, <2>3, <2>4, <2>5, SeatKept
<1>7. CASE /\ caller = p /\ queue # <<>>
           /\ queue' = Tail(queue)
           /\ taken' = taken \cup {Head(queue)}
           /\ poll' = [poll EXCEPT ![p] = "none"]
           /\ reply' = [reply EXCEPT ![p] = IF conn[p] = "up" THEN Head(queue) ELSE None]
  <2>1. queue \in Seq(Actions)
    BY DEF SeatInv, SeatTypeOK
  <2>2. PICK a \in Actions : a = Head(queue)
    BY <1>7, <2>1, HasTail
  <2>3. /\ queue' \in Seq(Actions) /\ Has(queue, a)
        /\ \A x : Has(queue', x) => Has(queue, x)
        /\ \A x : Once(queue, x) => Once(queue', x) /\ ~(x = a /\ Has(queue', x))
    BY <1>7, <2>1, <2>2, HasTail
  <2>4. ActionOK(a) /\ a \notin taken /\ a \in waiters /\ submit[a] \in {"pushed", "waiting"} /\ ~Has(queue', a)
    BY <2>3 DEF SeatInv, ActionOK
  <2>5. taken' = taken \cup {a}
    BY <1>7, <2>2
  <2>6. a \notin performed /\ performed \subseteq taken
    BY <2>4 DEF SeatInv, SeatTypeOK
  <2>7. PICK b \in {a, None} : reply' = [reply EXCEPT ![p] = b]
    BY <1>7, <2>2
  <2>8. /\ reply' \in [Plugins -> Actions \cup {None}] /\ reply'[p] = b
        /\ \A q \in Plugins : q # p => reply'[q] = reply[q]
    BY <2>7 DEF SeatInv, SeatTypeOK
  <2>9. SeatTypeOK'
    BY <1>4, <1>5, <2>3, <2>5, <2>6, <2>8 DEF SeatInv, SeatTypeOK
  <2>10. \A x \in Actions : x # a => ActionKept(x)
    BY <2>3, <2>5 DEF ActionKept
  <2>11. ActionOK(a)'
    BY <2>3, <2>4, <2>5 DEF ActionOK
  <2>12. poll'[p] = "none"
    BY <1>7 DEF SeatInv, SeatTypeOK
  <2>13. ASSUME NEW q \in Plugins PROVE PollOK(q)'
    <3>1. PollOK(q) /\ reply[q] # a /\ \A x \in Plugins : reply[x] # a
      <4>1. \A x \in Plugins : PollOK(x)
        BY DEF SeatInv
      <4>2. \A x \in Plugins : reply[x] # None => reply[x] \in taken
        BY <4>1 DEF PollOK
      <4> QED BY <2>4, <4>1, <4>2, SeatNoneAssumption
    <3>2. /\ reply'[q] # None => reply'[q] \in taken' /\ reply'[q] \notin performed'
          /\ \A x \in Plugins : reply'[q] # None /\ reply'[x] = reply'[q] => x = q
      <4>1. CASE q = p
        BY <2>5, <2>6, <2>8, <3>1, <4>1
      <4>2. CASE q # p
        BY <2>5, <2>8, <3>1, <4>2 DEF PollOK
      <4> QED BY <4>1, <4>2
    <3>3. CASE q = p
      BY <1>1, <1>2, <2>12, <3>2, <3>3 DEF PollOK
    <3>4. CASE q # p
      BY <1>4, <2>3, <3>1, <3>2, <3>4 DEF PollOK
    <3> QED BY <3>3, <3>4
  <2>14. CompletionsKept
    BY <2>5 DEF CompletionsKept
  <2> QED BY <2>9, <2>10, <2>11, <2>13, <2>14, SeatKept
<1> QED BY <1>6, <1>7 DEF TakeStep

LEMMA SleepKeeps == ASSUME SeatInv, NEW p \in Plugins, Sleep(p) PROVE SeatInv'
<1>1. /\ poll[p] = "empty"
      /\ UNCHANGED <<queue, waiters, result, submit, age, aim, caller, lastSeen, waited,
                     reply, conn, completions, taken, performed>>
  BY DEF Sleep, daemonVars, pluginVars
<1>2. PollOK(p) /\ waited[p] = 0 /\ ~Has(sleepers, p) /\ conn[p] \notin {"down", "booted"}
  BY <1>1 DEF SeatInv, PollOK
<1>3. PICK s \in {"woken", "asleep"} :
         /\ poll' = [poll EXCEPT ![p] = s] /\ permit' \in {permit, FALSE}
         /\ IF s = "woken" THEN sleepers' = sleepers ELSE sleepers' = Append(sleepers, p)
  BY DEF Sleep
<1>4. /\ poll' \in [Plugins -> {"none", "called", "empty", "asleep", "woken"}]
      /\ poll'[p] = s
      /\ \A q \in Plugins : q # p => poll'[q] = poll[q]
  BY <1>3 DEF SeatInv, SeatTypeOK
<1>5. sleepers \in Seq(Plugins)
  BY DEF SeatInv, SeatTypeOK
<1>6. /\ sleepers' \in Seq(Plugins)
      /\ \A x : Has(sleepers', x) => Has(sleepers, x) \/ (x = p /\ s = "asleep")
      /\ \A x : Once(sleepers, x) /\ ~(x = p /\ Has(sleepers, p)) => Once(sleepers', x)
  <2>1. CASE s = "woken"
    BY <1>3, <1>5, <2>1
  <2>2. CASE s = "asleep"
    <3>1. sleepers' = Append(sleepers, p)
      BY <1>3, <2>2
    <3>2. /\ sleepers' \in Seq(Plugins)
          /\ \A x : Has(sleepers', x) <=> Has(sleepers, x) \/ x = p
          /\ \A x : Once(sleepers, x) /\ ~(x = p /\ Has(sleepers, p)) => Once(sleepers', x)
      BY <1>5, <3>1, HasAppend
    <3> QED BY <2>2, <3>2
  <2> QED BY <2>1, <2>2
<1>7. SeatTypeOK'
  <2>1. permit' \in BOOLEAN
    BY <1>3 DEF SeatInv, SeatTypeOK
  <2> QED BY <1>1, <1>4, <1>6, <2>1 DEF SeatInv, SeatTypeOK
<1>8. CompletionsKept /\ \A a \in Actions : ActionKept(a)
  BY <1>1 DEF CompletionsKept, ActionKept
<1>9. \A q \in Plugins : q # p => PollKept(q)
  BY <1>1, <1>4, <1>6 DEF PollKept
<1>10. PollOK(p)'
  <2>1. ASSUME caller = p, NEW a \in Actions, Has(queue, a)
        PROVE  age[a] + (PollTimeout - waited[p]) < ActionTimeout
    <3>1. age[a] = 0
      BY <1>1, <1>2, <2>1 DEF PollOK
    <3> QED BY <1>2, <3>1, TimeoutAssumption
  <2>2. Once(sleepers', p) /\ (Has(sleepers', p) => s = "asleep")
    BY <1>2, <1>6 DEF PollOK
  <2> QED BY <1>1, <1>2, <1>4, <2>1, <2>2 DEF PollOK
<1> QED BY <1>7, <1>8, <1>9, <1>10, SeatKept

LEMMA PollElapsesKeeps == ASSUME SeatInv, NEW p \in Plugins, PollElapses(p) PROVE SeatInv'
<1>1. /\ poll[p] = "asleep"
      /\ UNCHANGED <<queue, waiters, result, submit, age, aim, caller, lastSeen, permit,
                     reply, conn, completions, taken, performed>>
  BY DEF PollElapses, daemonVars, pluginVars
<1>2. /\ sleepers' \in Seq(Plugins)
      /\ \A x : Has(sleepers', x) <=> Has(sleepers, x) /\ x # p
      /\ \A x : Once(sleepers, x) => Once(sleepers', x)
  BY HasWithout DEF PollElapses, SeatInv, SeatTypeOK
<1>3. /\ poll' \in [Plugins -> {"none", "called", "empty", "asleep", "woken"}]
      /\ waited' \in [Plugins -> 0..PollTimeout]
      /\ poll'[p] = "woken" /\ waited'[p] = 0
      /\ \A q \in Plugins : q # p => poll'[q] = poll[q] /\ waited'[q] = waited[q]
  <2>1. 0 \in 0..PollTimeout
    BY TimeoutAssumption
  <2> QED BY <2>1 DEF PollElapses, SeatInv, SeatTypeOK
<1>4. SeatTypeOK'
  BY <1>1, <1>2, <1>3 DEF SeatInv, SeatTypeOK
<1>5. CompletionsKept /\ \A a \in Actions : ActionKept(a)
  BY <1>1 DEF CompletionsKept, ActionKept
<1>6. \A q \in Plugins : q # p => PollKept(q)
  BY <1>1, <1>2, <1>3 DEF PollKept
<1>7. PollOK(p)'
  <2>1. PollOK(p) /\ conn[p] \notin {"down", "booted"}
    BY <1>1 DEF SeatInv, PollOK
  <2> QED BY <1>1, <1>2, <1>3, <2>1 DEF PollOK
<1> QED BY <1>4, <1>5, <1>6, <1>7, SeatKept

LEMMA CompleteKeeps == ASSUME SeatInv, NEW c \in completions, Complete(c) PROVE SeatInv'
<1>1. /\ completions' = completions \ {c}
      /\ UNCHANGED <<queue, submit, age, aim, caller, lastSeen, permit, sleepers, poll, waited,
                     reply, conn, taken, performed>>
  BY DEF Complete, linkVars
<1>2. CompletionsKept /\ \A p \in Plugins : PollKept(p)
  BY <1>1 DEF CompletionsKept, PollKept
<1>3. CASE UNCHANGED <<waiters, result>>
  <2>1. SeatTypeOK'
    BY <1>1, <1>3 DEF SeatInv, SeatTypeOK
  <2>2. \A a \in Actions : ActionKept(a)
    BY <1>1, <1>3 DEF ActionKept
  <2> QED BY <1>2, <2>1, <2>2, SeatKept
<1>4. CASE c.action \in waiters /\ waiters' = waiters \ {c.action} /\ result' = [result EXCEPT ![c.action] = c.outcome]
  <2>1. c.action \in Actions /\ c.outcome \in {"ok", "error"} /\ CompletionOK(c)
    BY DEF SeatInv, SeatTypeOK
  <2>2. PICK a \in Actions : a = c.action
    BY <2>1
  <2>3. /\ result' \in [Actions -> {None, "ok", "error"}] /\ result'[a] = c.outcome
        /\ \A b \in Actions : b # a => result'[b] = result[b]
    BY <1>4, <2>1, <2>2 DEF SeatInv, SeatTypeOK
  <2>4. SeatTypeOK'
    BY <1>1, <1>4, <2>3 DEF SeatInv, SeatTypeOK
  <2>5. \A b \in Actions : b # a => ActionKept(b)
    BY <1>1, <1>4, <2>2, <2>3 DEF ActionKept
  <2>6. ActionOK(a)'
    <3>1. ActionOK(a) /\ a \in taken /\ a \in waiters /\ a \notin waiters' /\ (c.outcome = "ok" => a \in performed)
      BY <1>4, <2>1, <2>2 DEF SeatInv, CompletionOK
    <3>2. ~Has(queue, a) /\ submit[a] \in {"pushed", "waiting"}
      BY <3>1 DEF ActionOK
    <3> QED BY <1>1, <2>1, <2>3, <3>1, <3>2 DEF ActionOK
  <2> QED BY <1>2, <2>4, <2>5, <2>6, SeatKept
<1> QED BY <1>3, <1>4 DEF Complete

-----------------------------------------------------------------------------
(* The plugin, and the clock.                                              *)

LEMMA BootKeeps == ASSUME SeatInv, NEW p \in Plugins, Boot(p) PROVE SeatInv'
<1>1. /\ conn[p] = "down"
      /\ UNCHANGED <<queue, waiters, result, submit, age, aim, caller, lastSeen, permit, sleepers, poll, waited,
                     reply, completions, taken, performed>>
  BY DEF Boot, daemonVars, linkVars
<1>2. /\ conn' \in [Plugins -> {"down", "booted", "up", "gone"}] /\ conn'[p] = "booted"
      /\ \A q \in Plugins : q # p => conn'[q] = conn[q]
  BY DEF Boot, SeatInv, SeatTypeOK
<1>3. SeatTypeOK'
  BY <1>1, <1>2 DEF SeatInv, SeatTypeOK
<1>4. CompletionsKept /\ \A a \in Actions : ActionKept(a)
  BY <1>1 DEF CompletionsKept, ActionKept
<1>5. \A q \in Plugins : q # p => PollKept(q)
  BY <1>1, <1>2 DEF PollKept
<1>6. PollOK(p)'
  <2>1. PollOK(p)
    BY DEF SeatInv
  <2>2. poll[p] \in {"none", "called"} /\ caller # p
    BY <1>1, <2>1 DEF PollOK
  <2> QED BY <1>1, <1>2, <2>1, <2>2 DEF PollOK
<1> QED BY <1>3, <1>4, <1>5, <1>6, SeatKept

LEMMA CrashKeeps == ASSUME SeatInv, NEW p \in Plugins, Crash(p) PROVE SeatInv'
<1>1. UNCHANGED <<queue, waiters, result, submit, age, aim, caller, lastSeen, permit, sleepers, poll, waited,
                  completions, taken, performed>>
  BY DEF Crash, daemonVars, linkVars
<1>2. /\ conn' \in [Plugins -> {"down", "booted", "up", "gone"}] /\ conn'[p] = "gone"
      /\ \A q \in Plugins : q # p => conn'[q] = conn[q]
  BY DEF Crash, SeatInv, SeatTypeOK
<1>3. /\ reply' \in [Plugins -> Actions \cup {None}] /\ reply'[p] = None
      /\ \A q \in Plugins : q # p => reply'[q] = reply[q]
  BY DEF Crash, SeatInv, SeatTypeOK
<1>4. SeatTypeOK'
  BY <1>1, <1>2, <1>3 DEF SeatInv, SeatTypeOK
<1>5. CompletionsKept /\ \A a \in Actions : ActionKept(a)
  BY <1>1 DEF CompletionsKept, ActionKept
<1>6. ASSUME NEW q \in Plugins PROVE PollOK(q)'
  <2>1. PollOK(q)
    BY DEF SeatInv
  <2>2. conn'[q] \in {"down", "booted"} => conn[q] \in {"down", "booted"}
    BY <1>2
  <2>3. /\ reply'[q] # None => reply'[q] \in taken /\ reply'[q] \notin performed
        /\ \A x \in Plugins : reply'[q] # None /\ reply'[x] = reply'[q] => x = q
    BY <1>3, <2>1 DEF PollOK
  <2> QED BY <1>1, <2>1, <2>2, <2>3 DEF PollOK
<1> QED BY <1>4, <1>5, <1>6, SeatKept

LEMMA PollKeeps == ASSUME SeatInv, NEW p \in Plugins, Poll(p) PROVE SeatInv'
<1>1. /\ poll[p] = "none"
      /\ UNCHANGED <<queue, waiters, result, submit, age, aim, caller, lastSeen, permit, sleepers, waited,
                     reply, conn, completions, taken, performed>>
  BY DEF Poll, daemonVars, pluginVars
<1>2. /\ poll' \in [Plugins -> {"none", "called", "empty", "asleep", "woken"}] /\ poll'[p] = "called"
      /\ \A q \in Plugins : q # p => poll'[q] = poll[q]
  BY DEF Poll, SeatInv, SeatTypeOK
<1>3. SeatTypeOK'
  BY <1>1, <1>2 DEF SeatInv, SeatTypeOK
<1>4. CompletionsKept /\ \A a \in Actions : ActionKept(a)
  BY <1>1 DEF CompletionsKept, ActionKept
<1>5. \A q \in Plugins : q # p => PollKept(q)
  BY <1>1, <1>2 DEF PollKept
<1>6. PollOK(p)'
  <2>1. PollOK(p)
    BY DEF SeatInv
  <2> QED BY <1>1, <1>2, <2>1 DEF PollOK
<1> QED BY <1>3, <1>4, <1>5, <1>6, SeatKept

LEMMA HandleReplyKeeps == ASSUME SeatInv, NEW p \in Plugins, HandleReply(p) PROVE SeatInv'
<1>1. /\ reply[p] # None
      /\ UNCHANGED <<queue, waiters, result, submit, age, aim, caller, lastSeen, permit, sleepers, poll, waited,
                     conn, taken>>
  BY DEF HandleReply, daemonVars, linkVars
<1>2. PICK a \in Actions : a = reply[p]
  BY <1>1 DEF SeatInv, SeatTypeOK
<1>3. a \in taken /\ \A q \in Plugins : reply[q] = a => q = p
  BY <1>1, <1>2 DEF SeatInv, PollOK
<1>4. PICK o \in {"ok", "error"} :
         /\ completions' = completions \cup {[by |-> p, action |-> a, outcome |-> o]}
         /\ o = "ok" => performed' = performed \cup {a}
         /\ o = "error" => performed' = performed
  BY <1>2 DEF HandleReply
<1>5. performed \subseteq performed' /\ performed' \subseteq performed \cup {a} /\ (o = "ok" => a \in performed')
  BY <1>4
<1>6. /\ reply' \in [Plugins -> Actions \cup {None}] /\ reply'[p] = None
      /\ \A q \in Plugins : q # p => reply'[q] = reply[q]
  BY DEF HandleReply, SeatInv, SeatTypeOK
<1>7. SeatTypeOK'
  <2>1. completions' \subseteq [by: Plugins, action: Actions, outcome: {"ok", "error"}]
    BY <1>4 DEF SeatInv, SeatTypeOK
  <2>2. performed' \subseteq taken'
    BY <1>1, <1>3, <1>5 DEF SeatInv, SeatTypeOK
  <2> QED BY <1>1, <1>6, <2>1, <2>2 DEF SeatInv, SeatTypeOK
<1>8. ASSUME NEW b \in Actions PROVE ActionOK(b)'
  <2>1. ActionOK(b)
    BY DEF SeatInv
  <2> QED BY <1>1, <1>5, <2>1 DEF ActionOK
<1>9. ASSUME NEW q \in Plugins PROVE PollOK(q)'
  <2>1. PollOK(q)
    BY DEF SeatInv
  <2>2. /\ reply'[q] # None => reply'[q] \in taken /\ reply'[q] \notin performed'
        /\ \A x \in Plugins : reply'[q] # None /\ reply'[x] = reply'[q] => x = q
    BY <1>3, <1>5, <1>6, <2>1 DEF PollOK
  <2> QED BY <1>1, <2>1, <2>2 DEF PollOK
<1>10. ASSUME NEW c \in completions' PROVE CompletionOK(c)'
  <2>1. CASE c \in completions
    BY <1>1, <1>5, <2>1 DEF SeatInv, CompletionOK
  <2>2. CASE c = [by |-> p, action |-> a, outcome |-> o]
    BY <1>1, <1>3, <1>5, <2>2 DEF CompletionOK
  <2> QED BY <1>4, <2>1, <2>2
<1> QED BY <1>7, <1>8, <1>9, <1>10 DEF SeatInv

LEMMA TickKeeps == ASSUME SeatInv, Tick PROVE SeatInv'
<1>1. /\ Settled
      /\ UNCHANGED <<queue, waiters, result, submit, aim, caller, permit, sleepers, poll,
                     reply, conn, completions, taken, performed>>
  BY DEF Tick, pluginVars
<1>2. /\ age \in [Actions -> 0..ActionTimeout] /\ waited \in [Plugins -> 0..PollTimeout]
      /\ ActionTimeout \in Nat /\ PollTimeout \in Nat
  BY TimeoutAssumption DEF SeatInv, SeatTypeOK
<1>3. age' = [a \in Actions |-> IF submit[a] = "waiting" THEN age[a] + 1 ELSE age[a]]
  BY DEF Tick
<1>4. ASSUME NEW a \in Actions
      PROVE  /\ age'[a] = IF submit[a] = "waiting" THEN age[a] + 1 ELSE age[a]
             /\ age'[a] \in 0..ActionTimeout
  <2>1. submit[a] = "waiting" => age[a] < ActionTimeout
    BY <1>1 DEF Settled
  <2> QED BY <1>2, <1>3, <2>1
<1>5. waited' = [p \in Plugins |-> IF poll[p] = "asleep" THEN waited[p] + 1 ELSE waited[p]]
  BY DEF Tick
<1>6. ASSUME NEW p \in Plugins
      PROVE  /\ waited'[p] = IF poll[p] = "asleep" THEN waited[p] + 1 ELSE waited[p]
             /\ waited'[p] \in 0..PollTimeout
  <2>1. poll[p] = "asleep" => waited[p] < PollTimeout
    BY <1>1 DEF Settled
  <2> QED BY <1>2, <1>5, <2>1
<1>7. lastSeen' \in 0..HeartbeatTTL + 1
  <2>1. lastSeen \in 0..HeartbeatTTL + 1 /\ lastSeen' = IF lastSeen > HeartbeatTTL THEN lastSeen ELSE lastSeen + 1
    BY DEF Tick, SeatInv, SeatTypeOK
  <2> QED BY <2>1, TimeoutAssumption
<1>8. SeatTypeOK'
  <2>1. age' \in [Actions -> 0..ActionTimeout]
    BY <1>3, <1>4
  <2>2. waited' \in [Plugins -> 0..PollTimeout]
    BY <1>5, <1>6
  <2> QED BY <1>1, <1>7, <2>1, <2>2 DEF SeatInv, SeatTypeOK
<1>9. ASSUME NEW a \in Actions PROVE ActionOK(a)'
  <2>1. ActionOK(a)
    BY DEF SeatInv
  <2>2. submit[a] # "waiting" => age'[a] = 0
    BY <1>4, <2>1 DEF ActionOK
  <2> QED BY <1>1, <2>1, <2>2 DEF ActionOK
<1>10. ASSUME NEW p \in Plugins PROVE PollOK(p)'
  <2>1. PollOK(p) /\ poll[p] # "empty"
    BY <1>1 DEF SeatInv, Settled
  <2>2. poll[p] # "asleep" => waited'[p] = 0
    BY <1>6, <2>1 DEF PollOK
  <2>3. ASSUME caller = p, poll[p] = "asleep", NEW a \in Actions, Has(queue, a)
        PROVE  age'[a] + (PollTimeout - waited'[p]) < ActionTimeout
    <3>1. age[a] + (PollTimeout - waited[p]) < ActionTimeout
      BY <2>1, <2>3 DEF PollOK
    <3>2. age'[a] \in {age[a], age[a] + 1} /\ waited'[p] = waited[p] + 1
      BY <1>4, <1>6, <2>3
    <3>3. age[a] \in Nat /\ waited[p] \in Nat
      BY <1>2
    <3> QED BY <1>2, <3>1, <3>2, <3>3
  <2> QED BY <1>1, <2>1, <2>2, <2>3 DEF PollOK
<1>11. CompletionsKept
  BY <1>1 DEF CompletionsKept
<1> QED BY <1>8, <1>9, <1>10, <1>11, SeatKept

-----------------------------------------------------------------------------
(* The specification.                                                      *)

LEMMA SeatStart == Init => SeatInv
<1> SUFFICES ASSUME Init PROVE SeatInv
  OBVIOUS
<1>1. \A S : <<>> \in Seq(S)
  OBVIOUS
<1>2. /\ 0 \in 0..ActionTimeout /\ 0 \in 0..PollTimeout /\ HeartbeatTTL + 1 \in 0..HeartbeatTTL + 1
  BY TimeoutAssumption
<1>3. SeatTypeOK
  BY <1>1, <1>2 DEF Init, SeatTypeOK
<1>4. \A x : ~Has(queue, x) /\ Once(queue, x) /\ ~Has(sleepers, x) /\ Once(sleepers, x)
  BY EmptyHasNothing DEF Init
<1>5. ASSUME NEW a \in Actions PROVE ActionOK(a)
  BY <1>4, SeatNoneAssumption DEF Init, ActionOK
<1>6. ASSUME NEW p \in Plugins PROVE PollOK(p)
  BY <1>4, SeatNoneAssumption DEF Init, PollOK
<1> QED BY <1>3, <1>5, <1>6 DEF Init, SeatInv

LEMMA SeatInvStep == SeatInv /\ [Next]_vars => SeatInv'
<1> SUFFICES ASSUME SeatInv, [Next]_vars PROVE SeatInv'
  OBVIOUS
<1>1. ASSUME NEW a \in Actions, Submit(a) PROVE SeatInv'
  BY <1>1, CheckReadyKeeps, PushKeeps, NotifyOneKeeps, ReceiveKeeps, TimeOutKeeps DEF Submit
<1>2. ASSUME NEW w \in Targets, CancelTarget(w) PROVE SeatInv'
  BY <1>2, CancelTargetKeeps
<1>3. ASSUME NEW p \in Plugins, Serve(p) PROVE SeatInv'
  <2>1. CASE TakeFirst(p)
    BY <2>1, TakeKeeps DEF TakeFirst
  <2>2. CASE TakeAgain(p)
    BY <2>2, TakeKeeps DEF TakeAgain
  <2> QED BY <1>3, <2>1, <2>2, SleepKeeps, PollElapsesKeeps, RegisterKeeps DEF Serve
<1>4. ASSUME NEW p \in Plugins, Boot(p) \/ Crash(p) \/ Poll(p) \/ HandleReply(p) PROVE SeatInv'
  BY <1>4, BootKeeps, CrashKeeps, PollKeeps, HandleReplyKeeps
<1>5. ASSUME NEW c \in completions, Complete(c) PROVE SeatInv'
  BY <1>5, CompleteKeeps
<1>6. CASE Tick
  BY <1>6, TickKeeps
<1>7. CASE UNCHANGED vars
  <2>1. UNCHANGED <<queue, waiters, result, submit, age, aim, caller, lastSeen, permit, sleepers, poll, waited,
                    reply, conn, completions, taken, performed>>
    BY <1>7 DEF vars, daemonVars, linkVars, pluginVars
  <2>2. SeatTypeOK' /\ CompletionsKept
    BY <2>1 DEF SeatInv, SeatTypeOK, CompletionsKept
  <2>3. (\A a \in Actions : ActionKept(a)) /\ (\A p \in Plugins : PollKept(p))
    BY <2>1 DEF ActionKept, PollKept
  <2> QED BY <2>2, <2>3, SeatKept
<1> QED BY <1>1, <1>2, <1>3, <1>4, <1>5, <1>6, <1>7 DEF Next

\* The agent seat without its fairness, which safety has no need of.
SeatSafety == Init /\ [][Next]_vars

LEMMA SeatInvariant == SeatSafety => []SeatInv
BY SeatStart, SeatInvStep, PTL DEF SeatSafety

(* The queue, the notifier and the plugin's connections have the types their *)
(* code gives them; no submitter waits beyond its timeout and no poll beyond *)
(* its own, and nothing is performed that no poll has taken.                 *)
THEOREM SeatTypeCorrect == SeatSafety => []SeatTypeOK
<1>1. SeatInv => SeatTypeOK
  BY DEF SeatInv
<1> QED BY <1>1, SeatInvariant, PTL

(* An action that has been answered, in whatever way, is no longer queued    *)
(* and has no sender: no later poll performs what its agent was told has     *)
(* failed, and no late completion is taken for another.                      *)
THEOREM NothingLeftBehindHolds == SeatSafety => []NothingLeftBehind
<1>1. SeatInv => NothingLeftBehind
  <2> SUFFICES ASSUME SeatInv, NEW a \in Answered PROVE a \notin ToSet(queue) /\ a \notin waiters
    BY DEF NothingLeftBehind
  <2>1. ActionOK(a) /\ submit[a] \in {"refused", "ok", "error"}
    BY DEF SeatInv, Answered
  <2>2. ~Has(queue, a) /\ a \notin waiters
    BY <2>1 DEF ActionOK
  <2> QED BY <2>2 DEF Has, ToSet
<1> QED BY <1>1, SeatInvariant, PTL

(* The registered connection wakes from its poll in time for every action    *)
(* that is queued meanwhile, for every pair of timeouts of which the poll's  *)
(* is the shorter.                                                           *)
THEOREM SleepingPollInTimeHolds == SeatSafety => []SleepingPollInTime
<1>1. SeatInv => SleepingPollInTime
  <2> SUFFICES ASSUME SeatInv, NEW a \in ToSet(queue), caller # None, poll[caller] = "asleep"
               PROVE  age[a] + (PollTimeout - waited[caller]) < ActionTimeout
    BY DEF SleepingPollInTime
  <2>1. caller \in Plugins /\ a \in Actions /\ Has(queue, a)
    BY DEF SeatInv, SeatTypeOK, ToSet, Has
  <2>2. PollOK(caller)
    BY <2>1 DEF SeatInv
  <2> QED BY <2>1, <2>2 DEF PollOK
<1> QED BY <1>1, SeatInvariant, PTL

-----------------------------------------------------------------------------
(* The refinement.                                                         *)

AnswerOf(a) == IF submit[a] = "ok" THEN "ok" ELSE IF a \in Answered THEN "error" ELSE "none"
StageBar == [a \in Actions |-> StageOf(a)]
AnswerBar == [a \in Actions |-> AnswerOf(a)]

\* What the abstract state of an action is, in each of its states.
LEMMA StageValues ==
    ASSUME NEW a \in Actions, SeatInv
    PROVE  /\ a \in performed => StageOf(a) = "performed"
           /\ a \notin performed /\ a \in taken => StageOf(a) = "taken"
           /\ a \notin taken /\ submit[a] \in {"idle", "checked", "refused"} => StageOf(a) = "new"
           /\ a \notin taken /\ submit[a] \notin {"idle", "checked", "refused"} => StageOf(a) = "asked"
           /\ submit[a] = "ok" => AnswerOf(a) = "ok"
           /\ submit[a] \in {"refused", "error"} => AnswerOf(a) = "error"
           /\ submit[a] \in {"idle", "checked", "pushed", "waiting"} => AnswerOf(a) = "none"
<1>1. /\ a \in performed => a \in taken
      /\ a \in taken => submit[a] \notin {"idle", "checked", "refused"}
  BY DEF SeatInv, SeatTypeOK, ActionOK
<1>2. /\ a \in performed => StageOf(a) = "performed"
      /\ a \notin performed /\ a \in taken => StageOf(a) = "taken"
  BY <1>1 DEF StageOf
<1>3. /\ a \notin taken /\ submit[a] \in {"idle", "checked", "refused"} => StageOf(a) = "new"
      /\ a \notin taken /\ submit[a] \notin {"idle", "checked", "refused"} => StageOf(a) = "asked"
  BY <1>1 DEF StageOf
<1>4. /\ submit[a] = "ok" => AnswerOf(a) = "ok"
      /\ submit[a] \in {"refused", "error"} => AnswerOf(a) = "error"
      /\ submit[a] \in {"idle", "checked", "pushed", "waiting"} => AnswerOf(a) = "none"
  BY DEF AnswerOf, Answered
<1> QED BY <1>2, <1>3, <1>4

LEMMA RequestsStart == Init => Requests!InitRequests
<1> SUFFICES ASSUME Init PROVE Requests!InitRequests
  OBVIOUS
<1>1. SeatInv
  BY SeatStart
<1>2. \A a \in Actions : StageOf(a) = "new" /\ AnswerOf(a) = "none"
  BY <1>1, StageValues DEF Init
<1> QED BY <1>2 DEF Requests!InitRequests, AnswerOf

\* What the abstract actions are of these two functions.
LEMMA RequestsSteps ==
    /\ \A a \in Actions : StageBar[a] = "new" /\ AnswerBar[a] = "none"
          /\ StageBar' = [StageBar EXCEPT ![a] = "asked"] /\ AnswerBar' = AnswerBar => Requests!NextRequests
    /\ \A a \in Actions : StageBar[a] = "asked" /\ AnswerBar[a] = "none"
          /\ StageBar' = [StageBar EXCEPT ![a] = "taken"] /\ AnswerBar' = AnswerBar => Requests!NextRequests
    /\ \A a \in Actions : StageBar[a] = "taken"
          /\ StageBar' = [StageBar EXCEPT ![a] = "performed"] /\ AnswerBar' = AnswerBar => Requests!NextRequests
    /\ \A a \in Actions : StageBar[a] = "performed" /\ AnswerBar[a] = "none"
          /\ AnswerBar' = [AnswerBar EXCEPT ![a] = "ok"] /\ StageBar' = StageBar => Requests!NextRequests
    /\ \A a \in Actions : AnswerBar[a] = "none"
          /\ AnswerBar' = [AnswerBar EXCEPT ![a] = "error"] /\ StageBar' = StageBar => Requests!NextRequests
    /\ StageBar' = StageBar /\ AnswerBar' = AnswerBar => UNCHANGED Requests!requestVars
<1>1. ASSUME NEW a \in Actions, StageBar[a] = "new", AnswerBar[a] = "none",
             StageBar' = [StageBar EXCEPT ![a] = "asked"], AnswerBar' = AnswerBar
      PROVE  Requests!NextRequests
  <2>1. Requests!Ask(a)
    BY <1>1 DEF Requests!Ask, StageBar, AnswerBar, AnswerOf
  <2> QED BY <2>1 DEF Requests!NextRequests
<1>2. ASSUME NEW a \in Actions, StageBar[a] = "asked", AnswerBar[a] = "none",
             StageBar' = [StageBar EXCEPT ![a] = "taken"], AnswerBar' = AnswerBar
      PROVE  Requests!NextRequests
  <2>1. Requests!Take(a)
    BY <1>2 DEF Requests!Take, StageBar, AnswerBar, AnswerOf
  <2> QED BY <2>1 DEF Requests!NextRequests
<1>3. ASSUME NEW a \in Actions, StageBar[a] = "taken",
             StageBar' = [StageBar EXCEPT ![a] = "performed"], AnswerBar' = AnswerBar
      PROVE  Requests!NextRequests
  <2>1. Requests!Perform(a)
    BY <1>3 DEF Requests!Perform, StageBar, AnswerBar, AnswerOf
  <2> QED BY <2>1 DEF Requests!NextRequests
<1>4. ASSUME NEW a \in Actions, StageBar[a] = "performed", AnswerBar[a] = "none",
             AnswerBar' = [AnswerBar EXCEPT ![a] = "ok"], StageBar' = StageBar
      PROVE  Requests!NextRequests
  <2>1. Requests!AnswerOk(a)
    BY <1>4 DEF Requests!AnswerOk, StageBar, AnswerBar, AnswerOf
  <2> QED BY <2>1 DEF Requests!NextRequests
<1>5. ASSUME NEW a \in Actions, AnswerBar[a] = "none",
             AnswerBar' = [AnswerBar EXCEPT ![a] = "error"], StageBar' = StageBar
      PROVE  Requests!NextRequests
  <2>1. AnswerBar' = [b \in Actions |-> IF b \in {a} THEN "error" ELSE AnswerBar[b]]
    BY <1>5 DEF AnswerBar
  <2>2. Requests!AnswerError({a})
    BY <1>5, <2>1 DEF Requests!AnswerError, StageBar, AnswerBar, AnswerOf
  <2> QED BY <2>2 DEF Requests!NextRequests
<1>6. ASSUME StageBar' = StageBar, AnswerBar' = AnswerBar PROVE UNCHANGED Requests!requestVars
  BY <1>6 DEF Requests!requestVars, StageBar, AnswerBar, AnswerOf
<1> QED BY <1>1, <1>2, <1>3, <1>4, <1>5, <1>6

\* The step takes no action, performs none and answers none.
Quiet ==
    /\ taken' = taken /\ performed' = performed
    /\ \A a \in Actions :
          \/ submit'[a] = submit[a]
          \/ submit[a] = "idle" /\ submit'[a] = "checked"
          \/ submit[a] = "pushed" /\ submit'[a] = "waiting"

\* Such a step changes nothing of the abstract state.
LEMMA QuietStep ==
    ASSUME SeatInv, SeatInv', Quiet
    PROVE  StageBar' = StageBar /\ AnswerBar' = AnswerBar
<1> USE DEF Quiet
<1>1. ASSUME NEW a \in Actions PROVE StageOf(a)' = StageOf(a) /\ AnswerOf(a)' = AnswerOf(a)
  <2>1. CASE submit'[a] = submit[a]
    BY <2>1 DEF StageOf, AnswerOf, Answered
  <2>2. CASE submit[a] = "idle" /\ submit'[a] = "checked"
    BY <2>2, StageValues DEF StageOf, AnswerOf, Answered, SeatInv, ActionOK
  <2>3. CASE submit[a] = "pushed" /\ submit'[a] = "waiting"
    BY <2>3 DEF StageOf, AnswerOf, Answered
  <2> QED BY <2>1, <2>2, <2>3
<1> QED BY <1>1 DEF StageBar, AnswerBar

\* One action is answered.
LEMMA AnswerStep ==
    ASSUME SeatInv, NEW a \in Actions, NEW s \in {"refused", "ok", "error"},
           submit[a] \in {"idle", "waiting"}, submit' = [submit EXCEPT ![a] = s],
           taken' = taken, performed' = performed,
           submit[a] = "idle" => s = "refused", submit[a] = "waiting" => s # "refused",
           s = "ok" => a \in performed
    PROVE  Requests!NextRequests
<1> DEFINE r == IF s = "ok" THEN "ok" ELSE "error"
<1>1. submit' \in [Actions -> {"idle", "checked", "pushed", "waiting", "refused", "ok", "error"}]
      /\ submit'[a] = s /\ \A b \in Actions : b # a => submit'[b] = submit[b]
  BY DEF SeatInv, SeatTypeOK
<1>2. \A b \in Actions : StageOf(b)' = StageOf(b)
  BY <1>1 DEF StageOf
<1>3. \A b \in Actions : AnswerOf(b)' = IF b = a THEN r ELSE AnswerOf(b)
  BY <1>1 DEF AnswerOf, Answered
<1>4. StageBar' = StageBar
  BY <1>2 DEF StageBar
<1>5. AnswerBar' = [AnswerBar EXCEPT ![a] = r]
  BY <1>3 DEF AnswerBar
<1>6. AnswerBar[a] = "none" /\ (a \in performed => StageBar[a] = "performed")
  BY StageValues DEF AnswerBar, StageBar
<1> QED BY <1>4, <1>5, <1>6, RequestsSteps

LEMMA RequestsStep == SeatInv /\ SeatInv' /\ [Next]_vars => [Requests!NextRequests]_Requests!requestVars
<1> SUFFICES ASSUME SeatInv, SeatInv', [Next]_vars
             PROVE  Requests!NextRequests \/ UNCHANGED Requests!requestVars
  OBVIOUS
<1>1. Quiet => UNCHANGED Requests!requestVars
  BY QuietStep, RequestsSteps
<1>2. submit \in [Actions -> {"idle", "checked", "pushed", "waiting", "refused", "ok", "error"}]
  BY DEF SeatInv, SeatTypeOK
<1>3. ASSUME NEW a \in Actions, CheckReady(a) PROVE Requests!NextRequests \/ UNCHANGED Requests!requestVars
  <2>1. submit[a] = "idle" /\ taken' = taken /\ performed' = performed
    BY <1>3 DEF CheckReady
  <2>2. CASE submit' = [submit EXCEPT ![a] = "checked"]
    <3>1. Quiet
      BY <1>2, <2>1, <2>2 DEF Quiet
    <3> QED BY <3>1, <1>1
  <2>3. CASE submit' = [submit EXCEPT ![a] = "refused"]
    BY <2>1, <2>3, AnswerStep
  <2> QED BY <1>3, <2>2, <2>3 DEF CheckReady
<1>4. ASSUME NEW a \in Actions, Push(a) PROVE Requests!NextRequests
  <2>1. /\ submit[a] = "checked" /\ submit' = [submit EXCEPT ![a] = "pushed"]
        /\ taken' = taken /\ performed' = performed
    BY <1>4 DEF Push
  <2>2. submit'[a] = "pushed" /\ \A b \in Actions : b # a => submit'[b] = submit[b]
    BY <1>2, <2>1
  <2>3. a \notin taken /\ StageOf(a) = "new" /\ AnswerOf(a) = "none"
    BY <2>1, StageValues DEF SeatInv, ActionOK
  <2>4. a \notin performed
    BY <2>3 DEF SeatInv, SeatTypeOK
  <2>5. \A b \in Actions : StageOf(b)' = IF b = a THEN "asked" ELSE StageOf(b)
    BY <2>1, <2>2, <2>3, <2>4 DEF StageOf
  <2>6. \A b \in Actions : AnswerOf(b)' = AnswerOf(b)
    BY <2>1, <2>2 DEF AnswerOf, Answered
  <2>7. /\ StageBar' = [StageBar EXCEPT ![a] = "asked"] /\ AnswerBar' = AnswerBar
        /\ StageBar[a] = "new" /\ AnswerBar[a] = "none"
    BY <2>3, <2>5, <2>6 DEF StageBar, AnswerBar
  <2> QED BY <2>7, RequestsSteps
<1>5. ASSUME NEW a \in Actions, NotifyOne(a) PROVE UNCHANGED Requests!requestVars
  <2>1. /\ submit[a] = "pushed" /\ submit' = [submit EXCEPT ![a] = "waiting"]
        /\ taken' = taken /\ performed' = performed
    BY <1>5 DEF NotifyOne
  <2>2. Quiet
    BY <1>2, <2>1 DEF Quiet
  <2> QED BY <2>2, <1>1
<1>6. ASSUME NEW a \in Actions, Receive(a) \/ TimeOut(a) PROVE Requests!NextRequests
  <2>1. /\ submit[a] = "waiting" /\ taken' = taken /\ performed' = performed
        /\ submit' = [submit EXCEPT ![a] = "error"] \/ submit' = [submit EXCEPT ![a] = result[a]]
        /\ submit' = [submit EXCEPT ![a] = result[a]] => result[a] # None \/ submit' = [submit EXCEPT ![a] = "error"]
    BY <1>6 DEF Receive, TimeOut
  <2>2. CASE submit' = [submit EXCEPT ![a] = "error"]
    BY <2>1, <2>2, AnswerStep
  <2>3. CASE submit' = [submit EXCEPT ![a] = result[a]] /\ result[a] # None
    <3>1. result[a] \in {"ok", "error"} /\ (result[a] = "ok" => a \in performed)
      BY <2>3 DEF SeatInv, SeatTypeOK, ActionOK
    <3> QED BY <2>1, <2>3, <3>1, AnswerStep
  <2> QED BY <2>1, <2>2, <2>3
<1>7. ASSUME NEW p \in Plugins, TakeFirst(p) \/ TakeAgain(p)
      PROVE  Requests!NextRequests \/ UNCHANGED Requests!requestVars
  <2>1. submit' = submit /\ performed' = performed
    BY <1>7 DEF TakeFirst, TakeAgain
  <2>2. CASE taken' = taken
    <3>1. Quiet
      BY <2>1, <2>2 DEF Quiet
    <3> QED BY <3>1, <1>1
  <2>3. CASE queue # <<>> /\ taken' = taken \cup {Head(queue)}
    <3>1. queue \in Seq(Actions)
      BY DEF SeatInv, SeatTypeOK
    <3>2. PICK a \in Actions : a = Head(queue)
      BY <2>3, <3>1, HasTail
    <3>3. Has(queue, a)
      BY <2>3, <3>1, <3>2, HasTail
    <3>4. submit[a] \in {"pushed", "waiting"} /\ a \notin taken
      BY <3>3 DEF SeatInv, ActionOK
    <3>5. StageOf(a) = "asked" /\ AnswerOf(a) = "none" /\ a \notin performed
      BY <3>4, StageValues DEF SeatInv, SeatTypeOK
    <3>6. \A b \in Actions : b # a => (b \in taken' <=> b \in taken)
      BY <2>3, <3>2
    <3>7. a \in taken' /\ a \notin performed'
      BY <2>1, <2>3, <3>2, <3>5
    <3>8. \A b \in Actions : StageOf(b)' = IF b = a THEN "taken" ELSE StageOf(b)
      BY <2>1, <3>4, <3>6, <3>7 DEF StageOf
    <3>9. \A b \in Actions : AnswerOf(b)' = AnswerOf(b)
      BY <2>1 DEF AnswerOf, Answered
    <3>10. /\ StageBar' = [StageBar EXCEPT ![a] = "taken"] /\ AnswerBar' = AnswerBar
           /\ StageBar[a] = "asked" /\ AnswerBar[a] = "none"
      BY <3>5, <3>8, <3>9 DEF StageBar, AnswerBar
    <3> QED BY <3>10, RequestsSteps
  <2> QED BY <1>7, <2>2, <2>3 DEF TakeFirst, TakeAgain, TakeStep
<1>8. ASSUME NEW p \in Plugins, HandleReply(p) PROVE Requests!NextRequests \/ UNCHANGED Requests!requestVars
  <2>1. submit' = submit /\ taken' = taken /\ reply[p] # None
    BY <1>8 DEF HandleReply, daemonVars
  <2>2. CASE performed' = performed
    <3>1. Quiet
      BY <2>1, <2>2 DEF Quiet
    <3> QED BY <3>1, <1>1
  <2>3. CASE performed' = performed \cup {reply[p]}
    <3>1. PICK a \in Actions : a = reply[p]
      BY <2>1 DEF SeatInv, SeatTypeOK
    <3>2. a \in taken /\ a \notin performed
      BY <2>1, <3>1 DEF SeatInv, PollOK
    <3>3. StageOf(a) = "taken"
      BY <3>2, StageValues
    <3>4. a \in performed' /\ \A b \in Actions : b # a => (b \in performed' <=> b \in performed)
      BY <2>3, <3>1
    <3>5. StageOf(a)' = "performed"
      BY <3>4, StageValues, SeatInv' DEF StageOf, SeatInv, ActionOK, SeatTypeOK
    <3>6. \A b \in Actions : StageOf(b)' = IF b = a THEN "performed" ELSE StageOf(b)
      BY <2>1, <3>4, <3>5 DEF StageOf
    <3>7. \A b \in Actions : AnswerOf(b)' = AnswerOf(b)
      BY <2>1 DEF AnswerOf, Answered
    <3>8. /\ StageBar' = [StageBar EXCEPT ![a] = "performed"] /\ AnswerBar' = AnswerBar
          /\ StageBar[a] = "taken"
      BY <3>3, <3>6, <3>7 DEF StageBar, AnswerBar
    <3> QED BY <3>8, RequestsSteps
  <2> QED BY <1>8, <2>2, <2>3 DEF HandleReply
<1>9. ASSUME \/ \E w \in Targets : CancelTarget(w)
             \/ \E p \in Plugins : Sleep(p) \/ PollElapses(p) \/ Register(p) \/ Boot(p) \/ Crash(p) \/ Poll(p)
             \/ \E c \in completions : Complete(c)
             \/ Tick
             \/ UNCHANGED vars
      PROVE  UNCHANGED Requests!requestVars
  <2>1. submit' = submit /\ taken' = taken /\ performed' = performed
    BY <1>9 DEF CancelTarget, Sleep, PollElapses, Register, Boot, Crash, Poll, Complete, Tick, vars, daemonVars
  <2>2. Quiet
    BY <2>1 DEF Quiet
  <2> QED BY <2>2, <1>1
<1> QED BY <1>3, <1>4, <1>5, <1>6, <1>7, <1>8, <1>9 DEF Next, Submit, Serve

(* The queue is a targeted input backend, for every number of actions,       *)
(* windows and connections: an action is performed at most once and only     *)
(* while it is asked for or already taken, "ok" means that it has been       *)
(* performed, and every action is answered once.                             *)
THEOREM RequestsRefined == SeatSafety => ImplementsRequests
BY RequestsStart, RequestsStep, SeatInvariant, PTL DEF SeatSafety, ImplementsRequests, Requests!SpecRequests

-----------------------------------------------------------------------------
(* Raw input under the focus lease.                                        *)

\* What the daemon can still learn of a touch after the snapshot, or has.
Told == touchLate \/ disturbed \/ unreported > 0

\* The target has been seen to have the focus.
Placed == {"live", "check", "inject", "renew", "settle", "reread", "resolve", "recheck_safe", "give"}

\* The updates in flight end with the window that has the focus.
NewsOK ==
    /\ ~bridged => news = <<>>
    /\ bridged => active = IF news = <<>> THEN seen ELSE news[Len(news)]

\* Where the focus is, if neither channel has anything to tell of it.
HolderOK(a) ==
    /\ pc[a] \in {"focus", "verify"} => Told \/ \A i \in 1..Len(news) : news[i] = target[a]
    /\ pc[a] \in Placed => Told \/ active = target[a]
    /\ pc[a] \in Placed => newsLate \/ active = target[a]
    /\ pc[a] \in {"inject", "give"} => touchLate \/ active = target[a]
    /\ pc[a] \in BeforeInput \ {"recheck"} => session[target[a]] # "closed"
    /\ pc[a] \in UnderLease \ {"recheck", "read"} => previous \in Windows

FocusInv == FocusTypeOK /\ NewsOK /\ \A a \in RawActions : HolderOK(a)

LEMMA FocusStart == InitFocus => FocusInv
<1> SUFFICES ASSUME InitFocus PROVE FocusInv
  OBVIOUS
<1>1. FocusTypeOK
  <2>1. /\ active \in Windows /\ news \in Seq(Windows) /\ seen \in Windows /\ bridged \in BOOLEAN
        /\ unreported \in Nat /\ loaded \in BOOLEAN /\ trusted \in BOOLEAN
        /\ fresh \in BOOLEAN /\ panic \in BOOLEAN
        /\ previous \in Windows \cup {Nobody} /\ disturbed \in BOOLEAN
        /\ touchLate \in BOOLEAN /\ newsLate \in BOOLEAN
    <3>1. active \in Windows /\ news \in Seq(Windows) /\ seen \in Windows /\ unreported \in Nat
      BY DEF InitFocus
    <3>2. loaded \in BOOLEAN /\ trusted \in BOOLEAN /\ bridged \in BOOLEAN
      BY ONLY InitFocus DEF InitFocus
    <3>3. fresh = FALSE /\ panic = FALSE /\ disturbed = FALSE /\ touchLate = FALSE /\ newsLate = FALSE
      BY DEF InitFocus
    <3>4. previous \in Windows \cup {Nobody}
      BY DEF InitFocus
    <3> QED BY <3>1, <3>2, <3>3, <3>4
  <2>2. events \in 0..MaxEvents
    BY FocusAssumption DEF InitFocus
  <2>3. session \in [Windows -> {"live", "closed", "ended"}] /\ target \in [RawActions -> Windows]
    BY DEF InitFocus
  <2>4. /\ lease \in RawActions \cup {Nobody}
        /\ pc \in [RawActions -> Waiting \cup UnderLease \cup {"ended"}]
        /\ \A a \in RawActions : pc[a] \in UnderLease <=> lease = a
    BY FocusAssumption DEF InitFocus, Waiting, UnderLease, BeforeInput, AfterInput
  <2> QED BY <2>1, <2>2, <2>3, <2>4 DEF FocusTypeOK
<1>2. NewsOK
  BY DEF InitFocus, NewsOK
<1>3. ASSUME NEW a \in RawActions PROVE HolderOK(a)
  BY DEF InitFocus, HolderOK, Placed, BeforeInput, UnderLease, AfterInput
<1> QED BY <1>1, <1>2, <1>3 DEF FocusInv

LEMMA ActivateKeeps ==
    ASSUME FocusTypeOK, NewsOK, NEW w \in Windows, Activate(w)
    PROVE  /\ active' \in Windows /\ news' \in Seq(Windows) /\ seen' \in Windows /\ bridged' \in BOOLEAN
           /\ NewsOK'
           /\ active' = w
           /\ news' = news \/ news' = Append(news, w)
<1>1. active' = w /\ seen' = seen /\ bridged' = bridged /\ news \in Seq(Windows) /\ seen \in Windows
  BY DEF FocusTypeOK, Activate
<1>2. CASE bridged /\ w # active
  <2>1. news' = Append(news, w)
    BY <1>2 DEF Activate
  <2>2. news' \in Seq(Windows) /\ news' # <<>> /\ news'[Len(news')] = w
    BY <1>1, <2>1
  <2> QED BY <1>1, <1>2, <2>1, <2>2 DEF NewsOK, FocusTypeOK
<1>3. CASE ~bridged \/ w = active
  <2>1. news' = news
    BY <1>3 DEF Activate
  <2> QED BY <1>1, <1>3, <2>1 DEF NewsOK, FocusTypeOK
<1> QED BY <1>2, <1>3

\* What a step of the environment leaves alone.
LEMMA SameHolder ==
    ASSUME FocusTypeOK, UNCHANGED <<target, lease, pc, previous>>,
           active' \in Windows, news' \in Seq(Windows), seen' \in Windows, bridged' \in BOOLEAN,
           unreported' \in Nat, loaded' \in BOOLEAN, trusted' \in BOOLEAN, fresh' \in BOOLEAN,
           panic' \in BOOLEAN, events' \in 0..MaxEvents,
           session' \in [Windows -> {"live", "closed", "ended"}],
           disturbed' \in BOOLEAN, touchLate' \in BOOLEAN, newsLate' \in BOOLEAN
    PROVE  FocusTypeOK'
BY DEF FocusTypeOK

\* The focus moves, and nobody follows it or both channels may tell.
LEMMA FocusMoves ==
    ASSUME FocusInv, NEW w \in Windows, Activate(w), Happens,
           unreported' \in Nat, unreported <= unreported',
           UNCHANGED <<loaded, trusted, fresh, panic, session, target, lease, pc, previous, disturbed>>,
           touchLate' \in BOOLEAN, touchLate => touchLate',
           newsLate' \in BOOLEAN, Followed => newsLate',
           Followed => Told', AtStage({"inject", "give"}) => touchLate'
    PROVE  FocusInv'
<1>1. NewsOK' /\ active' \in Windows /\ news' \in Seq(Windows) /\ seen' \in Windows /\ bridged' \in BOOLEAN
  BY ActivateKeeps DEF FocusInv
<1>2. events' \in 0..MaxEvents
  BY FocusAssumption DEF Happens, FocusInv, FocusTypeOK
<1>3. FocusTypeOK'
  BY <1>1, <1>2, SameHolder DEF FocusInv, FocusTypeOK
<1>4. ASSUME NEW a \in RawActions PROVE HolderOK(a)'
  <2>1. pc[a] \in Watching => Told' /\ newsLate'
    BY DEF Followed
  <2>2. pc[a] \in {"inject", "give"} => touchLate'
    BY DEF AtStage
  <2>3. HolderOK(a)
    BY DEF FocusInv
  <2> QED BY <2>1, <2>2, <2>3 DEF HolderOK, Watching, Placed, AfterInput
<1> QED BY <1>1, <1>3, <1>4 DEF FocusInv

LEMMA UserSwitchesKeeps == ASSUME FocusInv, NEW w \in Windows, UserSwitches(w) PROVE FocusInv'
<1>1. unreported \in Nat /\ touchLate \in BOOLEAN /\ newsLate \in BOOLEAN
  BY DEF FocusInv, FocusTypeOK
<1>2. Activate(w) /\ Happens
      /\ UNCHANGED <<loaded, trusted, fresh, panic, session, target, lease, pc, previous, disturbed>>
  BY DEF UserSwitches
<1>3. newsLate' \in BOOLEAN /\ (Followed => newsLate')
  BY DEF UserSwitches
<1>4. AtStage({"inject", "give"}) => Followed
  BY DEF AtStage, Followed, Watching, AfterInput
<1>5. CASE loaded
  <2>1. unreported' = unreported + 1 /\ touchLate' = (touchLate \/ AtStage({"inject", "give"}))
    BY <1>5 DEF UserSwitches
  <2>2. unreported' \in Nat /\ unreported <= unreported' /\ unreported' > 0
    BY <1>1, <2>1
  <2>3. touchLate' \in BOOLEAN /\ (touchLate => touchLate') /\ (AtStage({"inject", "give"}) => touchLate')
    BY <2>1
  <2> QED BY <1>2, <1>3, <2>2, <2>3, FocusMoves DEF Told
<1>6. CASE ~loaded
  <2>1. unreported' = unreported /\ touchLate' = (touchLate \/ Followed)
    BY <1>6 DEF UserSwitches
  <2>2. touchLate' \in BOOLEAN /\ (touchLate => touchLate') /\ (Followed => touchLate')
    BY <2>1
  <2> QED BY <1>1, <1>2, <1>3, <1>4, <2>1, <2>2, FocusMoves DEF Told
<1> QED BY <1>5, <1>6

LEMMA OtherFocusKeeps == ASSUME FocusInv, NEW w \in Windows, OtherFocus(w) PROVE FocusInv'
<1>1. unreported \in Nat /\ unreported' = unreported /\ Activate(w) /\ Happens
      /\ UNCHANGED <<loaded, trusted, fresh, panic, session, target, lease, pc, previous, disturbed>>
  BY DEF OtherFocus, activity, FocusInv, FocusTypeOK
<1>2. /\ newsLate' \in BOOLEAN /\ (Followed => newsLate')
      /\ touchLate' \in BOOLEAN /\ (touchLate => touchLate') /\ (Followed => touchLate')
  BY DEF OtherFocus
<1>3. AtStage({"inject", "give"}) => Followed
  BY DEF AtStage, Followed, Watching, AfterInput
<1> QED BY <1>1, <1>2, <1>3, FocusMoves DEF Told

\* The compositor keeps still, and what is told stays told.
LEMMA FocusStays ==
    ASSUME FocusInv, UNCHANGED <<active, news, seen, bridged, target, lease, pc, previous, touchLate, newsLate>>,
           FocusTypeOK', Told /\ Followed => Told',
           lease # Nobody => \A w \in Windows : session'[w] = "closed" => session[w] = "closed"
    PROVE  FocusInv'
<1>1. NewsOK'
  BY DEF FocusInv, NewsOK
<1>2. ASSUME NEW a \in RawActions PROVE HolderOK(a)'
  <2>1. HolderOK(a) /\ target[a] \in Windows /\ (pc[a] \in UnderLease => lease = a) /\ a # Nobody
    BY FocusAssumption DEF FocusInv, FocusTypeOK
  <2>2. pc[a] \in Watching /\ Told => Told'
    BY DEF Followed
  <2> QED BY <2>1, <2>2 DEF HolderOK, Watching, Placed, AfterInput, UnderLease, BeforeInput
<1> QED BY <1>1, <1>2 DEF FocusInv

LEMMA ReportKeeps == FocusInv /\ Report => FocusInv'
<1> SUFFICES ASSUME FocusInv, Report PROVE FocusInv'
  OBVIOUS
<1>1. /\ unreported \in Nat /\ unreported' \in Nat
      /\ UNCHANGED <<active, news, seen, bridged, loaded, panic, session, events, target, lease, pc, previous, touchLate, newsLate>>
  BY DEF Report, compositor, histories, FocusInv, FocusTypeOK
<1>2. /\ fresh' \in BOOLEAN /\ trusted' \in BOOLEAN /\ disturbed' \in BOOLEAN
      /\ Followed => disturbed'
  BY DEF Report
<1>3. FocusTypeOK'
  BY <1>1, <1>2, SameHolder DEF FocusInv, FocusTypeOK
<1> QED BY <1>1, <1>2, <1>3, FocusStays DEF Told

LEMMA LoadKeeps == FocusInv /\ Load => FocusInv'
<1> SUFFICES ASSUME FocusInv, Load PROVE FocusInv'
  OBVIOUS
<1>1. UNCHANGED <<active, news, seen, bridged, unreported, fresh, panic, session, target, lease, pc,
                  previous, touchLate, newsLate>>
  BY DEF Load, compositor, histories
<1>2. /\ loaded' \in BOOLEAN /\ trusted' \in BOOLEAN /\ disturbed' \in BOOLEAN
      /\ disturbed => disturbed'
  BY DEF Load
<1>3. events' \in 0..MaxEvents
  BY FocusAssumption DEF Load, Happens, FocusInv, FocusTypeOK
<1>4. FocusTypeOK'
  BY <1>1, <1>2, <1>3, SameHolder DEF FocusInv, FocusTypeOK
<1> QED BY <1>1, <1>2, <1>4, FocusStays DEF Told

LEMMA PublishKeeps == FocusInv /\ Publish => FocusInv'
<1> SUFFICES ASSUME FocusInv, Publish PROVE FocusInv'
  OBVIOUS
<1>1. /\ news \in Seq(Windows) /\ news # <<>> /\ bridged
      /\ seen' = Head(news) /\ news' = Tail(news)
      /\ UNCHANGED <<active, bridged, unreported, loaded, trusted, fresh, panic, session, events, target,
                     lease, pc, previous, disturbed, touchLate, newsLate>>
  BY DEF Publish, activity, locals, FocusInv, FocusTypeOK, NewsOK
<1>2. /\ seen' \in Windows /\ news' \in Seq(Windows) /\ Len(news') = Len(news) - 1
      /\ \A i \in 1..Len(news') : news'[i] = news[i + 1]
      /\ Len(news) = 1 => seen' = news[1] /\ news' = <<>>
  BY <1>1
<1>3. NewsOK'
  <2>1. active = news[Len(news)] /\ Len(news) \in Nat /\ Len(news) >= 1
    BY <1>1 DEF FocusInv, NewsOK
  <2>2. CASE Len(news) = 1
    BY <1>1, <1>2, <2>1, <2>2 DEF NewsOK
  <2>3. CASE Len(news) # 1
    <3>1. Len(news') \in 1..Len(news') /\ Len(news') + 1 = Len(news)
      BY <1>2, <2>1, <2>3
    <3>2. news'[Len(news')] = news[Len(news)]
      BY <1>2, <3>1
    <3>3. news' # <<>>
      BY <1>2, <2>1, <2>3
    <3> QED BY <1>1, <2>1, <3>2, <3>3 DEF NewsOK
  <2> QED BY <2>2, <2>3
<1>4. FocusTypeOK'
  BY <1>1, <1>2, SameHolder DEF FocusInv, FocusTypeOK
<1>5. ASSUME NEW a \in RawActions PROVE HolderOK(a)'
  <2>1. HolderOK(a) /\ Told' = Told
    BY <1>1 DEF FocusInv, Told
  <2>2. (\A i \in 1..Len(news) : news[i] = target[a]) => \A i \in 1..Len(news') : news'[i] = target[a]
    BY <1>1, <1>2
  <2> QED BY <1>1, <2>1, <2>2 DEF HolderOK
<1> QED BY <1>3, <1>4, <1>5 DEF FocusInv

\* The steps that touch one variable of the environment only.
LEMMA OthersKeep ==
    FocusInv /\ (\/ QuietPasses \/ Unload \/ \E on \in BOOLEAN : SetPanicStop(on)
                \/ \E w \in Windows : CloseSession(w) \/ SessionEnds(w))
    => FocusInv'
<1>1. ASSUME FocusInv, QuietPasses PROVE FocusInv'
  <2>1. UNCHANGED <<active, news, seen, bridged, unreported, loaded, trusted, panic, session, events, target,
                    lease, pc, previous, disturbed, touchLate, newsLate>> /\ fresh' \in BOOLEAN
    BY <1>1 DEF QuietPasses, compositor, locals
  <2>2. FocusTypeOK'
    BY <1>1, <2>1, SameHolder DEF FocusInv, FocusTypeOK
  <2> QED BY <1>1, <2>1, <2>2, FocusStays DEF Told
<1>2. ASSUME FocusInv, Unload PROVE FocusInv'
  <2>1. UNCHANGED <<active, news, seen, bridged, unreported, fresh, trusted, panic, session, target,
                    lease, pc, previous, disturbed, touchLate, newsLate>> /\ loaded' \in BOOLEAN
    BY <1>2 DEF Unload, compositor, locals
  <2>2. events' \in 0..MaxEvents
    BY <1>2, FocusAssumption DEF Unload, Happens, FocusInv, FocusTypeOK
  <2>3. FocusTypeOK'
    BY <1>2, <2>1, <2>2, SameHolder DEF FocusInv, FocusTypeOK
  <2> QED BY <1>2, <2>1, <2>3, FocusStays DEF Told
<1>3. ASSUME FocusInv, NEW on \in BOOLEAN, SetPanicStop(on) PROVE FocusInv'
  <2>1. UNCHANGED <<active, news, seen, bridged, unreported, loaded, trusted, fresh, session, target,
                    lease, pc, previous, disturbed, touchLate, newsLate>> /\ panic' \in BOOLEAN
    BY <1>3 DEF SetPanicStop, compositor, activity, locals
  <2>2. events' \in 0..MaxEvents
    BY <1>3, FocusAssumption DEF SetPanicStop, Happens, FocusInv, FocusTypeOK
  <2>3. FocusTypeOK'
    BY <1>3, <2>1, <2>2, SameHolder DEF FocusInv, FocusTypeOK
  <2> QED BY <1>3, <2>1, <2>3, FocusStays DEF Told
<1>4. ASSUME FocusInv, NEW w \in Windows, CloseSession(w) \/ SessionEnds(w) PROVE FocusInv'
  <2>1. UNCHANGED <<active, news, seen, bridged, unreported, loaded, trusted, fresh, panic, target,
                    lease, pc, previous, disturbed, touchLate, newsLate>>
    BY <1>4 DEF CloseSession, SessionEnds, compositor, activity, locals
  <2>2. events' \in 0..MaxEvents
    BY <1>4, FocusAssumption DEF CloseSession, SessionEnds, Happens, FocusInv, FocusTypeOK
  <2>3. /\ session' \in [Windows -> {"live", "closed", "ended"}]
        /\ lease # Nobody => \A x \in Windows : session'[x] = "closed" => session[x] = "closed"
    BY <1>4 DEF CloseSession, SessionEnds, FocusInv, FocusTypeOK
  <2>4. FocusTypeOK'
    BY <1>4, <2>1, <2>2, <2>3, SameHolder DEF FocusInv, FocusTypeOK
  <2> QED BY <1>4, <2>1, <2>3, <2>4, FocusStays DEF Told
<1> QED BY <1>1, <1>2, <1>3, <1>4

-----------------------------------------------------------------------------
(* The steps of the action that holds the seat.                            *)

\* What has the focus when it is read as w, and no update is in flight.
LEMMA SeenIsActive == ASSUME FocusInv, NEW w, Reads(w), news = <<>> PROVE active = w
BY DEF FocusInv, NewsOK, Reads

LEMMA FinishKeeps ==
    ASSUME FocusInv, NEW a \in RawActions, pc[a] \in UnderLease, Finish(a),
           NewsOK', active' \in Windows, news' \in Seq(Windows), seen' \in Windows, bridged' \in BOOLEAN,
           UNCHANGED <<unreported, loaded, trusted, fresh, panic, session, events, target>>
    PROVE  FocusInv'
<1>1. /\ pc' = [pc EXCEPT ![a] = "ended"] /\ lease' = Nobody /\ previous' = Nobody
      /\ disturbed' = FALSE /\ touchLate' = FALSE /\ newsLate' = FALSE
  BY DEF Finish, Goto
<1>2. lease = a /\ "ended" \notin UnderLease /\ pc \in [RawActions -> Waiting \cup UnderLease \cup {"ended"}]
  BY DEF FocusInv, FocusTypeOK, UnderLease, BeforeInput, AfterInput
<1>3. \A b \in RawActions : pc'[b] \notin UnderLease
  BY <1>1, <1>2 DEF FocusInv, FocusTypeOK
<1>4. FocusTypeOK'
  <2>1. pc' \in [RawActions -> Waiting \cup UnderLease \cup {"ended"}]
    BY <1>1, <1>2
  <2>2. \A b \in RawActions : pc'[b] \in UnderLease <=> lease' = b
    BY <1>1, <1>3, FocusAssumption
  <2> QED BY <1>1, <2>1, <2>2 DEF FocusInv, FocusTypeOK
<1>5. ASSUME NEW b \in RawActions PROVE HolderOK(b)'
  BY <1>3 DEF HolderOK, Placed, UnderLease, BeforeInput, AfterInput
<1> QED BY <1>4, <1>5 DEF FocusInv

LEMMA ProceedKeeps ==
    ASSUME FocusInv, NEW a \in RawActions, NEW next \in UnderLease, pc[a] \in UnderLease, Goto(a, next),
           NewsOK', active' \in Windows, news' \in Seq(Windows), seen' \in Windows, bridged' \in BOOLEAN,
           previous' \in Windows \cup {Nobody},
           disturbed' \in BOOLEAN, touchLate' \in BOOLEAN, newsLate' \in BOOLEAN,
           UNCHANGED <<unreported, loaded, trusted, fresh, panic, session, events, target, lease>>,
           HolderOK(a)'
    PROVE  FocusInv'
<1>1. pc' = [pc EXCEPT ![a] = next] /\ lease = a /\ pc \in [RawActions -> Waiting \cup UnderLease \cup {"ended"}]
  BY DEF Goto, FocusInv, FocusTypeOK
<1>2. pc' \in [RawActions -> Waiting \cup UnderLease \cup {"ended"}] /\ pc'[a] = next
      /\ \A b \in RawActions : b # a => pc'[b] \notin UnderLease
  BY <1>1 DEF FocusInv, FocusTypeOK
<1>3. FocusTypeOK'
  BY <1>1, <1>2 DEF FocusInv, FocusTypeOK
<1>4. ASSUME NEW b \in RawActions PROVE HolderOK(b)'
  <2>1. CASE b # a
    BY <1>2, <2>1 DEF HolderOK, Placed, UnderLease, BeforeInput, AfterInput
  <2> QED BY <2>1
<1> QED BY <1>3, <1>4 DEF FocusInv

\* With the compositor at rest.
StaysAt == UNCHANGED <<active, news, seen, bridged, unreported, loaded, trusted, fresh, panic, session, events, target>>

LEMMA RefuseKeeps ==
    ASSUME FocusInv, NEW a \in RawActions, pc[a] \in UnderLease, Finish(a), StaysAt
    PROVE  FocusInv'
<1>1. NewsOK' /\ UNCHANGED <<unreported, loaded, trusted, fresh, panic, session, events, target>>
  BY DEF StaysAt, FocusInv, NewsOK
<1>2. active' \in Windows /\ news' \in Seq(Windows) /\ seen' \in Windows /\ bridged' \in BOOLEAN
  BY DEF StaysAt, FocusInv, FocusTypeOK
<1> QED BY <1>1, <1>2, FinishKeeps

LEMMA StillKeeps ==
    ASSUME FocusInv, NEW a \in RawActions, NEW next \in UnderLease, pc[a] \in UnderLease, Goto(a, next),
           StaysAt, previous' \in Windows \cup {Nobody},
           disturbed' \in BOOLEAN, touchLate' \in BOOLEAN, newsLate' \in BOOLEAN,
           UNCHANGED lease, pc'[a] = next => HolderOK(a)'
    PROVE  FocusInv'
<1>1. NewsOK' /\ UNCHANGED <<unreported, loaded, trusted, fresh, panic, session, events, target>>
  BY DEF StaysAt, FocusInv, NewsOK
<1>2. active' \in Windows /\ news' \in Seq(Windows) /\ seen' \in Windows /\ bridged' \in BOOLEAN
  BY DEF StaysAt, FocusInv, FocusTypeOK
<1>3. pc'[a] = next
  BY DEF Goto, FocusInv, FocusTypeOK
<1> QED BY <1>1, <1>2, <1>3, ProceedKeeps

\* Nothing but the program counter moves, to a stage that asks for no more.
LEMMA GoesOn ==
    ASSUME FocusInv, NEW a \in RawActions, NEW next \in UnderLease, pc[a] \in UnderLease,
           Proceed(a, next), StaysAt,
           next \in {"focus", "verify"} => pc[a] \in {"focus", "verify"},
           next \in Placed => pc[a] \in Placed,
           next \in {"inject", "give"} => pc[a] \in {"inject", "give"},
           next \in BeforeInput => pc[a] \in BeforeInput /\ session[target[a]] # "closed",
           next \notin {"recheck", "read"} => pc[a] \notin {"recheck", "read"}
    PROVE  FocusInv'
<1>1. /\ Goto(a, next) /\ UNCHANGED lease
      /\ previous' = previous /\ disturbed' = disturbed /\ touchLate' = touchLate /\ newsLate' = newsLate
  BY DEF Proceed, locals
<1>2. previous' \in Windows \cup {Nobody} /\ disturbed' \in BOOLEAN /\ touchLate' \in BOOLEAN /\ newsLate' \in BOOLEAN
  BY <1>1 DEF FocusInv, FocusTypeOK
<1>3. ASSUME pc'[a] = next PROVE HolderOK(a)'
  <2>1. HolderOK(a) /\ Told' = Told
    BY <1>1 DEF FocusInv, Told, StaysAt
  <2> QED BY <1>1, <1>3, <2>1 DEF HolderOK, StaysAt
<1> QED BY <1>1, <1>2, <1>3, StillKeeps

LEMMA AcquireKeeps == ASSUME FocusInv, NEW a \in RawActions, Begin(a) \/ AcquireSeatLease(a) PROVE FocusInv'
<1>1. /\ StaysAt /\ pc[a] \in Waiting
      /\ previous' = previous /\ disturbed' = disturbed /\ touchLate' = touchLate /\ newsLate' = newsLate
  BY DEF Begin, AcquireSeatLease, StaysPut, StaysAt, compositor, activity, locals, Waiting
<1>2. \/ lease' = lease /\ \E next \in {"waiting", "ended"} : pc' = [pc EXCEPT ![a] = next]
      \/ lease = Nobody /\ lease' = a /\ pc' = [pc EXCEPT ![a] = "recheck"]
  BY DEF Begin, AcquireSeatLease, Goto, locals
<1>3. /\ pc \in [RawActions -> Waiting \cup UnderLease \cup {"ended"}]
      /\ \A b \in RawActions : pc[b] \in UnderLease <=> lease = b
      /\ a # Nobody
  BY FocusAssumption DEF FocusInv, FocusTypeOK
<1>4. /\ \A x \in {"waiting", "ended", "begin"} : x \notin UnderLease
      /\ "recheck" \in UnderLease /\ {"waiting", "ended"} \subseteq Waiting \cup {"ended"}
  BY DEF UnderLease, BeforeInput, AfterInput, Waiting
<1>5. /\ pc' \in [RawActions -> Waiting \cup UnderLease \cup {"ended"}]
      /\ \A b \in RawActions : pc'[b] \in UnderLease <=> lease' = b
      /\ lease' \in RawActions \cup {Nobody}
      /\ pc'[a] \in {"waiting", "ended", "recheck"} /\ \A b \in RawActions : b # a => pc'[b] = pc[b]
  <2>1. CASE lease' = lease /\ \E next \in {"waiting", "ended"} : pc' = [pc EXCEPT ![a] = next]
    <3>1. pc[a] \notin UnderLease
      BY <1>1, <1>4 DEF Waiting
    <3> QED BY <1>3, <1>4, <2>1, <3>1 DEF FocusInv, FocusTypeOK
  <2>2. CASE lease = Nobody /\ lease' = a /\ pc' = [pc EXCEPT ![a] = "recheck"]
    <3>1. \A b \in RawActions : pc[b] \notin UnderLease
      BY <1>3, <2>2, FocusAssumption
    <3> QED BY <1>3, <1>4, <2>2, <3>1
  <2> QED BY <1>2, <2>1, <2>2
<1>6. FocusTypeOK'
  BY <1>1, <1>5 DEF FocusInv, FocusTypeOK, StaysAt
<1>7. NewsOK'
  BY <1>1 DEF FocusInv, NewsOK, StaysAt
<1>8. ASSUME NEW b \in RawActions PROVE HolderOK(b)'
  <2>1. CASE b = a
    BY <1>5, <2>1 DEF HolderOK, Placed, BeforeInput, UnderLease, AfterInput
  <2>2. CASE b # a
    <3>1. Told' = Told /\ HolderOK(b) /\ pc'[b] = pc[b]
      BY <1>1, <1>5, <2>2 DEF FocusInv, Told, StaysAt
    <3> QED BY <1>1, <3>1 DEF HolderOK, StaysAt
  <2> QED BY <2>1, <2>2
<1> QED BY <1>6, <1>7, <1>8 DEF FocusInv

LEMMA StagesAre ==
    /\ "recheck" \in UnderLease /\ "read" \in UnderLease /\ "snapshot" \in UnderLease
    /\ "focus" \in UnderLease /\ "verify" \in UnderLease /\ "live" \in UnderLease
    /\ "check" \in UnderLease /\ "inject" \in UnderLease /\ "renew" \in UnderLease
    /\ "settle" \in UnderLease /\ "reread" \in UnderLease /\ "resolve" \in UnderLease
    /\ "recheck_safe" \in UnderLease /\ "give" \in UnderLease /\ "confirm" \in UnderLease
BY DEF UnderLease, BeforeInput, AfterInput

LEMMA StaysPutIs == StaysPut => StaysAt
BY DEF StaysPut, StaysAt, compositor, activity

\* The steps that look at sessions, switches and activity only.
LEMMA GoOnSteps ==
    ASSUME FocusInv, NEW a \in RawActions,
           \/ Recheck(a) \/ RequireLiveSession(a) \/ Inject(a) \/ RenewSession(a)
           \/ RestoreActivity(a) \/ RestoreResolve(a) \/ ConfirmRestored(a)
    PROVE  FocusInv'
<1>1. StaysAt /\ pc[a] \in UnderLease
  BY StaysPutIs, StagesAre DEF Recheck, RequireLiveSession, Inject, RenewSession, RestoreActivity,
     RestoreResolve, ConfirmRestored
<1>2. CASE Finish(a)
  BY <1>1, <1>2, RefuseKeeps
<1>3. CASE pc[a] = "recheck" /\ session[target[a]] = "live" /\ Proceed(a, "read")
  BY <1>1, <1>3, StagesAre, GoesOn DEF Placed, BeforeInput
<1>4. CASE pc[a] = "live" /\ session[target[a]] = "live" /\ Proceed(a, "check")
  BY <1>1, <1>4, StagesAre, GoesOn DEF Placed, BeforeInput
<1>5. CASE pc[a] = "inject" /\ Proceed(a, "renew")
  BY <1>1, <1>5, StagesAre, GoesOn DEF Placed, BeforeInput
<1>6. CASE pc[a] = "renew" /\ Proceed(a, "settle")
  BY <1>1, <1>6, StagesAre, GoesOn DEF Placed, BeforeInput
<1>7. CASE pc[a] = "settle" /\ Proceed(a, "reread")
  BY <1>1, <1>7, StagesAre, GoesOn DEF Placed, BeforeInput
<1>8. CASE pc[a] = "resolve" /\ Proceed(a, "recheck_safe")
  BY <1>1, <1>8, StagesAre, GoesOn DEF Placed, BeforeInput
<1> QED
  BY <1>2, <1>3, <1>4, <1>5, <1>6, <1>7, <1>8 DEF Recheck, RequireLiveSession, Inject, RenewSession,
     RestoreActivity, RestoreResolve, ConfirmRestored, Refuse, SkipRestore

LEMMA ReadSnapshotSteps ==
    ASSUME FocusInv, NEW a \in RawActions, ReadPrevious(a) \/ Snapshot(a)
    PROVE  FocusInv'
<1>1. StaysAt /\ pc[a] \in {"read", "snapshot"} /\ pc[a] \in UnderLease /\ HolderOK(a)
  BY StaysPutIs, StagesAre DEF ReadPrevious, Snapshot, FocusInv
<1>2. CASE ReadPrevious(a) /\ Finish(a)
  BY <1>1, <1>2, RefuseKeeps
<1>3. CASE ReadPrevious(a) /\ ~Finish(a)
  <2>1. /\ Goto(a, "snapshot") /\ pc[a] = "read" /\ UNCHANGED lease /\ previous' \in Windows
        /\ disturbed' = disturbed /\ touchLate' = touchLate /\ newsLate' = newsLate
    BY <1>3 DEF ReadPrevious, Refuse, histories
  <2>2. disturbed' \in BOOLEAN /\ touchLate' \in BOOLEAN /\ newsLate' \in BOOLEAN
    BY <2>1 DEF FocusInv, FocusTypeOK
  <2>3. pc'[a] = "snapshot" => HolderOK(a)'
    BY <1>1, <2>1 DEF HolderOK, Placed, BeforeInput, StaysAt, UnderLease, AfterInput
  <2> QED BY <1>1, <2>1, <2>2, <2>3, StagesAre, StillKeeps
<1>4. CASE Snapshot(a)
  <2> DEFINE next == IF previous = target[a] THEN "verify" ELSE "focus"
  <2>1. /\ Goto(a, next) /\ pc[a] = "snapshot" /\ UNCHANGED lease /\ previous' = previous
        /\ disturbed' = FALSE /\ touchLate' = (news # <<>>) /\ newsLate' = (news # <<>>)
    BY <1>4 DEF Snapshot
  <2>2. previous' \in Windows \cup {Nobody} /\ next \in UnderLease /\ next \in {"verify", "focus"}
    BY <2>1, StagesAre DEF FocusInv, FocusTypeOK
  <2>3. disturbed' \in BOOLEAN /\ touchLate' \in BOOLEAN /\ newsLate' \in BOOLEAN
    BY <2>1
  <2>4. pc'[a] = next => HolderOK(a)'
    <3>1. Told' \/ \A i \in 1..Len(news') : news'[i] = target'[a]
      <4>1. CASE news = <<>>
        BY <1>1, <4>1 DEF StaysAt
      <4>2. CASE news # <<>>
        BY <2>1, <4>2 DEF Told
      <4> QED BY <4>1, <4>2
    <3> QED BY <1>1, <2>1, <2>2, <3>1 DEF HolderOK, Placed, BeforeInput, StaysAt, UnderLease, AfterInput
  <2> QED BY <1>1, <2>1, <2>2, <2>3, <2>4, StillKeeps
<1> QED BY <1>2, <1>3, <1>4

\* A look at the active window that finds the target.
LEMMA LookKeeps ==
    ASSUME FocusInv, NEW a \in RawActions, NEW next \in {"live", "resolve"}, StaysAt,
           \/ pc[a] = "verify" /\ next = "live"
           \/ pc[a] = "reread" /\ next = "resolve",
           Reads(target[a]), ProceedSeen(a, next)
    PROVE  FocusInv'
<1>1. /\ Goto(a, next) /\ newsLate' = (news # <<>>) /\ lease' = lease /\ previous' = previous
      /\ disturbed' = disturbed /\ touchLate' = touchLate /\ next \in UnderLease /\ pc[a] \in UnderLease
  BY StagesAre DEF ProceedSeen
<1>2. /\ previous' \in Windows \cup {Nobody}
      /\ disturbed' \in BOOLEAN /\ touchLate' \in BOOLEAN /\ newsLate' \in BOOLEAN
  BY <1>1 DEF FocusInv, FocusTypeOK
<1>3. newsLate' \/ active = target[a]
  BY <1>1, SeenIsActive
<1>4. Told \/ active = target[a]
  <2>1. CASE pc[a] = "reread"
    BY <2>1 DEF FocusInv, HolderOK, Placed
  <2>2. CASE news = <<>>
    BY <2>2, SeenIsActive
  <2>3. CASE news # <<>> /\ pc[a] = "verify"
    <3>1. bridged /\ active = news[Len(news)] /\ news \in Seq(Windows)
      BY <2>3 DEF FocusInv, NewsOK, FocusTypeOK
    <3>2. Len(news) \in 1..Len(news)
      BY <2>3, <3>1
    <3>3. HolderOK(a)
      BY DEF FocusInv
    <3> QED BY <2>3, <3>1, <3>2, <3>3 DEF HolderOK
  <2> QED BY <2>1, <2>2, <2>3
<1>5. ASSUME pc'[a] = next PROVE HolderOK(a)'
  <2>1. HolderOK(a) /\ Told' = Told
    BY <1>1 DEF FocusInv, Told, StaysAt
  <2> QED BY <1>1, <1>3, <1>4, <1>5, <2>1 DEF HolderOK, StaysAt, Placed, BeforeInput, UnderLease, AfterInput
<1> QED BY <1>1, <1>2, <1>5, StillKeeps

\* A look at the activity that finds it quiet.
LEMMA QuietKeeps ==
    ASSUME FocusInv, NEW a \in RawActions, NEW next \in {"inject", "give"}, StaysAt,
           \/ pc[a] = "check" /\ next = "inject"
           \/ pc[a] = "recheck_safe" /\ next = "give",
           SafeSince, ProceedQuiet(a, next)
    PROVE  FocusInv'
<1>1. /\ Goto(a, next) /\ touchLate' = (touchLate \/ unreported > 0) /\ lease' = lease /\ previous' = previous
      /\ disturbed' = disturbed /\ newsLate' = newsLate /\ next \in UnderLease /\ pc[a] \in UnderLease
  BY StagesAre DEF ProceedQuiet
<1>2. /\ previous' \in Windows \cup {Nobody}
      /\ disturbed' \in BOOLEAN /\ touchLate' \in BOOLEAN /\ newsLate' \in BOOLEAN
  BY <1>1 DEF FocusInv, FocusTypeOK
<1>3. /\ HolderOK(a) /\ pc[a] \in Placed /\ (next \in BeforeInput => pc[a] \in BeforeInput \ {"recheck"})
      /\ ~disturbed
  BY DEF FocusInv, Placed, BeforeInput, SafeSince
<1>4. touchLate' \/ active = target[a]
  BY <1>1, <1>3 DEF HolderOK, Told
<1>5. ASSUME pc'[a] = next PROVE HolderOK(a)'
  <2>1. newsLate' \/ active = target[a]
    BY <1>1, <1>3 DEF HolderOK
  <2> QED BY <1>1, <1>3, <1>4, <1>5, <2>1 DEF HolderOK, StaysAt, Placed, BeforeInput, Told, UnderLease, AfterInput
<1> QED BY <1>1, <1>2, <1>5, StillKeeps

LEMMA LookSteps ==
    ASSUME FocusInv, NEW a \in RawActions,
           VerifyActive(a) \/ RestoreRead(a) \/ CheckActivity(a) \/ RestoreRecheck(a)
    PROVE  FocusInv'
<1>1. StaysAt /\ pc[a] \in UnderLease
  BY StaysPutIs, StagesAre DEF VerifyActive, RestoreRead, CheckActivity, RestoreRecheck
<1>2. CASE Finish(a)
  BY <1>1, <1>2, RefuseKeeps
<1>3. CASE pc[a] = "verify" /\ Reads(target[a]) /\ ProceedSeen(a, "live")
  BY <1>1, <1>3, LookKeeps, SMTT(30)
<1>4. CASE pc[a] = "reread" /\ Reads(target[a]) /\ ProceedSeen(a, "resolve")
  BY <1>1, <1>4, LookKeeps, SMTT(30)
<1>5. CASE pc[a] = "check" /\ SafeSince /\ ProceedQuiet(a, "inject")
  BY <1>1, <1>5, QuietKeeps, SMTT(30)
<1>6. CASE pc[a] = "recheck_safe" /\ SafeSince /\ ProceedQuiet(a, "give")
  BY <1>1, <1>6, QuietKeeps, SMTT(30)
<1> QED
  BY <1>2, <1>3, <1>4, <1>5, <1>6 DEF VerifyActive, RestoreRead, CheckActivity, RestoreRecheck, Refuse, SkipRestore

LEMMA FocusTargetKeeps == ASSUME FocusInv, NEW a \in RawActions, FocusTarget(a) PROVE FocusInv'
<1>1. /\ pc[a] = "focus" /\ pc[a] \in UnderLease /\ HolderOK(a) /\ target[a] \in Windows
      /\ UNCHANGED <<unreported, loaded, trusted, fresh, panic, session, events, target>>
  BY StagesAre DEF FocusTarget, activity, FocusInv, FocusTypeOK
<1>2. CASE UNCHANGED compositor /\ Refuse(a)
  BY <1>1, <1>2, RefuseKeeps DEF StaysAt, compositor, Refuse
<1>3. CASE UNCHANGED compositor /\ Proceed(a, "verify")
  BY <1>1, <1>3, StagesAre, GoesOn DEF StaysAt, compositor, HolderOK, Placed, BeforeInput, UnderLease, AfterInput
<1>4. CASE Activate(target[a]) /\ Proceed(a, "verify")
  <2>1. /\ active' \in Windows /\ news' \in Seq(Windows) /\ seen' \in Windows /\ bridged' \in BOOLEAN
        /\ NewsOK' /\ (news' = news \/ news' = Append(news, target[a]))
    BY <1>1, <1>4, ActivateKeeps DEF FocusInv
  <2>2. /\ Goto(a, "verify") /\ lease' = lease
        /\ previous' = previous /\ disturbed' = disturbed /\ touchLate' = touchLate /\ newsLate' = newsLate
    BY <1>4 DEF Proceed, locals
  <2>3. /\ previous' \in Windows \cup {Nobody}
        /\ disturbed' \in BOOLEAN /\ touchLate' \in BOOLEAN /\ newsLate' \in BOOLEAN
    BY <2>2 DEF FocusInv, FocusTypeOK
  <2>4. pc'[a] = "verify" /\ Told' = Told
    BY <1>1, <2>2 DEF Goto, FocusInv, FocusTypeOK, Told
  <2>5. (\A i \in 1..Len(news) : news[i] = target[a]) => \A i \in 1..Len(news') : news'[i] = target[a]
    BY <2>1 DEF FocusInv, FocusTypeOK
  <2>6. HolderOK(a)'
    BY <1>1, <2>2, <2>4, <2>5 DEF HolderOK, Placed, BeforeInput, UnderLease, AfterInput
  <2> QED BY <1>1, <2>1, <2>2, <2>3, <2>6, StagesAre, ProceedKeeps
<1> QED BY <1>2, <1>3, <1>4 DEF FocusTarget

LEMMA GiveBackKeeps == ASSUME FocusInv, NEW a \in RawActions, GiveBack(a) PROVE FocusInv'
<1>1. /\ pc[a] = "give" /\ pc[a] \in UnderLease /\ HolderOK(a)
      /\ UNCHANGED <<unreported, loaded, trusted, fresh, panic, session, events, target>>
  BY StagesAre DEF GiveBack, activity, FocusInv
<1>2. CASE UNCHANGED compositor /\ SkipRestore(a)
  BY <1>1, <1>2, RefuseKeeps DEF StaysAt, compositor, SkipRestore
<1>3. CASE UNCHANGED compositor /\ Proceed(a, "confirm")
  BY <1>1, <1>3, StagesAre, GoesOn DEF StaysAt, compositor, Placed, BeforeInput
<1>4. CASE Activate(previous) /\ Proceed(a, "confirm")
  <2>1. /\ active' \in Windows /\ news' \in Seq(Windows) /\ seen' \in Windows /\ bridged' \in BOOLEAN
        /\ NewsOK'
    BY <1>1, <1>4, StagesAre, ActivateKeeps DEF FocusInv, HolderOK
  <2>2. /\ Goto(a, "confirm") /\ lease' = lease
        /\ previous' = previous /\ disturbed' = disturbed /\ touchLate' = touchLate /\ newsLate' = newsLate
    BY <1>4 DEF Proceed, locals
  <2>3. /\ previous' \in Windows \cup {Nobody}
        /\ disturbed' \in BOOLEAN /\ touchLate' \in BOOLEAN /\ newsLate' \in BOOLEAN
    BY <2>2 DEF FocusInv, FocusTypeOK
  <2>4. pc'[a] = "confirm"
    BY <2>2 DEF Goto, FocusInv, FocusTypeOK
  <2>5. HolderOK(a)'
    BY <1>1, <2>2, <2>4 DEF HolderOK, Placed, BeforeInput, UnderLease, AfterInput
  <2> QED BY <1>1, <2>1, <2>2, <2>3, <2>5, StagesAre, ProceedKeeps
<1> QED BY <1>2, <1>3, <1>4 DEF GiveBack

LEMMA FocusInvStep == FocusInv /\ [NextFocus]_focusVars => FocusInv'
<1> SUFFICES ASSUME FocusInv, [NextFocus]_focusVars PROVE FocusInv'
  OBVIOUS
<1>1. ASSUME NEW a \in RawActions, ActionStep(a) PROVE FocusInv'
  BY <1>1, AcquireKeeps, GoOnSteps, ReadSnapshotSteps, LookSteps, FocusTargetKeeps, GiveBackKeeps DEF ActionStep
<1>2. ASSUME NEW w \in Windows, UserSwitches(w) \/ OtherFocus(w) PROVE FocusInv'
  BY <1>2, UserSwitchesKeeps, OtherFocusKeeps
<1>3. ASSUME NEW w \in {target[a] : a \in RawActions}, CloseSession(w) \/ SessionEnds(w) PROVE FocusInv'
  <2>1. w \in Windows
    BY DEF FocusInv, FocusTypeOK
  <2> QED BY <1>3, <2>1, OthersKeep
<1>4. CASE Publish \/ Report \/ Load
  BY <1>4, PublishKeeps, ReportKeeps, LoadKeeps
<1>5. CASE QuietPasses \/ Unload \/ \E on \in BOOLEAN : SetPanicStop(on)
  BY <1>5, OthersKeep
<1>6. CASE UNCHANGED focusVars
  <2>1. UNCHANGED <<active, news, seen, bridged, unreported, loaded, trusted, fresh, panic, session, events,
                    target, lease, pc, previous, disturbed, touchLate, newsLate>>
    BY <1>6 DEF focusVars
  <2>2. FocusTypeOK'
    BY <2>1 DEF FocusInv, FocusTypeOK
  <2> QED BY <2>1, <2>2, FocusStays DEF Told
<1> QED BY <1>1, <1>2, <1>3, <1>4, <1>5, <1>6 DEF NextFocus

\* The focus lease without its fairness.
FocusSafety == InitFocus /\ [][NextFocus]_focusVars

LEMMA FocusInvariant == FocusSafety => []FocusInv
BY FocusStart, FocusInvStep, PTL DEF FocusSafety

(* At most one raw action is under the seat lease, and it is its holder.   *)
THEOREM FocusTypeCorrect == FocusSafety => []FocusTypeOK
<1>1. FocusInv => FocusTypeOK
  BY DEF FocusInv
<1> QED BY <1>1, FocusInvariant, PTL

(* Input and focus go astray only where neither the compositor's script nor *)
(* its plugin could have told: for any number of actions and windows, and  *)
(* any order and delay of the two channels (interaction.rs).               *)
THEOREM AstrayUnseenOnlyHolds == FocusSafety => AstrayUnseenOnly
<1>1. FocusInv /\ [NextFocus]_focusVars =>
          [\A a \in RawActions : Injects(a) /\ active # target[a] => touchLate /\ newsLate]_focusVars
  BY DEF FocusInv, HolderOK, Injects, Placed
<1>2. FocusInv /\ [NextFocus]_focusVars =>
          [\A a \in RawActions : GivesBack(a) /\ active \notin {target[a], previous} => touchLate /\ newsLate]_focusVars
  BY DEF FocusInv, HolderOK, GivesBack, Placed
<1>3. FocusSafety => InputStraysUnseenOnly
  BY <1>1, FocusInvariant, PTL DEF FocusSafety, InputStraysUnseenOnly
<1>4. FocusSafety => FocusPulledUnseenOnly
  BY <1>2, FocusInvariant, PTL DEF FocusSafety, FocusPulledUnseenOnly
<1> QED BY <1>3, <1>4 DEF AstrayUnseenOnly

(* A close by request is never followed by input to what it closed.        *)
THEOREM ClosedReceivesNothingHolds == FocusSafety => ClosedReceivesNothing
<1>1. FocusInv /\ [NextFocus]_focusVars =>
          [\A a \in RawActions : Injects(a) => session[target[a]] # "closed"]_focusVars
  BY DEF FocusInv, HolderOK, Injects, BeforeInput
<1> QED BY <1>1, FocusInvariant, PTL DEF FocusSafety, ClosedReceivesNothing

-----------------------------------------------------------------------------
(* Both, each at rest while the other moves.                               *)

LEMMA SeatIsPart == SpecInput => SeatSafety
<1>1. InitInput => Init
  BY DEF InitInput
<1>2. [SeatStep(Next) \/ FocusStep(NextFocus)]_inputVars => [Next]_vars
  BY DEF SeatStep, FocusStep, inputVars
<1> QED BY <1>1, <1>2, PTL DEF SpecInput, SeatSafety

LEMMA FocusIsPart == SpecInput => FocusSafety
<1>1. InitInput => InitFocus
  BY DEF InitInput
<1>2. [SeatStep(Next) \/ FocusStep(NextFocus)]_inputVars => [NextFocus]_focusVars
  BY DEF SeatStep, FocusStep, inputVars
<1> QED BY <1>1, <1>2, PTL DEF SpecInput, FocusSafety

(* The daemon's two ways of input together: each keeps its types whatever    *)
(* the other does.                                                           *)
THEOREM InputTypeCorrect == SpecInput => []InputTypeOK
BY SeatIsPart, FocusIsPart, SeatTypeCorrect, FocusTypeCorrect, PTL DEF InputTypeOK

(* What is proved of the agent seat and of the focus lease holds of the two  *)
(* together: no action is left behind or polled too late, "ok" is only said  *)
(* of what was performed, and raw input goes to a window that has the focus, *)
(* as far as anyone can tell, and whose session is open.                     *)
THEOREM InputSideSafe ==
    SpecInput =>
        /\ [](NothingLeftBehind /\ SleepingPollInTime) /\ ImplementsRequests
        /\ AstrayUnseenOnly /\ ClosedReceivesNothing
<1>1. SpecInput => [](NothingLeftBehind /\ SleepingPollInTime) /\ ImplementsRequests
  BY SeatIsPart, NothingLeftBehindHolds, SleepingPollInTimeHolds, RequestsRefined, PTL
<1> QED BY <1>1, FocusIsPart, AstrayUnseenOnlyHolds, ClosedReceivesNothingHolds, PTL
=============================================================================
