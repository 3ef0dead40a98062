---------------------------- MODULE RequestGates ----------------------------
(* The gates a request passes before the daemon acts on it (handle_request  *)
(* in main.rs): policy, panic stop, input pause, session owner, semantic    *)
(* handle, focus guard, app policy and control rate.  A gate that fails ends *)
(* the request; requests of several connections stand at different gates.   *)
(* What a gate only reads (approvals, the panic stop, fresh input, windows) *)
(* may decide either way.  Times are ages in clock ticks.                   *)
EXTENDS Naturals, Sequences, SequencesExt

CONSTANTS
    Inflight,       \* requests in flight at once
    Clients,
    Handles,        \* semantic handles, each issued once
    Nil,
    Limit,          \* control_rate_limit_per_minute
    RateWindow,     \* CONTROL_RATE_LIMIT_WINDOW
    MaxDelay,       \* bound on the time between a request's clock read and its lock
    HandleTTL       \* HANDLE_TTL

ASSUME GatesAssumption ==
    /\ {Limit, RateWindow, HandleTTL} \subseteq Nat \ {0}
    /\ MaxDelay \in 0..(RateWindow - 1)
    /\ Nil \notin Handles \cup Clients

VARIABLES
    gate,           \* request -> the gate before it, and what it asks
    handle,         \* SemanticHandleStore: owner and age of a handle, or Nil
    accepted,       \* ControlRateLimiter.accepted: ages of the times in the queue
    admitted,       \* history: ages of the acceptances within a window of RateWindow - MaxDelay
    issued          \* the handles issued so far

gateVars == <<gate, handle, accepted, admitted, issued>>

\* safety_class_for_request(): what matters of a class is its default level and
\* whether it is control.  Observe stands for Policy too, and ControlSemantic
\* for the pointer, the keyboard and the destructive actions.
Classes == {"Observe", "ControlSemantic", "SecretField"}

\* PolicyConfig::default(); a level configured as "allow" is a prompt that
\* always finds its approval.
Level(class) == CASE class = "Observe" -> "allow"
                  [] class = "SecretField" -> "deny"
                  [] OTHER -> "prompt"

\* is_control_safety_class()
ControlClasses == {"ControlSemantic", "SecretField"}

AtRest == [at |-> "idle", class |-> "Observe", client |-> Nil, handle |-> Nil,
         age |-> 0]

InitGates ==
    /\ gate = [r \in Inflight |-> AtRest]
    /\ handle = [h \in Handles |-> Nil]
    /\ accepted = <<>>
    /\ admitted = <<>>
    /\ issued = {}

Passes(r, next) == gate' = [gate EXCEPT ![r].at = next]
Refused(r) == gate' = [gate EXCEPT ![r] = AtRest]
Control(r) == gate[r].class \in ControlClasses

-----------------------------------------------------------------------------
\* A request arrives and is given its safety class.  Its client matters only
\* to its handle.
Receive(r, class, h) ==
    /\ gate[r].at = "idle"
    /\ h # Nil => class \in ControlClasses /\ h \in issued
    /\ \E c \in IF h = Nil THEN {Nil} ELSE Clients :
           gate' = [gate EXCEPT ![r] = [at |-> "policy", class |-> class, client |-> c,
                                        handle |-> h, age |-> 0]]
    /\ UNCHANGED <<handle, accepted, admitted, issued>>

\* enforce_policy_with_scoped_cleanup() with a grant or without,
\* enforce_panic_stop(), enforce_human_input_pause()
CheckPolicy(r) ==
    /\ gate[r].at = "policy"
    /\ \/ /\ Level(gate[r].class) # "deny"
          /\ Passes(r, "handle")
       \/ /\ Level(gate[r].class) # "allow"
          /\ Refused(r)
    /\ UNCHANGED <<handle, accepted, admitted, issued>>

\* issue_for_windows(); what has expired is dropped.
IssueHandle(h, c) ==
    /\ h \notin issued
    /\ handle' = [k \in Handles |->
                    CASE k = h -> [owner |-> c, age |-> 0]
                      [] handle[k] # Nil /\ handle[k].age >= HandleTTL -> Nil
                      [] OTHER -> handle[k]]
    /\ issued' = issued \cup {h}
    /\ UNCHANGED <<gate, accepted, admitted>>

Consumable(r, h) ==
    handle[h] # Nil /\ handle[h].owner = gate[r].client /\ handle[h].age < HandleTTL

Consume(h) == handle' = [handle EXCEPT ![h] = Nil]

\* enforce_capture_session_owner(), and resolve_semantic_handle_for_request():
\* a handle is spent here, whatever the gates that follow decide.
ResolveHandle(r) ==
    /\ gate[r].at = "handle"
    /\ LET h == gate[r].handle IN
       \/ h = Nil /\ Passes(r, "target") /\ UNCHANGED handle
       \/ h # Nil /\ Consumable(r, h) /\ Consume(h) /\ Passes(r, "target")
       \/ Refused(r) /\ UNCHANGED handle
    /\ UNCHANGED <<accepted, admitted, issued>>

\* Focus guards and app policies: the window list is read in between.
CheckTarget(r) ==
    /\ gate[r].at = "target"
    /\ Refused(r) \/ Passes(r, IF Control(r) THEN "clock" ELSE "prepare")
    /\ UNCHANGED <<handle, accepted, admitted, issued>>

\* check() reads the clock before it has the lock.
ReadClock(r) ==
    /\ gate[r].at = "clock"
    /\ gate' = [gate EXCEPT ![r].at = "rate", ![r].age = 0]
    /\ UNCHANGED <<handle, accepted, admitted, issued>>

\* A queue of ages without those at its front that have reached `most`.
Since(ages, most) ==
    LET kept == SelectInSeq(ages, LAMBDA age : age < most)
    IN IF kept = 0 THEN <<>> ELSE SubSeq(ages, kept, Len(ages))

\* The front of the queue is pruned while it is RateWindow older than `now`.
Pruned(now) == Since(accepted, RateWindow + now)

\* Plausible bug: the limit is compared one off.
BugFull(queue) == Len(queue) > Limit

Full(queue) == Len(queue) >= Limit

\* check() with the lock
CheckRate(r) ==
    /\ gate[r].at = "rate"
    /\ LET queue == Pruned(gate[r].age) IN
       \/ /\ Full(queue)
          /\ accepted' = queue
          /\ Refused(r) /\ UNCHANGED admitted
       \/ /\ ~Full(queue)
          /\ accepted' = Append(queue, gate[r].age)
          /\ admitted' = Append(admitted, 0)
          /\ gate' = [gate EXCEPT ![r].at = "prepare", ![r].age = 0]
    /\ UNCHANGED <<handle, issued>>

\* prepare_post_action(), and execute_request() begins.
Execute(r) ==
    /\ gate[r].at = "prepare"
    /\ Refused(r) \/ Passes(r, "executing")
    /\ UNCHANGED <<handle, accepted, admitted, issued>>

Respond(r) ==
    /\ gate[r].at = "executing"
    /\ Refused(r)
    /\ UNCHANGED <<handle, accepted, admitted, issued>>

Older(age, most) == IF age < most THEN age + 1 ELSE age

Tick ==
    /\ \A r \in Inflight : gate[r].at = "rate" => gate[r].age < MaxDelay
    /\ gate' = [r \in Inflight |->
                  IF gate[r].at = "rate" THEN [gate[r] EXCEPT !.age = @ + 1] ELSE gate[r]]
    /\ accepted' = [i \in DOMAIN accepted |-> Older(accepted[i], RateWindow + MaxDelay)]
    /\ admitted' = Since([i \in DOMAIN admitted |-> admitted[i] + 1], RateWindow - MaxDelay)
    /\ handle' = [h \in Handles |-> IF handle[h] = Nil THEN Nil
                                    ELSE [handle[h] EXCEPT !.age = Older(@, HandleTTL)]]
    /\ UNCHANGED issued

NextGates ==
    \/ \E r \in Inflight, class \in Classes, h \in Handles \cup {Nil} : Receive(r, class, h)
    \/ \E r \in Inflight : \/ CheckPolicy(r) \/ ResolveHandle(r) \/ CheckTarget(r)
                           \/ ReadClock(r) \/ CheckRate(r) \/ Execute(r) \/ Respond(r)
    \/ \E h \in Handles, c \in Clients : IssueHandle(h, c)
    \/ Tick

SpecGates == InitGates /\ [][NextGates]_gateVars

-----------------------------------------------------------------------------
(* In any window that is shorter than CONTROL_RATE_LIMIT_WINDOW by the       *)
(* longest delay between a request's clock read and its lock, no more than   *)
(* Limit control requests are accepted, in whatever order the times come     *)
(* into the queue (safety_runtime.rs:84).                                    *)
RateBounded == Len(admitted) <= Limit
=============================================================================
