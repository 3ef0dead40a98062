--------------------------- MODULE BridgeOwnership ---------------------------
(* The supervision of the daemon's name on the session bus (kwin_bridge.rs): *)
(* a loop asks who owns the name, requests it, or connects anew, and enables *)
(* window actions by what it found.  The bus and the other daemons that want *)
(* the name act between any two of its calls.                                *)
EXTENDS Naturals

CONSTANT MaxRetries     \* bound on ownership_retry_count

ASSUME RetriesAssumption == MaxRetries \in Nat \ {0}

VARIABLES
    owner,          \* of the name: "this" connection, a "former" one, "other", "nobody"
    connection,     \* the supervisor has a connection
    registered,     \* WindowActionQueue.registered
    retries,        \* ownership_retry_count
    step,           \* of the loop: "check", "request", "recheck", "start", "publish", "sleep"
    owned,          \* the loop's variable
    seen            \* history: the name has been this connection's since it was last seen so

ownershipVars == <<owner, connection, registered, retries, step, owned, seen>>

InitOwnership ==
    /\ connection \in BOOLEAN
    /\ owner \in IF connection THEN {"this"} ELSE {"nobody", "other"}
    /\ registered = connection
    /\ retries = 0 /\ step = "check" /\ owned = FALSE
    /\ seen = connection

-----------------------------------------------------------------------------
\* The name passes to or from another daemon; this one's is not replaced.
OthersAct ==
    /\ \/ owner = "nobody" /\ owner' = "other"
       \/ owner \in {"other", "former"} /\ owner' = "nobody"
    /\ UNCHANGED <<connection, registered, retries, step, owned, seen>>

\* The bus drops the connection, or takes the name from it.
NameLost ==
    /\ owner = "this"
    /\ owner' = "nobody" /\ seen' = FALSE
    /\ UNCHANGED <<connection, registered, retries, step, owned>>

\* record_ownership_failure()
FailOwnership(next) ==
    /\ retries' = IF retries < MaxRetries THEN retries + 1 ELSE retries
    /\ step' = next

DropConnection ==
    /\ connection' = FALSE
    /\ owner' = IF owner = "this" THEN "former" ELSE owner
    /\ seen' = FALSE

Finds == owned' = TRUE /\ seen' = TRUE /\ step' = "publish"

\* service_owned_by_connection(), which may also fail, connected or not
CheckOwner ==
    /\ step = "check"
    /\ \/ /\ ~connection /\ owned' = FALSE /\ step' = "start"
          /\ UNCHANGED <<owner, connection, retries, seen>>
       \/ /\ connection /\ owner = "this" /\ Finds
          /\ UNCHANGED <<owner, connection, retries>>
       \/ /\ connection /\ owner # "this" /\ owned' = FALSE /\ step' = "request"
          /\ UNCHANGED <<owner, connection, retries, seen>>
       \/ /\ connection /\ owned' = FALSE /\ DropConnection /\ FailOwnership("start")
    /\ UNCHANGED registered

\* request_bridge_name() does not queue.
RequestName ==
    /\ step = "request"
    /\ \/ /\ owner = "nobody" /\ owner' = "this"
          /\ step' = "recheck" /\ UNCHANGED retries
       \/ FailOwnership("publish") /\ UNCHANGED owner
    /\ UNCHANGED <<connection, registered, owned, seen>>

Recheck ==
    /\ step = "recheck"
    /\ \/ /\ owner = "this" /\ Finds
          /\ UNCHANGED <<owner, connection, retries>>
       \/ /\ owner # "this" /\ FailOwnership("publish")
          /\ UNCHANGED <<owner, connection, owned, seen>>
       \/ DropConnection /\ FailOwnership("start") /\ UNCHANGED owned
    /\ UNCHANGED registered

\* start_kwin_bridge()
StartBridge ==
    /\ step = "start"
    /\ \/ /\ owner = "nobody" /\ owner' = "this"
          /\ connection' = TRUE /\ Finds
          /\ UNCHANGED retries
       \/ FailOwnership("publish") /\ UNCHANGED <<owner, connection, owned, seen>>
    /\ UNCHANGED registered

\* Plausible bug: what was once registered stays so.
BugPublish ==
    /\ step = "publish" /\ step' = "sleep"
    /\ registered' = (registered \/ owned)
    /\ retries' = IF owned THEN 0 ELSE retries
    /\ UNCHANGED <<owner, connection, owned, seen>>

\* set_registered(), record_ownership_recovered()
Publish ==
    /\ step = "publish" /\ step' = "sleep"
    /\ registered' = owned
    /\ retries' = IF owned THEN 0 ELSE retries
    /\ UNCHANGED <<owner, connection, owned, seen>>

Wake ==
    /\ step = "sleep" /\ step' = "check"
    /\ owned' = FALSE
    /\ UNCHANGED <<owner, connection, registered, retries, seen>>

NextOwnership ==
    \/ OthersAct \/ NameLost
    \/ CheckOwner \/ RequestName \/ Recheck \/ StartBridge \/ Publish \/ Wake

SpecOwnership == InitOwnership /\ [][NextOwnership]_ownershipVars

-----------------------------------------------------------------------------
(* After each round window actions are enabled only on a connection that was *)
(* seen to own the name in that round, and the status counts failures        *)
(* exactly while they are disabled: a client is never told that the bridge   *)
(* has recovered while another daemon serves it (kwin_bridge.rs:1178).       *)
StatusMatchesOwner ==
    step = "sleep" =>
        /\ registered => connection /\ retries = 0
        /\ ~registered => retries > 0
        /\ seen => registered /\ owner = "this"
=============================================================================
