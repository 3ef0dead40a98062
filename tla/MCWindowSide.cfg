CONSTANTS
    \* InteractionSessions
    Sessions = {s1, s2, s3}
    Windows = {x1, x2, x3}
    Identities = {id1}
    Owners = {o1, o2, o3}
    MaxAgentLanes = 2
    SessionTTL = 1
    Unbound = Unbound
    \* Preemption
    Actions = {a1, a2}
    Targets = {w1, w2}
    Events = {e1, e2}
    Spy = Spy
    Legacy = Legacy
    None = None
    HistoryTTL = 1
    QuietTime = 0
    MaxBackendChanges = 1
    \* WindowActions
    Launches = {a1, a2}
    Orders = {c1}
    NewWindows = {w1, w2}
    Nothing = Nothing
    MaxStops = 1
    \* BridgeOwnership
    MaxRetries = 3
SYMMETRY SymmetrySide
SPECIFICATION SpecSide
INVARIANTS
    WindowExclusive LaneIsolation LaneQuota
    SideTypeOK RecentTouchReported NothingQueuedBehindTouch
    RequestsCleanedUp LaunchedWindowsOwned
    StatusMatchesOwner
PROPERTIES ImplementsLeases
CHECK_DEADLOCK FALSE
