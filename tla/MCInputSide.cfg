CONSTANTS
    \* AgentSeat
    Actions = {a1, a2}
    Targets = {t1}
    Plugins = {p1, p2}
    None = None
    ActionTimeout = 2
    PollTimeout = 1
    HeartbeatTTL = 2
    \* FocusLease
    a1 = a1
    a2 = a2
    w1 = w1
    w2 = w2
    w3 = w3
    RawActions = {a1, a2}
    Windows = {w1, w2, w3}
    Nobody = Nobody
    MaxEvents = 2
SPECIFICATION SpecInput
INVARIANTS InputTypeOK NothingLeftBehind SleepingPollInTime
PROPERTIES
    ImplementsRequests InputSettles
    AstrayUnseenOnly ClosedReceivesNothing
CHECK_DEADLOCK FALSE
