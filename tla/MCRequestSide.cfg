CONSTANTS
    \* EisSession
    MaxUnread = 3
    \* RequestGates
    Inflight = {o1, o2}
    Clients = {c1, c2}
    Handles = {h1}
    Nil = Nil
    Limit = 2
    RateWindow = 3
    MaxDelay = 1
    HandleTTL = 1
    \* SemanticActions
    ElementCount = 3
    Frames = {f1, f2}
    f1 = f1
    f2 = f2
    Unguarded = Unguarded
    MaxResults = 2
    MaxChanges = 1
    \* AgentLanes
    Agents = {o1, o2}
    Surfaces = {w1, w2}
    Widths = {2, 4}
    Points = {1, 3}
    PoolSize = 2
    MaxLanes = 3
    MaxAsked = 1
    MaxTurns = 1
    NoWindow = NoWindow
    \* PostAction
    Places = {f1, f2}
    Widgets = {f1, f2}
    Unread = Unread
    MaxMoves = 2
SYMMETRY SymmetryRequestSide
SPECIFICATION SpecRequestSide
INVARIANTS
    RequestSideTypeOK SeatLeftClean RateBounded
    ConfirmedHasReason ChecksFitEffects
PROPERTIES ActsOnRequested LanesServeTheirAgent
CHECK_DEADLOCK FALSE
