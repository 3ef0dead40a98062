CONSTANTS
    Places = {w1, w2}
    Widgets = {n1, n2}
    Unread = Unread
    MaxMoves = 1
SPECIFICATION SpecPost
INVARIANT TargetConfirmedMeansChanged
CHECK_DEADLOCK FALSE
