CONSTANTS
    \* CaptureFrames
    Requests = {q1, q2, q3}
    Sessions = {s1, s2, s3}
    Windows = {w1}
    Chooser = Chooser
    Owners = {o1, o2}
    Grabs = {g1}
    MaxExact = 1
    SessionTTL = 1
    None = None
    \* FrameStream
    Calls = {o1, o2}
    Revisions = {v1, v2}
    MaxFrames = 3
    Empty = Empty
    Broken = Broken
    \* PictureGeometry
    MonitorWidth = 5
    Across = 7
    Quarters = {4, 5, 6, 8}
    Edges = {4, 6, 20}
    \* Screenshots
    Shots = {o1, o2}
    Outputs = {f1}
    Spots = {k1, k2}
    MaxShifts = 2
    NoPlace = NoPlace
SYMMETRY SymmetryCaptureSide
SPECIFICATION SpecCaptureSide
INVARIANTS
    CaptureSideTypeOK OpensWithinLimits PreviewsMapTruly
    MaskCovers ClicksLand OnlyMaskedLeft
    SnapshotIsCurrent AnswersHeard
PROPERTIES FramesNeverGoBack ReportedOpenIsOpen
CHECK_DEADLOCK FALSE
