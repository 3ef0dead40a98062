CONSTANTS
    Requests = {q1, q2, q3}
    Sessions = {s1, s2, s3}
    Windows = {w1}
    Chooser = Chooser
    Owners = {o1, o2}
    Grabs = {g1}
    MaxExact = 2
    SessionTTL = 1
    None = None
SYMMETRY Symmetry
SPECIFICATION SpecFrames
INVARIANTS PreviewIsFresh
