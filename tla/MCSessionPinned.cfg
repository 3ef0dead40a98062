CONSTANTS
    Requests = {q1, q2}
    Sessions = {s1, s2, s3}
    Windows = {w1, w2}
    Identities = {id1}
    Owners = {o1, o2}
    Chooser = Chooser
    MaxAgentLanes = 2
    MaxExact = 2
    SessionTTL = 1
    Kinds = {"open"}
    Unbound = Unbound
    None = None
SYMMETRY Symmetry
SPECIFICATION Spec
PROPERTIES PinnedUntilClosed
