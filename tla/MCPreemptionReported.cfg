CONSTANTS
    Actions = {a1}
    Targets = {w1, w2}
    Events = {e1, e2}
    Spy = Spy
    Legacy = Legacy
    None = None
    HistoryTTL = 1
    QuietTime = 0
    MaxBackendChanges = 2
SYMMETRY Symmetry
SPECIFICATION Spec
INVARIANTS TouchReported
