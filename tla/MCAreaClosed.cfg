CONSTANTS
    Shots = {t1}
    Outputs = {p1}
    Spots = {1}
    MaxShifts = 2
    NoPlace = NoPlace
SPECIFICATION SpecShots
INVARIANT AreaFailsClosed
CHECK_DEADLOCK FALSE
