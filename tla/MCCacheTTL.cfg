SPECIFICATION Spec
CONSTANTS
    k1 = k1  k2 = k2  v = v
    Empty = Empty  Nil = Nil
    Keys <- MCKeys
    Values <- MCValues
    Durations <- MCDurations
    Second = 2
    MaxClock = 4
INVARIANT TTLIsKept
