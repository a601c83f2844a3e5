SPECIFICATION CommonSpec
CONSTANTS
    Capacity = 4
    Values = {v1, v2}
    Raw = Raw
    MaxPush = 5
    Workers = {w1, w2}
    Tasks = {t1, t2, t3}
    Stoppers = {s1, s2}
    Idle = Idle
INVARIANTS
    ObjectLifetimes
    InOnePlace
    ShutdownDrains
PROPERTIES
    ImplementsFifo
    AcceptedRuns
    ShutdownEnds
