SPECIFICATION SharedSpec
CONSTANTS
    Capacity = 4
    Values = {v1, v2}
    Blank = Blank
    MaxPush = 6
    TechniqueIds = {"t1190"}
    DetectionKeys = {"detection"}
    Threads = {t1, t2}
    Directories <- MCDirectories
    Added <- MCAdded
    MaxCalls = 3
    Specs <- AllTypes
    Groups = {g1, g2}
    Global = Global
    Amounts = {2}
    MaxEvents = 4
    MaxTime = 3
    MaxLag = 2
    MaxSpecs = 2
SYMMETRY GroupSymmetry
INVARIANTS
    ReadersConsistent
    NumbersFresh
    NoEventLost
    SessionPartition
    HoppingExact
PROPERTIES
    ImplementsFifo
    ConditionsExact
