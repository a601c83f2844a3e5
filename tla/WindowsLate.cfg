\* A late event further back than the gap stays in the session.
CONSTANTS
    Specs <- OnlySessions
    Groups = {g1}
    Global = Global
    Amounts = {2}
    MaxEvents = 3
    MaxTime = 3
    MaxLag = 2
    MaxSpecs = 1
SPECIFICATION WindowsSpec
INVARIANT SessionGaps
