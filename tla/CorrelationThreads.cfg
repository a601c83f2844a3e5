CONSTANTS
    Workers = {w1, w2}
    RuleIds = {r1}
    RuleDefs <- MixedRules
    a1 = a1
    Actions = {a1}
    Keys = {k1}
    Nil = Nil
    Global = Global
    MaxStored = 1
    DefaultTimeout = 2
    WriterPriority = FALSE
    MaxEvents = 3
    MaxTime = 2
    MaxLag = 0
    MaxRuleOps = 1
SPECIFICATION Spec
SYMMETRY Symmetry
INVARIANTS
    AlertIdsUnique
    CountedOnce
    NoMissedAlert
    AlertWithinWindow
PROPERTY
    CleanupErasesExpired
