CONSTANTS
    Workers = {w1, w2}
    RuleIds = {r1, r2}
    RuleDefs <- MixedRules
    a1 = a1
    Actions = {a1}
    Keys = {k1}
    Nil = Nil
    Global = Global
    MaxStored = 1
    DefaultTimeout = 2
    WriterPriority = FALSE
    MaxEvents = 2
    MaxTime = 0
    MaxLag = 0
    MaxRuleOps = 1
SPECIFICATION FairSpec
PROPERTY EventsComplete
