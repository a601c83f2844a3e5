\* The detection block of the repository's own rules is not read.
SPECIFICATION RulesSpec
CONSTANTS
    TechniqueIds = {"t1190"}
    DetectionKeys = {"detection"}
    Threads = {t1, t2}
    Directories <- RepositoryRules
    Added <- MCAdded
    MaxCalls = 3
INVARIANT DetectionsRead
