SPECIFICATION Spec
CONSTANTS
    Keys <- MCKeys
    Values = {1, 2}
    Overhead = 1
    MaxSize = 10
    Hash <- MCHash
    Seeds = {1, 2, 3}
    Parts = {"index", "table"}
    Threads = {t1, t2}
    Batches <- MCBatches
    Limits = {0, 1, 3}
    MaxSeq = 4
    MaxReads = 1
INVARIANTS
    IndexConsistent
    TableAnswers
PROPERTIES
    IsDictionary
