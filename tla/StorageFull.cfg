\* A memtable just below its limit refuses puts and is never flushed.
SPECIFICATION Spec
CONSTANTS
    Keys <- MCKeys
    Values = {1, 2}
    Overhead = 1
    MaxSize = 10
    Hash <- MCHash
    Seeds = {1, 2, 3}
    Parts = {"index"}
    Threads = {t1}
    Batches <- MCBatches
    Limits = {0}
    MaxSeq = 4
    MaxReads = 1
INVARIANT FullIsFlushed
