SPECIFICATION FairSpec
CONSTANTS
    t1 = t1
    t2 = t2
    t3 = t3
    Tasks = {t1, t2, t3}
    Depth = 3
    SizeMax = 5
    NULL = NULL
    ArrayBased = TRUE
    Calls <- QueueCalls
INVARIANT TypeOK
INVARIANT MutexExclusive
INVARIANT WellLinked
INVARIANT NodesAccounted
PROPERTY ImplementsListSeq
PROPERTY CallsReturn
CHECK_DEADLOCK FALSE
