SPECIFICATION LwSpec
CONSTANTS
    t1 = t1
    t2 = t2
    Tasks = {t1, t2}
    Depth = 3
    SizeMax = 5
    NULL = NULL
    ArrayBased = FALSE
    Calls <- MCCalls
    Walks <- MCWalks
INVARIANT ExistRight
CHECK_DEADLOCK FALSE
