SPECIFICATION Spec
CONSTANTS
    t1 = t1
    t2 = t2
    t3 = t3
    Tasks = {t1}
    Depth = 3
    SizeMax = 5
    NULL = NULL
    ArrayBased = TRUE
    Calls <- NoSort
INVARIANT WellLinked
