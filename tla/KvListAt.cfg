SPECIFICATION Spec
CONSTANTS
    m = m
    w = w
    v = v
    NULL = NULL
    Tasks = {m}
    Keys = {0, 1}
    Depth = 2
    SizeMax = 6
    Calls <- OneReader
INVARIANT AtGivesNthItem
