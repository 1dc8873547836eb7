SPECIFICATION FairSpec
CONSTANTS
    m = m
    w = w
    v = v
    NULL = NULL
    Tasks = {m, w}
    Keys = {0, 1}
    Depth = 2
    SizeMax = 6
    Calls <- OneManager
INVARIANT TypeOK
INVARIANT MutexExclusive
INVARIANT CountMatches
INVARIANT SortedFlagSound
INVARIANT DataFollowsKey
INVARIANT RemovesItsItem
INVARIANT ManagerUsesItsItem
PROPERTY ImplementsKvMap
PROPERTY CallsReturn
