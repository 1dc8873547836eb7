SPECIFICATION FairSpec
CONSTANTS
    Producers = {p, q}
    Channels = {1}
    Topics = {1, 2}
    Depth = 2
    Heap = 3
    MaxSent = 2
    CallGroup = 255
    None = None
INVARIANT TypeOK
INVARIANT NothingLeaks
INVARIANT InOrder
INVARIANT OwnTopic
PROPERTY AllHandled
CHECK_DEADLOCK FALSE
