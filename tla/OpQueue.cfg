SPECIFICATION FairSpec
CONSTANTS
    Ops <- OpNames
    Target <- Targets
    Precondition <- From
    Immediate = {"reset"}
    States = {"off", "on", "changed"}
    Initial = {"off"}
    Heap = 5
    Eager = FALSE
    NULL = NULL
INVARIANT TypeOK
INVARIANT OneAtATime
 
PROPERTY QueueDrains
CHECK_DEADLOCK FALSE
