SPECIFICATION FairSpec
CONSTANTS
    Handles = {h1, h2, h3}
    NULL = NULL
    NumConns = 2
    LinkCount = 2
    MaxEvents = 4
INVARIANT TypeOK
INVARIANT NoFault
INVARIANT TableMatchesStack
INVARIANT AdvMatchesRoom
PROPERTY RoomLeadsToAdv
