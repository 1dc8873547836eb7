SPECIFICATION Spec
CONSTANTS
    Conns = {h0, h1}
    NONE = NONE
    MaxCount = 1
    MaxResults = 3
INVARIANT TypeOK
INVARIANT WholeProcedure
 
CHECK_DEADLOCK FALSE
SYMMETRY Alike
