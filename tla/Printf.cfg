SPECIFICATION Spec
CONSTANTS
    IntegerBufferSize = 8
    DecimalBufferSize = 12
    DefaultPrecision = 2
    IntegralDigits = 2
    SupportedPrecision = 3
    MaxExp10 = 9
    PointerSize = 1
    MaxBufferSize = 40
    Null = Null
    Bits <- MCBits
    Calls <- MCCalls
INVARIANT TextRight
INVARIANT FloatsRight
INVARIANT StaysInside
CHECK_DEADLOCK FALSE
