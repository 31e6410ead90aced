CONSTANTS
    c1 = c1
    Callers <- MCCallersSerial
    MaxCalls = 4
SPECIFICATION Spec
INVARIANT NoCloseOfClosedChannel
