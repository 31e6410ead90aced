CONSTANTS
    r1 = r1
    r2 = r2
    r3 = r3
    NoReq = NoReq
    Callers <- MCRequests2
    MaxCalls = 3
    Intervals <- MCIntervals1
    MaxEvents = 1
    MaxEdits = 0
SPECIFICATION MFairSpec
PROPERTY RequestsComplete
CHECK_DEADLOCK FALSE
