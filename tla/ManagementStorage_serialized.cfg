CONSTANTS
    r1 = r1
    r2 = r2
    r3 = r3
    NoReq = NoReq
    Callers <- MCRequests2
    MaxCalls = 3
    Intervals <- MCIntervals1
    MaxEvents = 1
    MaxEdits = 1
SPECIFICATION MSpec
INVARIANTS AtMostOneUncancelledLoop SchedulerCallsUnderHmu
PROPERTY OwnerSteps
CHECK_DEADLOCK FALSE
SYMMETRY MCSymmetry
