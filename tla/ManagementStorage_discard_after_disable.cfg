\* Two requests, no hand edits: read-only turned off while a loop is inside
\* its fetch and hard reset, against a local write of the token store.
CONSTANTS
    r1 = r1
    r2 = r2
    r3 = r3
    NoReq = NoReq
    Callers <- MCRequests2
    MaxCalls = 3
    Intervals <- MCIntervals1
    MaxEvents = 1
    MaxEdits = 0
SPECIFICATION MSpec
INVARIANT NoLocalChangeDiscarded
CHECK_DEADLOCK FALSE
