\* Seven requests from one IP, at most 2 at a time; ban of two ticks.
CONSTANTS
    q1 = q1
    q2 = q2
    q3 = q3
    q4 = q4
    q5 = q5
    q6 = q6
    q7 = q7
    Requests <- MCRequests
    MaxInFlight = 2
    MaxFailures = 5
    BanDuration = 2
    MaxTime = 4
SPECIFICATION GSpec
INVARIANT GuessesBounded
SYMMETRY MCSymmetry
CHECK_DEADLOCK FALSE
