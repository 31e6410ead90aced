\* One caller (the control plane, serialized by h.mu), four API calls.
CONSTANTS
    c1 = c1
    Callers <- MCCallersSerial
    MaxCalls = 4
SPECIFICATION Spec
INVARIANTS AtMostOneUncancelledLoop SchedulerInv
PROPERTY OwnerRefinement
