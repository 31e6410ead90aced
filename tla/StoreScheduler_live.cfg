\* Four API calls of one caller: enough for a restart over a stopped
\* scheduler (off, on, off) and a double close.
CONSTANTS
    MaxCalls = 4
SPECIFICATION SFairSpec
INVARIANTS AtMostOneUncancelledLoop StoreInv
PROPERTIES LoopsEventuallyExit OwnerRefinement
CHECK_DEADLOCK FALSE
