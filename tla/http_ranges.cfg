CONSTANTS
    Calls <- MCCalls
    Handlings <- MCHandlings
    MaxPayload = 1
    MaxCalls = 2
SPECIFICATION MGSpec
INVARIANT RangesAreNormalised
CHECK_DEADLOCK FALSE
