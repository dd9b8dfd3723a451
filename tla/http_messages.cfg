CONSTANTS
    Calls <- MCCalls
    Handlings <- MCHandlings
    MaxPayload = 1
    MaxCalls = 2
SPECIFICATION MGSpec
INVARIANTS KeptConnectionIsInStep AnswersAreSound
CHECK_DEADLOCK FALSE
