CONSTANTS
    own = own
    other = other
    third = third
    Submission = {s1}
    Workers = {w1, w2}
    Clients = {own, other, third}
    Owner = own
    Uses <- UsesReset
    NoTask = NoTask
SPECIFICATION FairSpec
PROPERTY QueuedOutlivesReset
CHECK_DEADLOCK FALSE
