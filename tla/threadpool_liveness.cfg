CONSTANTS
    own = own
    other = other
    third = third
    Submission = {s1, s2}
    Workers = {w1, w2}
    Clients = {own, other, third}
    Owner = own
    Uses <- UsesOneWaits
    NoTask = NoTask
SPECIFICATION FairSpec
PROPERTIES PoolIsLive WaitReturns
CHECK_DEADLOCK FALSE
