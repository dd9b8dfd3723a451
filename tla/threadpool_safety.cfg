CONSTANTS
    own = own
    other = other
    third = third
    Submission = {s1, s2, s3}
    Workers = {w1, w2, w3}
    Clients = {own, other, third}
    Owner = own
    Uses <- UsesSafe
    NoTask = NoTask
SPECIFICATION Spec
SYMMETRY Symmetry
INVARIANTS TypeOK RunningCount NoStrandedTask DestructorCompletesAll
PROPERTIES ImplementsTaskPool ResetKeepsQueue
CHECK_DEADLOCK FALSE
