\* One client, two workers, two periods, time to run late: the timing of the scans.
CONSTANTS
    Clients = {c1}
    Workers = {w1, w2}
    Handles = {h1, h2}
    Intervals = {1, 2}
    BodyStopPolicies = {}
    TaskIDMax = 2
    MaxTime = 2
    TimePointMax = 9
    NoTask = NoTask
    NoHandle = NoHandle
SPECIFICATION Spec
SYMMETRY Symmetry
INVARIANT SchedulerInv
PROPERTIES SubmissionsSpaced
CHECK_DEADLOCK FALSE
