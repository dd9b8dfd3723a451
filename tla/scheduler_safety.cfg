\* Two client threads, one pool worker, two handles, two tasks; task bodies stop handles too.
CONSTANTS
    Clients = {c1, c2}
    Workers = {w1}
    Handles = {h1, h2}
    Intervals = {1}
    BodyStopPolicies = {"wait", "skip"}
    TaskIDMax = 2
    MaxTime = 1
    TimePointMax = 9
    NoTask = NoTask
    NoHandle = NoHandle
SPECIFICATION Spec
SYMMETRY Symmetry
INVARIANTS TypeOK NoOverlap StoppedIsQuiet NoMissedWakeup HandlesMatchTasks
PROPERTIES NeverSubmittedAgain ImplementsPeriodicTasks
CHECK_DEADLOCK FALSE
