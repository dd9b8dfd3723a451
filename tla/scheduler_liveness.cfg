CONSTANTS
    Clients = {c1}
    Workers = {w1}
    Handles = {h1, h2}
    Intervals = {1}
    BodyStopPolicies = {"skip"}
    TaskIDMax = 2
    MaxTime = 1
    TimePointMax = 9
    NoTask = NoTask
    NoHandle = NoHandle
SPECIFICATION FairSpec
PROPERTY SchedulerIsLive
CHECK_DEADLOCK FALSE
