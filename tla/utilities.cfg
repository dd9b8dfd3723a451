CONSTANTS
    Callers = {t1, t2}
    Callbacks = {a, b, c}
    Handles = {h1, h2}
    IDMax = 3
    NoThread = NoThread
    NoCallback = NoCallback
    NoHandle = NoHandle
    Threads = {t1, t2, t3}
    MaxThrows = 2
    Nothing = Nothing
    Durations = {0, 1, 3, 10}
    MaxRetries = {0, 1, 4}
    DurationMax = 20
    Unset = Unset
    Workers = {w1, w2}
    Indices <- MCIndices
    Requests = {0, 1, 3}
    NoBlock = NoBlock
SPECIFICATION Spec
INVARIANTS TypeOK ExactlySubscribed RemovedIsQuiet OneValueForAll RetriesAreBounded LoopRunsAll 
PROPERTIES NotifiesAllInOrder EveryCallEnds
CHECK_DEADLOCK FALSE
