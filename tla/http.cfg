CONSTANTS
    Conns = {c1, c2}
    Servants = {w1, w2}
    Callers = {t1}
    MaxQueuedRequests = 1
    KeepAliveMaxCount = 2
    MaxListens = 1
    AcceptErrors = TRUE
    NoConn = NoConn
    Users = {u1, u2}
    Settings <- MCSettings
    MaxRedirects = 1
    MaxAuth = 1
    Polls = 1
    MaxCalls = 2
    NoUser = NoUser
    MaxAddresses = 2
    MaxTries = 3
    Bytes = {"r", "l"}
    MaxSent = 4
    BufferSize = 2
    FixedSize = 2
    MaxLine = 3
    RecvSize = 3
    ReadTimeout = 1
    MaxTimeout = 2
SPECIFICATION Spec
INVARIANTS TypeOK ConnectionsAreServed SocketIsAgreedOn StreamsDeliver
PROPERTY CallsReturn
CHECK_DEADLOCK FALSE
