SPECIFICATION Spec
CONSTANTS
    Type = {"Transfer"}
    Token = {t1}
    t1 = t1
    NoFilter = NoFilter
    Socket = {s1, s2}
    s1 = s1
    s2 = s2
    NoSocket = NoSocket
    Pong = Pong
    AutoReconnect = TRUE
    MaxAttempts = 1
    Heartbeat = TRUE
    Listeners = {"close", "connect"}
    MaxSubs = 2
    MaxCalls = 2
    MaxEvents = 1
INVARIANTS
    RegisteredWhenOpen
    NeverStranded
PROPERTIES
    ClosedOpensNothingElse
    AttemptsEnd
CHECK_DEADLOCK FALSE
