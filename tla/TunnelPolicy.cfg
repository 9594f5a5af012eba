SPECIFICATION FairSpec
CONSTANTS
    c1 = c1
    c2 = c2
    s1 = s1
    s2 = s2
    p1 = p1
    Conn <- MCConn
    Ssh <- MCSsh
    Pid <- MCPid
    Direct = Direct
    Null = Null
    None = None
    Routes <- MCRoutes
    MaxAttempts = 1
    Throttle = 1
    ForkErrors <- Errors
INVARIANTS TypeOK NoChildForgotten NoExcessMarks
PROPERTIES Throttled ProcessIsStarted
