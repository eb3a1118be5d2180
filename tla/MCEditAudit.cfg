CONSTANTS
    p1 = p1
    p2 = p2
    c1 = c1
    c2 = c2
    u1 = u1
    u2 = u2
    Pushes <- MCPushes
    Conns <- MCConns
    Users <- MCUsers
    UserOf <- MCUserOf
    Docs = {page, root}
    Internal = {root}
    MaxFaults = 2
SPECIFICATION Spec
INVARIANT CountsAreSound
INVARIANT MakingIsRecorded
PROPERTY StopKeepsItsWord
PROPERTY AuditFailsOpen
PROPERTY CountsAreRecorded
CHECK_DEADLOCK FALSE
