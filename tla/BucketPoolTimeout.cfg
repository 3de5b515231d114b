CONSTANTS
    a = a  b = b  c = c
    Clients <- TwoClients
    MaxConnections = 1
    MinIdle = 0
    Conns <- SixConns
SPECIFICATION Spec
INVARIANT ActiveInUse
CHECK_DEADLOCK FALSE
