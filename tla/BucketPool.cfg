CONSTANTS
    a = a  b = b  c = c
    Clients <- ThreeClients
    MaxConnections = 1
    MinIdle = 1
    Conns <- SixConns
SPECIFICATION FairSpec
INVARIANTS TypeOK ExclusiveUse BooksComplete OvershootBounded
PROPERTY CloseWakesWaiters
CHECK_DEADLOCK FALSE
