CONSTANTS
    p1 = p1  p2 = p2
    a = a  b = b  c = c
    Instances <- TwoProxies
    Sessions <- TwoClients
    Home <- TwoHomes
    MaxConnections = 1
    LocalLimitDivisor = 2
    MaxOutages = 1
    MaxLost = 1
    Stopping <- OneProxy
SPECIFICATION FairSpec
INVARIANTS TypeOK CountersWithinLimits SlotsCovered
PROPERTY FallbackEnds
CHECK_DEADLOCK FALSE
