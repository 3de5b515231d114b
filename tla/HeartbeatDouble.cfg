CONSTANTS
    p1 = p1  p2 = p2  p3 = p3
    Instances <- ThreeProxies
    InitiallyUp <- ThreeProxies
    MaxConnections = 2
    MaxStarts = 0
    MaxCrashes = 1
    MaxStalls = 0
    MaxCloses = 0
SPECIFICATION Spec
INVARIANT LimitHoldsAcrossCleanups
CHECK_DEADLOCK FALSE
