CONSTANTS
    p1 = p1  p2 = p2  p3 = p3
    Instances <- TwoProxies
    InitiallyUp <- TwoProxies
    MaxConnections = 2
    MaxStarts = 1
    MaxCrashes = 1
    MaxStalls = 0
    MaxCloses = 1
SPECIFICATION FairSpec
INVARIANTS TypeOK CountCoversHeld ClosedLeavesNoTrace
PROPERTIES OrphansRecovered NegativeCountCorrected
CHECK_DEADLOCK FALSE
