CONSTANTS
    p1 = p1  p2 = p2
    a = a  b = b  d = d
    Instances <- TwoProxies
    Sessions <- ThreeClients
    Home <- ThreeHomes
    MaxConnections = 1
    MaxQueueSize = 1
    ChanCap = 1
SPECIFICATION FairSpec
INVARIANTS TypeOK SlotAccounting LimitRespected DepthAccounting
PROPERTIES RejectionsJustified ImplementsSlots SlotNotStranded SessionResolves ShutdownDrains
CHECK_DEADLOCK FALSE
