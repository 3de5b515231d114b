CONSTANTS
    a = a  b = b  c = c
    Sessions <- TwoClients
    MaxConnections = 1
    LocalLimit = 1
SPECIFICATION FairSpec
INVARIANTS TypeOK BackendsCovered GracefulStopFreesSlots
PROPERTIES SessionsEnd ProcessExits
CHECK_DEADLOCK FALSE
