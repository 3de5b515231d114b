CONSTANTS
    a = a  b = b  c = c
    Sessions <- TwoClients
    MaxConnections = 1
    LocalLimit = 1
SPECIFICATION Spec
INVARIANT ExitUnregisters
CHECK_DEADLOCK FALSE
