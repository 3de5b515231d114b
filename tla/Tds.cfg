SPECIFICATION FairSpec
CONSTANTS
    PreLogins <- MCPreLogins
    Login7s <- MCLogin7s
    Statements <- MCStatements
    BucketNames <- MCBucketNames
    ReplySizes = {4089}
    MaxLogins = 1
    MaxMessages = 2
    MaxFailures = 1
INVARIANTS TypeOK OpenStatePinned  ErrorReadable
PROPERTIES ImplementsCourier RelayEnds
CHECK_DEADLOCK FALSE
