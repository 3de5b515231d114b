SPECIFICATION Spec
CONSTANTS
    PreLogins <- MCPreLogins
    Login7s <- MCLogin7s
    Statements <- MCOrdinary
    BucketNames <- MCBucketNames
    ReplySizes = {100}
    MaxLogins = 0
    MaxMessages = 3
    MaxFailures = 0
INVARIANT PinnedWhileOpen
CHECK_DEADLOCK FALSE
