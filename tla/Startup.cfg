SPECIFICATION FairSpec
CONSTANTS
    Names <- MCNames
    Lower <- MCLower
    Files <- MCFiles
    Logins <- MCLogins
    MaxChanges = 1
    MaxOthers = 1
INVARIANTS TypeOK ReportComplete ReadyIsCoordinated CountSurvivesStart NamedBucketReached
PROPERTIES StartDecides
CHECK_DEADLOCK FALSE
