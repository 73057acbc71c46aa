SPECIFICATION Spec
CONSTANTS
    Files <- MCFiles
    Kilo = 4
    Second = 4
    MinInterval = 3
    MaxInt = 2000000
CHECK_DEADLOCK FALSE
INVARIANTS
    TypeOK
    UsableSettings
    RotatesAsAsked
    DurationsAsWritten
