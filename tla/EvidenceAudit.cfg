SPECIFICATION Spec
CONSTANTS
    Requests = {r1, r2, r3}
    MaxMishaps = 2
    Torn = Torn
    Missing = Missing
    None = None
INVARIANTS
    TypeOK
    FilesAgree
    AlarmsHaveACause
    AppendedIsLogged
PROPERTIES
    EveryRequestEnds
CHECK_DEADLOCK FALSE
