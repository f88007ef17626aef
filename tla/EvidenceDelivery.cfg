CONSTANTS
    Requests = {1, 2, 3}
    Deployments = {d1, d2}
    PaidAt = 0
    Asked = {0, 1}
    LiveTTL = 2
    FallbackTTL = 1
    MaxTime = 2
    MaxMishaps = 1
    None = None
SPECIFICATION FairSpec
INVARIANTS
    TypeOK
    DeliveredIsRecorded
    CachedIsRecorded
    DeliveredForTheCase
    FallbackIsDeclared
PROPERTIES
    FreshWhenRead
    EveryRequestEnds
CHECK_DEADLOCK FALSE
