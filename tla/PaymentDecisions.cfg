CONSTANTS
    Customers = {c1, c2}
    Profiles <- MCProfiles
    Hour = 1
    Day = 2
    Week = 3
    Promises = {1}
    MaxPayments = 2
    MaxEvents = 2
    Horizon = 4
    HourSpike = 1
    DaySpike = 2
    AmountSpike = 10000
    RepeatDisputes = 1
    HighValue = 10000
    NewAccount = 7
    Unclear = 35
    FarAway = 1000
SPECIFICATION Spec
INVARIANTS
    PacksAreGuarded
    AlarmsStay
    ActionIsCheapest
PROPERTIES
    HindsightChangesNothing
SYMMETRY MCSymmetry
CHECK_DEADLOCK FALSE
