SPECIFICATION Spec
CONSTANTS
    Requests = {r1, r2}
    MaxMishaps = 1
    Torn = Torn
    Missing = Missing
    None = None
PROPERTIES
    ShorterLogIsNoticed
CHECK_DEADLOCK FALSE
