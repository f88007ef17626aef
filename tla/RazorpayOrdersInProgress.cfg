SPECIFICATION Spec
CONSTANTS
    Requests = {r1, r2}
    Keys = {k1}
    Payloads = {p1}
    Orders = {o1}
    Unusable = {}
    None = None
PROPERTIES
    InProgressIsTrue
CHECK_DEADLOCK FALSE
