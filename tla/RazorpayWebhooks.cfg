SPECIFICATION Spec
CONSTANTS
    Workers = {w1, w2}
    EventIds = {e1, e2, illformed, short}
    IllFormedIds = {illformed}
    ShortIds = {short}
    supported = supported
    unsupported = unsupported
    malformed = malformed
    Bodies <- MCBodies
    Shape <- MCShape
    MaxInterruptions = 2
    None = None
INVARIANTS
    TypeOK
    AckedIsProcessed
    NewOnlyOnce
PROPERTIES
    ReceivedIsProcessed
    FirstContentWins
