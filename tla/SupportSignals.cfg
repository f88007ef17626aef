CONSTANTS
    Reports = {1, 2, 3}
    Versions = {v1, v2}
    Datasets <- MCDatasets
    Answers <- MCAnswers
    MaxEvents = 2
    Matched <- MCMatched
    MaxMishaps = 1
    None = None
SPECIFICATION FairSpec
INVARIANTS
    TypeOK
    RowsRestOnObservedText
    FallbackSaysWhatTheTextSays
    OneTextOneAnswer
    FallbackIsDeclared
PROPERTIES
    CacheIsAtomic
    
CHECK_DEADLOCK FALSE
