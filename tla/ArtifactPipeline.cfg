\* Two processes, each a pipeline or a stage run by hand, over an empty tree or
\* the tree of an earlier release, with one change of the source and one kill.
\* The source before the change does not make what its gate asks for.
SPECIFICATION FairSpec
CONSTANTS
    Procs = {1, 2}
    ByHand = {"support_signal_report"}
    Conforming = {1}
    MaxEdits = 1
    MaxCrashes = 1
INVARIANTS
    TypeOK
    CompletedRunIsOneRevision
    CompletedRunIsReleasable
PROPERTIES
    UndisturbedRunCompletes
CHECK_DEADLOCK FALSE
