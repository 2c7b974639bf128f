\* Two lines: the third meets the limit of the history.
SPECIFICATION MCSpec
CONSTANTS
    Path <- MCPath
    Node <- MCNode
    NodeOf <- MCNodeOf
    NameOf <- MCNameOf
    Home = "D"
    Disks <- MCDisks
    Byte = {"x", "y"}
    Lines <- MCLines
    MAX_ARG = 3
    MAX_HISTORY = 2
    MaxMeddle = 1
INVARIANTS
    TypeOK
    RunsAsTyped
    CopyExact
    CopyHarmless
    DiffRight
    DescriptorsKept
PROPERTIES
    WayBack
    LineEnds
CHECK_DEADLOCK FALSE
