\* The third line meets the limit of the history.
SPECIFICATION Spec
CONSTANTS
    Path <- MCPath
    Node <- MCNode
    NodeOf <- MCNodeOf
    NameOf <- MCNameOf
    Home = "D"
    Disks <- MCDisks
    Byte = {"x", "y"}
    Lines <- MCLines
    MAX_ARG = 3
    MAX_HISTORY = 2
    MaxMeddle = 0
INVARIANTS
    HistoryRolls
CHECK_DEADLOCK FALSE
