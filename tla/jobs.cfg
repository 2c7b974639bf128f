\* Every command, on three processes: the first ignores SIGINT and SIGTERM,
\* the second stops when it reads the terminal.
SPECIFICATION FairSpec
CONSTANTS
    MaxProcess = 3
    Commands = {"run", "background", "fg", "bg", "kill", "quit"}
    Signals = {"TSTP", "TERM", "KILL"}
    Stubborn = {1}
    Reader = {2}
CONSTRAINT OneSignal
INVARIANTS
    TypeOK InOrder NothingForgotten FinishedExplained ControlReach QuitKillsAll
PROPERTIES
    CleanSound WaitEnds
CHECK_DEADLOCK FALSE
