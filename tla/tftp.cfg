\* The block numbers of a file of four blocks wrap.
SPECIFICATION FairSpec
CONSTANTS
    Sizes = {1, 2, 3, 4}
    BlockMod = 4
    Others = TRUE
INVARIANTS
    TypeOK
    BlocksInPlace
    AllOrNothing
    AcknowledgedIsThere
PROPERTY TransferEnds
CHECK_DEADLOCK FALSE
