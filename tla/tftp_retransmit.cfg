SPECIFICATION FairSpec
CONSTANTS
    Sizes = {2}
    BlockMod = 4
    Others = FALSE
PROPERTY RetransmissionTolerated
CHECK_DEADLOCK FALSE
