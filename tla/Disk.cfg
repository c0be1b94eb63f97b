CONSTANTS
    Disks = {a, b}
    Contexts <- TheContexts
    Align = 2
    Sizes <- TheSizes
    Offsets <- TheOffsets
    Lengths <- TheLengths
SPECIFICATION FairSpec
CHECK_DEADLOCK FALSE
INVARIANT RightBytes
PROPERTY Answered
