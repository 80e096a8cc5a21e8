SPECIFICATION FairSpec
CONSTANTS
    p1 = p1
    p2 = p2
    None = None
    Pushes <- OnePush
    Chunks = 2
    MaxClicks = 2
    MayBreak = TRUE
    Overlap = FALSE
INVARIANTS TypeOK QuietIsClean    NobodyWaitsInVain
PROPERTIES Implements 
CHECK_DEADLOCK FALSE
