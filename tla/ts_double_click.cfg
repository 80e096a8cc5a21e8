SPECIFICATION Spec
CONSTANTS
    p1 = p1
    p2 = p2
    None = None
    Pushes <- TwoPushes
    Chunks = 1
    MaxClicks = 0
    MayBreak = FALSE
    Overlap = TRUE
INVARIANT OnePushAtATime
CHECK_DEADLOCK FALSE
