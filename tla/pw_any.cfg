SPECIFICATION FairSpec
CONSTANTS
    UserCallers = {u1}
    PeerCallers = {p1}
CHECK_DEADLOCK FALSE
INVARIANTS
    TypeOK
    NoLostWakeup
    AtMostOneLateChunk
    LeakBound
PROPERTIES
    WriteComesBack
