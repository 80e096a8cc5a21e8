SPECIFICATION FairSpec
CONSTANTS
    here = here
    there = there
    peer = peer
    static = static
    Peers = {peer}
    Static = {static}
    Manual = {manual}
    Addresses = {here, there}
    Home <- HomeHere
    StaticAddress <- StaticThere
    Readers = {r1, r2}
    Clients = {c1}
    None = None
    MaxProbes = 1
    MaxChanges = 2
    MaxRequests = 2
CHECK_DEADLOCK FALSE
INVARIANTS
    TypeOK
    OneNameEach
    OnlyOvertakenStay
    
PROPERTIES
    GoneAreForgotten
