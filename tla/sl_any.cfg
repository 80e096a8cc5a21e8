SPECIFICATION FairSpec
CONSTANTS
    Procs = {p1, p2, p3}
    None = None
    MaxTroubles = 1
CHECK_DEADLOCK FALSE
INVARIANTS
    TypeOK
    StateHoldsLedger
    
PROPERTIES
    LaunchLeadsToService
