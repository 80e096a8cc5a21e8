SPECIFICATION Spec
CONSTANTS
    Pushes = {p1, p2}
    Imports = {i1}
    Hashes = {h}
    HashOf <- OneTarball
    Final = {"Completed", "Failed", "Crashed"}
    MaxTime = 1
    MaxGCs = 1
    MaxCrashes = 1
SYMMETRY PushSymmetry
CHECK_DEADLOCK FALSE
INVARIANTS
    TypeOK
    PendingIsOfThisLife
    
    ReportIsOwnAlone
PROPERTIES
    OnlyTempRowsGo
