SPECIFICATION Spec
CONSTANTS
    Pushes = {p1}
    Imports = {}
    Hashes = {h}
    HashOf <- OneTarball
    Final = {"Completed", "Failed", "Crashed"}
    MaxTime = 1
    MaxGCs = 0
    MaxCrashes = 1
CHECK_DEADLOCK FALSE
INVARIANTS
    FailedDidFail
