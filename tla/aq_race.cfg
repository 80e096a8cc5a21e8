SPECIFICATION Spec
CONSTANTS
    Handlers = {h1, h2}
    Clients = {c1, c2}
    NoOne = NoOne
    ImageOf <- DistinctImages
    MayCancel = TRUE
INVARIANTS
    TypeOK
    DismissedNeverWaits
    CancellableWhileWaiting
PROPERTY ImplementsApproval
