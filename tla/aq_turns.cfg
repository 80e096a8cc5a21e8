SPECIFICATION FairSpec
CONSTANTS
    Handlers = {h1, h2, h3}
    Clients = {c1}
    NoOne = NoOne
    ImageOf <- SameImage
    MayCancel = FALSE
INVARIANTS
    NoOrphan
    ExplicitApproval
PROPERTIES
    EveryRequestDecided
