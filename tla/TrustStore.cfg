SPECIFICATION FairSpec
CONSTANTS
    Proc = {p1, p2}
    Offer <- MCOffer
    Mark <- MCMark
    Anchor = {"a1", "a2"}
    None = None
INVARIANTS
    TypeOK
    HighWaterIsLatest
    ReturnedIsStored
PROPERTIES
    ImplementsLedger
    Released
