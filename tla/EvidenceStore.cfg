SPECIFICATION MCSpec
CONSTANTS
    Artifact <- MCArtifact
    Event = {"e1", "e2", "e3", "e4"}
    Credential = {"i1", "i2", "i3"}
    CodeUnit <- ItemCodeUnit
    Locale <- ItemLocale
    Writer = {w1, w2}
    Walked = {"events", "credentials"}
    Limit = {1, 2}
    MaxNow = 1
    None = None
INVARIANTS
    TypeOK
    AcknowledgedHolds
    RevocationIsStored
    GraphIsWhole
    GraphIsCurrent
    WalkedOnce
