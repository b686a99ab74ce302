SPECIFICATION Spec
CONSTANTS
    Call = {c1, c2}
    Artifact <- MCArtifact
    Signed <- MCSigned
    ReplayKey <- MCReplayKey
    Malformed = {"loop"}
    Stored = {"root", "loop", "r1", "r2", "r3"}
    Revocable = {"d1"}
    Mode <- MCMode
    Presented <- MCPresented
    OfflinePolicy = TRUE
    Skew = 1
    Lead = {1}
    MaxTime = 2
    None = None
INVARIANT
    AtMostOnce
