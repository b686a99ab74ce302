SPECIFICATION Spec
CONSTANTS
    Call = {c1, c2, c3}
    Agent = {"a1", "a2"}
    Key = {"k1"}
    Input <- MCInput
    Passphrase = {p1}
    Status = {"active", "retired"}
    ReloadLimit = 2
    MaxSequence = 1
    MaxIssuer = 2
    None = None
CHECK_DEADLOCK FALSE
INVARIANTS
    RootsAreRootSubjects
