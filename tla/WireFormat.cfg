SPECIFICATION Spec
CONSTANTS
    MaxTokens = 9
    Decoded <- MCDecoded
    Key = {k1, k2}
    MadeKinds = {"credential", "delegation", "request", "provenance", "key_status", "revocation", "key_rotation"}
    MaxSigned = 2
    MaxFlaws = 2
INVARIANTS
    ScansExactly
    AcceptedIsSigned
    SameForm
CHECK_DEADLOCK FALSE
