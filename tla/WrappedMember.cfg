SPECIFICATION Spec
CONSTANTS
    MaxTokens = 1
    Decoded <- MCDecoded
    Key = {k1, k2}
    MadeKinds = {"credential", "delegation", "request", "provenance", "key_status", "revocation", "key_rotation"}
    MaxSigned = 1
    MaxFlaws = 1
INVARIANT MembersAreStrings
CHECK_DEADLOCK FALSE
