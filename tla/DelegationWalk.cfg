SPECIFICATION Spec
CONSTANTS
    Artifact <- MCDelegation
    Event = {}
    Credential = {}
    CodeUnit <- ItemCodeUnit
    Locale <- ItemLocale
    Writer = {w1}
    Walked = {"delegations"}
    Limit = {1, 2}
    MaxNow = 0
    None = None
CHECK_DEADLOCK FALSE
INVARIANTS
    WalkedOnce
