CONSTANTS
    Tokens = {t1, t2}
    NoToken = NoToken
    MaxInFlight = 4
    MaxEvents = 1
SPECIFICATION Spec
INVARIANT TokenSent
CHECK_DEADLOCK FALSE
