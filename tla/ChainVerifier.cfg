SPECIFICATION Spec
CONSTANT Input <- MCInput
INVARIANT TypeOK
INVARIANT ValidIsBounded
INVARIANT DecidesByContent
INVARIANT SameAuthority
CHECK_DEADLOCK FALSE
