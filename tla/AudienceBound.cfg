SPECIFICATION Spec
CONSTANT Input <- MCInput
INVARIANT AudienceIsBound
CHECK_DEADLOCK FALSE
