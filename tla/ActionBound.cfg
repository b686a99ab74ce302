SPECIFICATION Spec
CONSTANT Input <- MCInput
INVARIANT ActionIsBound
CHECK_DEADLOCK FALSE
