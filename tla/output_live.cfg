SPECIFICATION Spec
PROPERTY OutputProgress
CHECK_DEADLOCK FALSE
