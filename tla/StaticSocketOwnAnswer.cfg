CONSTANT N = 2
SPECIFICATION Spec
INVARIANT OwnAnswer
CHECK_DEADLOCK FALSE
