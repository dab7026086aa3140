SPECIFICATION Spec
CONSTANT MaxRuns = 2
INVARIANT OpenMicHasAButton
CHECK_DEADLOCK FALSE
