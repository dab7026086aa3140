SPECIFICATION Spec
CONSTANT MaxRuns = 1
INVARIANT MicStopsWithTheTile
CHECK_DEADLOCK FALSE
