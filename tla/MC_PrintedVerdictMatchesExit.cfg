CONSTANT MaxValue <- MCMaxValue
SPECIFICATION Spec
CHECK_DEADLOCK FALSE
INVARIANT PrintedVerdictMatchesExit
