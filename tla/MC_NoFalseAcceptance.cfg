CONSTANT
    DirShapes <- MCDirShapes

INIT Init
NEXT Next

\* The script exits after its report.
CHECK_DEADLOCK FALSE

INVARIANT
    NoFalseAcceptance
