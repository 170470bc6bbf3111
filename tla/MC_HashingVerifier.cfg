CONSTANTS
    MaxLines <- MCMaxLines

INIT Init
NEXT Next

\* The script exits: nothing happens after it.
CHECK_DEADLOCK FALSE

INVARIANT
    PassMeansConsistent
