CONSTANTS
    d1 = d1
    d2 = d2
    d3 = d3
    gA = gA
    gX = gX
    q = q
    none = none
    NoId = none
    Dirs <- MCDirs
    Groups <- MCGroups
    GroupArgs <- MCGroupArgs
    IdArgs <- MCIdArgs
    Matches <- MCMatches
    Prefixed <- MCPrefixed

INIT Init
NEXT Next

\* find_scenarios returns: every behaviour ends in pc = "done".
CHECK_DEADLOCK FALSE

INVARIANT
    CatalogContract
