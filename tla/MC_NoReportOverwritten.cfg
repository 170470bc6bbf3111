CONSTANTS
    s1 = s1
    s2 = s2
    s3 = s3
    n1 = n1
    n2 = n2
    Scenarios <- MCScenarios
    Namespaces <- MCNamespaces
    Resolutions <- MCResolutions
    NsOf <- MCNsOf
    Malformed <- MCMalformed
    Manifests <- MCManifests
    Steps <- MCSteps
    Criteria <- MCCriteria
    Ids <- MCIds
    IdOf <- MCIdOf
    MaxRuns <- MCMaxRuns
    MaxTime <- MCMaxTime

INIT Init
NEXT Next

\* The process stops once its last invocation has exited.
CHECK_DEADLOCK FALSE

\* s1 and s2 both save as 'unknown_<second>.json'.
INVARIANT
    NoReportOverwritten
