CONSTANTS
    s1 = s1
    s2 = s2
    s3 = s3
    n1 = n1
    n2 = n2
    Scenarios <- MCScenarios
    Namespaces <- MCNamespaces
    Resolutions <- MCResolutions
    NsOf <- MCNsOf
    Malformed <- MCMalformed
    Manifests <- MCManifests
    Steps <- MCSteps
    Criteria <- MCCriteria
    Ids <- MCIds
    IdOf <- MCIdOf
    MaxRuns <- MCMaxRuns
    MaxTime <- MCMaxTime

INIT Init
NEXT Next

\* The process really stops: after its last invocation exits (or is
\* killed) and the cluster has removed every Terminating namespace,
\* nothing is left to happen.
CHECK_DEADLOCK FALSE

INVARIANTS
    
    StepResultsFaithful
    ReportSuccessFaithful
    ExitStatusFaithful
    OwnNamespace

PROPERTIES
    NoForeignDelete
    
