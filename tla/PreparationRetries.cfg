SPECIFICATION FairSpec
CONSTANTS
    Sessions <- AnySession
    Workspace <- BuildWorkspace
    LocalName <- ObjectName
    MaxFaults <- Faults
    MaxBuilds <- Builds
INVARIANT TypeOK
INVARIANT PreparedAsDeclared
INVARIANT RefusesOnlyInconsistent
PROPERTY AliasLeavesHostAlone
PROPERTY RetryPrepares
