SPECIFICATION ProjectionSpec
CONSTANTS
    Package <- PackageOf
    OwnResource <- OwnResources
    Proposal <- AnyProposal
    MaxId = 3
    MaxMoved = 3
    Trailing = FALSE
INVARIANTS
    AdmittedEffectsAreApart
    RefusalIsJustified
    InputsCorrespond
    CredentialsAreCanonical
    WritableIsApart
    InputsReachTheBuild
    OnlyAliasesMismatch
