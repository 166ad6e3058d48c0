SPECIFICATION ProjectionSpec
CONSTANTS
    Package <- PackageOf
    OwnResource <- OwnResources
    Proposal <- LayoutProposal
    MaxId = 3
    MaxMoved = 2
    Trailing = TRUE
INVARIANTS
    AdmittedEffectsAreApart
