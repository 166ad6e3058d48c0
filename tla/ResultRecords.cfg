SPECIFICATION Spec
CONSTANTS
    Results <- AnyResult
    Authorities <- AnyAuthority
    BuildPurpose <- ForBuild
    Rewrites <- AnyRewrite
    MaxRewrites = 3
    MaxDiagnostic = 1
    MaxText = 1
    MaxEntries = 2
    MaxSize = 3
 
INVARIANT OpensOnlyGenuine
INVARIANT AuthorityIsTold
