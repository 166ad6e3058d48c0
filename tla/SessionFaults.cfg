SPECIFICATION FairSpec
CONSTANTS
    s1 = s1
    s2 = s2
    b1 = b1
    b2 = b2
    Public = Public
    None = None
    Session = {s1}
    Inode = {1, 2, 3, 4, 5}
    Alloc <- LowestFree
    Content = {b1, b2}
    Calls = {"execute_sealed", "execute"}
    ForeignMay = {"create"}
    MaxFaults = 2
    MaxKills = 1
    MaxLosses = 0
    MaxForeign = 1
INVARIANT TypeOK
INVARIANT EvidenceIsPublishable
INVARIANT CompletionIsExact
INVARIANT ResidueOnlyAfterFailure
INVARIANT FailureIsNotPublished
PROPERTY NeverReplaced
PROPERTY OwnRemovalOnly
PROPERTY PromiseKept
PROPERTY PublicationSettles
