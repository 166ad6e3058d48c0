SPECIFICATION FairSpec
CONSTANTS
    s1 = s1
    s2 = s2
    b1 = b1
    b2 = b2
    Public = Public
    None = None
    Session = {s1, s2}
    Inode = {1, 2, 3, 4, 5}
    Alloc <- LowestFree
    Content = {b1, b2}
    Calls = {"execute_sealed"}
    ForeignMay = {}
    MaxFaults = 0
    MaxKills = 1
    MaxLosses = 0
    MaxForeign = 0
INVARIANT NoTornPublication
INVARIANT TemporaryIsPrivate
INVARIANT EvidenceIsPublishable
INVARIANT CompletionIsExact
INVARIANT EvidenceBeforeExposure
PROPERTY OwnRemovalOnly
PROPERTY PromiseKept
PROPERTY PublicationSettles
