SPECIFICATION Spec
CONSTANTS
    s1 = s1
    s2 = s2
    b1 = b1
    b2 = b2
    Public = Public
    None = None
    Session = {s1}
    Inode = {1, 2, 3, 4, 5}
    Alloc <- LowestFree
    Content = {b1}
    Calls = {"execute_sealed"}
    ForeignMay = {}
    MaxFaults = 0
    MaxKills = 1
    MaxLosses = 1
    MaxForeign = 0
INVARIANT EvidenceIsPublishable
