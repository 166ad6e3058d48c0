SPECIFICATION Spec
CONSTANTS
    s1 = s1
    s2 = s2
    b1 = b1
    b2 = b2
    Public = Public
    None = None
    Session = {s1, s2}
    Inode = {1, 2, 3, 4, 5}
    Alloc <- LowestFree
    Content = {b1}
    Calls = {"execute_sealed"}
    ForeignMay = {}
    MaxFaults = 1
    MaxKills = 0
    MaxLosses = 0
    MaxForeign = 0
INVARIANT EvidenceIsPublishable
