SPECIFICATION Spec
CONSTANTS
    s1 = s1
    s2 = s2
    b1 = b1
    b2 = b2
    Public = Public
    None = None
    Session = {s1}
    Inode = {1, 2, 3, 4, 5}
    Alloc <- LowestFree
    Content = {b1}
    Calls = {"execute_sealed"}
    ForeignMay = {"create", "remove"}
    MaxFaults = 0
    MaxKills = 0
    MaxLosses = 0
    MaxForeign = 2
PROPERTY OwnRemovalOnly
