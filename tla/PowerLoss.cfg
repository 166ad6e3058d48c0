SPECIFICATION Spec
CONSTANTS
    s1 = s1
    s2 = s2
    b1 = b1
    b2 = b2
    Public = Public
    None = None
    Session = {s1}
    Inode = {1, 2, 3, 4, 5, 6}
    Alloc <- LowestFree
    Content = {b1, b2}
    Calls = {"execute_sealed", "execute"}
    ForeignMay = {"create", "remove"}
    MaxFaults = 1
    MaxKills = 0
    MaxLosses = 2
    MaxForeign = 1
INVARIANT NoTornPublication
 
 
 
