SPECIFICATION Spec
CONSTANTS
    Node = {1, 2, 3, 4, 5, 6, 7}
    Root = 1
    None = None
    EntryName = {1, 2}
    Data = {"a"}
    Tree <- OnlyDeep
    May <- Renames
    NewTypes = {}
    MaxChanges = 10
INVARIANT RegularPathsAreSnapshot
