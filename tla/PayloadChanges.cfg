SPECIFICATION Spec
CONSTANTS
    Node = {1, 2, 3, 4, 5}
    Root = 1
    None = None
    EntryName = {1, 2}
    Data = {"a", "b"}
    Tree <- AllTrees
    May <- AnyChange
    NewTypes = {"regular", "symlink"}
    MaxChanges = 3
INVARIANT RegularFilesAreSnapshot
INVARIANT SettledPartAgrees
INVARIANT ArchiveIsManifest
INVARIANT RefusalHasCause
