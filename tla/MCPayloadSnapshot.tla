------------------------- MODULE MCPayloadSnapshot -------------------------
(***************************************************************************)
(* Small package output trees: node 1 is the root, node 2 a directory in   *)
(* it, node 3 a second one; nodes 4 to 6 are files, in use or not.  In the *)
(* deep tree nodes 2 to 5 are directories, and 6 and 7 files in 3 and 5.   *)
(***************************************************************************)
EXTENDS PayloadSnapshot, TLC

Thing(type, data) == [type |-> type, data |-> data, stamp |-> 0]
Empty == [m \in EntryName |-> None]

\* The root holds directory 2 and, under the name 2, `second'; the contents
\* of the directories are given.
Build(types, second, in2, in3) ==
    [node |-> [n \in Node |-> IF n \in {1, 2, 3} THEN Thing("dir", "a")
                              ELSE Thing(types[n], "a")],
     entry |-> [n \in Node |->
        CASE n = 1 -> 1 :> 2 @@ 2 :> second @@ Empty
          [] n = 2 -> in2 @@ Empty
          [] n = 3 -> in3 @@ Empty
          [] OTHER -> Empty],
     clock |-> 0, coarse |-> FALSE]
Types(t4, t5) == [n \in Node |-> CASE n = 4 -> t4 [] n = 5 -> t5
                                   [] OTHER -> "regular"]

\* Two directories with a file each, a file shared by both, one directory in
\* another, one that may be renamed, special files, and nothing.
TwoFiles == Build(Types("regular", "regular"), 3, 1 :> 4, 1 :> 5)
SharedFile == Build(Types("regular", "regular"), 3, 1 :> 4, 1 :> 4)
Nested == Build(Types("regular", "regular"), 5, 1 :> 3, 1 :> 4)
Mixture == Build(Types("symlink", "regular"), None, 1 :> 4 @@ 2 :> 5, Empty)
WithSocket == Build(Types("socket", "fifo"), 4, 1 :> 5, Empty)
Nothing == [TwoFiles EXCEPT !.entry[1] = Empty]

\* Two directories with a directory each, with a file each.
Deep ==
    [node |-> [n \in Node |-> Thing(IF n > 5 THEN "regular" ELSE "dir", "a")],
     entry |-> [n \in Node |->
        CASE n = 1 -> 1 :> 2 @@ 2 :> 4 @@ Empty
          [] n = 2 -> 1 :> 3 @@ Empty
          [] n = 4 -> 2 :> 5 @@ Empty
          [] n = 3 -> 1 :> 6 @@ Empty
          [] n = 5 -> 1 :> 7 @@ Empty
          [] OTHER -> Empty],
     clock |-> 0, coarse |-> FALSE]

\* A tree that changes once less, and one under a coarse clock.
Late(tree) == [tree EXCEPT !.clock = 1]
Coarse(tree) == [tree EXCEPT !.clock = 1, !.coarse = TRUE]

AllTrees == {TwoFiles, Late(SharedFile), Late(Mixture), Late(WithSocket),
             Late(Nothing), Late(Nested), Coarse(TwoFiles),
             Coarse(SharedFile)}
OnlyDeep == {Deep}

AnyChange(number, call) == {"alter", "put", "remove", "join", "move"}

\* Directories are renamed, two at a time: before an entry is visited,
\* before encoding begins, when a file has been copied, and once more.
Renames(number, call) ==
    IF call = <<"next", "reopen", "copied", "copied", "next">>[1 + number \div 2]
    THEN {"move"} ELSE {}
=============================================================================
