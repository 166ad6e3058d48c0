--------------------------- MODULE PayloadSnapshot ---------------------------
(***************************************************************************)
(* How execute_sealed() of src/src/executor.cpp turns the package output   *)
(* tree into a manifest and an archive: inspect_payload(), encode_artifact *)
(* and inspect_payload() again, while whatever the build left running may  *)
(* still change the tree between any two system calls.                     *)
(*                                                                         *)
(* The tree is made of nodes (inodes).  A node's data stands for what the  *)
(* manifest records of it: mode and owner, the bytes of a regular file or  *)
(* the target of a symbolic link.  Its stamp stands for file_stamp: the    *)
(* number of the last change that altered it, links and renames included.  *)
(* Times in the manifest are the admitted SOURCE_DATE_EPOCH and left out.  *)
(* A system call that fails outright ends the attempt and is left out too: *)
(* SealedPublication has it.                                               *)
(***************************************************************************)
EXTENDS Naturals, Sequences, SequencesExt, FiniteSetsExt

CONSTANTS
    Node,           \* inodes, by number
    Root,           \* the package output root
    None,
    EntryName,      \* names in a directory: natural numbers, by their order
    Data,
    Tree,           \* initial trees [node, entry], each with the clock it
                    \* starts at and whether that clock is coarse
    May(_, _),      \* how the tree may change, by the number of the change and
                    \* the system call that follows
    NewTypes,       \* types of the objects put into it; no FIFO: to open one
                    \* that has taken a regular file's place would block
    MaxChanges

ASSUME PayloadAssumption ==
    /\ Root \in Node /\ None \notin Node
    /\ Node \subseteq Nat /\ IsFiniteSet(Node)
    /\ EntryName \subseteq Nat /\ IsFiniteSet(EntryName)
    /\ NewTypes \subseteq {"regular", "symlink"}
    /\ MaxChanges \in Nat

\* Directories of named objects, of known types, with stamps of the past.
Type == {"dir", "regular", "symlink", "fifo", "socket"}
ASSUME TreeAssumption ==
    \A t \in Tree :
        /\ t.clock \in Nat /\ t.coarse \in BOOLEAN
        /\ t.node \in [Node -> [type : Type, data : Data, stamp : 0 .. t.clock]]
        /\ t.entry \in [Node -> [EntryName -> Node \cup {None}]]
        /\ t.node[Root].type = "dir"

VARIABLES
    node,       \* [Node -> [type, data, stamp]]
    entry,      \* [Node -> [EntryName -> Node or None]]: directory entries
    changes,    \* changes so far: the clock of the stamps
    coarse,     \* a rewrite within one tick of the clock may keep the stamp
    views,      \* history: every tree there has been since sealing began
    since,      \* history: changes before the second inspection began
    pc,         \* the next system call, or the outcome: sealed or failed
    scan,       \* the inspection under way
    payload,    \* what the first inspection returned: inspected_payload
    enc         \* encode_artifact()

treeVars == <<node, entry, changes, coarse, views>>
vars == <<treeVars, since, pc, scan, payload, enc>>
-----------------------------------------------------------------------------
\* The tree.

LinksTo(n) == {l \in Node \X EntryName : entry[l[1]][l[2]] = n}

\* file_stamp of node n.
Stat(n) == [ino |-> n, type |-> node[n].type, stamp |-> node[n].stamp,
            links |-> Cardinality(LinksTo(n))]
NoStat == [ino |-> None, type |-> "none", stamp |-> 0, links |-> 0]

\* An activation of inspect_directory() on node n.
Frame(n, path, opened) == [dir |-> n, path |-> path, opened |-> opened,
                           before |-> NoStat, todo |-> {}]

\* inspect_payload() begins.
FreshScan ==
    [stack   |-> <<Frame(Root, <<>>, NoStat)>>, \* innermost first
     name    |-> 0,                             \* the entry at hand,
     before  |-> NoStat,                        \* its stamp taken first,
     read    |-> None,                          \* and what was read of it
     entries |-> <<>>,
     stamps  |-> <<>>,                          \* of each of the entries
     targets |-> [n \in Node |-> <<>>]]         \* hardlink_targets

Init ==
    /\ \E t \in Tree : /\ node = t.node /\ entry = t.entry
                      /\ changes = t.clock /\ coarse = t.coarse
    /\ views = {[node |-> node, entry |-> entry]}
    /\ since = 0
    /\ pc = "enter"
    /\ scan = FreshScan
    /\ payload = [entries |-> <<>>, stamps |-> <<>>, root |-> NoStat]
    /\ enc = [ino |-> Root, rest |-> <<>>, read |-> None, archive |-> <<>>]
-----------------------------------------------------------------------------
\* inspect_directory() and inspect_payload().

Top == Head(scan.stack)
OnTop(frame) == <<frame>> \o Tail(scan.stack)
Here == entry[Top.dir][scan.name]

Throw == pc' = "failed" /\ UNCHANGED <<scan, payload, enc>>

\* fstat of the directory.
Enter ==
    /\ pc = "enter"
    /\ pc' = "list"
    /\ scan' = [scan EXCEPT
            !.stack = OnTop([Top EXCEPT !.before = Stat(Top.dir)])]
    /\ UNCHANGED <<payload, enc>>

\* directory_names()
List ==
    /\ pc = "list"
    /\ pc' = "next"
    /\ scan' = [scan EXCEPT
            !.stack = OnTop([Top EXCEPT
                !.todo = {m \in EntryName : entry[Top.dir][m] # None}])]
    /\ UNCHANGED <<payload, enc>>

\* fstatat of the next name; what follows depends on the type.
Visit ==
    LET name == Min(Top.todo)
        n == entry[Top.dir][name]
    IN
    /\ pc = "next" /\ Top.todo # {}
    /\ \/ n = None /\ Throw
       \/ /\ n # None
          /\ pc' = node[n].type
          /\ scan' = [scan EXCEPT
                !.name = name, !.before = Stat(n), !.read = node[n].data,
                !.stack = OnTop([Top EXCEPT !.todo = @ \ {name}])]
          /\ UNCHANGED <<payload, enc>>

\* The name still leads to the file whose stamp was taken, unchanged.
Rebound == Here = scan.before.ino /\ Stat(scan.before.ino) = scan.before

\* The inspection with one more entry; only a hard link has a target, and its
\* mode and owner are those of the target.
With(type, data, target) ==
    [scan EXCEPT
        !.entries = Append(@, [path |-> Append(Top.path, scan.name),
                               type |-> type, data |-> data,
                               target |-> target]),
        !.stamps = Append(@, scan.before)]

\* The entry is complete if its name is still bound, else inspection fails.
Finish(type, data, target) ==
    \/ /\ Rebound
       /\ pc' = "next"
       /\ scan' = With(type, data, target)
       /\ UNCHANGED <<payload, enc>>
    \/ ~Rebound /\ Throw

\* A directory: openat, fstat, and inspect_directory() on it.
OpenDir ==
    /\ pc = "dir"
    /\ \/ /\ Rebound
          /\ pc' = "enter"
          /\ scan' = [With("dir", scan.read, <<>>) EXCEPT
                !.stack = <<Frame(scan.before.ino, Append(Top.path, scan.name),
                                  scan.before)>> \o @]
          /\ UNCHANGED <<payload, enc>>
       \/ ~Rebound /\ Throw

\* The directory did not change while it was enumerated and traversed.
Unaltered == /\ Stat(Top.dir) = Top.before
             /\ Top.opened \in {NoStat, Top.before}
LeaveDir ==
    /\ pc = "next" /\ Top.todo = {}
    /\ \/ /\ Unaltered /\ Len(scan.stack) > 1
          /\ scan' = [scan EXCEPT !.stack = Tail(@)]
          /\ UNCHANGED <<pc, payload, enc>>
       \/ /\ Unaltered /\ Len(scan.stack) = 1 /\ scan.entries # <<>>
          /\ pc' = "retain"
          /\ UNCHANGED <<scan, payload, enc>>
       \/ /\ ~Unaltered \/ scan.entries = <<>>
          /\ Throw

\* A regular file: openat and fstat; a second link to a known one is an entry
\* of its own kind.
OpenRegular ==
    LET ino == scan.before.ino
        shared == scan.before.links > 1
    IN
    /\ pc = "regular"
    /\ \/ ~Rebound /\ Throw
       \/ /\ Rebound
          /\ IF shared /\ scan.targets[ino] # <<>>
             THEN pc' = "hardlink" /\ UNCHANGED scan
             ELSE /\ pc' = "read"
                  /\ scan' = IF shared
                        THEN [scan EXCEPT !.targets[ino] =
                                                Append(Top.path, scan.name)]
                        ELSE scan
          /\ UNCHANGED <<payload, enc>>
HardLink ==
    /\ pc = "hardlink"
    /\ Finish("hardlink", None, scan.targets[scan.before.ino])

\* hash_regular(), then fstat of the descriptor and fstatat of the name.
ReadRegular ==
    /\ pc = "read"
    /\ pc' = "hashed"
    /\ scan' = [scan EXCEPT !.read = node[scan.before.ino].data]
    /\ UNCHANGED <<payload, enc>>
HashRegular == pc = "hashed" /\ Finish("regular", scan.read, <<>>)

\* A symbolic link: readlinkat of whatever the name leads to by now.
ReadLink ==
    LET isLink == Here # None /\ node[Here].type = "symlink" IN
    /\ pc = "symlink"
    /\ \/ /\ isLink
          /\ pc' = "target"
          /\ scan' = [scan EXCEPT !.read = node[Here].data]
          /\ UNCHANGED <<payload, enc>>
       \/ ~isLink /\ Throw
CheckLink == pc = "target" /\ Finish("symlink", scan.read, <<>>)

\* A FIFO or a device is recorded; a socket is refused.
Special == \/ pc = "fifo" /\ Finish("fifo", scan.read, <<>>)
           \/ pc = "socket" /\ Throw

(***************************************************************************)
(* The root stamp is taken once more when the walk is over.  After the     *)
(* first inspection encoding begins; the second one must have found the    *)
(* same root stamp and the same manifest.                                  *)
(***************************************************************************)
SameRoot == Stat(Root) = payload.root
StampOnly == SameRoot
SamePayload == SameRoot /\ scan.entries = payload.entries
Retain ==
    /\ pc = "retain"
    /\ UNCHANGED <<scan, enc>>
    /\ IF payload.entries = <<>>
       THEN /\ pc' = "reopen"
            /\ payload' = [entries |-> scan.entries, stamps |-> scan.stamps,
                           root |-> Stat(Root)]
       ELSE /\ pc' = IF SamePayload THEN "sealed" ELSE "failed"
            /\ UNCHANGED payload
-----------------------------------------------------------------------------
\* encode_artifact()

\* The root is opened again and must have its stamp.
Reopen ==
    /\ pc = "reopen"
    /\ \/ SameRoot /\ pc' = "encode" /\ UNCHANGED <<scan, payload, enc>>
       \/ ~SameRoot /\ Throw

\* The next entry of the manifest: header only, unless it is regular.
Index == Len(enc.archive) + 1
LinksToo(e) == e.type \in {"regular", "hardlink"}
HasContent(e) == e.type = "regular"
Encode ==
    /\ pc = "encode" /\ Index <= Len(payload.entries)
    /\ LET e == payload.entries[Index] IN
       IF HasContent(e)
       THEN /\ pc' = "beneath"
            /\ enc' = [enc EXCEPT !.ino = Root, !.rest = e.path]
       ELSE /\ enc' = [enc EXCEPT !.archive = Append(@, e)]
            /\ UNCHANGED pc
    /\ UNCHANGED <<scan, payload>>

\* The descriptor still is the file inspected.
AnyFile(n) == node[n].type = "regular"
SameStamp(n) == Stat(n) = payload.stamps[Index]

\* open_regular_beneath(): one component; the file must have its stamp.
Beneath ==
    LET n == entry[enc.ino][Head(enc.rest)]
        last == Len(enc.rest) = 1
        ok == n # None /\ IF last THEN SameStamp(n) ELSE node[n].type = "dir"
    IN
    /\ pc = "beneath"
    /\ \/ /\ ok
          /\ pc' = IF last THEN "copy" ELSE "beneath"
          /\ enc' = [enc EXCEPT !.ino = n, !.rest = Tail(@)]
          /\ UNCHANGED <<scan, payload>>
       \/ ~ok /\ Throw

\* write_regular_payload(): the bytes are read and written ...
Copy ==
    /\ pc = "copy"
    /\ pc' = "copied"
    /\ enc' = [enc EXCEPT !.read = node[enc.ino].data]
    /\ UNCHANGED <<scan, payload>>

\* ... and must have the digest, and the file its stamp.
AnyDigest == TRUE
SameDigest == enc.read = payload.entries[Index].data
CopyCheck ==
    LET ok == SameStamp(enc.ino) /\ SameDigest IN
    /\ pc = "copied"
    /\ \/ /\ ok
          /\ pc' = "encode"
          /\ enc' = [enc EXCEPT !.archive = Append(@,
                        [payload.entries[Index] EXCEPT !.data = enc.read])]
          /\ UNCHANGED <<scan, payload>>
       \/ ~ok /\ Throw

\* The archive is closed, the root checked, and the payload inspected again.
EncodeEnd ==
    /\ pc = "encode" /\ Index > Len(payload.entries)
    /\ \/ /\ SameRoot
          /\ pc' = "enter"
          /\ scan' = FreshScan
          /\ since' = changes
          /\ UNCHANGED <<payload, enc>>
       \/ ~SameRoot /\ Throw /\ UNCHANGED since
    /\ UNCHANGED treeVars

Inspecting == \/ Enter \/ List \/ Visit \/ OpenDir \/ LeaveDir
              \/ OpenRegular \/ HardLink \/ ReadRegular \/ HashRegular
              \/ ReadLink \/ CheckLink \/ Special \/ Retain
Encoding == Reopen \/ Encode \/ Beneath \/ Copy \/ CopyCheck
Sealer == (Inspecting \/ Encoding) /\ UNCHANGED <<treeVars, since>>
-----------------------------------------------------------------------------
\* Changes of the tree, external to the library.

Ended == pc \in {"sealed", "failed"}
Attached == {entry[d][m] : d \in Node, m \in EntryName} \ {None}
Dirs == {n \in Attached \cup {Root} : node[n].type = "dir"}

\* Descriptors keep their nodes from being used for other files.
InUse == {f.dir : f \in ToSet(scan.stack)} \cup {scan.before.ino, enc.ino}

\* One change: the nodes of S get the next stamp; entries are as in e.
Change(kind, new, S, e) ==
    /\ ~Ended /\ changes < MaxChanges
    /\ kind \in May(changes, pc)
    /\ changes' = changes + 1
    /\ node' = [n \in Node |-> IF n \in S
                    THEN [new[n] EXCEPT !.stamp = changes + 1] ELSE new[n]]
    /\ entry' = e
    /\ views' = views \cup {[node |-> node', entry |-> entry']}
    /\ UNCHANGED <<coarse, since, pc, scan, payload, enc>>

\* A file is rewritten, or an object gets another mode or owner.
Alter ==
    \E n \in Attached \cup {Root}, v \in Data :
        /\ v # node[n].data
        /\ \E S \in IF coarse /\ node[n].type = "regular"
                    THEN {{}, {n}} ELSE {{n}} :
            Change("alter", [node EXCEPT ![n].data = v], S, entry)

\* A new object is created, or renamed over an old one.
Put ==
    LET free == Node \ (Attached \cup InUse \cup {Root}) IN
    /\ free # {}
    /\ \E d \in Dirs, m \in EntryName, t \in NewTypes, v \in Data :
        LET n == Min(free)
            old == entry[d][m]
        IN
        /\ old \notin Dirs
        /\ Change("put", [node EXCEPT ![n].type = t, ![n].data = v],
                  {d, n, old} \ {None}, [entry EXCEPT ![d][m] = n])

Detach ==
    \E d \in Dirs, m \in EntryName :
        /\ entry[d][m] \notin Dirs \cup {None}
        /\ Change("remove", node, {d, entry[d][m]},
                  [entry EXCEPT ![d][m] = None])

\* A further link to a regular file.
Join ==
    \E d \in Dirs, m \in EntryName, n \in Attached :
        /\ node[n].type = "regular" /\ entry[d][m] = None
        /\ Change("join", node, {d, n}, [entry EXCEPT ![d][m] = n])

\* A directory is renamed within its parent.
Move ==
    \E d \in Dirs, m, k \in EntryName :
        /\ entry[d][m] \in Dirs /\ entry[d][k] = None
        /\ Change("move", node, {d, entry[d][m]},
                  [entry EXCEPT ![d][k] = entry[d][m], ![d][m] = None])

Done == Ended /\ UNCHANGED vars

Next == Sealer \/ EncodeEnd \/ Alter \/ Put \/ Detach \/ Join \/ Move \/ Done
Spec == Init /\ [][Next]_vars
-----------------------------------------------------------------------------
\* Where a path leads in the tree t; Path has the short ones.
Path == UNION {[1 .. k -> EntryName] : k \in 1 .. 3}
Below(t, n, name) == IF n # None /\ t.node[n].type = "dir"
                     THEN t.entry[n][name] ELSE None
At(t, path) ==
    LET walk[k \in 0 .. Len(path)] ==
            IF k = 0 THEN Root ELSE Below(t, walk[k - 1], path[k])
    IN walk[Len(path)]

\* Entry e of a manifest is what the tree t has at its path.
Shows(t, e) ==
    LET n == At(t, e.path) IN
    IF e.type = "hardlink" THEN n # None /\ n = At(t, e.target)
    ELSE n # None /\ t.node[n].type = e.type /\ t.node[n].data = e.data

(***************************************************************************)
(* The regular files of a sealed payload coexisted: there was a moment at  *)
(* which every one of them was there in the very version inspected, and    *)
(* those in the root or in a directory of the root were at their paths,    *)
(* hard links included.  inspect_payload() reads them one after the other; *)
(* it is the stamps compared again by write_regular_payload() that make a  *)
(* moment common to all of them, so the clock must tell changes apart.     *)
(***************************************************************************)
IsHigh(path) == Len(path) <= 2
InVersion(t, e, stamp) ==
    t.node[stamp.ino] = [type |-> "regular", data |-> e.data,
                         stamp |-> stamp.stamp]
RegularFilesAreSnapshot ==
    pc = "sealed" /\ ~coarse =>
        \E t \in views : \A k \in DOMAIN payload.entries :
            LET e == payload.entries[k]
                stamp == payload.stamps[k]
            IN /\ e.type = "regular" => InVersion(t, e, stamp)
               /\ e.type = "regular" /\ IsHigh(e.path) =>
                    At(t, e.path) = stamp.ino
               /\ e.type = "hardlink" /\ IsHigh(e.path) /\ IsHigh(e.target) =>
                    Shows(t, e)

(***************************************************************************)
(* The archive holds, entry by entry, what the manifest says, even when    *)
(* the clock of the file system is too coarse for stamps to tell: bytes    *)
(* are hashed again while they are written.                                *)
(***************************************************************************)
ArchiveIsManifest ==
    pc = "sealed" => enc.archive = payload.entries

(***************************************************************************)
(* What holds still during the second inspection agrees with the manifest, *)
(* in both senses: an object that came into the tree while the first       *)
(* inspection or the encoding was under way, and stays, is not left out,   *)
(* and one that disappeared is not sealed.  (A hard link must have a       *)
(* target that holds still, too.)                                          *)
(***************************************************************************)
Still(path) ==
    LET now == [node |-> node, entry |-> entry] IN
    /\ node[Root].stamp <= since
    /\ \A k \in DOMAIN path : LET n == At(now, SubSeq(path, 1, k)) IN
            n # None => node[n].stamp <= since
SettledPartAgrees ==
    pc = "sealed" /\ ~coarse =>
        \A path \in {p \in Path : Still(p)} :
            LET now == [node |-> node, entry |-> entry]
                found == {e \in ToSet(payload.entries) : e.path = path}
            IN /\ At(now, path) # None <=> found # {}
               /\ \A e \in found :
                    (e.type = "hardlink" => Still(e.target)) => Shows(now, e)

(***************************************************************************)
(* "pathname, metadata, content, hard-link, and directory replacement      *)
(* remain fail-closed" (DESIGN.md), for regular files, whose stamps are    *)
(* compared: those of a sealed payload were all at their paths at some     *)
(* moment.                                                                 *)
(***************************************************************************)
RegularPathsAreSnapshot ==
    pc = "sealed" =>
        \E t \in views : \A e \in ToSet(payload.entries) :
            e.type = "regular" => Shows(t, e)

(***************************************************************************)
(* Sealing fails only for a reason: a tree that nobody touches, that has   *)
(* an entry and no socket, is never refused, whatever its hard links.      *)
(***************************************************************************)
RefusalHasCause ==
    pc = "failed" => \/ Cardinality(views) > 1
                     \/ \A m \in EntryName : entry[Root][m] = None
                     \/ \E n \in Attached : node[n].type = "socket"
=============================================================================
