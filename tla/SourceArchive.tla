---------------------------- MODULE SourceArchive ----------------------------
(***************************************************************************)
(* source_archive_backend::unpack() of                                     *)
(* src/src/source_archive_libarchive.cpp: a declared source archive        *)
(* becomes files in the build workspace, one action per header, per parent *)
(* component, per object created and per directory sealed.                 *)
(*                                                                         *)
(* A host path is a sequence of names; `tree' maps the paths that exist to *)
(* what is there.  Hard links share `ino', the path the file was made at.  *)
(* Of a mode three bits matter: the owner may read and search ("rx"), the  *)
(* owner may write ("w"), others may do something ("go"); archives also    *)
(* carry bits no extracted object gets ("setid").                          *)
(***************************************************************************)
EXTENDS Naturals, Sequences, SequencesExt

CONSTANTS
    Workspace,      \* the host path of the build workspace
    MaxFaults(_)    \* system calls that fail, or deaths of the process, by
                    \* session

VARIABLES
    session,        \* objects to unpack, mask, privileges (see Preparation)
    pc,             \* the next step of the call
    outcome,        \* how the last call ended
    tree,           \* [path -> node]: the places of this session on the host
    object,         \* the source object at hand
    next,           \* its next entry
    pos,            \* the parent component of that entry at hand
    directories,    \* directory_map: [path -> mode, mtime, explicit]
    faults          \* what is left of the bound

entryVars == <<object, next, pos, directories>>

Blank == ""                 \* an empty component, or no data
Bit == {"rx", "w", "go"}
Private == {"rx", "w"}      \* 0700, and 0600 of a file
Now == 9                    \* a modification time no archive declares

Node(type, mode, mtime, owner, data, to, ino) ==
    [type |-> type, mode |-> mode, mtime |-> mtime, owner |-> owner,
     data |-> data, to |-> to, ino |-> ino]
Directory(mode, mtime, owner, p) ==
    Node("dir", mode, mtime, owner, Blank, <<>>, p)

IsDirectory(p) == tree[p].type = "dir"
AnyObject(p) == TRUE
PassesThrough(p) == IsDirectory(p)

\* A privileged process is never refused; another one owns what it meets.
MayUse(p, bits) == session.privileged \/ bits \subseteq tree[p].mode
MayAdd(p) == MayUse(Front(p), {"rx", "w"})

With(map, key, value) ==
    [k \in DOMAIN map \cup {key} |-> IF k = key THEN value ELSE map[k]]

\* A new name in a directory, whose modification time changes with it.
Put(p, node) == With([tree EXCEPT ![Front(p)].mtime = Now], p, node)

Fault == faults > 0 /\ faults' = faults - 1
Fails(cond) == (cond /\ UNCHANGED faults) \/ Fault

\* An exception leaves prepare(); what was done stays.
Throw == /\ pc' = "idle"
         /\ outcome' = "failed"
         /\ object' = 1 /\ next' = 1 /\ pos' = 1
         /\ directories' = <<>>
-----------------------------------------------------------------------------
\* Entries.

Entry == session.objects[object].entries[next]

\* parse_archive_path(): trailing slashes are dropped; the rest has to be a
\* relative path of ordinary names.  A leading slash is an empty first part.
Trimmed(raw) ==
    SubSeq(raw, 1, SelectLastInSeq(raw, LAMBDA part : part # Blank))
IsCanonical(path) ==
    path # <<>> /\ \A k \in DOMAIN path : path[k] \notin {Blank, ".", ".."}

\* symlink_target_stays_beneath(): the depth reached, part by part.
Descent(depth, part) == IF part \in {Blank, "."} \/ depth < 0 THEN depth
                        ELSE IF part = ".." THEN depth - 1 ELSE depth + 1
StaysBeneath(e) ==
    /\ e.to # <<>> /\ e.to[1] # Blank
    /\ \A k \in 0 .. Len(e.to) :
        FoldLeft(Descent, Len(Trimmed(e.path)) - 1, SubSeq(e.to, 1, k)) >= 0

\* extract_hardlink(): a regular file extracted already, reached through
\* directories only (O_NOFOLLOW).
HasTarget(e) ==
    LET target == Trimmed(e.to) IN
    /\ IsCanonical(target)
    /\ \A k \in 1 .. Len(target) - 1 :
        LET p == Workspace \o SubSeq(target, 1, k) IN
        p \in DOMAIN tree /\ IsDirectory(p) /\ MayUse(p, {"rx"})
    /\ Workspace \o target \in DOMAIN tree
    /\ tree[Workspace \o target].type = "file"

\* What unpack() requires of a header before it touches the workspace; raw
\* data and other types of objects are refused.
Acceptable(e) ==
    /\ e.type \in {"dir", "file", "link", "hard"}
    /\ IsCanonical(Trimmed(e.path))
    /\ e.type = "hard" => HasTarget(e)
    /\ e.type = "link" => StaysBeneath(e)

Relative == Trimmed(Entry.path)
Destination == Workspace \o Relative

\* admitted_mode()
Admitted(mode) == (mode \cap Bit) \ session.mask
-----------------------------------------------------------------------------
\* archive_read_next_header() and the checks on what it returned.
ReadHeader ==
    LET all == session.objects[object].entries IN
    /\ pc = "header"
    /\ \/ /\ next <= Len(all) /\ Acceptable(Entry)
          /\ pc' = "parent"
          /\ pos' = 1
          /\ UNCHANGED <<outcome, object, next, directories, faults>>
       \/ /\ next > Len(all) /\ next > 1
          /\ pc' = "seal"
          /\ UNCHANGED <<outcome, entryVars, faults>>
       \/ /\ Fails(IF next <= Len(all) THEN ~Acceptable(Entry) ELSE next = 1)
          /\ Throw
    /\ UNCHANGED <<session, tree>>

\* open_parent(), one component: a missing one is created.
OpenParent ==
    LET here == Workspace \o SubSeq(Relative, 1, pos)
        made == Put(here, Directory(Private, Now, "host", here))
        open == here \in DOMAIN tree /\ PassesThrough(here)
                                     /\ MayUse(here, {"rx"})
        make == here \notin DOMAIN tree /\ MayAdd(here)
    IN
    /\ pc = "parent"
    /\ pos < Len(Relative)
    /\ \/ /\ open
          /\ pos' = pos + 1
          /\ UNCHANGED <<pc, outcome, tree, object, next, directories, faults>>
       \/ /\ make
          /\ tree' = made
          /\ directories' =
                With(directories, SubSeq(Relative, 1, pos),
                     [mode |-> Admitted(Bit), mtime |-> 0, explicit |-> FALSE])
          /\ pos' = pos + 1
          /\ UNCHANGED <<pc, outcome, object, next, faults>>
       \/ /\ Fails(~open /\ ~make)
          /\ tree' = tree \/ (make /\ tree' = made)
          /\ Throw
    /\ UNCHANGED session

\* The entry is done.
NextEntry == /\ pc' = "header"
             /\ next' = next + 1
             /\ pos' = 1
             /\ UNCHANGED <<outcome, object>>

\* require_absent(), and the creation of the object itself.
Create(node, partial, map) ==
    LET free == Destination \notin DOMAIN tree /\ MayAdd(Destination) IN
    \/ /\ free
       /\ tree' = Put(Destination, node)
       /\ directories' = map
       /\ NextEntry
       /\ UNCHANGED faults
    \/ /\ Fails(~free)
       /\ tree' = tree \/ (free /\ tree' = Put(Destination, partial))
       /\ Throw

\* The header has been accepted and its parents are open.
AtLeaf(type) ==
    pc = "parent" /\ pos = Len(Relative) /\ Entry.type = type

(***************************************************************************)
(* extract_directory(): one that entries before it implied takes over the  *)
(* declared metadata, once.                                                *)
(***************************************************************************)
Declaration == [mode |-> Admitted(Entry.mode), mtime |-> Entry.mtime,
                explicit |-> TRUE]
Implied == [directories[Relative] EXCEPT !.explicit = TRUE]
TakesOver == Declaration
ExtractDirectory ==
    LET fresh == Directory(Private, Now, "host", Destination) IN
    /\ AtLeaf("dir")
    /\ IF Relative \in DOMAIN directories
       THEN /\ UNCHANGED <<tree, faults>>
            /\ IF directories[Relative].explicit THEN Throw
               ELSE /\ directories' = [directories EXCEPT
                                            ![Relative] = TakesOver]
                    /\ NextEntry
       ELSE Create(fresh, fresh, With(directories, Relative, Declaration))
    /\ UNCHANGED session

\* write_regular_data() may stop at any moment.
HalfWritten ==
    Node("file", Private, Now, "host", "partial", <<>>, Destination)
ExtractRegular ==
    /\ AtLeaf("file")
    /\ Create(Node("file", Admitted(Entry.mode), Entry.mtime, "host",
                   Entry.data, <<>>, Destination),
              HalfWritten, directories)
    /\ UNCHANGED session

ExtractSymlink ==
    LET link(mtime) == Node("link", Bit, mtime, "host", Blank, Entry.to,
                            Destination)
    IN
    /\ AtLeaf("link")
    /\ Create(link(Entry.mtime), link(Now), directories)
    /\ UNCHANGED session

ExtractHardlink ==
    LET file == tree[Workspace \o Trimmed(Entry.to)] IN
    /\ AtLeaf("hard")
    /\ Create(file, file, directories)
    /\ UNCHANGED session

(***************************************************************************)
(* seal_directories(): children before their parents, each opened from the *)
(* workspace down.                                                         *)
(***************************************************************************)
TopmostFirst(D) == CHOOSE p \in D : \A q \in D : Len(p) <= Len(q)
DeepestFirst(D) == CHOOSE p \in D : \A q \in D : Len(q) <= Len(p)
SealDirectory ==
    LET p == DeepestFirst(DOMAIN directories)
        here == Workspace \o p
        open == \A k \in 1 .. Len(p) :
                    MayUse(Workspace \o SubSeq(p, 1, k), {"rx"})
        chmod == [tree EXCEPT ![here].mode = directories[p].mode]
    IN
    /\ pc = "seal"
    /\ DOMAIN directories # {}
    /\ \/ /\ open
          /\ tree' = [chmod EXCEPT ![here].mtime = directories[p].mtime]
          /\ directories' = [q \in DOMAIN directories \ {p} |-> directories[q]]
          /\ UNCHANGED <<pc, outcome, object, next, pos, faults>>
       \/ /\ Fails(~open)
          /\ tree' = tree \/ (open /\ tree' = chmod)
          /\ Throw
    /\ UNCHANGED session

\* archive_read_close(); the next source object follows.
CloseArchive ==
    /\ pc = "seal"
    /\ DOMAIN directories = {}
    /\ \/ /\ pc' = "object"
          /\ object' = object + 1
          /\ next' = 1 /\ pos' = 1
          /\ UNCHANGED <<outcome, directories, faults>>
       \/ Fault /\ Throw
    /\ UNCHANGED <<session, tree>>

Unpack ==
    \/ ReadHeader \/ OpenParent
    \/ ExtractDirectory \/ ExtractRegular \/ ExtractSymlink \/ ExtractHardlink
    \/ SealDirectory \/ CloseArchive
=============================================================================
