----------------------------- MODULE Preparation -----------------------------
(***************************************************************************)
(* prepare() of src/src/executor.cpp: the session root and the package     *)
(* output root are emptied and rebuilt, the source objects are exposed     *)
(* read-only, the writable directories are made, and declared archives are *)
(* unpacked into the workspace (SourceArchive).                            *)
(*                                                                         *)
(* A controller may repeat the call: after a failure, after the death of   *)
(* its process, and after a build whose result was not stored.  A build    *)
(* leaves what it likes in the directories it may write to.                *)
(*                                                                         *)
(* A session is a record: objects, each to be unpacked or not, with its    *)
(* archive entries; the file creation mask; whether the process is         *)
(* privileged; and whether a supplied resource aliases an adapter-owned    *)
(* one (module Projection says when).                                      *)
(***************************************************************************)
EXTENDS SourceArchive, FiniteSets

CONSTANTS
    Sessions,       \* the admitted sessions considered
    LocalName(_),   \* the name under which the k-th object is exposed
    MaxBuilds(_)    \* builds that end without a stored result, by session

ASSUME PreparationAssumption ==
    /\ \A s \in Sessions : {MaxFaults(s), MaxBuilds(s)} \subseteq Nat
    /\ Workspace = <<"session", "work">>

\* Archives are sequences of entries, whose paths are sequences of names.
IsSequence(seq) == seq \in Seq(ToSet(seq))
ASSUME SessionsAssumption ==
    \A s \in Sessions :
        /\ {s.privileged, s.aliased} \subseteq BOOLEAN
        /\ IsSequence(s.objects)
        /\ \A k \in DOMAIN s.objects :
            /\ LocalName(k) \in STRING
            /\ s.objects[k].unpack \in BOOLEAN
            /\ IsSequence(s.objects[k].entries)
            /\ \A e \in ToSet(s.objects[k].entries) :
                    {e.path, e.to} \subseteq Seq(STRING)

VARIABLES
    root,       \* the index in Roots of the directory being reset
    builds      \* what is left of the bound

vars == <<session, pc, outcome, tree, entryVars, faults, root, builds>>

\* project_prepared_paths(), and the package output root.
SessionRoot == <<"session">>
SourceTree == <<"session", "source">>
TemporaryRoot == <<"session", "tmp">>
OutputRoot == <<"output">>
Home == Append(Workspace, "home")

\* The directories that prepare() resets, in order, with mode and owner.
Roots == <<[path |-> SessionRoot, mode |-> Private, owner |-> "host"],
           [path |-> Workspace, mode |-> Private, owner |-> "build"],
           [path |-> TemporaryRoot, mode |-> Private, owner |-> "build"],
           [path |-> OutputRoot, mode |-> Bit, owner |-> "build"]>>
Reset == Roots[root]

\* The directory that holds the session root and the package output root.
HostRoot == <<>>

Subtree(p) == {q \in DOMAIN tree : IsPrefix(p, q)}
Directories(S) == {q \in S : IsDirectory(q)}
Without(S) == [q \in DOMAIN tree \ S |-> tree[q]]

Init ==
    /\ session \in Sessions
    /\ pc = "idle"
    /\ outcome = "none"
    /\ tree = [p \in {HostRoot} |-> Directory(Bit, Now, "host", p)]
    /\ object = 1 /\ next = 1 /\ pos = 1
    /\ directories = <<>>
    /\ faults = MaxFaults(session)
    /\ root = 1
    /\ builds = MaxBuilds(session)
-----------------------------------------------------------------------------
\* The controller calls prepare(), again if need be.
Call ==
    /\ pc = "idle"
    /\ pc' = "request"
    /\ outcome' = "none"
    /\ UNCHANGED <<session, tree, entryVars, faults, root, builds>>

\* seal_execution_request() refuses aliased resources before any effect.
BeforeEffects(l) == l = "request"
AfterEffects(l) == l = "admit"
ChecksAliases(l) == BeforeEffects(l)
SealRequest ==
    /\ pc = "request"
    /\ root' = 1
    /\ IF session.aliased /\ ChecksAliases("request")
       THEN Throw
       ELSE pc' = "unlock" /\ UNCHANGED <<outcome, entryVars>>
    /\ UNCHANGED <<session, tree, faults, builds>>

(***************************************************************************)
(* make_tree_removable(): the owner may use every directory of the tree;   *)
(* it may stop after some of them.                                         *)
(***************************************************************************)
Unlocked(t, S) == [q \in DOMAIN t |->
    IF q \in S THEN [t[q] EXCEPT !.mode = @ \cup Private] ELSE t[q]]
LeftLocked(t, S) == t
MadeRemovable(t, S) == Unlocked(t, S)
Unlock ==
    LET all == Directories(Subtree(Reset.path)) IN
    /\ pc = "unlock"
    /\ \/ /\ tree' = MadeRemovable(tree, all)
          /\ pc' = "remove"
          /\ UNCHANGED <<outcome, entryVars, faults>>
       \/ /\ Fault
          /\ \E some \in SUBSET all : tree' = MadeRemovable(tree, some)
          /\ Throw
    /\ UNCHANGED <<session, root, builds>>

\* remove_all(), contents before their directory, in any order; it stops at
\* what it may not remove, and possibly before.
RemoveTree ==
    LET all == Subtree(Reset.path)
        allowed == {q \in all : q = Reset.path \/ MayAdd(q)}
        beside(stop) == {q \in allowed : /\ IsPrefix(Front(q), stop)
                                         /\ ~IsPrefix(q, stop)}
    IN
    /\ pc = "remove"
    /\ \/ /\ allowed = all
          /\ tree' = Without(all)
          /\ pc' = "create"
          /\ UNCHANGED <<outcome, entryVars, faults>>
       \/ /\ Fails(allowed # all)
          /\ \E stop \in all : \E gone \in SUBSET beside(stop) :
                tree' = Without(UNION {Subtree(q) : q \in gone})
          /\ Throw
    /\ UNCHANGED <<session, root, builds>>

(***************************************************************************)
(* create_directories() and chmod(); for a writable directory also         *)
(* fchown(), fchmod() and fsync().  The session root is filled with the    *)
(* source tree before the others are made.                                 *)
(***************************************************************************)
CreateRoot ==
    LET made(mode, owner) ==
            Put(Reset.path, Directory(mode, Now, owner, Reset.path))
    IN
    /\ pc = "create"
    /\ \/ /\ tree' = made(Reset.mode, Reset.owner)
          /\ pc' = CASE root = 1 -> "realize"
                     [] root = Len(Roots) -> "home"
                     [] OTHER -> "unlock"
          /\ root' = IF root = Len(Roots) THEN 1 ELSE root + 1
          /\ UNCHANGED <<outcome, entryVars, faults>>
       \/ /\ Fault
          /\ tree' \in {tree, made(Bit, "host"), made(Reset.mode, "host")}
          /\ Throw
          /\ UNCHANGED root
    /\ UNCHANGED <<session, builds>>

\* realize_source_object_tree() exposes every object under its local name,
\* then takes away the permission to write.
Exposed ==
    LET raw == [k \in DOMAIN session.objects |->
                    Append(SourceTree, LocalName(k))] IN
    [q \in DOMAIN tree \cup Range(raw) \cup {SourceTree} |->
        CASE q = SourceTree -> Directory({"rx", "go"}, 0, "host", q)
          [] q \in Range(raw) ->
                Node("file", {"rx", "go"}, 0, "host", "raw", <<>>, q)
          [] OTHER -> tree[q]]
Realize ==
    /\ pc = "realize"
    /\ \/ /\ tree' = Exposed
          /\ pc' = "unlock"
          /\ UNCHANGED <<outcome, entryVars, faults>>
       \/ /\ Fault
          /\ tree' \in {tree, Exposed}
          /\ Throw
    /\ UNCHANGED <<session, root, builds>>

\* prepare_writable_child(), then the source tree and the workspace are opened.
MakeHome ==
    LET made(owner) == Put(Home, Directory(Private, Now, owner, Home)) IN
    /\ pc = "home"
    /\ \/ /\ tree' = made("build")
          /\ pc' = "object"
          /\ UNCHANGED <<outcome, entryVars, faults>>
       \/ /\ Fault
          /\ tree' \in {tree, made("host"), made("build")}
          /\ Throw
    /\ UNCHANGED <<session, root, builds>>

\* The loop over the source objects: what is not an archive is passed over.
OpenObject ==
    /\ pc = "object"
    /\ object <= Len(session.objects)
    /\ \/ /\ IF session.objects[object].unpack
             THEN pc' = "header" /\ UNCHANGED object
             ELSE object' = object + 1 /\ UNCHANGED pc
          /\ UNCHANGED <<outcome, next, pos, directories, faults>>
       \/ Fault /\ Throw
    /\ UNCHANGED <<session, tree, root, builds>>

\* fsync of the workspace, and execution_resources::admit().
Admit ==
    LET aliased == session.aliased /\ ChecksAliases("admit") IN
    /\ pc = "object"
    /\ object > Len(session.objects)
    /\ \/ /\ ~aliased
          /\ pc' = "ready"
          /\ outcome' = "prepared"
          /\ object' = 1
          /\ UNCHANGED <<next, pos, directories, faults>>
       \/ Fails(aliased) /\ Throw
    /\ UNCHANGED <<session, tree, root, builds>>

UnpackArchive == Unpack /\ UNCHANGED <<root, builds>>
-----------------------------------------------------------------------------
(***************************************************************************)
(* The build runs and leaves no stored result: something new in every      *)
(* directory it may write to, behind a directory nobody may enter, and     *)
(* some of the directories themselves shut.                                *)
(***************************************************************************)
BuildRoots == {Workspace, TemporaryRoot, OutputRoot}
Locked == {Append(p, "junk") : p \in BuildRoots} \ DOMAIN tree
Debris == {Append(p, "file") : p \in Locked}
Built(shut) ==
    [q \in DOMAIN tree \cup Locked \cup Debris |->
        CASE q \in Locked -> Directory({}, Now, "build", q)
          [] q \in Debris -> Node("file", {}, Now, "build", "junk", <<>>, q)
          [] q \in shut -> [tree[q] EXCEPT !.mode = {}]
          [] OTHER -> tree[q]]
Build ==
    /\ pc = "ready"
    /\ builds > 0
    /\ builds' = builds - 1
    /\ \E shut \in SUBSET BuildRoots : tree' = Built(shut)
    /\ pc' = "idle"
    /\ outcome' = "none"
    /\ UNCHANGED <<session, entryVars, faults, root>>

\* Prepared, and nothing is left to happen.
Done == pc = "ready" /\ builds = 0 /\ UNCHANGED vars

Step ==
    \/ Call \/ SealRequest \/ Unlock \/ RemoveTree \/ CreateRoot \/ Realize
    \/ MakeHome \/ OpenObject \/ UnpackArchive \/ Admit

Next == Step \/ Build \/ Done

Spec == Init /\ [][Next]_vars

\* The process runs, and the controller calls again until it is prepared.
FairSpec == Spec /\ WF_vars(Step)
-----------------------------------------------------------------------------
(***************************************************************************)
(* What the archives of a session declare, without regard to the order in  *)
(* which the code meets it.  An entry is <<object, index>>.                *)
(***************************************************************************)
Archives == {k \in DOMAIN session.objects : session.objects[k].unpack}
Entries == UNION {{k} \X (DOMAIN session.objects[k].entries) : k \in Archives}
At(x) == session.objects[x[1]].entries[x[2]]
Place(x) == Workspace \o Trimmed(At(x).path)
Precedes(x, y) == x[1] < y[1] \/ (x[1] = y[1] /\ x[2] < y[2])
Strictly(p, q) == IsStrictPrefix(p, q)

\* Nothing collides, hard links follow their files, and no archive declares
\* a directory that another one has made.
Consistent ==
    /\ \A k \in Archives : session.objects[k].entries # <<>>
    /\ \A x \in Entries :
        /\ At(x).type \in {"dir", "file", "link", "hard"}
        /\ IsCanonical(Trimmed(At(x).path))
        /\ At(x).type = "link" => StaysBeneath(At(x))
        /\ Place(x) # Home
        /\ At(x).type = "hard" => \E y \in Entries :
            /\ Precedes(y, x)
            /\ At(y).type \in {"file", "hard"}
            /\ Trimmed(At(y).path) = Trimmed(At(x).to)
    /\ \A x, y \in Entries : x # y =>
        /\ Place(x) # Place(y)
        /\ Strictly(Place(x), Place(y)) =>
            At(x).type = "dir" /\ x[1] <= y[1]

\* Another archive never has to enter a directory its owner may not use.
Usable ==
    \/ session.privileged
    \/ Cardinality(Archives) <= 1
    \/ /\ Private \cap session.mask = {}
       /\ \A x \in Entries :
            At(x).type = "dir" => Private \subseteq At(x).mode

Preparable == ~session.aliased /\ Consistent /\ Usable

(***************************************************************************)
(* When prepare() returns, the host holds what the session declares and    *)
(* nothing else: whatever earlier attempts, earlier builds and the order   *)
(* of the archive entries were.  An object has the declared data, mode     *)
(* (masked, "admitted-umask mode realization", DESIGN.md) and time, a      *)
(* directory nobody declared the default ones; hard links are one file;    *)
(* the writable roots are empty, the build's own and private.  (The time   *)
(* of a directory that a later archive adds to, and of the writable        *)
(* directories, is the time of preparation: nothing restores it.)          *)
(***************************************************************************)
Masked(mode) == (mode \cap Bit) \ session.mask
Grows(p, k) == \E y \in Entries : y[1] > k /\ Strictly(p, Place(y))
Matches(x) ==
    LET e == At(x)
        made == tree[Place(x)]
    IN
    CASE e.type = "file" -> made = Node("file", Masked(e.mode), e.mtime,
                                "host", e.data, <<>>, Place(x))
      [] e.type = "hard" -> made = tree[Workspace \o Trimmed(e.to)]
      [] e.type = "link" -> made.type = "link" /\ made.to = e.to
                            /\ made.mtime = e.mtime
      [] e.type = "dir" ->
            /\ made.type = "dir" /\ made.owner = "host"
            /\ made.mode = Masked(e.mode)
            /\ made.mtime = e.mtime \/ Grows(Place(x), x[1])
Implicit == {p \in DOMAIN tree : /\ IsStrictPrefix(Workspace, p)
                                 /\ p # Home
                                 /\ \A x \in Entries : Place(x) # p}
MatchesDefault(p) ==
    LET users == {x \in Entries : Strictly(p, Place(x))}
        first == CHOOSE x \in users : \A y \in users \ {x} : Precedes(x, y)
    IN
    /\ users # {}
    /\ tree[p].type = "dir"
    /\ tree[p].mode = Bit \ session.mask
    /\ tree[p].mtime = 0 \/ Grows(p, first[1])
Fixed == {HostRoot, SourceTree, Home} \cup {Roots[k].path : k \in DOMAIN Roots}
         \cup {Append(SourceTree, LocalName(k)) : k \in DOMAIN session.objects}
PreparedAsDeclared ==
    pc = "ready" =>
        /\ ~session.aliased /\ Consistent
        /\ Fixed \subseteq DOMAIN tree
        /\ \A p \in DOMAIN tree \ Fixed : IsStrictPrefix(Workspace, p)
        /\ \A k \in DOMAIN Roots : /\ tree[Roots[k].path].mode = Roots[k].mode
                                   /\ tree[Roots[k].path].owner = Roots[k].owner
        /\ tree[Home].mode = Private /\ tree[Home].owner = "build"
        /\ \A p \in Subtree(SourceTree) : "w" \notin tree[p].mode
        /\ \A x \in Entries : Place(x) \in DOMAIN tree /\ Matches(x)
        /\ \A p \in Implicit : MatchesDefault(p)

(***************************************************************************)
(* As long as no system call fails, prepare() refuses only what cannot be  *)
(* prepared: neither an order of entries, a restrictive mode, nor what an  *)
(* earlier attempt or build left behind is a reason.                       *)
(***************************************************************************)
RefusesOnlyInconsistent ==
    outcome = "failed" /\ faults = MaxFaults(session) => ~Preparable

(***************************************************************************)
(* A controller that calls again comes to a prepared session whatever      *)
(* failed attempts, dead processes and builds have left on the host: the   *)
(* reset undoes modes that would block it.                                 *)
(***************************************************************************)
RetryPrepares == Preparable => []<>(pc = "ready")

(***************************************************************************)
(* "a caller-supplied package-input resource cannot alias an adapter-owned *)
(* ... resource.  That refusal occurs before effectful preparation begins" *)
(* (TESTING.md): such a session never touches the host.                    *)
(***************************************************************************)
AliasLeavesHostAlone == [][session.aliased => tree' = tree]_vars

(***************************************************************************)
(* Type invariant.  Whatever is interrupted, the host holds a tree: every  *)
(* object is in a directory, hard links agree, and the pending metadata is *)
(* about directories this archive made.                                    *)
(***************************************************************************)
NodeOK(p) ==
    /\ tree[p].type \in {"dir", "file", "link"}
    /\ tree[p].mode \subseteq Bit
    /\ tree[p].owner \in {"host", "build"}
    /\ p # HostRoot => Front(p) \in DOMAIN tree /\ IsDirectory(Front(p))
TypeOK ==
    /\ pc \in {"idle", "request", "unlock", "remove", "create", "realize",
               "home", "object", "header", "parent", "seal", "ready"}
    /\ outcome \in {"none", "failed", "prepared"}
    /\ outcome = "prepared" <=> pc = "ready"
    /\ \A p \in DOMAIN tree : NodeOK(p)
    /\ \A p, q \in DOMAIN tree : tree[p].ino = tree[q].ino => tree[p] = tree[q]
    /\ \A p \in DOMAIN directories :
        Workspace \o p \in DOMAIN tree /\ IsDirectory(Workspace \o p)
    /\ root \in DOMAIN Roots
    /\ faults \in 0 .. MaxFaults(session)
    /\ builds \in 0 .. MaxBuilds(session)
=============================================================================
