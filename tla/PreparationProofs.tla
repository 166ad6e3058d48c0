-------------------------- MODULE PreparationProofs --------------------------
(***************************************************************************)
(* What prepare() guarantees, for every set of sessions, every archive and *)
(* any number of failures, deaths and builds.                              *)
(***************************************************************************)
EXTENDS Preparation, SequenceLemmas

\* Paths.  (The provers do not know that a literal is a string.)
Name == STRING \cup {"session", "output", "source", "work", "tmp", "home",
                     "junk", "file"}
Names == Seq(Name)

(***************************************************************************)
(* The tree, whatever was interrupted: nodes are complete, every object is *)
(* in a directory and below the session root or the output root, and only  *)
(* files of the workspace share an inode.                                  *)
(***************************************************************************)
IsNode(n) ==
    /\ n = Node(n.type, n.mode, n.mtime, n.owner, n.data, n.to, n.ino)
    /\ n.type \in {"dir", "file", "link"}
    /\ n.mode \subseteq Bit
    /\ n.owner \in {"host", "build"}
Holds(t, p) == p \in DOMAIN t /\ t[p].type = "dir"
Below(p) == IsStrictPrefix(Workspace, p)
Inhabited(p) == IsPrefix(SessionRoot, p) \/ IsPrefix(OutputRoot, p)
Sound(t) ==
    /\ Holds(t, HostRoot)
    /\ \A p \in DOMAIN t :
        /\ p \in Names
        /\ IsNode(t[p])
        /\ p # HostRoot => Holds(t, Front(p)) /\ Inhabited(p)
        /\ \/ t[p].ino = p
           \/ t[p].type = "file" /\ Below(p) /\ Below(t[p].ino)
    /\ \A p, q \in DOMAIN t : t[p].ino = t[q].ino => t[p] = t[q]

(***************************************************************************)
(* Where the call is.                                                      *)
(***************************************************************************)
Resetting == {"unlock", "remove", "create"}
InArchive == {"header", "parent", "seal"}
Unpacking == {"object"} \cup InArchive

Counters ==
    /\ pc \in {"idle", "request", "unlock", "remove", "create", "realize",
               "home", "object", "header", "parent", "seal", "ready"}
    /\ outcome \in {"none", "failed", "prepared"}
    /\ outcome = "prepared" <=> pc = "ready"
    /\ root \in DOMAIN Roots
    /\ faults \in 0 .. MaxFaults(session)
    /\ builds \in 0 .. MaxBuilds(session)

Control ==
    /\ session \in Sessions
    /\ object \in Nat \ {0} /\ next \in Nat \ {0} /\ pos \in Nat \ {0}
    /\ session.aliased => pc \in {"idle", "request"}
    /\ pc \in {"home", "ready"} \cup Unpacking => root = 1
    /\ pc = "realize" => root = 2
    /\ pc \notin Unpacking => object = 1
    /\ pc \in Unpacking => object <= Len(session.objects) + 1
    /\ pc \notin InArchive => next = 1 /\ DOMAIN directories = {}
    /\ pc \in InArchive =>
        /\ object <= Len(session.objects) /\ session.objects[object].unpack
        /\ next <= Len(session.objects[object].entries) + 1
    /\ pc = "parent" =>
        /\ next <= Len(session.objects[object].entries)
        /\ Relative # <<>> /\ pos <= Len(Relative)
    /\ pc = "seal" =>
        next = Len(session.objects[object].entries) + 1 /\ next > 1
    /\ IsFiniteSet(DOMAIN directories)

(***************************************************************************)
(* What has been rebuilt, and that nothing else is left.                   *)
(***************************************************************************)
Rebuilt == CASE pc \in Resetting -> 1 .. root - 1
             [] pc = "realize" -> {1}
             [] pc \in {"home", "ready"} \cup Unpacking -> 1 .. 4
             [] OTHER -> {}
Sources == {SourceTree} \cup
           {Append(SourceTree, LocalName(k)) : k \in DOMAIN session.objects}
HasSources == \/ pc \in Resetting /\ root > 1
              \/ pc \in {"home", "ready"} \cup Unpacking
HasHome == pc \in {"ready"} \cup Unpacking
Known == {HostRoot} \cup {Roots[k].path : k \in Rebuilt}
         \cup (IF HasSources THEN Sources ELSE {})
         \cup (IF HasHome THEN {Home} ELSE {})

Stage ==
    pc \notin {"idle", "request"} =>
    /\ Known \subseteq DOMAIN tree
    /\ \A k \in Rebuilt :
        /\ IsDirectory(Roots[k].path)
        /\ tree[Roots[k].path].mode = Roots[k].mode
        /\ tree[Roots[k].path].owner = Roots[k].owner
    /\ HasHome => /\ IsDirectory(Home) /\ tree[Home].mode = Private
                  /\ tree[Home].owner = "build"
    /\ HasSources => \A p \in Sources : "w" \notin tree[p].mode
    /\ \A p \in DOMAIN tree :
        \/ p \in Known
        \/ pc \in {"unlock", "remove"} /\ root = 1
        \/ 4 \notin Rebuilt /\ IsPrefix(OutputRoot, p)
        \/ HasHome /\ Below(p)
    /\ pc = "create" => Subtree(Reset.path) = {}

\* Every inode is one that is there.
Closed == HasHome => \A p \in DOMAIN tree : tree[p].ino \in DOMAIN tree

(***************************************************************************)
(* The entries extracted so far, and the directories opened for the next.  *)
(***************************************************************************)
Finished == {x \in Entries : Precedes(x, <<object, next>>)}
Opened == IF pc = "parent"
          THEN {Workspace \o SubSeq(Relative, 1, k) : k \in 1 .. pos - 1}
          ELSE {}

Pending(d) ==
    LET p == Workspace \o d
        m == directories[d]
    IN
    /\ d \in Names /\ d # <<>>
    /\ p \in DOMAIN tree /\ IsDirectory(p) /\ tree[p].owner = "host"
    /\ p # Home
    /\ m = [mode |-> m.mode, mtime |-> m.mtime, explicit |-> m.explicit]
    /\ m.explicit \in BOOLEAN
    /\ m.explicit => \E x \in Finished :
        /\ x[1] = object /\ Place(x) = p /\ At(x).type = "dir"
        /\ m.mode = Masked(At(x).mode) /\ m.mtime = At(x).mtime
    /\ ~m.explicit => /\ m.mode = Bit \ session.mask /\ m.mtime = 0
                      /\ \A x \in Finished : Place(x) # p
    /\ \A x \in Finished : IsPrefix(p, Place(x)) => x[1] = object

Regular(x) ==
    /\ At(x).type \in {"dir", "file", "link", "hard"}
    /\ IsCanonical(Trimmed(At(x).path))
    /\ At(x).type = "link" => StaysBeneath(At(x))
    /\ Place(x) # Home
    /\ At(x).type = "hard" => \E y \in Finished :
        /\ Precedes(y, x)
        /\ At(y).type \in {"file", "hard"}
        /\ Trimmed(At(y).path) = Trimmed(At(x).to)

\* Its metadata will no longer be set.
Closing(k) == k < object \/ pc = "seal"
Extracted(x) ==
    LET e == At(x)
        made == tree[Place(x)]
    IN
    /\ Place(x) \in DOMAIN tree
    /\ e.type \in {"file", "hard"} => made.type = "file"
    /\ e.type \in {"file", "hard", "link"} => Matches(x)
    /\ e.type = "dir" =>
        /\ made.type = "dir" /\ made.owner = "host"
        /\ \/ \E d \in DOMAIN directories : Place(x) = Workspace \o d
           \/ Matches(x) /\ Closing(x[1])

Apart(x, y) ==
    /\ Place(x) # Place(y)
    /\ Strictly(Place(x), Place(y)) => At(x).type = "dir" /\ x[1] <= y[1]

Users(p) == {x \in Finished : Strictly(p, Place(x))}
ByDefault(p) ==
    /\ IsDirectory(p)
    /\ p \in Opened \/ Users(p) # {}
    /\ \/ \E d \in DOMAIN directories : p = Workspace \o d
       \/ /\ tree[p].mode = Bit \ session.mask
          /\ \E x \in Users(p) : Closing(x[1])
          /\ \/ tree[p].mtime = 0
             \/ \E x \in Users(p), y \in Entries :
                    Strictly(p, Place(y)) /\ x[1] < y[1]

Accepted ==
    pc = "parent" =>
        /\ Entry.type \in {"dir", "file", "link", "hard"}
        /\ IsCanonical(Relative)
        /\ Entry.type = "link" => StaysBeneath(Entry)
        /\ Entry.type = "hard" =>
            LET target == Workspace \o Trimmed(Entry.to) IN
            /\ IsCanonical(Trimmed(Entry.to))
            /\ target \in DOMAIN tree /\ tree[target].type = "file"
Archived ==
    pc \in Unpacking =>
    /\ \A k \in Archives : k < object => session.objects[k].entries # <<>>
    /\ \A d \in DOMAIN directories : Pending(d)
    /\ \A x \in Finished : Regular(x) /\ Extracted(x)
    /\ \A x, y \in Finished : x # y => Apart(x, y)
    /\ \A p \in Opened : p \in DOMAIN tree /\ IsDirectory(p)
    /\ \A p \in DOMAIN tree :
        Below(p) /\ p # Home /\ (\A x \in Finished : Place(x) # p) => ByDefault(p)
    /\ Accepted

Inv == /\ Counters /\ Control /\ Sound(tree) /\ Stage /\ Closed /\ Archived
       /\ PreparedAsDeclared

(***************************************************************************)
(* Permissions.                                                            *)
(***************************************************************************)
InWorkspace(p) == p = Workspace \/ Below(p)
AllOpen == \A p \in DOMAIN tree :
    InWorkspace(p) /\ IsDirectory(p) => Private \subseteq tree[p].mode
Permitted ==
    Preparable /\ ~session.privileged =>
    /\ \/ pc \in {"header", "parent"}
       \/ pc = "object" /\ \A k \in Archives : object <= k
       \/ pc \in Unpacking /\ Cardinality(Archives) > 1
       => AllOpen
    /\ pc = "seal" => \A d \in DOMAIN directories : \A k \in 1 .. Len(d) :
            "rx" \in tree[Workspace \o SubSeq(d, 1, k)].mode
    /\ pc = "remove" => \A p \in Directories(Subtree(Reset.path)) :
            Private \subseteq tree[p].mode
-----------------------------------------------------------------------------
(***************************************************************************)
(* Paths.                                                                  *)
(***************************************************************************)
\* Sessions, part by part.
LEMMA SessionFacts ==
  ASSUME NEW s \in Sessions
  PROVE  /\ s.privileged \in BOOLEAN /\ s.aliased \in BOOLEAN
         /\ Len(s.objects) \in Nat /\ DOMAIN s.objects = 1 .. Len(s.objects)
         /\ MaxFaults(s) \in Nat /\ MaxBuilds(s) \in Nat
         /\ \A k \in DOMAIN s.objects :
              /\ LocalName(k) \in Name
              /\ s.objects[k].unpack \in BOOLEAN
              /\ Len(s.objects[k].entries) \in Nat
              /\ DOMAIN s.objects[k].entries = 1 .. Len(s.objects[k].entries)
              /\ (s.objects[k].entries = <<>>) <=> (Len(s.objects[k].entries) = 0)
              /\ \A i \in DOMAIN s.objects[k].entries :
                    /\ s.objects[k].entries[i].path \in Names
                    /\ s.objects[k].entries[i].to \in Names
<1>1. /\ {s.privileged, s.aliased} \subseteq BOOLEAN
      /\ s.objects \in Seq(ToSet(s.objects))
      /\ \A k \in DOMAIN s.objects :
            /\ LocalName(k) \in Name
            /\ s.objects[k].unpack \in BOOLEAN
            /\ s.objects[k].entries \in Seq(ToSet(s.objects[k].entries))
            /\ \A e \in ToSet(s.objects[k].entries) :
                    {e.path, e.to} \subseteq Names
  <2>1. STRING \subseteq Name /\ Seq(STRING) \subseteq Names
    <3>1. STRING \subseteq Name
      BY DEF Name
    <3> QED BY <3>1, SeqMonotonic DEF Names
  <2> QED BY <2>1, SessionsAssumption DEF IsSequence
<1>2. MaxFaults(s) \in Nat /\ MaxBuilds(s) \in Nat
  BY PreparationAssumption
<1>3. Len(s.objects) \in Nat /\ DOMAIN s.objects = 1 .. Len(s.objects)
  BY <1>1, LenProperties
<1>4. ASSUME NEW k \in DOMAIN s.objects
      PROVE  /\ LocalName(k) \in Name
             /\ s.objects[k].unpack \in BOOLEAN
             /\ Len(s.objects[k].entries) \in Nat
             /\ DOMAIN s.objects[k].entries = 1 .. Len(s.objects[k].entries)
             /\ (s.objects[k].entries = <<>>) <=> (Len(s.objects[k].entries) = 0)
             /\ \A i \in DOMAIN s.objects[k].entries :
                    /\ s.objects[k].entries[i].path \in Names
                    /\ s.objects[k].entries[i].to \in Names
  <2> DEFINE es == s.objects[k].entries
  <2>1. es \in Seq(ToSet(es))
    BY <1>1
  <2>2. Len(es) \in Nat /\ DOMAIN es = 1 .. Len(es) /\ (es = <<>> <=> Len(es) = 0)
    <3> HIDE DEF es
    <3> QED BY <2>1, LenProperties, EmptySeq
  <2>3. \A i \in DOMAIN es : es[i].path \in Names /\ es[i].to \in Names
    <3>1. \A i \in DOMAIN es : es[i] \in ToSet(es)
      BY DEF ToSet
    <3> QED BY <1>1, <3>1
  <2> QED BY <1>1, <2>2, <2>3
<1> QED BY <1>1, <1>2, <1>3, <1>4

\* Without its trailing slashes a path is a path.
LEMMA TrimmedIsPath ==
  ASSUME NEW raw \in Names
  PROVE  Trimmed(raw) \in Names
<1> DEFINE I == {i \in 1 .. Len(raw) : raw[i] # Blank}
           n == SelectLastInSeq(raw, LAMBDA part : part # Blank)
<1>1. Len(raw) \in Nat
  BY LenProperties DEF Names
<1>2. n = IF I # {} THEN Max(I) ELSE 0
  BY DEF SelectLastInSeq
<1>3. I \subseteq Nat
  BY <1>1
<1>4. I # {} => Max(I) \in I
  <2>1. SUFFICES ASSUME I # {} PROVE Max(I) \in I
    OBVIOUS
  <2> DEFINE D == {Len(raw) - i : i \in I}
  <2>2. D \subseteq Nat /\ D # {}
    BY <1>1, <2>1
  <2>3. PICK d \in D : \A e \in D : d <= e
    <3> HIDE DEF D
    <3> QED BY <2>2, MinExists
  <2>4. PICK i \in I : d = Len(raw) - i
    BY <2>3
  <2>5. \A j \in I : j <= i
    <3>1. SUFFICES ASSUME NEW j \in I PROVE j <= i
      OBVIOUS
    <3>2. Len(raw) - i <= Len(raw) - j
      BY <2>3, <2>4
    <3> QED BY <1>1, <1>3, <2>4, <3>2
  <2>6. \E x \in I : \A y \in I : x >= y
    <3> HIDE DEF I
    <3> QED BY <1>3, <2>4, <2>5
  <2> HIDE DEF I
  <2> QED BY <2>6 DEF Max
<1>5. n \in 0 .. Len(raw)
  BY <1>1, <1>2, <1>4
<1> HIDE DEF n
<1>6. SubSeq(raw, 1, n) \in Seq(Name)
  BY <1>5, PrefixIsSubSeq DEF Names
<1> QED BY <1>6 DEF Trimmed, n, Names

\* Prefix is an order of paths, linear below each of them.
LEMMA PathOrder ==
  /\ \A p \in Names : Len(p) \in Nat /\ IsPrefix(p, p) /\ IsPrefix(HostRoot, p)
  /\ HostRoot \in Names
  /\ \A p, q \in Names : IsPrefix(p, q) /\ IsPrefix(q, p) => p = q
  /\ \A p, q \in Names : IsPrefix(p, q) /\ p # q => Len(p) < Len(q)
  /\ \A p, q, r \in Names : IsPrefix(p, q) /\ IsPrefix(q, r) => IsPrefix(p, r)
  /\ \A p, q, r \in Names :
        IsPrefix(p, r) /\ IsPrefix(q, r) => IsPrefix(p, q) \/ IsPrefix(q, p)
  /\ \A p \in Names : p # HostRoot =>
        /\ Front(p) \in Names /\ IsPrefix(Front(p), p) /\ Front(p) # p
        /\ Len(Front(p)) = Len(p) - 1
        /\ \A q \in Names : IsPrefix(q, p) /\ q # p => IsPrefix(q, Front(p))
<1>1. \A p \in Names : Len(p) \in Nat
  BY LenProperties DEF Names
<1>2. HostRoot \in Names
  BY EmptySeq DEF Names, HostRoot
<1> QED BY <1>1, <1>2, PrefixOrder, FrontIsPrefix DEF Names, HostRoot

\* A longer path, by one name.
LEMMA ChildPath ==
  ASSUME NEW p \in Names, NEW n \in Name
  PROVE  /\ Append(p, n) \in Names /\ Append(p, n) # HostRoot
         /\ Front(Append(p, n)) = p
         /\ IsPrefix(p, Append(p, n)) /\ p # Append(p, n)
<1> DEFINE c == Append(p, n)
<1>1. c \in Names /\ Len(c) = Len(p) + 1 /\ \A i \in 1 .. Len(p) : c[i] = p[i]
  <2>1. p \in Seq(Name)
    BY DEF Names, Name
  <2>2. c \in Seq(Name) /\ Len(c) = Len(p) + 1
        /\ \A i \in 1 .. Len(p) : c[i] = p[i]
    BY <2>1, AppendProperties
  <2> QED BY <2>2 DEF Names, Name
<1>2. Len(p) \in Nat /\ Len(HostRoot) = 0
  BY PathOrder, EmptySeq DEF HostRoot
<1> HIDE DEF c
<1>3. c # HostRoot /\ p # c
  BY <1>1, <1>2
<1>4. IsPrefix(p, c)
  BY <1>1, <1>2, PrefixAgrees DEF Names
<1>5. IsPrefix(p, Front(c)) /\ Len(Front(c)) = Len(c) - 1 /\ Front(c) \in Names
  BY <1>1, <1>3, <1>4, PathOrder
<1>6. Front(c) = p
  BY <1>1, <1>2, <1>5, PathOrder
<1> QED BY <1>1, <1>3, <1>4, <1>6 DEF c

\* The places prepare() knows by name.
LEMMA Coordinates ==
  /\ SessionRoot \in Names /\ OutputRoot \in Names /\ SourceTree \in Names
  /\ Workspace \in Names /\ TemporaryRoot \in Names /\ Home \in Names
  /\ Front(SessionRoot) = HostRoot /\ Front(OutputRoot) = HostRoot
  /\ Front(SourceTree) = SessionRoot /\ Front(Workspace) = SessionRoot
  /\ Front(TemporaryRoot) = SessionRoot /\ Front(Home) = Workspace
  /\ SessionRoot # HostRoot /\ OutputRoot # HostRoot /\ SourceTree # HostRoot
  /\ Workspace # HostRoot /\ TemporaryRoot # HostRoot /\ Home # HostRoot
  /\ IsPrefix(SessionRoot, SourceTree) /\ IsPrefix(SessionRoot, Workspace)
  /\ IsPrefix(SessionRoot, TemporaryRoot) /\ IsPrefix(SessionRoot, Home)
  /\ IsPrefix(Workspace, Home) /\ Home # Workspace
  /\ SessionRoot # SourceTree /\ SessionRoot # Workspace
  /\ SessionRoot # TemporaryRoot
<1>1. /\ SessionRoot = Append(HostRoot, "session")
      /\ OutputRoot = Append(HostRoot, "output")
      /\ SourceTree = Append(SessionRoot, "source")
      /\ Workspace = Append(SessionRoot, "work")
      /\ TemporaryRoot = Append(SessionRoot, "tmp")
      /\ Home = Append(Workspace, "home")
  BY PreparationAssumption
  DEF SessionRoot, HostRoot, OutputRoot, SourceTree, TemporaryRoot, Home
<1> DEFINE Child(p, c) == /\ c \in Names /\ c # HostRoot /\ Front(c) = p
                          /\ IsPrefix(p, c) /\ p # c
<1>2. ASSUME NEW p \in Names, NEW n \in Name
      PROVE  Child(p, Append(p, n))
  BY ChildPath
<1>a. /\ "session" \in Name /\ "output" \in Name /\ "source" \in Name
      /\ "work" \in Name /\ "tmp" \in Name /\ "home" \in Name
  BY DEF Name
<1>3. HostRoot \in Names
  BY PathOrder
<1> HIDE DEF Child
<1>4. Child(HostRoot, SessionRoot) /\ Child(HostRoot, OutputRoot)
  BY <1>1, <1>2, <1>3, <1>a
<1>5. SessionRoot \in Names
  BY <1>4 DEF Child
<1>6. /\ Child(SessionRoot, SourceTree) /\ Child(SessionRoot, Workspace)
      /\ Child(SessionRoot, TemporaryRoot)
  BY <1>1, <1>2, <1>5, <1>a
<1>7. Workspace \in Names
  BY <1>6 DEF Child
<1>8. Child(Workspace, Home)
  BY <1>1, <1>2, <1>7, <1>a
<1>9. IsPrefix(SessionRoot, Home)
  <2>1. IsPrefix(SessionRoot, Workspace) /\ IsPrefix(Workspace, Home) /\ Home \in Names
    BY <1>6, <1>8 DEF Child
  <2> QED BY <1>5, <1>7, <2>1, PathOrder
<1> QED BY <1>4, <1>6, <1>8, <1>9 DEF Child

\* The four trees below the host root and the session root are apart.
LEMMA Branches ==
  ASSUME NEW p \in Names
  PROVE  /\ ~(IsPrefix(SessionRoot, p) /\ IsPrefix(OutputRoot, p))
         /\ ~(IsPrefix(Workspace, p) /\ IsPrefix(SourceTree, p))
         /\ ~(IsPrefix(Workspace, p) /\ IsPrefix(TemporaryRoot, p))
         /\ ~(IsPrefix(TemporaryRoot, p) /\ IsPrefix(SourceTree, p))
         /\ ~(IsPrefix(Workspace, p) /\ IsPrefix(OutputRoot, p))
         /\ ~(IsPrefix(SourceTree, p) /\ IsPrefix(OutputRoot, p))
         /\ ~(IsPrefix(TemporaryRoot, p) /\ IsPrefix(OutputRoot, p))
<1>1. /\ Len(SessionRoot) = 1 /\ Len(OutputRoot) = 1 /\ Len(Workspace) = 2
      /\ Len(SourceTree) = 2 /\ Len(TemporaryRoot) = 2
      /\ SessionRoot # OutputRoot /\ Workspace # SourceTree
      /\ Workspace # TemporaryRoot /\ TemporaryRoot # SourceTree
  BY PreparationAssumption
  DEF SessionRoot, OutputRoot, SourceTree, TemporaryRoot
<1>2. ASSUME NEW q \in Names, NEW r \in Names, Len(q) = Len(r), q # r
      PROVE  ~(IsPrefix(q, p) /\ IsPrefix(r, p))
  BY <1>2, PathOrder
<1>3. /\ ~(IsPrefix(SessionRoot, p) /\ IsPrefix(OutputRoot, p))
      /\ ~(IsPrefix(Workspace, p) /\ IsPrefix(SourceTree, p))
      /\ ~(IsPrefix(Workspace, p) /\ IsPrefix(TemporaryRoot, p))
      /\ ~(IsPrefix(TemporaryRoot, p) /\ IsPrefix(SourceTree, p))
  BY <1>1, <1>2, Coordinates
<1>4. ASSUME NEW q \in {Workspace, SourceTree, TemporaryRoot}, IsPrefix(q, p)
      PROVE  IsPrefix(SessionRoot, p)
  BY <1>4, Coordinates, PathOrder
<1> QED BY <1>3, <1>4

\* The directories prepare() resets.
LEMMA ResetRoots ==
  /\ DOMAIN Roots = 1 .. 4 /\ Len(Roots) = 4
  /\ Roots[1].path = SessionRoot /\ Roots[2].path = Workspace
  /\ Roots[3].path = TemporaryRoot /\ Roots[4].path = OutputRoot
  /\ \A k \in 1 .. 4 :
        /\ Roots[k].path \in Names /\ Roots[k].path # HostRoot
        /\ Roots[k].mode \subseteq Bit /\ Roots[k].owner \in {"host", "build"}
        /\ Private \subseteq Roots[k].mode
<1>1. /\ DOMAIN Roots = 1 .. 4 /\ Len(Roots) = 4
      /\ Roots[1].path = SessionRoot /\ Roots[2].path = Workspace
      /\ Roots[3].path = TemporaryRoot /\ Roots[4].path = OutputRoot
      /\ Roots[1].mode = Private /\ Roots[2].mode = Private
      /\ Roots[3].mode = Private /\ Roots[4].mode = Bit
      /\ Roots[1].owner = "host" /\ Roots[2].owner = "build"
      /\ Roots[3].owner = "build" /\ Roots[4].owner = "build"
  BY DEF Roots
<1>2. Private \subseteq Bit
  BY DEF Private, Bit
<1>3. \A k \in 1 .. 4 : k = 1 \/ k = 2 \/ k = 3 \/ k = 4
  OBVIOUS
<1> QED BY <1>1, <1>2, <1>3, Coordinates

\* A path below the workspace is one of an archive.
LEMMA BelowWorkspace ==
  /\ \A d \in Names : /\ Workspace \o d \in Names
                      /\ d # <<>> => Below(Workspace \o d)
  /\ \A p \in Names : Below(p) => \E d \in Names : d # <<>> /\ p = Workspace \o d
  /\ \A d, e \in Names : Workspace \o d = Workspace \o e => d = e
  /\ \A d, e \in Names : IsPrefix(Workspace \o d, Workspace \o e) <=> IsPrefix(d, e)
  /\ \A d \in Names : d # <<>> => Front(Workspace \o d) = Workspace \o Front(d)
<1>1. Workspace \in Seq(Name)
  BY Coordinates DEF Names
<1>2. \A d \in Names : d # <<>> => Front(Workspace \o d) = Workspace \o Front(d)
  BY <1>1, FrontOfConcat DEF Names
<1>3. /\ \A d \in Names : Workspace \o d \in Names /\ IsPrefix(Workspace, Workspace \o d)
      /\ \A d \in Names : Workspace \o d = Workspace <=> d = <<>>
      /\ \A d, e \in Names : Workspace \o d = Workspace \o e => d = e
      /\ \A d, e \in Names :
            IsPrefix(Workspace \o d, Workspace \o e) <=> IsPrefix(d, e)
      /\ \A p \in Names :
            IsPrefix(Workspace, p) => \E d \in Names : p = Workspace \o d
  BY <1>1, PrefixAfterConcat DEF Names
<1>4. \A d \in Names : d # <<>> => Below(Workspace \o d)
  BY <1>3 DEF Below, IsStrictPrefix
<1>5. \A p \in Names : Below(p) => \E d \in Names : d # <<>> /\ p = Workspace \o d
  BY <1>3 DEF Below, IsStrictPrefix
<1> QED BY <1>2, <1>3, <1>4, <1>5
-----------------------------------------------------------------------------
(***************************************************************************)
(* Changes of the tree.                                                    *)
(***************************************************************************)
\* What the type invariant says of the tree.
LEMMA SoundTree ==
  ASSUME Sound(tree)
  PROVE  /\ \A p \in DOMAIN tree : NodeOK(p)
         /\ \A p, q \in DOMAIN tree : tree[p].ino = tree[q].ino => tree[p] = tree[q]
BY DEF Sound, NodeOK, IsNode, Holds, IsDirectory

\* With a path, the directories that lead to it are there.
LEMMA LeadingDirectories ==
  ASSUME NEW t, Sound(t)
  PROVE  \A q \in DOMAIN t : \A p \in Names : IsPrefix(p, q) /\ p # q => Holds(t, p)
<1> DEFINE Led(q) == \A p \in Names : IsPrefix(p, q) /\ p # q => Holds(t, p)
           T == {n \in Nat : \A q \in DOMAIN t : Len(q) = n => Led(q)}
<1>1. \A q \in DOMAIN t : q \in Names /\ Len(q) \in Nat
  BY PathOrder DEF Sound
<1>2. 0 \in T
  <2>1. SUFFICES ASSUME NEW q \in DOMAIN t, Len(q) = 0,
                        NEW p \in Names, IsPrefix(p, q), p # q
                 PROVE  FALSE
    OBVIOUS
  <2> QED BY <1>1, <2>1, PathOrder
<1>3. ASSUME NEW n \in Nat, n \in T PROVE n + 1 \in T
  <2>1. SUFFICES ASSUME NEW q \in DOMAIN t, Len(q) = n + 1,
                        NEW p \in Names, IsPrefix(p, q), p # q
                 PROVE  Holds(t, p)
    OBVIOUS
  <2>2. q \in Names /\ q # HostRoot
    BY <1>1, <2>1, PathOrder
  <2>3. Holds(t, Front(q))
    BY <2>2 DEF Sound
  <2>4. IsPrefix(p, Front(q)) /\ Len(Front(q)) = n
    BY <2>1, <2>2, PathOrder
  <2>5. CASE p = Front(q)
    BY <2>3, <2>5
  <2>6. CASE p # Front(q)
    <3>1. Led(Front(q))
      BY <1>3, <2>3, <2>4 DEF Holds
    <3> QED BY <2>4, <2>6, <3>1
  <2> QED BY <2>5, <2>6
<1>4. Nat \subseteq T
  <2> HIDE DEF T
  <2> QED BY <1>2, <1>3, InductionOverNat
<1>5. ASSUME NEW q \in DOMAIN t PROVE Led(q)
  BY <1>1, <1>4
<1> QED BY <1>5

\* Modes and times of directories change.
Retouched(t, u) ==
    /\ DOMAIN u = DOMAIN t
    /\ \A p \in DOMAIN t :
        \/ u[p] = t[p]
        \/ /\ t[p].type = "dir" /\ u[p].type = "dir"
           /\ IsNode(u[p]) /\ u[p].ino = t[p].ino /\ u[p].owner = t[p].owner
LEMMA RetouchedIsSound ==
  ASSUME NEW t, NEW u, Sound(t), Retouched(t, u)
  PROVE  Sound(u)
<1>1. DOMAIN u = DOMAIN t
  BY DEF Retouched
<1>2. \A p \in DOMAIN t : /\ u[p].type = t[p].type /\ u[p].ino = t[p].ino
                          /\ IsNode(t[p]) => IsNode(u[p])
                          /\ t[p].type # "dir" => u[p] = t[p]
  BY DEF Retouched
<1>3. \A p : Holds(t, p) => Holds(u, p)
  BY <1>1, <1>2 DEF Holds
<1>4. \A p \in DOMAIN u :
        /\ p \in Names
        /\ IsNode(u[p])
        /\ p # HostRoot => Holds(u, Front(p)) /\ Inhabited(p)
        /\ \/ u[p].ino = p
           \/ u[p].type = "file" /\ Below(p) /\ Below(u[p].ino)
  BY <1>1, <1>2, <1>3 DEF Sound
<1>5. ASSUME NEW p \in DOMAIN u, NEW q \in DOMAIN u, u[p].ino = u[q].ino
      PROVE  u[p] = u[q]
  <2>1. t[p] = t[q] /\ u[p].type = t[p].type /\ u[q].type = t[q].type
    BY <1>1, <1>2, <1>5 DEF Sound
  <2>2. CASE t[p].type = "dir"
    <3>1. t[p].type # "file" /\ t[q].type # "file"
      BY <2>1, <2>2
    <3>2. u[p].ino = p /\ u[q].ino = q
      BY <1>1, <1>4, <2>1, <3>1
    <3> QED BY <1>5, <3>2
  <2>3. CASE t[p].type # "dir"
    BY <1>1, <1>2, <2>1, <2>3
  <2> QED BY <2>2, <2>3
<1>6. Holds(u, HostRoot)
  BY <1>3 DEF Sound
<1> QED BY <1>4, <1>5, <1>6 DEF Sound

\* An object is added: a new one, or a link to a file of the workspace.
Fresh(t, p, node) == node.ino = p /\ \A q \in DOMAIN t : t[q].ino # p
LinkTo(t, p, node) == \E q \in DOMAIN t : /\ node = t[q] /\ t[q].type = "file"
                                          /\ Below(p) /\ Below(q)
LEMMA AddedIsSound ==
  ASSUME NEW t, Sound(t), NEW p \in Names, p \notin DOMAIN t, p # HostRoot,
         Inhabited(p), Holds(t, Front(p)), NEW node, IsNode(node),
         Fresh(t, p, node) \/ LinkTo(t, p, node)
  PROVE  Sound(With(t, p, node))
<1> DEFINE u == With(t, p, node)
<1>1. /\ DOMAIN u = DOMAIN t \cup {p} /\ u[p] = node
      /\ \A q \in DOMAIN t : u[q] = t[q]
  BY DEF With
<1> HIDE DEF u
<1>2. \A q : Holds(t, q) => Holds(u, q)
  BY <1>1 DEF Holds
<1>3. ASSUME NEW q \in DOMAIN t
      PROVE  /\ q \in Names
             /\ IsNode(u[q])
             /\ q # HostRoot => Holds(u, Front(q)) /\ Inhabited(q)
             /\ \/ u[q].ino = q
                \/ u[q].type = "file" /\ Below(q) /\ Below(u[q].ino)
  BY <1>1, <1>2 DEF Sound
<1>4. /\ p \in Names
      /\ IsNode(u[p])
      /\ p # HostRoot => Holds(u, Front(p)) /\ Inhabited(p)
  BY <1>1, <1>2
<1>5. \/ u[p].ino = p
      \/ u[p].type = "file" /\ Below(p) /\ Below(u[p].ino)
  BY <1>1 DEF Fresh, LinkTo, Sound
<1>6. ASSUME NEW q \in DOMAIN t, node.ino = t[q].ino
      PROVE  node = t[q]
  BY <1>6 DEF Fresh, LinkTo, Sound
<1>7. \A q, r \in DOMAIN u : u[q].ino = u[r].ino => u[q] = u[r]
  BY <1>1, <1>6 DEF Sound
<1>8. Holds(u, HostRoot)
  BY <1>2 DEF Sound
<1>9. Sound(u)
  BY <1>1, <1>3, <1>4, <1>5, <1>7, <1>8 DEF Sound
<1> QED BY <1>9 DEF u

\* Objects are removed with what is below them.
LEMMA CutIsSound ==
  ASSUME Sound(tree), NEW S, HostRoot \notin S,
         \A p \in DOMAIN tree \ {HostRoot} : Front(p) \in S => p \in S
  PROVE  Sound(Without(S))
<1> DEFINE u == Without(S)
<1>1. DOMAIN u = DOMAIN tree \ S /\ \A q \in DOMAIN u : u[q] = tree[q]
  BY DEF Without
<1> HIDE DEF u
<1>2. \A q : Holds(tree, q) /\ q \notin S => Holds(u, q)
  BY <1>1 DEF Holds
<1>3. ASSUME NEW q \in DOMAIN u
      PROVE  /\ q \in Names
             /\ IsNode(u[q])
             /\ q # HostRoot => Holds(u, Front(q)) /\ Inhabited(q)
             /\ \/ u[q].ino = q
                \/ u[q].type = "file" /\ Below(q) /\ Below(u[q].ino)
  BY <1>1, <1>2 DEF Sound
<1>4. \A q, r \in DOMAIN u : u[q].ino = u[r].ino => u[q] = u[r]
  BY <1>1 DEF Sound
<1>5. Holds(u, HostRoot)
  BY <1>2 DEF Sound
<1> QED BY <1>3, <1>4, <1>5 DEF Sound, u

\* A new name: nothing but the time of its directory changes with it.
Kept(u) ==
    \A q \in DOMAIN tree :
        /\ q \in DOMAIN u
        /\ u[q].type = tree[q].type /\ u[q].mode = tree[q].mode
        /\ u[q].owner = tree[q].owner /\ u[q].ino = tree[q].ino
        /\ tree[q].type # "dir" => u[q] = tree[q]
LEMMA RetimedNode ==
  ASSUME NEW n, IsNode(n), NEW time
  PROVE  LET m == [n EXCEPT !.mtime = time] IN
         /\ IsNode(m) /\ m.type = n.type /\ m.mode = n.mode
         /\ m.owner = n.owner /\ m.ino = n.ino
BY DEF IsNode, Node
LEMMA PutIsSound ==
  ASSUME Sound(tree), NEW p \in Names, p \notin DOMAIN tree, p # HostRoot,
         Inhabited(p), Holds(tree, Front(p)), NEW node, IsNode(node),
         Fresh(tree, p, node) \/ LinkTo(tree, p, node)
  PROVE  /\ Sound(Put(p, node))
         /\ DOMAIN Put(p, node) = DOMAIN tree \cup {p}
         /\ Put(p, node)[p] = node
         /\ Kept(Put(p, node))
         /\ \A q \in DOMAIN tree : q # Front(p) => Put(p, node)[q] = tree[q]
<1> DEFINE t == [tree EXCEPT ![Front(p)].mtime = Now]
           u == Put(p, node)
<1>1. /\ DOMAIN t = DOMAIN tree
      /\ \A q \in DOMAIN tree : q # Front(p) => t[q] = tree[q]
      /\ t[Front(p)] = [tree[Front(p)] EXCEPT !.mtime = Now]
  BY DEF Holds
<1>2. u = With(t, p, node)
  BY DEF Put
<1> HIDE DEF t, u
<1>3. \A q \in DOMAIN tree : IsNode(tree[q])
  BY DEF Sound
<1>4. LET m == t[Front(p)] n == tree[Front(p)] IN
      /\ IsNode(m) /\ m.type = n.type /\ m.mode = n.mode
      /\ m.owner = n.owner /\ m.ino = n.ino /\ n.type = "dir"
  BY <1>1, <1>3, RetimedNode DEF Holds
<1>5. Retouched(tree, t)
  BY <1>1, <1>4 DEF Retouched
<1>6. Sound(t)
  BY <1>5, RetouchedIsSound
<1>7. Fresh(t, p, node) \/ LinkTo(t, p, node)
  <2>1. \A q \in DOMAIN tree : t[q].ino = tree[q].ino
    BY <1>1, <1>4
  <2>2. \A q \in DOMAIN tree : tree[q].type = "file" => t[q] = tree[q]
    BY <1>1, <1>4
  <2> QED BY <1>1, <2>1, <2>2 DEF Fresh, LinkTo
<1>8. Holds(t, Front(p))
  BY <1>1, <1>4 DEF Holds
<1>9. Sound(With(t, p, node))
  BY <1>1, <1>6, <1>7, <1>8, AddedIsSound
<1>10. /\ DOMAIN u = DOMAIN tree \cup {p} /\ u[p] = node
       /\ \A q \in DOMAIN tree : u[q] = t[q]
  BY <1>1, <1>2 DEF With
<1>11. Kept(u)
  BY <1>1, <1>4, <1>10 DEF Kept
<1> QED BY <1>1, <1>2, <1>9, <1>10, <1>11 DEF u

\* New directories, and files, are nodes.
LEMMA NewNodes ==
  ASSUME NEW mode, mode \subseteq Bit, NEW owner \in {"host", "build"},
         NEW time, NEW p, NEW data, NEW to
  PROVE  /\ IsNode(Directory(mode, time, owner, p))
         /\ Directory(mode, time, owner, p).ino = p
         /\ Directory(mode, time, owner, p).type = "dir"
         /\ Directory(mode, time, owner, p).mode = mode
         /\ Directory(mode, time, owner, p).owner = owner
         /\ \A type \in {"file", "link"} :
                LET n == Node(type, mode, time, owner, data, to, p) IN
                /\ IsNode(n) /\ n.ino = p /\ n.type = type
                /\ n.to = to /\ n.mtime = time
BY DEF IsNode, Node, Directory
LEMMA SubtreesCut ==
  ASSUME Sound(tree), NEW G \in SUBSET Names, HostRoot \notin G
  PROVE  Sound(Without(UNION {Subtree(q) : q \in G}))
<1> DEFINE S == UNION {Subtree(q) : q \in G}
<1>1. \A p \in DOMAIN tree : p \in Names
  BY DEF Sound
<1>2. \A p : p \in S <=> p \in DOMAIN tree /\ \E q \in G : IsPrefix(q, p)
  BY DEF Subtree
<1>3. HostRoot \notin S
  <2>1. SUFFICES ASSUME NEW q \in G, IsPrefix(q, HostRoot) PROVE FALSE
    BY <1>2
  <2> QED BY <2>1, PathOrder
<1>4. \A p \in DOMAIN tree \ {HostRoot} : Front(p) \in S => p \in S
  <2>1. SUFFICES ASSUME NEW p \in DOMAIN tree \ {HostRoot}, Front(p) \in S
                 PROVE  p \in S
    OBVIOUS
  <2>2. PICK q \in G : IsPrefix(q, Front(p))
    BY <1>2, <2>1
  <2>3. IsPrefix(q, p)
    BY <1>1, <2>2, PathOrder
  <2> QED BY <1>2, <2>3
<1> HIDE DEF S
<1>5. Sound(Without(S))
  BY <1>3, <1>4, CutIsSound
<1> QED BY <1>5 DEF S

-----------------------------------------------------------------------------
(***************************************************************************)
(* Steps that end the call, and those of the rebuilding.                   *)
(***************************************************************************)
LEMMA FaultCounts ==
  ASSUME Counters, Control, Fault
  PROVE  faults' \in 0 .. MaxFaults(session)
<1>1. MaxFaults(session) \in Nat
  BY SessionFacts DEF Control
<1> QED BY <1>1 DEF Counters, Fault

LEMMA ThrowEnds ==
  ASSUME Inv, Throw, session' = session, Sound(tree'), root' \in DOMAIN Roots,
         builds' = builds, faults' = faults \/ Fault
  PROVE  Inv'
<1>1. Counters'
  BY FaultCounts DEF Inv, Counters, Throw
<1>2. Control'
  BY FS_EmptySet DEF Inv, Control, Throw, Unpacking, InArchive
<1>3. Stage' /\ Closed' /\ Archived' /\ PreparedAsDeclared'
  BY DEF Throw, Stage, Closed, HasHome, Archived, Unpacking, InArchive,
         PreparedAsDeclared
<1> QED BY <1>1, <1>2, <1>3 DEF Inv

LEMMA CallKeeps ==
  ASSUME Inv, Call PROVE Inv'
<1>1. Counters'
  BY DEF Inv, Counters, Call
<1>2. Control'
  BY DEF Inv, Control, Call, Unpacking, InArchive, entryVars
<1>3. Stage' /\ Closed' /\ Archived' /\ PreparedAsDeclared'
  BY DEF Call, Stage, Closed, HasHome, Archived, Unpacking, InArchive,
         PreparedAsDeclared
<1>4. Sound(tree')
  BY DEF Inv, Call
<1> QED BY <1>1, <1>2, <1>3, <1>4 DEF Inv

LEMMA SealRequestKeeps ==
  ASSUME Inv, SealRequest PROVE Inv'
<1>1. session' = session /\ tree' = tree /\ faults' = faults /\ builds' = builds
      /\ root' = 1 /\ pc = "request" /\ 1 \in DOMAIN Roots
  BY ResetRoots DEF SealRequest
<1>2. Sound(tree')
  BY <1>1 DEF Inv
<1>3. CASE Throw
  BY <1>1, <1>2, <1>3, ThrowEnds
<1>4. CASE /\ pc' = "unlock" /\ UNCHANGED <<outcome, entryVars>>
           /\ ~session.aliased
  <2>1. Counters'
    BY <1>1, <1>4 DEF Inv, Counters
  <2>2. Control'
    BY <1>1, <1>4 DEF Inv, Control, Unpacking, InArchive, entryVars
  <2>3. Closed' /\ Archived' /\ PreparedAsDeclared'
    BY <1>4 DEF Closed, HasHome, Archived, Unpacking, InArchive,
         PreparedAsDeclared
  <2>4. Stage'
    <3>1. Rebuilt' = {} /\ ~HasSources' /\ ~HasHome' /\ Known' = {HostRoot}
      BY <1>1, <1>4 DEF Rebuilt, HasSources, HasHome, Known, Resetting,
         Unpacking, InArchive
    <3>2. HostRoot \in DOMAIN tree'
      BY <1>2 DEF Sound, Holds
    <3> QED BY <1>1, <1>4, <3>1, <3>2 DEF Stage
  <2> QED BY <1>2, <2>1, <2>2, <2>3, <2>4 DEF Inv
<1> QED BY <1>3, <1>4 DEF SealRequest, ChecksAliases, BeforeEffects

\* What a reset removes has none of what has been rebuilt before it.
LEMMA ResetApart ==
  ASSUME NEW r \in 1 .. 4
  PROVE  /\ \A k \in 1 .. 4 : k < r => ~IsPrefix(Roots[r].path, Roots[k].path)
         /\ r > 1 => \A p \in Names :
                IsPrefix(SourceTree, p) => ~IsPrefix(Roots[r].path, p)
         /\ r \in {2, 3} => \A p \in Names :
                IsPrefix(OutputRoot, p) => ~IsPrefix(Roots[r].path, p)
<1>1. /\ ~IsPrefix(Workspace, SessionRoot) /\ ~IsPrefix(TemporaryRoot, SessionRoot)
      /\ ~IsPrefix(OutputRoot, SessionRoot) /\ ~IsPrefix(TemporaryRoot, Workspace)
      /\ ~IsPrefix(OutputRoot, Workspace) /\ ~IsPrefix(OutputRoot, TemporaryRoot)
  BY Coordinates, Branches, PathOrder
<1>2. \A p \in Names :
        /\ IsPrefix(SourceTree, p) => /\ ~IsPrefix(Workspace, p)
                                      /\ ~IsPrefix(TemporaryRoot, p)
                                      /\ ~IsPrefix(OutputRoot, p)
        /\ IsPrefix(OutputRoot, p) => /\ ~IsPrefix(Workspace, p)
                                      /\ ~IsPrefix(TemporaryRoot, p)
  BY Branches
<1>3. \A k \in 1 .. 4 : k = 1 \/ k = 2 \/ k = 3 \/ k = 4
  OBVIOUS
<1>4. r = 1 \/ r = 2 \/ r = 3 \/ r = 4
  OBVIOUS
<1>5. \A k \in 1 .. 4 : k < r => ~IsPrefix(Roots[r].path, Roots[k].path)
  BY <1>1, <1>3, <1>4, ResetRoots
<1> QED BY <1>2, <1>4, <1>5, ResetRoots

\* The paths that Stage names.
LEMMA KnownPlaces ==
  ASSUME Control, Counters
  PROVE  /\ \A p \in Sources : /\ p \in Names /\ p # HostRoot
                               /\ IsPrefix(SourceTree, p)
         /\ Rebuilt \subseteq 1 .. 4
         /\ Known \subseteq Names
<1>1. \A k \in DOMAIN session.objects :
        LET p == Append(SourceTree, LocalName(k)) IN
        /\ p \in Names /\ p # HostRoot /\ IsPrefix(SourceTree, p)
  BY SessionFacts, ChildPath, Coordinates DEF Control
<1>2. SourceTree \in Names /\ SourceTree # HostRoot /\ IsPrefix(SourceTree, SourceTree)
  BY Coordinates, PathOrder
<1>3. \A p \in Sources : p \in Names /\ p # HostRoot /\ IsPrefix(SourceTree, p)
  BY <1>1, <1>2 DEF Sources
<1>4. Rebuilt \subseteq 1 .. 4
  <2>1. pc \in Resetting => 1 .. root - 1 \subseteq 1 .. 4
    BY ResetRoots DEF Counters
  <2> QED BY <2>1 DEF Rebuilt
<1>5. Known \subseteq Names
  BY <1>3, <1>4, ResetRoots, Coordinates, PathOrder DEF Known
<1> QED BY <1>3, <1>4, <1>5

LEMMA RemodedNode ==
  ASSUME NEW n, IsNode(n), NEW mode, mode \subseteq Bit
  PROVE  LET m == [n EXCEPT !.mode = mode] IN
         /\ IsNode(m) /\ m.type = n.type /\ m.mode = mode
         /\ m.owner = n.owner /\ m.ino = n.ino /\ m.mtime = n.mtime
BY DEF IsNode, Node

LEMMA UnlockedIsSound ==
  ASSUME Sound(tree), NEW S, \A q \in S : Holds(tree, q)
  PROVE  /\ Sound(Unlocked(tree, S))
         /\ DOMAIN Unlocked(tree, S) = DOMAIN tree
         /\ \A q \in DOMAIN tree \ S : Unlocked(tree, S)[q] = tree[q]
         /\ \A q \in DOMAIN tree : Unlocked(tree, S)[q].type = tree[q].type
         /\ \A q \in S : Private \subseteq Unlocked(tree, S)[q].mode
<1> DEFINE u == Unlocked(tree, S)
<1>1. /\ DOMAIN u = DOMAIN tree
      /\ \A q \in DOMAIN tree \ S : u[q] = tree[q]
      /\ \A q \in S : u[q] = [tree[q] EXCEPT !.mode = tree[q].mode \cup Private]
  BY DEF Unlocked, Holds
<1> HIDE DEF u
<1>2. ASSUME NEW q \in S
      PROVE  /\ IsNode(u[q]) /\ u[q].type = tree[q].type
             /\ u[q].mode = tree[q].mode \cup Private
             /\ u[q].owner = tree[q].owner /\ u[q].ino = tree[q].ino
             /\ tree[q].type = "dir"
  <2>1. IsNode(tree[q]) /\ tree[q].type = "dir"
    BY DEF Sound, Holds
  <2>2. tree[q].mode \cup Private \subseteq Bit
    BY <2>1 DEF IsNode, Private, Bit
  <2> DEFINE n == tree[q]
             mode == tree[q].mode \cup Private
             m == [n EXCEPT !.mode = mode]
  <2>3. u[q] = m
    BY <1>1
  <2>4. /\ IsNode(m) /\ m.type = n.type /\ m.mode = mode
        /\ m.owner = n.owner /\ m.ino = n.ino
    <3> HIDE DEF n, mode
    <3> QED BY <2>1, <2>2, RemodedNode DEF n, mode
  <2> HIDE DEF m
  <2> QED BY <2>1, <2>3, <2>4
<1>3. Retouched(tree, u)
  BY <1>1, <1>2 DEF Retouched
<1>4. Sound(u)
  BY <1>3, RetouchedIsSound
<1> QED BY <1>1, <1>2, <1>4 DEF u

LEMMA UnlockKeeps ==
  ASSUME Inv, Unlock PROVE Inv'
<1> DEFINE all == Directories(Subtree(Reset.path))
<1>1. /\ session' = session /\ root' = root /\ builds' = builds
      /\ pc = "unlock" /\ Sound(tree) /\ Counters /\ Control /\ Stage
      /\ root \in 1 .. 4
  BY ResetRoots DEF Unlock, Inv, Counters
<1>2. \A q \in all : Holds(tree, q) /\ IsPrefix(Reset.path, q)
  BY DEF Directories, Subtree, IsDirectory, Holds
<1>3. CASE /\ Fault
           /\ \E some \in SUBSET all : tree' = MadeRemovable(tree, some)
           /\ Throw
  <2>1. Sound(tree')
    <3> HIDE DEF all
    <3> QED BY <1>1, <1>2, <1>3, UnlockedIsSound DEF MadeRemovable
  <2> QED BY <1>1, <1>3, <2>1, ThrowEnds, ResetRoots
<1>4. CASE /\ tree' = MadeRemovable(tree, all)
           /\ pc' = "remove"
           /\ UNCHANGED <<outcome, entryVars, faults>>
  <2>1. /\ Sound(tree') /\ DOMAIN tree' = DOMAIN tree
        /\ \A q \in DOMAIN tree \ all : tree'[q] = tree[q]
        /\ \A q \in DOMAIN tree : tree'[q].type = tree[q].type
    <3> HIDE DEF all
    <3> QED BY <1>1, <1>2, <1>4, UnlockedIsSound DEF MadeRemovable
  <2>2. Counters'
    BY <1>1, <1>4 DEF Counters
  <2>3. Control'
    BY <1>1, <1>4 DEF Control, Unpacking, InArchive, entryVars
  <2>4. Closed' /\ Archived' /\ PreparedAsDeclared'
    BY <1>4 DEF Closed, HasHome, Archived, Unpacking, InArchive,
         PreparedAsDeclared
  <2>5. Stage'
    <3>1. /\ Rebuilt' = Rebuilt /\ (HasSources' <=> HasSources) /\ ~HasHome'
          /\ ~HasHome /\ Known' = Known /\ Sources' = Sources
          /\ Rebuilt = 1 .. root - 1 /\ (HasSources <=> root > 1)
      BY <1>1, <1>4 DEF Rebuilt, HasSources, HasHome, Known, Resetting,
         Unpacking, InArchive, Sources
    <3>2. \A k \in Rebuilt : k \in 1 .. 4 /\ Roots[k].path \notin all
      <4>1. SUFFICES ASSUME NEW k \in Rebuilt
                     PROVE  k \in 1 .. 4 /\ ~IsPrefix(Reset.path, Roots[k].path)
        BY <1>2
      <4>2. k \in 1 .. 4 /\ k < root
        BY <1>1, <3>1
      <4> QED BY <1>1, <4>2, ResetApart DEF Reset
    <3>3. HasSources => \A p \in Sources : p \notin all
      <4>1. SUFFICES ASSUME root > 1, NEW p \in Sources, IsPrefix(Reset.path, p)
                     PROVE  FALSE
        BY <1>2, <3>1
      <4> QED BY <1>1, <4>1, ResetApart, KnownPlaces DEF Reset
    <3> HIDE DEF all
    <3>4. \A p \in DOMAIN tree' :
             \/ p \in Known'
             \/ pc' \in {"unlock", "remove"} /\ root' = 1
             \/ 4 \notin Rebuilt' /\ IsPrefix(OutputRoot, p)
             \/ HasHome' /\ Below(p)
      BY <1>1, <1>4, <2>1, <3>1 DEF Stage
    <3>5. Known' \subseteq DOMAIN tree'
      BY <1>1, <1>4, <2>1, <3>1 DEF Stage
    <3>6. \A k \in Rebuilt' : tree'[Roots[k].path] = tree[Roots[k].path]
      BY <1>1, <1>4, <2>1, <3>1, <3>2 DEF Stage, Known
    <3>7. HasSources' => \A p \in Sources' : tree'[p] = tree[p]
      BY <1>1, <1>4, <2>1, <3>1, <3>3 DEF Stage, Known
    <3> QED BY <1>1, <1>4, <3>1, <3>4, <3>5, <3>6, <3>7 DEF Stage, IsDirectory
  <2> QED BY <2>1, <2>2, <2>3, <2>4, <2>5 DEF Inv
<1> QED BY <1>1, <1>3, <1>4 DEF Unlock

LEMMA RemoveTreeKeeps ==
  ASSUME Inv, RemoveTree PROVE Inv'
<1> DEFINE all == Subtree(Reset.path)
<1>1. /\ session' = session /\ root' = root /\ builds' = builds
      /\ pc = "remove" /\ Sound(tree) /\ Counters /\ Control /\ Stage
      /\ root \in 1 .. 4 /\ Reset.path \in Names /\ Reset.path # HostRoot
  BY ResetRoots DEF RemoveTree, Inv, Counters, Reset
<1>2. \A q \in DOMAIN tree : q \in Names
  BY <1>1 DEF Sound
<1>3. ASSUME Fails({q \in all : q = Reset.path \/ MayAdd(q)} # all), Throw,
             NEW gone \in SUBSET all,
             tree' = Without(UNION {Subtree(q) : q \in gone})
      PROVE  Inv'
  <2>1. gone \in SUBSET Names
    BY <1>2 DEF Subtree
  <2>2. HostRoot \notin gone
    <3>1. ASSUME HostRoot \in all PROVE FALSE
      BY <1>1, <3>1, PathOrder DEF Subtree
    <3> QED BY <3>1
  <2>3. Sound(tree')
    BY <1>1, <1>3, <2>1, <2>2, SubtreesCut
  <2> QED BY <1>1, <1>3, <2>3, ThrowEnds, ResetRoots DEF Fails
<1>4. CASE /\ tree' = Without(all)
           /\ pc' = "create"
           /\ UNCHANGED <<outcome, entryVars, faults>>
  <2>1. Sound(tree')
    <3>1. UNION {Subtree(q) : q \in {Reset.path}} = all
      OBVIOUS
    <3>2. {Reset.path} \in SUBSET Names /\ HostRoot \notin {Reset.path}
      BY <1>1
    <3>3. Sound(Without(UNION {Subtree(q) : q \in {Reset.path}}))
      BY <1>1, <3>2, SubtreesCut
    <3> QED BY <1>4, <3>1, <3>3
  <2>2. Counters'
    BY <1>1, <1>4 DEF Counters
  <2>3. Control'
    BY <1>1, <1>4 DEF Control, Unpacking, InArchive, entryVars
  <2>4. Closed' /\ Archived' /\ PreparedAsDeclared'
    BY <1>4 DEF Closed, HasHome, Archived, Unpacking, InArchive,
         PreparedAsDeclared
  <2>5. /\ DOMAIN tree' = DOMAIN tree \ all
        /\ \A q \in DOMAIN tree' : tree'[q] = tree[q]
    BY <1>4 DEF Without
  <2>6. Stage'
    <3>1. /\ Rebuilt' = Rebuilt /\ (HasSources' <=> HasSources) /\ ~HasHome'
          /\ ~HasHome /\ Known' = Known /\ Sources' = Sources
          /\ Rebuilt = 1 .. root - 1 /\ (HasSources <=> root > 1)
          /\ Known = {HostRoot} \cup {Roots[k].path : k \in Rebuilt}
                     \cup (IF HasSources THEN Sources ELSE {})
      BY <1>1, <1>4 DEF Rebuilt, HasSources, HasHome, Known, Resetting,
         Unpacking, InArchive, Sources
    <3>2. \A k \in Rebuilt : k \in 1 .. 4 /\ Roots[k].path \notin all
      <4>1. SUFFICES ASSUME NEW k \in Rebuilt
                     PROVE  k \in 1 .. 4 /\ ~IsPrefix(Reset.path, Roots[k].path)
        BY DEF Subtree
      <4>2. k \in 1 .. 4 /\ k < root
        BY <1>1, <3>1
      <4> QED BY <1>1, <4>2, ResetApart DEF Reset
    <3>3. HasSources => \A p \in Sources : p \notin all
      <4>1. SUFFICES ASSUME root > 1, NEW p \in Sources, IsPrefix(Reset.path, p)
                     PROVE  FALSE
        BY <3>1 DEF Subtree
      <4> QED BY <1>1, <4>1, ResetApart, KnownPlaces DEF Reset
    <3>4. HostRoot \notin all
      BY <1>1, PathOrder DEF Subtree
    <3>5. \A p \in Known : p \notin all
      BY <3>1, <3>2, <3>3, <3>4
    <3>6. Known' \subseteq DOMAIN tree'
      BY <1>1, <2>5, <3>1, <3>5 DEF Stage
    <3>7. Subtree(Reset.path)' = {}
      <4>1. Reset.path' = Reset.path
        BY <1>1 DEF Reset
      <4> QED BY <2>5, <4>1 DEF Subtree
    <3>8. \A p \in DOMAIN tree' :
             \/ p \in Known'
             \/ 4 \notin Rebuilt' /\ IsPrefix(OutputRoot, p)
      <4>1. SUFFICES ASSUME NEW p \in DOMAIN tree, p \notin all, p \notin Known
                     PROVE  4 \notin Rebuilt /\ IsPrefix(OutputRoot, p)
        BY <2>5, <3>1
      <4>2. CASE root = 1
        <5>1. ~IsPrefix(SessionRoot, p)
          BY <4>1, <4>2, ResetRoots DEF Subtree, Reset
        <5>2. p # HostRoot
          BY <3>1, <4>1
        <5>3. IsPrefix(OutputRoot, p)
          BY <1>1, <5>1, <5>2 DEF Sound, Inhabited
        <5> QED BY <3>1, <4>2, <5>3
      <4>3. CASE root # 1
        BY <1>1, <3>1, <4>1, <4>3 DEF Stage
      <4> QED BY <4>2, <4>3
    <3> HIDE DEF all
    <3>9. \A p \in Known' : tree'[p] = tree[p]
      BY <2>5, <3>6
    <3>10. \A k \in Rebuilt' :
             /\ IsDirectory(Roots[k].path)'
             /\ tree'[Roots[k].path].mode = Roots[k].mode
             /\ tree'[Roots[k].path].owner = Roots[k].owner
      BY <1>1, <3>1, <3>9 DEF Stage, IsDirectory
    <3>11. HasSources' => \A p \in Sources' : "w" \notin tree'[p].mode
      BY <1>1, <3>1, <3>9 DEF Stage
    <3> QED BY <3>1, <3>6, <3>7, <3>8, <3>10, <3>11 DEF Stage
  <2> QED BY <2>1, <2>2, <2>3, <2>4, <2>6 DEF Inv
<1>5. ASSUME NEW stop, NEW gone \in SUBSET
                {q \in {r \in all : r = Reset.path \/ MayAdd(r)} :
                    IsPrefix(Front(q), stop) /\ ~IsPrefix(q, stop)}
      PROVE  gone \in SUBSET all
  BY <1>5
<1> QED BY <1>1, <1>3, <1>4, <1>5 DEF RemoveTree

LEMMA CreateRootKeeps ==
  ASSUME Inv, CreateRoot PROVE Inv'
<1> DEFINE here == Reset.path
           made(mode, owner) == Put(here, Directory(mode, Now, owner, here))
<1>1. /\ session' = session /\ builds' = builds
      /\ pc = "create" /\ Sound(tree) /\ Counters /\ Control /\ Stage
      /\ root \in 1 .. 4 /\ here \in Names /\ here # HostRoot
      /\ Reset.mode \subseteq Bit /\ Reset.owner \in {"host", "build"}
  BY ResetRoots DEF CreateRoot, Inv, Counters, Reset
<1>2. /\ ~HasHome /\ Rebuilt = 1 .. root - 1 /\ (HasSources <=> root > 1)
      /\ Known = {HostRoot} \cup {Roots[k].path : k \in Rebuilt}
                 \cup (IF HasSources THEN Sources ELSE {})
  BY <1>1 DEF Rebuilt, HasSources, HasHome, Known, Resetting, Unpacking, InArchive
<1>3. here \notin DOMAIN tree
  <2>1. IsPrefix(here, here)
    BY <1>1, PathOrder
  <2> QED BY <1>1, <2>1 DEF Stage, Subtree
<1>4. root = 1 \/ root = 2 \/ root = 3 \/ root = 4
  BY <1>1
<1>5. Holds(tree, Front(here)) /\ Inhabited(here) /\ ~Below(here)
  <2>1. Holds(tree, HostRoot)
    BY <1>1 DEF Sound
  <2>2. root > 1 => Holds(tree, SessionRoot)
    <3>1. SUFFICES ASSUME root > 1 PROVE Holds(tree, Roots[1].path)
      BY ResetRoots
    <3>2. 1 \in Rebuilt
      BY <1>1, <1>2, <3>1
    <3> QED BY <1>1, <1>2, <3>2 DEF Stage, IsDirectory, Holds
  <2>3. /\ ~Below(SessionRoot) /\ ~Below(OutputRoot) /\ ~Below(Workspace)
        /\ ~Below(TemporaryRoot)
    BY Coordinates, Branches, PathOrder DEF Below, IsStrictPrefix
  <2>4. /\ Inhabited(SessionRoot) /\ Inhabited(OutputRoot)
        /\ Inhabited(Workspace) /\ Inhabited(TemporaryRoot)
    BY Coordinates, PathOrder DEF Inhabited
  <2> QED BY <1>4, <2>1, <2>2, <2>3, <2>4, ResetRoots, Coordinates DEF Reset
<1>6. \A q \in DOMAIN tree : tree[q].ino # here
  BY <1>1, <1>3, <1>5 DEF Sound
<1>7. ASSUME NEW mode, mode \subseteq Bit, NEW owner \in {"host", "build"}
      PROVE  LET node == Directory(mode, Now, owner, here) IN
             /\ Sound(made(mode, owner))
             /\ DOMAIN made(mode, owner) = DOMAIN tree \cup {here}
             /\ made(mode, owner)[here].type = "dir"
             /\ made(mode, owner)[here].mode = mode
             /\ made(mode, owner)[here].owner = owner
             /\ Kept(made(mode, owner))
  <2> DEFINE node == Directory(mode, Now, owner, here)
  <2>1. IsNode(node) /\ node.ino = here /\ node.type = "dir" /\ node.mode = mode
        /\ node.owner = owner
    BY <1>7, NewNodes
  <2>2. Fresh(tree, here, node)
    BY <1>6, <2>1 DEF Fresh
  <2> HIDE DEF node
  <2>3. /\ Sound(Put(here, node))
        /\ DOMAIN Put(here, node) = DOMAIN tree \cup {here}
        /\ Put(here, node)[here] = node
        /\ Kept(Put(here, node))
    <3> HIDE DEF here
    <3> QED BY <1>1, <1>3, <1>5, <2>1, <2>2, PutIsSound
  <2> QED BY <2>1, <2>3 DEF node
<1> HIDE DEF made
<1>8. CASE /\ Fault
           /\ tree' \in {tree, made(Bit, "host"), made(Reset.mode, "host")}
           /\ Throw
           /\ UNCHANGED root
  <2>1. Sound(tree')
    BY <1>1, <1>7, <1>8
  <2> QED BY <1>1, <1>8, <2>1, ThrowEnds, ResetRoots
<1>9. CASE /\ tree' = made(Reset.mode, Reset.owner)
           /\ pc' = CASE root = 1 -> "realize"
                      [] root = Len(Roots) -> "home"
                      [] OTHER -> "unlock"
           /\ root' = IF root = Len(Roots) THEN 1 ELSE root + 1
           /\ UNCHANGED <<outcome, entryVars, faults>>
  <2>1. /\ Sound(tree') /\ DOMAIN tree' = DOMAIN tree \cup {here}
        /\ tree'[here].type = "dir" /\ tree'[here].mode = Reset.mode
        /\ tree'[here].owner = Reset.owner /\ Kept(tree')
    BY <1>1, <1>7, <1>9, ZenonT(30)
  <2>2. \/ root = 1 /\ pc' = "realize" /\ root' = 2
        \/ root = 2 /\ pc' = "unlock" /\ root' = 3
        \/ root = 3 /\ pc' = "unlock" /\ root' = 4
        \/ root = 4 /\ pc' = "home" /\ root' = 1
    BY <1>4, <1>9, ResetRoots
  <2>3. Counters'
    BY <1>1, <1>9, <2>2, ResetRoots DEF Counters
  <2>4. Control'
    <3>1. session.aliased => FALSE
      BY <1>1 DEF Control
    <3> QED BY <1>1, <1>9, <2>2, <3>1 DEF Control, Unpacking, InArchive, entryVars
  <2>5. Closed' /\ Archived' /\ PreparedAsDeclared'
    BY <2>2 DEF Closed, HasHome, Archived, Unpacking, InArchive,
         PreparedAsDeclared
  <2>6. Stage'
    <3>a. Rebuilt' = 1 .. root
      <4>1. 1 .. 1 = {1} /\ 3 - 1 = 2 /\ 4 - 1 = 3
        OBVIOUS
      <4> QED BY <2>2, <4>1 DEF Rebuilt, Resetting, Unpacking, InArchive
    <3>b. (HasSources' <=> HasSources) /\ ~HasHome'
      BY <1>2, <2>2 DEF HasSources, HasHome, Resetting, Unpacking, InArchive
    <3>1. Rebuilt' = 1 .. root /\ (HasSources' <=> HasSources) /\ ~HasHome'
      BY <3>a, <3>b
    <3>2. Sources' = Sources
      BY <1>1 DEF Sources
    <3>3. Known' = {HostRoot} \cup {Roots[k].path : k \in 1 .. root}
                   \cup (IF HasSources THEN Sources ELSE {})
      BY <3>1, <3>2 DEF Known
    <3>4. \A k \in 1 .. root : k \in Rebuilt \/ k = root
      BY <1>1, <1>2
    <3>5. Rebuilt \subseteq 1 .. root /\ root \in 1 .. root
      BY <1>1, <1>2
    <3>6. \A p : p \in Known' <=> p \in Known \/ p = here
      <4>1. \A p : (\E k \in 1 .. root : p = Roots[k].path)
                   <=> (\E k \in Rebuilt : p = Roots[k].path) \/ p = here
        BY <3>4, <3>5 DEF Reset
      <4> HIDE DEF here
      <4> QED BY <1>2, <3>3, <4>1
    <3>7. Known' \subseteq DOMAIN tree'
      BY <1>1, <2>1, <3>6 DEF Stage
    <3>8. \A k \in Rebuilt' :
             /\ IsDirectory(Roots[k].path)'
             /\ tree'[Roots[k].path].mode = Roots[k].mode
             /\ tree'[Roots[k].path].owner = Roots[k].owner
      <4>1. SUFFICES ASSUME NEW k \in 1 .. root
                     PROVE  /\ tree'[Roots[k].path].type = "dir"
                            /\ tree'[Roots[k].path].mode = Roots[k].mode
                            /\ tree'[Roots[k].path].owner = Roots[k].owner
        BY <3>1 DEF IsDirectory
      <4>2. CASE k \in Rebuilt
        <5>1. /\ Roots[k].path \in DOMAIN tree
              /\ tree[Roots[k].path].type = "dir"
              /\ tree[Roots[k].path].mode = Roots[k].mode
              /\ tree[Roots[k].path].owner = Roots[k].owner
          BY <1>1, <1>2, <4>2 DEF Stage, IsDirectory
        <5> QED BY <2>1, <5>1 DEF Kept
      <4>3. CASE k = root
        BY <2>1, <4>3 DEF Reset
      <4> QED BY <3>4, <4>2, <4>3
    <3>9. HasSources' => \A p \in Sources' : "w" \notin tree'[p].mode
      <4>1. SUFFICES ASSUME HasSources, NEW p \in Sources
                     PROVE  "w" \notin tree'[p].mode
        BY <3>1, <3>2
      <4>2. p \in DOMAIN tree /\ "w" \notin tree[p].mode
        BY <1>1, <1>2, <4>1 DEF Stage
      <4> QED BY <2>1, <4>2 DEF Kept
    <3>10. \A p \in DOMAIN tree' :
             \/ p \in Known'
             \/ 4 \notin Rebuilt' /\ IsPrefix(OutputRoot, p)
      <4>1. SUFFICES ASSUME NEW p \in DOMAIN tree, p \notin Known
                     PROVE  4 \notin Rebuilt' /\ IsPrefix(OutputRoot, p)
        BY <2>1, <3>6
      <4>2. IsPrefix(OutputRoot, p)
        BY <1>1, <1>2, <4>1 DEF Stage
      <4>3. root # 4
        <5>1. ASSUME root = 4 PROVE p \in Subtree(Reset.path)
          BY <4>2, <5>1, ResetRoots DEF Subtree, Reset
        <5> QED BY <1>1, <5>1 DEF Stage
      <4> QED BY <1>4, <3>1, <4>2, <4>3
    <3> QED BY <2>2, <3>1, <3>7, <3>8, <3>9, <3>10 DEF Stage
  <2> QED BY <2>1, <2>3, <2>4, <2>5, <2>6 DEF Inv
<1> QED BY <1>8, <1>9 DEF CreateRoot, made

\* The exposed objects are new.
LEMMA ExposedIsSound ==
  ASSUME Sound(tree), Control, Counters, Holds(tree, SessionRoot),
         \A p \in Sources : p \notin DOMAIN tree
  PROVE  /\ Sound(Exposed)
         /\ DOMAIN Exposed = DOMAIN tree \cup Sources
         /\ \A p \in DOMAIN tree : Exposed[p] = tree[p]
         /\ \A p \in Sources : "w" \notin Exposed[p].mode
<1> DEFINE u == Exposed
<1>1. \A p \in Sources : p \in Names /\ p # HostRoot /\ IsPrefix(SourceTree, p)
  BY KnownPlaces
<1>2. /\ DOMAIN u = DOMAIN tree \cup Sources
      /\ \A p \in DOMAIN tree : u[p] = tree[p]
      /\ u[SourceTree] = Directory({"rx", "go"}, 0, "host", SourceTree)
      /\ \A p \in Sources \ {SourceTree} :
            u[p] = Node("file", {"rx", "go"}, 0, "host", "raw", <<>>, p)
  <2> DEFINE raw == [k \in DOMAIN session.objects |->
                        Append(SourceTree, LocalName(k))]
  <2>1. Range(raw) \cup {SourceTree} = Sources
    BY DEF Range, Sources
  <2> HIDE DEF raw
  <2>2. u = [q \in DOMAIN tree \cup Range(raw) \cup {SourceTree} |->
                CASE q = SourceTree -> Directory({"rx", "go"}, 0, "host", q)
                  [] q \in Range(raw) ->
                        Node("file", {"rx", "go"}, 0, "host", "raw", <<>>, q)
                  [] OTHER -> tree[q]]
    BY DEF Exposed, raw
  <2> HIDE DEF u
  <2>3. DOMAIN u = DOMAIN tree \cup Sources /\ SourceTree \in Sources
    BY <2>1, <2>2
  <2>a. SourceTree \notin Range(raw)
    <3>1. \A k \in DOMAIN session.objects :
            Append(SourceTree, LocalName(k)) # SourceTree
      BY SessionFacts, ChildPath, Coordinates DEF Control
    <3> QED BY <3>1 DEF Range, raw
  <2>4. u[SourceTree] = Directory({"rx", "go"}, 0, "host", SourceTree)
    BY <2>2, <2>3, <2>a
  <2>5. \A p \in Sources \ {SourceTree} :
            u[p] = Node("file", {"rx", "go"}, 0, "host", "raw", <<>>, p)
    BY <2>1, <2>2, <2>3
  <2>6. ASSUME NEW p \in DOMAIN tree PROVE u[p] = tree[p]
    <3>1. p # SourceTree /\ p \notin Range(raw)
      BY <2>1
    <3> QED BY <2>2, <3>1
  <2> QED BY <2>3, <2>4, <2>5, <2>6
<1> HIDE DEF u
<1>3. ASSUME NEW p \in Sources
      PROVE  /\ IsNode(u[p]) /\ u[p].ino = p /\ "w" \notin u[p].mode
             /\ Inhabited(p) /\ ~Below(p)
  <2>1. {"rx", "go"} \subseteq Bit /\ "w" \notin {"rx", "go"}
    BY DEF Bit
  <2>2. Inhabited(p) /\ ~Below(p)
    BY <1>1, Coordinates, Branches, PathOrder DEF Inhabited, Below, IsStrictPrefix
  <2>3. CASE p = SourceTree
    <3> DEFINE n == Directory({"rx", "go"}, 0, "host", SourceTree)
    <3>1. n.mode = {"rx", "go"} /\ IsNode(n) /\ n.ino = p
      BY <2>1, <2>3 DEF IsNode, Node, Directory
    <3>2. u[p] = n
      BY <1>2, <2>3
    <3> HIDE DEF n
    <3> QED BY <2>1, <2>2, <3>1, <3>2
  <2>4. CASE p # SourceTree
    <3> DEFINE n == Node("file", {"rx", "go"}, 0, "host", "raw", <<>>, p)
    <3>1. n.mode = {"rx", "go"}
      BY DEF Node
    <3>2. IsNode(n) /\ n.ino = p
      BY <2>1 DEF IsNode, Node
    <3>3. u[p] = n
      BY <1>2, <2>4
    <3> HIDE DEF n
    <3> QED BY <2>1, <2>2, <3>1, <3>2, <3>3
  <2> QED BY <2>3, <2>4
<1>4. \A q : Holds(tree, q) => Holds(u, q)
  BY <1>2 DEF Holds
<1>5. Holds(u, SourceTree)
  <2>1. SourceTree \in Sources
    BY DEF Sources
  <2> QED BY <1>2, <2>1 DEF Holds, Directory, Node
<1>6. \A p \in Sources : Holds(u, Front(p))
  <2>1. SUFFICES ASSUME NEW p \in Sources PROVE Holds(u, Front(p))
    OBVIOUS
  <2>2. CASE p = SourceTree
    BY <1>4, <2>2, Coordinates
  <2>3. CASE p # SourceTree
    <3>1. PICK k \in DOMAIN session.objects : p = Append(SourceTree, LocalName(k))
      BY <2>3 DEF Sources
    <3>2. Front(p) = SourceTree
      BY <3>1, SessionFacts, ChildPath, Coordinates DEF Control
    <3> QED BY <1>5, <3>2
  <2> QED BY <2>2, <2>3
<1>7. \A p \in DOMAIN u :
        /\ p \in Names
        /\ IsNode(u[p])
        /\ p # HostRoot => Holds(u, Front(p)) /\ Inhabited(p)
        /\ \/ u[p].ino = p
           \/ u[p].type = "file" /\ Below(p) /\ Below(u[p].ino)
  BY <1>1, <1>2, <1>3, <1>4, <1>6 DEF Sound
<1>8. ASSUME NEW p \in DOMAIN u, NEW q \in DOMAIN u, u[p].ino = u[q].ino
      PROVE  u[p] = u[q]
  <2>1. CASE p \in Sources /\ q \in Sources
    BY <1>3, <1>8, <2>1
  <2>2. CASE p \in DOMAIN tree /\ q \in DOMAIN tree
    BY <1>2, <1>8, <2>2 DEF Sound
  <2>3. ASSUME NEW x \in Sources, NEW y \in DOMAIN tree PROVE u[x].ino # u[y].ino
    BY <1>2, <1>3, <1>7
  <2> QED BY <1>2, <1>8, <2>1, <2>2, <2>3
<1>9. Holds(u, HostRoot)
  BY <1>4 DEF Sound
<1> QED BY <1>2, <1>3, <1>7, <1>8, <1>9 DEF Sound, u

LEMMA RealizeKeeps ==
  ASSUME Inv, Realize PROVE Inv'
<1>1. /\ session' = session /\ builds' = builds /\ root' = root
      /\ pc = "realize" /\ Sound(tree) /\ Counters /\ Control /\ Stage
      /\ root = 2
  BY DEF Realize, Inv, Control
<1>2. Rebuilt = {1} /\ ~HasHome /\ ~HasSources /\ Known = {HostRoot, SessionRoot}
  BY <1>1, ResetRoots DEF Rebuilt, HasSources, HasHome, Known, Resetting,
     Unpacking, InArchive
<1>3. Holds(tree, SessionRoot)
  BY <1>1, <1>2, ResetRoots DEF Stage, IsDirectory, Holds
<1>4. \A p \in Sources : p \notin DOMAIN tree
  <2>1. SUFFICES ASSUME NEW p \in Sources, p \in DOMAIN tree PROVE FALSE
    OBVIOUS
  <2>2. p \in Names /\ p # HostRoot /\ IsPrefix(SourceTree, p)
    BY <1>1, <2>1, KnownPlaces
  <2>3. p # SessionRoot
    BY <2>2, Coordinates, PathOrder
  <2>4. ~IsPrefix(OutputRoot, p)
    BY <2>2, Branches
  <2> QED BY <1>1, <1>2, <2>1, <2>2, <2>3, <2>4 DEF Stage
<1>5. /\ Sound(Exposed) /\ DOMAIN Exposed = DOMAIN tree \cup Sources
      /\ \A p \in DOMAIN tree : Exposed[p] = tree[p]
      /\ \A p \in Sources : "w" \notin Exposed[p].mode
  BY <1>1, <1>3, <1>4, ExposedIsSound
<1>6. CASE Fault /\ tree' \in {tree, Exposed} /\ Throw
  BY <1>1, <1>5, <1>6, ThrowEnds, ResetRoots
<1>7. CASE /\ tree' = Exposed
           /\ pc' = "unlock"
           /\ UNCHANGED <<outcome, entryVars, faults>>
  <2>1. Counters'
    BY <1>1, <1>7 DEF Counters
  <2>2. Control'
    BY <1>1, <1>7 DEF Control, Unpacking, InArchive, entryVars
  <2>3. Closed' /\ Archived' /\ PreparedAsDeclared'
    BY <1>7 DEF Closed, HasHome, Archived, Unpacking, InArchive,
         PreparedAsDeclared
  <2>4. Stage'
    <3>1. Rebuilt' = {1} /\ HasSources' /\ ~HasHome' /\ Sources' = Sources
      BY <1>1, <1>7 DEF Rebuilt, HasSources, HasHome, Resetting, Unpacking,
         InArchive, Sources
    <3>2. Known' = Known \cup Sources
      BY <1>2, <3>1, ResetRoots DEF Known
    <3>3. Known' \subseteq DOMAIN tree'
      BY <1>1, <1>5, <1>7, <3>2 DEF Stage
    <3>4. tree'[SessionRoot] = tree[SessionRoot]
      BY <1>3, <1>5, <1>7 DEF Holds
    <3>5. \A p \in DOMAIN tree' :
             p \in Known' \/ (4 \notin Rebuilt' /\ IsPrefix(OutputRoot, p))
      <4>1. SUFFICES ASSUME NEW p \in DOMAIN tree, p \notin Known
                     PROVE  4 \notin {1} /\ IsPrefix(OutputRoot, p)
        BY <1>5, <1>7, <3>1, <3>2
      <4>2. \/ p \in Known
            \/ pc \in {"unlock", "remove"} /\ root = 1
            \/ 4 \notin Rebuilt /\ IsPrefix(OutputRoot, p)
            \/ HasHome /\ Below(p)
        BY <1>1, <4>1 DEF Stage
      <4> QED BY <1>1, <1>2, <4>1, <4>2
    <3>6. /\ IsDirectory(SessionRoot)'
          /\ tree'[SessionRoot].mode = Roots[1].mode
          /\ tree'[SessionRoot].owner = Roots[1].owner
      BY <1>1, <1>2, <3>4, ResetRoots DEF Stage, IsDirectory
    <3>7. \A p \in Sources' : "w" \notin tree'[p].mode
      BY <1>5, <1>7, <3>1
    <3> QED BY <1>7, <3>1, <3>3, <3>5, <3>6, <3>7, ResetRoots DEF Stage
  <2>5. Sound(tree')
    BY <1>5, <1>7
  <2> QED BY <2>1, <2>2, <2>3, <2>4, <2>5 DEF Inv
<1> QED BY <1>6, <1>7 DEF Realize

\* Entries, part by part.
LEMMA EntryFacts ==
  ASSUME session \in Sessions
  PROVE  /\ Archives \subseteq 1 .. Len(session.objects)
         /\ \A x : x \in Entries <=>
              /\ x = <<x[1], x[2]>> /\ x[1] \in Archives
              /\ x[2] \in 1 .. Len(session.objects[x[1]].entries)
         /\ \A x \in Entries :
              /\ x[1] \in Nat \ {0} /\ x[2] \in Nat \ {0}
              /\ x[1] <= Len(session.objects)
              /\ Trimmed(At(x).path) \in Names /\ Trimmed(At(x).to) \in Names
              /\ Place(x) \in Names
<1>1. /\ Len(session.objects) \in Nat
      /\ DOMAIN session.objects = 1 .. Len(session.objects)
      /\ \A k \in DOMAIN session.objects :
            /\ DOMAIN session.objects[k].entries = 1 .. Len(session.objects[k].entries)
            /\ Len(session.objects[k].entries) \in Nat
            /\ \A i \in DOMAIN session.objects[k].entries :
                    /\ session.objects[k].entries[i].path \in Names
                    /\ session.objects[k].entries[i].to \in Names
  BY SessionFacts
<1>2. Archives \subseteq 1 .. Len(session.objects)
  BY <1>1 DEF Archives
<1>3. ASSUME NEW x
      PROVE  x \in Entries <=>
              /\ x = <<x[1], x[2]>> /\ x[1] \in Archives
              /\ x[2] \in 1 .. Len(session.objects[x[1]].entries)
  <2>1. x \in Entries <=> \E k \in Archives :
            x \in {k} \X (1 .. Len(session.objects[k].entries))
    BY <1>1, <1>2 DEF Entries
  <2> QED BY <2>1
<1>4. ASSUME NEW x \in Entries
      PROVE  /\ x[1] \in Nat \ {0} /\ x[2] \in Nat \ {0}
             /\ x[1] <= Len(session.objects)
             /\ Trimmed(At(x).path) \in Names /\ Trimmed(At(x).to) \in Names
             /\ Place(x) \in Names
  <2>1. /\ x[1] \in 1 .. Len(session.objects)
        /\ x[2] \in 1 .. Len(session.objects[x[1]].entries)
        /\ Len(session.objects[x[1]].entries) \in Nat
    BY <1>1, <1>2, <1>3
  <2>2. At(x).path \in Names /\ At(x).to \in Names
    BY <1>1, <2>1 DEF At
  <2>3. Trimmed(At(x).path) \in Names /\ Trimmed(At(x).to) \in Names
    BY <2>2, TrimmedIsPath
  <2>4. Place(x) \in Names
    BY <2>3, BelowWorkspace DEF Place
  <2> QED BY <1>1, <2>1, <2>3, <2>4
<1> QED BY <1>2, <1>3, <1>4

\* What archives bring is none of what Stage names.
LEMMA BelowIsNew ==
  ASSUME Control, Counters, NEW p \in Names, Below(p)
  PROVE  /\ p # HostRoot /\ p \notin Sources /\ Inhabited(p)
         /\ \A k \in 1 .. 4 : p # Roots[k].path
         /\ ~IsPrefix(OutputRoot, p) /\ ~IsPrefix(SourceTree, p)
<1>1. IsPrefix(Workspace, p) /\ p # Workspace
  BY DEF Below, IsStrictPrefix
<1>2. /\ ~IsPrefix(OutputRoot, p) /\ ~IsPrefix(SourceTree, p)
      /\ ~IsPrefix(TemporaryRoot, p)
  BY <1>1, Branches
<1>3. p # HostRoot /\ p # SessionRoot
  BY <1>1, Coordinates, PathOrder
<1>4. p # OutputRoot /\ p # TemporaryRoot
  BY <1>2, Coordinates, PathOrder
<1>5. p \notin Sources
  BY <1>2, KnownPlaces
<1>6. \A k \in 1 .. 4 : p # Roots[k].path
  <2>1. \A k \in 1 .. 4 : k = 1 \/ k = 2 \/ k = 3 \/ k = 4
    OBVIOUS
  <2> QED BY <1>1, <1>3, <1>4, <2>1, ResetRoots
<1>7. Inhabited(p)
  BY <1>1, Coordinates, PathOrder DEF Inhabited
<1> QED BY <1>2, <1>3, <1>5, <1>6, <1>7

LEMMA HomeIsBelow == Below(Home)
BY Coordinates DEF Below, IsStrictPrefix

LEMMA MakeHomeKeeps ==
  ASSUME Inv, MakeHome PROVE Inv'
<1> DEFINE made(owner) == Put(Home, Directory(Private, Now, owner, Home))
<1>1. /\ session' = session /\ builds' = builds /\ root' = root
      /\ pc = "home" /\ Sound(tree) /\ Counters /\ Control /\ Stage
      /\ root = 1 /\ object = 1 /\ next = 1 /\ DOMAIN directories = {}
  BY DEF MakeHome, Inv, Control, Unpacking, InArchive
<1>2. /\ Rebuilt = 1 .. 4 /\ ~HasHome /\ HasSources
      /\ Known = {HostRoot} \cup {Roots[k].path : k \in 1 .. 4} \cup Sources
  BY <1>1, ResetRoots DEF Rebuilt, HasSources, HasHome, Known, Resetting,
     Unpacking, InArchive
<1>3. \A p \in DOMAIN tree : p \in Known /\ ~Below(p)
  <2>1. 4 \in 1 .. 4
    OBVIOUS
  <2>2. \A p \in DOMAIN tree : p \in Known
    BY <1>1, <1>2, <2>1 DEF Stage
  <2>3. \A p \in DOMAIN tree : p \in Names
    BY <1>1 DEF Sound
  <2> QED BY <1>1, <1>2, <2>2, <2>3, BelowIsNew
<1>4. Holds(tree, Workspace)
  <2>1. 2 \in Rebuilt
    BY <1>2
  <2>2. Roots[2].path \in DOMAIN tree /\ tree[Roots[2].path].type = "dir"
    BY <1>1, <2>1 DEF Stage, Known, IsDirectory
  <2> QED BY <2>2, ResetRoots DEF Holds
<1>5. ASSUME NEW owner \in {"host", "build"}
      PROVE  /\ Sound(made(owner))
             /\ DOMAIN made(owner) = DOMAIN tree \cup {Home}
             /\ made(owner)[Home].type = "dir"
             /\ made(owner)[Home].mode = Private
             /\ made(owner)[Home].owner = owner
             /\ made(owner)[Home].ino = Home
             /\ Kept(made(owner))
  <2> DEFINE node == Directory(Private, Now, owner, Home)
  <2>1. IsNode(node) /\ node.ino = Home /\ node.type = "dir" /\ node.mode = Private
        /\ node.owner = owner
    <3>1. Private \subseteq Bit
      BY DEF Private, Bit
    <3> QED BY <3>1, NewNodes
  <2>2. Fresh(tree, Home, node)
    <3>1. \A q \in DOMAIN tree : tree[q].ino = q
      BY <1>1, <1>3 DEF Sound
    <3> QED BY <1>3, <2>1, <3>1, HomeIsBelow DEF Fresh
  <2> HIDE DEF node
  <2>3. Home \in Names /\ Home \notin DOMAIN tree /\ Home # HostRoot
        /\ Inhabited(Home) /\ Front(Home) = Workspace
    BY <1>1, <1>3, HomeIsBelow, BelowIsNew, Coordinates
  <2>4. /\ Sound(Put(Home, node))
        /\ DOMAIN Put(Home, node) = DOMAIN tree \cup {Home}
        /\ Put(Home, node)[Home] = node
        /\ Kept(Put(Home, node))
    BY <1>1, <1>4, <2>1, <2>2, <2>3, PutIsSound, ZenonT(30)
  <2> QED BY <2>1, <2>4 DEF node
<1> HIDE DEF made
<1>6. CASE /\ Fault
           /\ tree' \in {tree, made("host"), made("build")}
           /\ Throw
  <2>1. Sound(tree')
    BY <1>1, <1>5, <1>6
  <2> QED BY <1>1, <1>6, <2>1, ThrowEnds, ResetRoots
<1>7. CASE /\ tree' = made("build")
           /\ pc' = "object"
           /\ UNCHANGED <<outcome, entryVars, faults>>
  <2>1. /\ Sound(tree') /\ DOMAIN tree' = DOMAIN tree \cup {Home}
        /\ tree'[Home].type = "dir" /\ tree'[Home].mode = Private
        /\ tree'[Home].owner = "build" /\ tree'[Home].ino = Home /\ Kept(tree')
    BY <1>1, <1>5, <1>7
  <2>2. Counters'
    BY <1>1, <1>7 DEF Counters
  <2>3. Control'
    <3>1. Len(session.objects) \in Nat /\ 1 <= Len(session.objects) + 1
      BY <1>1, SessionFacts DEF Control
    <3> QED BY <1>1, <1>7, <3>1 DEF Control, Unpacking, InArchive, entryVars
  <2>4. /\ Rebuilt' = 1 .. 4 /\ HasSources' /\ HasHome' /\ Sources' = Sources
        /\ Known' = Known \cup {Home}
    BY <1>1, <1>2, <1>7 DEF Rebuilt, HasSources, HasHome, Known, Resetting,
       Unpacking, InArchive, Sources
  <2>5. Stage'
    <3>1. Known' \subseteq DOMAIN tree'
      BY <1>1, <2>1, <2>4 DEF Stage
    <3>2. \A k \in Rebuilt' :
             /\ IsDirectory(Roots[k].path)'
             /\ tree'[Roots[k].path].mode = Roots[k].mode
             /\ tree'[Roots[k].path].owner = Roots[k].owner
      <4>1. SUFFICES ASSUME NEW k \in Rebuilt
                     PROVE  /\ tree'[Roots[k].path].type = "dir"
                            /\ tree'[Roots[k].path].mode = Roots[k].mode
                            /\ tree'[Roots[k].path].owner = Roots[k].owner
        BY <1>2, <2>4 DEF IsDirectory
      <4>2. /\ Roots[k].path \in DOMAIN tree
            /\ tree[Roots[k].path].type = "dir"
            /\ tree[Roots[k].path].mode = Roots[k].mode
            /\ tree[Roots[k].path].owner = Roots[k].owner
        BY <1>1, <1>2, <4>1 DEF Stage, IsDirectory
      <4> QED BY <2>1, <4>2 DEF Kept
    <3>3. \A p \in Sources' : "w" \notin tree'[p].mode
      <4>1. SUFFICES ASSUME NEW p \in Sources PROVE "w" \notin tree'[p].mode
        BY <2>4
      <4>2. p \in DOMAIN tree /\ "w" \notin tree[p].mode
        BY <1>1, <1>2, <4>1 DEF Stage
      <4> QED BY <2>1, <4>2 DEF Kept
    <3>4. \A p \in DOMAIN tree' : p \in Known'
      BY <1>3, <2>1, <2>4
    <3> QED BY <1>7, <2>1, <2>4, <3>1, <3>2, <3>3, <3>4 DEF Stage, IsDirectory
  <2>6. Closed'
    <3>1. ASSUME NEW p \in DOMAIN tree PROVE tree'[p].ino = p
      BY <1>1, <1>3, <2>1 DEF Sound, Kept
    <3> QED BY <2>1, <3>1 DEF Closed
  <2>7. Archived'
    <3>1. /\ object' = 1 /\ next' = 1 /\ DOMAIN directories' = {} /\ pc' = "object"
          /\ Entries' = Entries /\ Archives' = Archives
      BY <1>1, <1>7 DEF entryVars, Entries, Archives
    <3>2. Finished' = {}
      <4>1. ASSUME NEW x \in Entries, Precedes(x, <<1, 1>>) PROVE FALSE
        BY <1>1, <4>1, EntryFacts DEF Precedes, Control
      <4> QED BY <3>1, <4>1 DEF Finished
    <3>3. Opened' = {}
      BY <3>1 DEF Opened
    <3>4. \A k \in Archives' : ~(k < object')
      BY <1>1, <3>1, EntryFacts DEF Control
    <3>5. \A p \in DOMAIN tree' : ~(Below(p) /\ p # Home)
      BY <1>3, <2>1
    <3> QED BY <3>1, <3>2, <3>3, <3>4, <3>5 DEF Archived, Accepted
  <2>8. PreparedAsDeclared'
    BY <1>7 DEF PreparedAsDeclared
  <2> QED BY <2>1, <2>2, <2>3, <2>5, <2>6, <2>7, <2>8 DEF Inv
<1> QED BY <1>6, <1>7 DEF MakeHome, made
-----------------------------------------------------------------------------
(***************************************************************************)
(* Steps between the entries of the archives.                              *)
(***************************************************************************)
\* A session does not change.
LEMMA SessionStays ==
  ASSUME session' = session
  PROVE  /\ Archives' = Archives /\ Entries' = Entries /\ Sources' = Sources
         /\ \A x : At(x)' = At(x) /\ Place(x)' = Place(x)
         /\ \A x, y : Apart(x, y)' <=> Apart(x, y)
         /\ \A p, k : Grows(p, k)' <=> Grows(p, k)
         /\ \A mode : Masked(mode)' = Masked(mode)
<1>1. /\ Archives' = Archives /\ Entries' = Entries /\ Sources' = Sources
      /\ \A x : At(x)' = At(x)
      /\ \A mode : Masked(mode)' = Masked(mode)
  BY DEF Archives, Entries, Sources, At, Masked
<1>2. \A x : Place(x)' = Place(x)
  BY <1>1 DEF Place
<1>3. \A x, y : Apart(x, y)' <=> Apart(x, y)
  BY <1>1, <1>2 DEF Apart
<1>4. \A p, k : Grows(p, k)' <=> Grows(p, k)
  BY <1>1, <1>2 DEF Grows
<1> QED BY <1>1, <1>2, <1>3, <1>4

\* Unpacking changes nothing outside of the workspace.
LEMMA StageStays ==
  ASSUME Stage, Control, Counters, session' = session, root' = root,
         pc \in Unpacking, pc' \in Unpacking,
         DOMAIN tree \subseteq DOMAIN tree',
         \A p \in DOMAIN tree : ~Below(p) \/ p = Home =>
            /\ tree'[p].type = tree[p].type /\ tree'[p].mode = tree[p].mode
            /\ tree'[p].owner = tree[p].owner,
         \A p \in DOMAIN tree' \ DOMAIN tree : Below(p)
  PROVE  Stage'
<1>1. /\ Rebuilt = 1 .. 4 /\ HasSources /\ HasHome
      /\ Known = {HostRoot} \cup {Roots[k].path : k \in 1 .. 4} \cup Sources
                 \cup {Home}
  BY DEF Rebuilt, HasSources, HasHome, Known, Resetting, Unpacking, InArchive
<1>2. /\ Rebuilt' = 1 .. 4 /\ HasSources' /\ HasHome' /\ Known' = Known
      /\ Sources' = Sources
  BY <1>1, SessionStays
  DEF Rebuilt, HasSources, HasHome, Known, Resetting, Unpacking, InArchive
<1>3. \A p \in Known : ~Below(p) \/ p = Home
  <2>1. Known \subseteq Names
    BY KnownPlaces
  <2> QED BY <1>1, <2>1, BelowIsNew
<1>4. Known \subseteq DOMAIN tree
  BY DEF Stage, Unpacking, InArchive
<1>5. \A p \in Known : /\ p \in DOMAIN tree'
                       /\ tree'[p].type = tree[p].type
                       /\ tree'[p].mode = tree[p].mode
                       /\ tree'[p].owner = tree[p].owner
  BY <1>3, <1>4
<1>6. /\ \A k \in 1 .. 4 : /\ tree[Roots[k].path].type = "dir"
                           /\ tree[Roots[k].path].mode = Roots[k].mode
                           /\ tree[Roots[k].path].owner = Roots[k].owner
      /\ tree[Home].type = "dir" /\ tree[Home].mode = Private
      /\ tree[Home].owner = "build"
      /\ \A p \in Sources : "w" \notin tree[p].mode
  BY <1>1 DEF Stage, Unpacking, InArchive, IsDirectory
<1>7. /\ \A k \in 1 .. 4 : /\ tree'[Roots[k].path].type = "dir"
                           /\ tree'[Roots[k].path].mode = Roots[k].mode
                           /\ tree'[Roots[k].path].owner = Roots[k].owner
      /\ tree'[Home].type = "dir" /\ tree'[Home].mode = Private
      /\ tree'[Home].owner = "build"
      /\ \A p \in Sources : "w" \notin tree'[p].mode
  BY <1>1, <1>5, <1>6
<1>8. \A p \in DOMAIN tree' : p \in Known \/ Below(p)
  <2>1. 4 \in Rebuilt /\ pc \notin {"unlock", "remove", "idle", "request"}
    BY <1>1 DEF Unpacking, InArchive
  <2>2. \A p \in DOMAIN tree : p \in Known \/ Below(p)
    BY <2>1 DEF Stage
  <2> QED BY <2>2
<1>9. pc' # "create"
  BY DEF Unpacking, InArchive
<1> QED BY <1>2, <1>5, <1>7, <1>8, <1>9 DEF Stage, IsDirectory

LEMMA ClosedStays ==
  ASSUME Closed, pc \in Unpacking, DOMAIN tree \subseteq DOMAIN tree',
         \A p \in DOMAIN tree : tree'[p].ino = tree[p].ino,
         \A p \in DOMAIN tree' \ DOMAIN tree : tree'[p].ino \in DOMAIN tree'
  PROVE  Closed'
BY DEF Closed, HasHome, Unpacking, InArchive

\* What has been extracted, as long as no object is touched.
LEMMA ArchivedStays ==
  ASSUME Archived, Control, pc \in Unpacking, pc' \in Unpacking,
         session' = session, tree' = tree, directories' = directories,
         Finished' = Finished, Opened = {}, Opened' = {},
         object' \in {object, object + 1},
         object' # object => DOMAIN directories = {},
         pc = "seal" => pc' = "seal" \/ object' = object + 1,
         \A k \in Archives : k < object' => session.objects[k].entries # <<>>,
         Accepted'
  PROVE  Archived'
<1>1. /\ Archives' = Archives /\ Entries' = Entries
      /\ \A x : At(x)' = At(x) /\ Place(x)' = Place(x)
      /\ \A x, y : Apart(x, y)' <=> Apart(x, y)
      /\ \A p, k : Grows(p, k)' <=> Grows(p, k)
      /\ \A mode : Masked(mode)' = Masked(mode)
  BY SessionStays
<1>2. object \in Nat /\ \A x \in Finished : x \in Entries /\ x[1] \in Nat /\ x[1] <= object
  BY EntryFacts DEF Finished, Precedes, Control
<1>3. \A x \in Finished : Closing(x[1]) => Closing(x[1])'
  BY <1>2 DEF Closing
<1>4. \A x : Matches(x)' <=> Matches(x)
  BY <1>1 DEF Matches
<1>5. \A d \in DOMAIN directories : Pending(d) => Pending(d)'
  BY <1>1 DEF Pending, IsDirectory
<1>6. \A x \in Finished : Regular(x) /\ Extracted(x) => Regular(x)' /\ Extracted(x)'
  <2>1. \A x : Regular(x)' <=> Regular(x)
    BY <1>1 DEF Regular
  <2>2. \A x \in Finished : Extracted(x) => Extracted(x)'
    BY <1>1, <1>3, <1>4 DEF Extracted
  <2> QED BY <2>1, <2>2
<1>7. \A p : ByDefault(p) => ByDefault(p)'
  <2>1. \A p : Users(p)' = Users(p)
    BY <1>1 DEF Users
  <2>2. \A p : \A x \in Users(p) : x \in Finished
    BY DEF Users
  <2> QED BY <1>1, <1>3, <2>1, <2>2 DEF ByDefault, IsDirectory
<1>8. /\ \A k \in Archives : k < object => session.objects[k].entries # <<>>
      /\ \A d \in DOMAIN directories : Pending(d)
      /\ \A x \in Finished : Regular(x) /\ Extracted(x)
      /\ \A x, y \in Finished : x # y => Apart(x, y)
      /\ \A p \in DOMAIN tree :
            Below(p) /\ p # Home /\ (\A x \in Finished : Place(x) # p) => ByDefault(p)
  BY DEF Archived
<1>9. \A p \in DOMAIN tree' :
        Below(p) /\ p # Home /\ (\A x \in Finished' : Place(x)' # p) => ByDefault(p)'
  BY <1>1, <1>7, <1>8
<1>10. \A p \in Opened' : p \in DOMAIN tree' /\ IsDirectory(p)'
  OBVIOUS
<1>11. \A d \in DOMAIN directories' : Pending(d)'
  BY <1>5, <1>8
<1>12. \A x \in Finished' : Regular(x)' /\ Extracted(x)'
  BY <1>6, <1>8
<1>13. \A x, y \in Finished' : x # y => Apart(x, y)'
  BY <1>1, <1>8
<1>14. \A k \in Archives' : k < object' => (session.objects[k].entries # <<>>)'
  BY <1>1
<1> QED BY <1>9, <1>10, <1>11, <1>12, <1>13, <1>14 DEF Archived

LEMMA OpenObjectKeeps ==
  ASSUME Inv, OpenObject PROVE Inv'
<1>1. /\ session' = session /\ tree' = tree /\ root' = root /\ builds' = builds
      /\ pc = "object" /\ Sound(tree) /\ Counters /\ Control /\ Stage /\ Closed
      /\ Archived /\ root = 1 /\ next = 1 /\ DOMAIN directories = {}
      /\ object \in Nat /\ object <= Len(session.objects)
  BY DEF OpenObject, Inv, Control, Unpacking, InArchive
<1>2. Len(session.objects) \in Nat
  BY <1>1, SessionFacts DEF Control
<1>3. CASE Fault /\ Throw
  BY <1>1, <1>3, ThrowEnds, ResetRoots
<1>4. CASE /\ IF session.objects[object].unpack
              THEN pc' = "header" /\ UNCHANGED object
              ELSE object' = object + 1 /\ UNCHANGED pc
           /\ UNCHANGED <<outcome, next, pos, directories, faults>>
  <2>1. /\ pc' \in {"object", "header"} /\ object' \in {object, object + 1}
        /\ pc' = "header" =>
            object' = object /\ session.objects[object].unpack
        /\ object' # object =>
            pc' = "object" /\ ~session.objects[object].unpack
    BY <1>1, <1>4
  <2>2. Counters'
    BY <1>1, <1>4, <2>1 DEF Counters
  <2>3. Control'
    <3>1. object' \in Nat \ {0} /\ object' <= Len(session.objects) + 1
      BY <1>1, <1>2, <2>1 DEF Control
    <3>2. pc' = "header" => /\ object' <= Len(session.objects)
                            /\ session.objects[object'].unpack
                            /\ 1 <= Len(session.objects[object'].entries) + 1
      <4>1. SUFFICES ASSUME pc' = "header"
                     PROVE  1 <= Len(session.objects[object].entries) + 1
        BY <1>1, <2>1
      <4>2. object \in DOMAIN session.objects
        BY <1>1, SessionFacts DEF Control
      <4>3. Len(session.objects[object].entries) \in Nat
        BY <1>1, <4>2, SessionFacts DEF Control
      <4> QED BY <4>3
    <3> QED BY <1>1, <1>4, <2>1, <3>1, <3>2 DEF Control, Unpacking, InArchive
  <2>4. Stage'
    BY <1>1, <2>1, StageStays DEF Unpacking, InArchive
  <2>5. Closed'
    BY <1>1, <2>1, ClosedStays DEF Unpacking, InArchive
  <2>6. Archived'
    <3>1. Finished' = Finished
      <4>1. ASSUME NEW x \in Entries
            PROVE  Precedes(x, <<object', next'>>) <=> Precedes(x, <<object, next>>)
        <5>1. /\ x[1] \in Nat /\ x[2] \in Nat \ {0}
              /\ x[1] \in Archives /\ next' = 1
          BY <1>1, <1>4, EntryFacts DEF Control
        <5>2. object' # object => x[1] # object
          BY <2>1, <5>1 DEF Archives
        <5> QED BY <1>1, <2>1, <5>1, <5>2 DEF Precedes
      <4> QED BY <1>1, <4>1, SessionStays DEF Finished
    <3>2. Opened = {} /\ Opened' = {} /\ Accepted'
      BY <1>1, <2>1 DEF Opened, Accepted
    <3>3. \A k \in Archives : k < object' => session.objects[k].entries # <<>>
      <4>1. SUFFICES ASSUME NEW k \in Archives, k < object'
                     PROVE  session.objects[k].entries # <<>>
        OBVIOUS
      <4>2. k < object \/ (k = object /\ object' # object)
        BY <1>1, <2>1, <4>1, EntryFacts DEF Control
      <4>3. k # object \/ object' = object
        BY <2>1, <4>1 DEF Archives
      <4> QED BY <1>1, <4>1, <4>2, <4>3 DEF Archived, Unpacking
    <3> QED BY <1>1, <1>4, <2>1, <3>1, <3>2, <3>3, ArchivedStays
            DEF Unpacking, InArchive
  <2>7. PreparedAsDeclared'
    BY <2>1 DEF PreparedAsDeclared
  <2> QED BY <1>1, <2>2, <2>3, <2>4, <2>5, <2>6, <2>7 DEF Inv
<1> QED BY <1>1, <1>3, <1>4 DEF OpenObject

LEMMA ReadHeaderKeeps ==
  ASSUME Inv, ReadHeader, root' = root, builds' = builds PROVE Inv'
<1> DEFINE all == session.objects[object].entries
<1>1. /\ session' = session /\ tree' = tree
      /\ pc = "header" /\ Sound(tree) /\ Counters /\ Control /\ Stage /\ Closed
      /\ Archived /\ root = 1 /\ object \in Nat \ {0} /\ next \in Nat \ {0}
      /\ object <= Len(session.objects) /\ session.objects[object].unpack
      /\ next <= Len(all) + 1
  BY DEF ReadHeader, Inv, Control, Unpacking, InArchive
<1>2. /\ Len(session.objects) \in Nat /\ object \in DOMAIN session.objects
      /\ Len(all) \in Nat
  BY <1>1, SessionFacts DEF Control
<1>3. CASE Fails(IF next <= Len(all) THEN ~Acceptable(Entry) ELSE next = 1) /\ Throw
  BY <1>1, <1>3, ThrowEnds, ResetRoots DEF Fails
<1>4. ASSUME pc' \in {"parent", "seal"}, pos' \in Nat \ {0},
             UNCHANGED <<outcome, object, next, directories, faults>>,
             pc' = "seal" => next > Len(all) /\ next > 1,
             pc' = "parent" => next <= Len(all) /\ Acceptable(Entry) /\ pos' = 1
      PROVE  Inv'
  <2>1. Counters'
    BY <1>1, <1>4 DEF Counters
  <2>2. pc' = "parent" => Relative' = Relative /\ Relative # <<>> /\ 1 <= Len(Relative)
    <3>1. SUFFICES ASSUME pc' = "parent" PROVE Relative # <<>> /\ 1 <= Len(Relative)
      BY <1>1, <1>4 DEF Relative, Entry
    <3>2. IsCanonical(Relative)
      BY <1>4, <3>1 DEF Acceptable, Relative
    <3>3. Relative \in Names
      BY <1>1, <1>2, <1>4, <3>1, SessionFacts, TrimmedIsPath
      DEF Relative, Entry, Control
    <3>4. Len(Relative) \in Nat \ {0}
      BY <3>2, <3>3, EmptySeq DEF IsCanonical, Names
    <3> QED BY <3>2, <3>4 DEF IsCanonical
  <2>3. Control'
    BY <1>1, <1>2, <1>4, <2>2 DEF Control, Unpacking, InArchive
  <2>4. Stage'
    BY <1>1, <1>4, StageStays DEF Unpacking, InArchive
  <2>5. Closed'
    BY <1>1, <1>4, ClosedStays DEF Unpacking, InArchive
  <2>6. Archived'
    <3>1. Finished' = Finished
      BY <1>1, <1>4, SessionStays DEF Finished
    <3>2. Opened = {}
      BY <1>1 DEF Opened
    <3>3. Opened' = {}
      <4>1. 1 .. 1 - 1 = {}
        OBVIOUS
      <4> QED BY <1>4, <4>1 DEF Opened
    <3>4. Accepted'
      <4>1. SUFFICES ASSUME pc' = "parent" PROVE Accepted'
        BY DEF Accepted
      <4>2. Acceptable(Entry) /\ Entry' = Entry /\ Relative' = Relative
        BY <1>1, <1>4, <4>1 DEF Relative, Entry
      <4>3. Entry.type = "hard" =>
              LET target == Workspace \o Trimmed(Entry.to) IN
              /\ IsCanonical(Trimmed(Entry.to))
              /\ target \in DOMAIN tree /\ tree[target].type = "file"
        BY <4>2 DEF Acceptable, HasTarget
      <4> QED BY <1>1, <4>2, <4>3 DEF Acceptable, Accepted, Relative
    <3>5. \A k \in Archives : k < object' => session.objects[k].entries # <<>>
      BY <1>1, <1>4 DEF Archived, Unpacking, InArchive
    <3> QED BY <1>1, <1>4, <3>1, <3>2, <3>3, <3>4, <3>5, ArchivedStays
            DEF Unpacking, InArchive
  <2>7. PreparedAsDeclared'
    BY <1>4 DEF PreparedAsDeclared
  <2> QED BY <1>1, <2>1, <2>3, <2>4, <2>5, <2>6, <2>7 DEF Inv
<1>5. CASE /\ next <= Len(all) /\ Acceptable(Entry)
           /\ pc' = "parent"
           /\ pos' = 1
           /\ UNCHANGED <<outcome, object, next, directories, faults>>
  BY <1>4, <1>5
<1>6. CASE /\ next > Len(all) /\ next > 1
           /\ pc' = "seal"
           /\ UNCHANGED <<outcome, entryVars, faults>>
  BY <1>1, <1>4, <1>6 DEF entryVars, Control
<1> QED BY <1>1, <1>3, <1>5, <1>6 DEF ReadHeader

LEMMA CloseArchiveKeeps ==
  ASSUME Inv, CloseArchive, root' = root, builds' = builds PROVE Inv'
<1> DEFINE all == session.objects[object].entries
<1>1. /\ session' = session /\ tree' = tree
      /\ pc = "seal" /\ Sound(tree) /\ Counters /\ Control /\ Stage /\ Closed
      /\ Archived /\ root = 1 /\ object \in Nat \ {0} /\ next \in Nat \ {0}
      /\ object <= Len(session.objects) /\ next = Len(all) + 1 /\ next > 1
      /\ DOMAIN directories = {}
  BY DEF CloseArchive, Inv, Control, Unpacking, InArchive
<1>2. /\ Len(session.objects) \in Nat /\ object \in DOMAIN session.objects
      /\ Len(all) \in Nat /\ (all = <<>> <=> Len(all) = 0)
  BY <1>1, SessionFacts DEF Control
<1>3. CASE Fault /\ Throw
  BY <1>1, <1>3, ThrowEnds, ResetRoots
<1>4. CASE /\ pc' = "object"
           /\ object' = object + 1
           /\ next' = 1 /\ pos' = 1
           /\ UNCHANGED <<outcome, directories, faults>>
  <2>1. Counters'
    BY <1>1, <1>4 DEF Counters
  <2>2. Control'
    BY <1>1, <1>2, <1>4 DEF Control, Unpacking, InArchive
  <2>3. Stage'
    BY <1>1, <1>4, StageStays DEF Unpacking, InArchive
  <2>4. Closed'
    BY <1>1, <1>4, ClosedStays DEF Unpacking, InArchive
  <2>5. Archived'
    <3>1. Finished' = Finished
      <4>1. ASSUME NEW x \in Entries
            PROVE  Precedes(x, <<object', next'>>) <=> Precedes(x, <<object, next>>)
        <5>1. /\ x[1] \in Nat /\ x[2] \in Nat \ {0}
              /\ x[2] \in 1 .. Len(session.objects[x[1]].entries)
          BY <1>1, EntryFacts DEF Control
        <5>2. x[1] = object => x[2] < next
          BY <1>1, <1>2, <5>1
        <5> QED BY <1>1, <1>4, <5>1, <5>2 DEF Precedes
      <4> QED BY <1>1, <4>1, SessionStays DEF Finished
    <3>2. Opened = {} /\ Opened' = {} /\ Accepted'
      BY <1>1, <1>4 DEF Opened, Accepted
    <3>3. \A k \in Archives : k < object' => session.objects[k].entries # <<>>
      <4>1. SUFFICES ASSUME NEW k \in Archives, k < object + 1
                     PROVE  session.objects[k].entries # <<>>
        BY <1>4
      <4>2. k < object \/ k = object
        BY <1>1, <4>1, EntryFacts DEF Control
      <4>3. all # <<>>
        BY <1>1, <1>2
      <4> QED BY <1>1, <4>1, <4>2, <4>3 DEF Archived, Unpacking, InArchive
    <3> QED BY <1>1, <1>4, <3>1, <3>2, <3>3, ArchivedStays
            DEF Unpacking, InArchive
  <2>6. PreparedAsDeclared'
    BY <1>4 DEF PreparedAsDeclared
  <2> QED BY <1>1, <2>1, <2>2, <2>3, <2>4, <2>5, <2>6 DEF Inv
<1> QED BY <1>1, <1>3, <1>4 DEF CloseArchive

\* What a prepared session promises is about its tree.
Declared ==
    /\ ~session.aliased /\ Consistent
    /\ Fixed \subseteq DOMAIN tree
    /\ \A p \in DOMAIN tree \ Fixed : IsStrictPrefix(Workspace, p)
    /\ \A k \in DOMAIN Roots : /\ tree[Roots[k].path].mode = Roots[k].mode
                               /\ tree[Roots[k].path].owner = Roots[k].owner
    /\ tree[Home].mode = Private /\ tree[Home].owner = "build"
    /\ \A p \in Subtree(SourceTree) : "w" \notin tree[p].mode
    /\ \A x \in Entries : Place(x) \in DOMAIN tree /\ Matches(x)
    /\ \A p \in Implicit : MatchesDefault(p)
LEMMA DeclaredStays ==
  ASSUME session' = session, tree' = tree, Declared
  PROVE  PreparedAsDeclared'
<1>1. /\ Archives' = Archives /\ Entries' = Entries
      /\ \A x : At(x)' = At(x) /\ Place(x)' = Place(x)
      /\ \A p, k : Grows(p, k)' <=> Grows(p, k)
      /\ \A mode : Masked(mode)' = Masked(mode)
  BY SessionStays
<1>2. Consistent' <=> Consistent
  BY <1>1 DEF Consistent
<1>3. Fixed' = Fixed /\ \A p : Subtree(p)' = Subtree(p)
  BY DEF Fixed, Subtree
<1>4. \A x : Matches(x)' <=> Matches(x)
  BY <1>1 DEF Matches
<1>5. Implicit' = Implicit
  BY <1>1 DEF Implicit
<1>6. \A p : MatchesDefault(p)' <=> MatchesDefault(p)
  BY <1>1 DEF MatchesDefault
<1>7. Declared'
  BY <1>1, <1>2, <1>3, <1>4, <1>5, <1>6 DEF Declared
<1> QED BY <1>7 DEF Declared, PreparedAsDeclared

\* Some entry comes first.
LEMMA FirstEntry ==
  ASSUME session \in Sessions, NEW U \in SUBSET Entries, U # {}
  PROVE  \E x \in U : \A y \in U \ {x} : Precedes(x, y)
<1>1. \A x \in U : x[1] \in Nat /\ x[2] \in Nat /\ x = <<x[1], x[2]>>
  BY EntryFacts
<1> DEFINE A == {x[1] : x \in U}
<1>2. PICK a \in A : \A b \in A : a <= b
  <2>1. A \subseteq Nat /\ A # {}
    BY <1>1
  <2> HIDE DEF A
  <2> QED BY <2>1, MinExists
<1> DEFINE B == {x[2] : x \in {y \in U : y[1] = a}}
<1>3. PICK b \in B : \A c \in B : b <= c
  <2>1. B \subseteq Nat /\ B # {}
    BY <1>1, <1>2
  <2> HIDE DEF B
  <2> QED BY <2>1, MinExists
<1>4. PICK x \in U : x[1] = a /\ x[2] = b
  BY <1>3
<1>5. ASSUME NEW y \in U \ {x} PROVE Precedes(x, y)
  <2>1. a <= y[1] /\ (y[1] = a => b <= y[2])
    BY <1>2, <1>3
  <2>2. y[1] = a => y[2] # b
    BY <1>1, <1>4, <1>5
  <2> QED BY <1>1, <1>4, <2>1, <2>2 DEF Precedes
<1> QED BY <1>5

LEMMA AdmitKeeps ==
  ASSUME Inv, Admit PROVE Inv'
<1>1. /\ session' = session /\ tree' = tree /\ root' = root /\ builds' = builds
      /\ pc = "object" /\ Sound(tree) /\ Counters /\ Control /\ Stage /\ Closed
      /\ Archived /\ root = 1 /\ next = 1 /\ DOMAIN directories = {}
      /\ object \in Nat /\ object > Len(session.objects) /\ ~session.aliased
      /\ session \in Sessions
  BY DEF Admit, Inv, Control, Unpacking, InArchive
<1>2. Len(session.objects) \in Nat
  BY <1>1, SessionFacts
<1>3. CASE Fails(session.aliased /\ ChecksAliases("admit")) /\ Throw
  BY <1>1, <1>3, ThrowEnds, ResetRoots DEF Fails
<1>4. CASE /\ pc' = "ready"
           /\ outcome' = "prepared"
           /\ object' = 1
           /\ UNCHANGED <<next, pos, directories, faults>>
  <2>1. Counters'
    BY <1>1, <1>4 DEF Counters
  <2>2. Control'
    BY <1>1, <1>4 DEF Control, Unpacking, InArchive
  <2>3. /\ Rebuilt = 1 .. 4 /\ HasSources /\ HasHome
        /\ Known = {HostRoot} \cup {Roots[k].path : k \in 1 .. 4} \cup Sources
                   \cup {Home}
    BY <1>1 DEF Rebuilt, HasSources, HasHome, Known, Resetting, Unpacking, InArchive
  <2>4. Stage'
    <3>1. /\ Rebuilt' = Rebuilt /\ HasSources' /\ HasHome' /\ Known' = Known
          /\ Sources' = Sources
      BY <1>1, <1>4, <2>3, SessionStays
      DEF Rebuilt, HasSources, HasHome, Known, Resetting, Unpacking, InArchive
    <3> QED BY <1>1, <1>4, <2>3, <3>1 DEF Stage, IsDirectory
  <2>5. Closed' /\ Archived'
    BY <1>1, <1>4 DEF Closed, HasHome, Archived, Unpacking, InArchive
  <2>6. Finished = Entries
    <3>1. \A x \in Entries : Precedes(x, <<object, next>>)
      BY <1>1, <1>2, EntryFacts DEF Precedes
    <3> QED BY <3>1 DEF Finished
  <2>7. /\ \A k \in Archives : session.objects[k].entries # <<>>
        /\ \A x \in Entries : Regular(x) /\ Extracted(x)
        /\ \A x, y \in Entries : x # y => Apart(x, y)
        /\ \A p \in DOMAIN tree :
            Below(p) /\ p # Home /\ (\A x \in Entries : Place(x) # p) => ByDefault(p)
    <3>1. \A k \in Archives : k < object
      BY <1>1, <1>2, EntryFacts
    <3> QED BY <1>1, <2>6, <3>1 DEF Archived, Unpacking
  <2>8. Consistent
    BY <2>6, <2>7 DEF Consistent, Regular, Apart
  <2>9. \A x \in Entries : Place(x) \in DOMAIN tree /\ Matches(x)
    <3>1. SUFFICES ASSUME NEW x \in Entries PROVE Matches(x)
      BY <2>7 DEF Extracted
    <3>2. At(x).type \in {"dir", "file", "link", "hard"}
      BY <2>7 DEF Regular
    <3>3. CASE At(x).type = "dir"
      BY <1>1, <2>7, <3>3 DEF Extracted
    <3>4. CASE At(x).type # "dir"
      BY <2>7, <3>2, <3>4 DEF Extracted
    <3> QED BY <3>3, <3>4
  <2>10. ASSUME NEW p \in Implicit PROVE MatchesDefault(p)
    <3>1. p \in DOMAIN tree /\ ByDefault(p)
      BY <2>7 DEF Implicit, Below
    <3> DEFINE U == {x \in Entries : Strictly(p, Place(x))}
               first == CHOOSE x \in U : \A y \in U \ {x} : Precedes(x, y)
    <3>2. Users(p) = U
      BY <2>6 DEF Users
    <3>3. /\ U # {} /\ tree[p].type = "dir" /\ tree[p].mode = Bit \ session.mask
          /\ \/ tree[p].mtime = 0
             \/ \E x \in U, y \in Entries : Strictly(p, Place(y)) /\ x[1] < y[1]
      <4>1. Opened = {}
        BY <1>1 DEF Opened
      <4> HIDE DEF U
      <4> QED BY <1>1, <3>1, <3>2, <4>1 DEF ByDefault, IsDirectory
    <3>4. first \in U /\ \A y \in U \ {first} : Precedes(first, y)
      <4>1. U \in SUBSET Entries
        OBVIOUS
      <4> HIDE DEF U
      <4>2. \E x \in U : \A y \in U \ {x} : Precedes(x, y)
        BY <1>1, <3>3, <4>1, FirstEntry
      <4> QED BY <4>2
    <3>5. \A x \in U : first[1] <= x[1] /\ first[1] \in Nat /\ x[1] \in Nat
      <4> HIDE DEF first
      <4> QED BY <1>1, <3>4, EntryFacts DEF Precedes
    <3>6. tree[p].mtime = 0 \/ Grows(p, first[1])
      <4> HIDE DEF first
      <4>1. SUFFICES ASSUME NEW x \in U, NEW y \in Entries, Strictly(p, Place(y)),
                            x[1] < y[1]
                     PROVE  Grows(p, first[1])
        BY <3>3
      <4>2. y[1] > first[1]
        BY <1>1, <3>5, <4>1, EntryFacts
      <4> QED BY <4>1, <4>2 DEF Grows
    <3> QED BY <3>3, <3>6 DEF MatchesDefault
  <2>11. Fixed = Known /\ DOMAIN Roots = 1 .. 4
    BY <2>3, ResetRoots DEF Fixed, Sources
  <2>12. /\ Fixed \subseteq DOMAIN tree
         /\ \A p \in DOMAIN tree \ Fixed : IsStrictPrefix(Workspace, p)
         /\ \A k \in DOMAIN Roots : /\ tree[Roots[k].path].mode = Roots[k].mode
                                    /\ tree[Roots[k].path].owner = Roots[k].owner
         /\ tree[Home].mode = Private /\ tree[Home].owner = "build"
    <3>1. 4 \in Rebuilt
      BY <2>3
    <3> QED BY <1>1, <2>3, <2>11, <3>1 DEF Stage, Below
  <2>13. \A p \in Subtree(SourceTree) : "w" \notin tree[p].mode
    <3>1. SUFFICES ASSUME NEW p \in DOMAIN tree, IsPrefix(SourceTree, p)
                   PROVE  p \in Sources
      BY <1>1, <2>3 DEF Stage, Subtree
    <3>2. p \in Names
      BY <1>1 DEF Sound
    <3>3. ~Below(p)
      BY <1>1, <3>1, <3>2, BelowIsNew
    <3>4. p \in Known /\ p # Home
      BY <2>11, <2>12, <3>3, HomeIsBelow DEF Below
    <3>5. SourceTree # HostRoot /\ p # HostRoot /\ p # SessionRoot
      BY <3>1, Coordinates, PathOrder
    <3>6. p # Workspace /\ p # TemporaryRoot /\ p # OutputRoot
      <4>1. IsPrefix(p, p)
        BY <3>2, PathOrder
      <4> QED BY <3>1, <3>2, <4>1, Branches
    <3>7. \A k \in 1 .. 4 : k = 1 \/ k = 2 \/ k = 3 \/ k = 4
      OBVIOUS
    <3> QED BY <2>3, <3>4, <3>5, <3>6, <3>7, ResetRoots
  <2>14. /\ ~session.aliased /\ Consistent
         /\ Fixed \subseteq DOMAIN tree
         /\ \A p \in DOMAIN tree \ Fixed : IsStrictPrefix(Workspace, p)
         /\ \A k \in DOMAIN Roots : /\ tree[Roots[k].path].mode = Roots[k].mode
                                    /\ tree[Roots[k].path].owner = Roots[k].owner
         /\ tree[Home].mode = Private /\ tree[Home].owner = "build"
         /\ \A p \in Subtree(SourceTree) : "w" \notin tree[p].mode
         /\ \A x \in Entries : Place(x) \in DOMAIN tree /\ Matches(x)
         /\ \A p \in Implicit : MatchesDefault(p)
    BY <1>1, <2>8, <2>9, <2>10, <2>12, <2>13
  <2>15. PreparedAsDeclared'
    BY <1>1, <2>14, DeclaredStays DEF Declared
  <2> QED BY <1>1, <2>1, <2>2, <2>4, <2>5, <2>15 DEF Inv
<1> QED BY <1>1, <1>3, <1>4 DEF Admit

\* What a build leaves is new, too.
LEMMA ExtendedIsSound ==
  ASSUME NEW t, Sound(t), \A p \in DOMAIN t : t[p].ino \in DOMAIN t,
         NEW u, NEW A, DOMAIN u = DOMAIN t \cup A, A \cap DOMAIN t = {},
         \A p \in DOMAIN t : u[p] = t[p],
         \A p \in A : /\ p \in Names /\ p # HostRoot /\ Inhabited(p)
                      /\ IsNode(u[p]) /\ u[p].ino = p /\ Holds(u, Front(p))
  PROVE  Sound(u)
<1>1. \A q : Holds(t, q) => Holds(u, q)
  BY DEF Holds
<1>2. \A p \in DOMAIN u :
        /\ p \in Names
        /\ IsNode(u[p])
        /\ p # HostRoot => Holds(u, Front(p)) /\ Inhabited(p)
        /\ \/ u[p].ino = p
           \/ u[p].type = "file" /\ Below(p) /\ Below(u[p].ino)
  BY <1>1 DEF Sound
<1>3. ASSUME NEW p \in DOMAIN u, NEW q \in DOMAIN u, u[p].ino = u[q].ino
      PROVE  u[p] = u[q]
  <2>1. CASE p \in A /\ q \in A
    BY <1>3, <2>1
  <2>2. CASE p \in DOMAIN t /\ q \in DOMAIN t
    BY <1>3, <2>2 DEF Sound
  <2>3. ASSUME NEW x \in A, NEW y \in DOMAIN t PROVE u[x].ino # u[y].ino
    OBVIOUS
  <2> QED BY <1>3, <2>1, <2>2, <2>3
<1>4. Holds(u, HostRoot)
  BY <1>1 DEF Sound
<1> QED BY <1>2, <1>3, <1>4 DEF Sound

LEMMA BuiltIsSound ==
  ASSUME Sound(tree), \A p \in DOMAIN tree : tree[p].ino \in DOMAIN tree,
         \A p \in BuildRoots : Holds(tree, p), NEW shut \in SUBSET BuildRoots
  PROVE  Sound(Built(shut))
<1> DEFINE t == [q \in DOMAIN tree |->
                    IF q \in shut THEN [tree[q] EXCEPT !.mode = {}] ELSE tree[q]]
           u == Built(shut)
           A == Locked \cup Debris
<1>1. /\ \A p \in BuildRoots : /\ p \in Names /\ p # HostRoot /\ Inhabited(p)
                               /\ p \in DOMAIN tree
      /\ \A p \in DOMAIN tree : p \in Names
  BY Coordinates, PathOrder DEF BuildRoots, Inhabited, Holds, Sound
<1>2. "junk" \in Name /\ "file" \in Name
  BY DEF Name
<1>3. \A q \in Locked : /\ q \in Names /\ q # HostRoot /\ q \notin DOMAIN tree
                        /\ Front(q) \in BuildRoots /\ IsPrefix(Front(q), q)
  <2>1. \A p \in BuildRoots : LET q == Append(p, "junk") IN
            /\ q \in Names /\ q # HostRoot /\ Front(q) = p /\ IsPrefix(p, q)
    BY <1>1, <1>2, ChildPath
  <2> QED BY <2>1 DEF Locked
<1>4. \A q \in Debris : /\ q \in Names /\ q # HostRoot /\ IsPrefix(Front(q), q)
                        /\ Front(q) \in Locked
  <2>1. \A p \in Locked : LET q == Append(p, "file") IN
            /\ q \in Names /\ q # HostRoot /\ Front(q) = p /\ IsPrefix(p, q)
    BY <1>2, <1>3, ChildPath
  <2> QED BY <2>1 DEF Debris
<1>5. \A q \in Debris : q \notin DOMAIN tree /\ q \notin Locked
  <2>1. SUFFICES ASSUME NEW q \in Debris PROVE q \notin DOMAIN tree /\ q \notin Locked
    OBVIOUS
  <2>2. Front(q) \notin DOMAIN tree /\ q # HostRoot
    BY <1>3, <1>4
  <2>3. q \notin DOMAIN tree
    BY <2>2 DEF Sound, Holds
  <2>4. q \notin Locked
    BY <1>1, <1>3, <2>2
  <2> QED BY <2>3, <2>4
<1>6. /\ DOMAIN u = DOMAIN tree \cup A
      /\ \A q \in Locked : u[q] = Directory({}, Now, "build", q)
      /\ \A q \in Debris : u[q] = Node("file", {}, Now, "build", "junk", <<>>, q)
      /\ \A q \in DOMAIN tree : u[q] = t[q]
  <2>1. DOMAIN u = DOMAIN tree \cup A
    BY DEF Built
  <2>2. ASSUME NEW q \in Locked PROVE u[q] = Directory({}, Now, "build", q)
    <3>1. q \notin Debris /\ q \notin shut
      BY <1>1, <1>3, <1>5
    <3> QED BY <3>1 DEF Built
  <2>3. ASSUME NEW q \in Debris
        PROVE  u[q] = Node("file", {}, Now, "build", "junk", <<>>, q)
    <3>1. q \notin Locked /\ q \notin shut
      BY <1>1, <1>5
    <3> QED BY <3>1 DEF Built
  <2>4. ASSUME NEW q \in DOMAIN tree PROVE u[q] = t[q]
    <3>1. q \notin Locked /\ q \notin Debris
      BY <1>3, <1>5
    <3> QED BY <3>1 DEF Built
  <2> QED BY <2>1, <2>2, <2>3, <2>4
<1> HIDE DEF u
<1>7. Sound(t) /\ DOMAIN t = DOMAIN tree /\ \A p \in DOMAIN t : t[p].ino \in DOMAIN t
  <2>1. ASSUME NEW q \in shut
        PROVE  /\ IsNode(t[q]) /\ t[q].type = tree[q].type
               /\ t[q].owner = tree[q].owner /\ t[q].ino = tree[q].ino
               /\ tree[q].type = "dir"
    <3>1. IsNode(tree[q]) /\ tree[q].type = "dir" /\ q \in DOMAIN tree
      BY <1>1 DEF Sound, Holds
    <3> DEFINE n == tree[q]
               m == [n EXCEPT !.mode = {}]
    <3>2. t[q] = m
      BY <3>1
    <3>3. /\ IsNode(m) /\ m.type = n.type /\ m.owner = n.owner /\ m.ino = n.ino
      <4> HIDE DEF n
      <4> QED BY <3>1, RemodedNode DEF n
    <3> HIDE DEF m, t
    <3> QED BY <3>1, <3>2, <3>3
  <2>2. DOMAIN t = DOMAIN tree /\ \A q \in DOMAIN tree \ shut : t[q] = tree[q]
    OBVIOUS
  <2> HIDE DEF t
  <2>3. Retouched(tree, t)
    BY <2>1, <2>2 DEF Retouched
  <2>4. \A p \in DOMAIN t : t[p].ino = tree[p].ino
    BY <2>1, <2>2
  <2> QED BY <2>2, <2>3, <2>4, RetouchedIsSound
<1> HIDE DEF t
<1>8. \A q \in A : q \in Names /\ q # HostRoot /\ q \notin DOMAIN tree
  BY <1>3, <1>4, <1>5
<1>9. \A q \in A : IsNode(u[q]) /\ u[q].ino = q
  <2>1. \A q \in Locked : IsNode(u[q]) /\ u[q].ino = q
    BY <1>6 DEF Directory, Node, IsNode
  <2>2. \A q \in Debris : IsNode(u[q]) /\ u[q].ino = q
    BY <1>6 DEF Node, IsNode
  <2> QED BY <2>1, <2>2
<1>10. \A q \in A : Holds(u, Front(q)) /\ Inhabited(q)
  <2>1. \A p \in BuildRoots : Holds(u, p)
    <3>1. \A p : Holds(tree, p) => Holds(t, p)
      BY DEF Holds, t
    <3> QED BY <1>6, <1>7, <3>1 DEF Holds
  <2>2. \A q \in Locked : Holds(u, q)
    BY <1>6 DEF Holds, Directory, Node
  <2>3. ASSUME NEW q \in Names, NEW p \in Names, IsPrefix(p, q), Inhabited(p)
        PROVE  Inhabited(q)
    BY <2>3, Coordinates, PathOrder DEF Inhabited
  <2>4. \A q \in Locked : Inhabited(q)
    BY <1>1, <1>3, <2>3
  <2>5. \A q \in Debris : Inhabited(q)
    BY <1>3, <1>4, <2>3, <2>4
  <2> QED BY <1>3, <1>4, <2>1, <2>2, <2>4, <2>5
<1>11. Sound(u)
  <2> HIDE DEF A
  <2> QED BY <1>6, <1>7, <1>8, <1>9, <1>10, ExtendedIsSound, ZenonT(30)
<1> QED BY <1>11 DEF u

LEMMA BuildKeeps ==
  ASSUME Inv, Build PROVE Inv'
<1>1. /\ session' = session /\ root' = root /\ faults' = faults
      /\ builds > 0 /\ builds' = builds - 1
      /\ pc = "ready" /\ Sound(tree) /\ Counters /\ Control /\ Stage /\ Closed
      /\ pc' = "idle" /\ outcome' = "none"
      /\ UNCHANGED <<object, next, pos, directories>>
  BY DEF Build, Inv, entryVars
<1>2. PICK shut \in SUBSET BuildRoots : tree' = Built(shut)
  BY DEF Build
<1>3. \A p \in BuildRoots : Holds(tree, p)
  <2>1. /\ Rebuilt = 1 .. 4 /\ HasHome
        /\ \A k \in 1 .. 4 : Roots[k].path \in Known
    BY <1>1 DEF Rebuilt, HasHome, Known, Resetting, Unpacking, InArchive
  <2>2. \A k \in 1 .. 4 : Holds(tree, Roots[k].path)
    BY <1>1, <2>1 DEF Stage, Holds, IsDirectory
  <2>3. 2 \in 1 .. 4 /\ 3 \in 1 .. 4 /\ 4 \in 1 .. 4
    OBVIOUS
  <2> QED BY <2>2, <2>3, ResetRoots DEF BuildRoots
<1>4. Sound(tree')
  BY <1>1, <1>2, <1>3, BuiltIsSound DEF Closed, HasHome
<1>5. Counters'
  <2>1. MaxBuilds(session) \in Nat
    BY <1>1, SessionFacts DEF Control
  <2> QED BY <1>1, <2>1 DEF Counters
<1>6. Control'
  BY <1>1 DEF Control, Unpacking, InArchive
<1>7. Stage' /\ Closed' /\ Archived' /\ PreparedAsDeclared'
  BY <1>1 DEF Stage, Closed, HasHome, Archived, Unpacking, InArchive,
     PreparedAsDeclared
<1> QED BY <1>4, <1>5, <1>6, <1>7 DEF Inv
-----------------------------------------------------------------------------
(***************************************************************************)
(* The entry at hand, and the places that lead to it.                      *)
(***************************************************************************)
Current == <<object, next>>
LEMMA CurrentEntry ==
  ASSUME Control, pc = "parent"
  PROVE  /\ Current \in Entries /\ Current \notin Finished
         /\ Current[1] = object /\ At(Current) = Entry
         /\ Trimmed(At(Current).path) = Relative
         /\ Place(Current) = Destination
         /\ Relative \in Names /\ Relative # <<>> /\ Len(Relative) \in Nat
         /\ pos \in 1 .. Len(Relative)
         /\ Destination \in Names /\ Below(Destination)
         /\ \A x \in Finished : x \in Entries /\ x[1] \in Nat /\ x[1] <= object
         /\ object \in Nat
         /\ Finished \cup {Current} = {x \in Entries : Precedes(x, <<object, next + 1>>)}
<1>1. /\ session \in Sessions /\ object \in Nat \ {0} /\ next \in Nat \ {0}
      /\ object <= Len(session.objects) /\ session.objects[object].unpack
      /\ next <= Len(session.objects[object].entries)
      /\ Relative # <<>> /\ pos \in Nat \ {0} /\ pos <= Len(Relative)
  BY DEF Control, InArchive
<1>2. /\ object \in DOMAIN session.objects
      /\ Len(session.objects[object].entries) \in Nat
  BY <1>1, SessionFacts
<1>3. object \in Archives
  BY <1>1, <1>2 DEF Archives
<1>4. Current \in Entries /\ Current[1] = object /\ Current[2] = next
  BY <1>1, <1>2, <1>3, EntryFacts DEF Current
<1>5. At(Current) = Entry
  BY <1>4 DEF At, Entry
<1>6. Trimmed(At(Current).path) = Relative /\ Place(Current) = Destination
  BY <1>5 DEF Relative, Destination, Place
<1>7. Relative \in Names
  BY <1>1, <1>4, <1>6, EntryFacts
<1>8. Len(Relative) \in Nat /\ Destination \in Names /\ Below(Destination)
  BY <1>1, <1>7, PathOrder, BelowWorkspace DEF Destination
<1>9. ASSUME NEW x \in Entries
      PROVE  /\ Precedes(x, Current) => x[1] \in Nat /\ x[1] <= object
             /\ Precedes(x, <<object, next + 1>>) <=> Precedes(x, Current) \/ x = Current
             /\ ~Precedes(Current, Current)
  <2>1. x[1] \in Nat /\ x[2] \in Nat /\ x = <<x[1], x[2]>>
    BY <1>1, EntryFacts
  <2>2. x = Current <=> x[1] = object /\ x[2] = next
    BY <2>1 DEF Current
  <2> QED BY <1>1, <2>1, <2>2 DEF Precedes, Current
<1> QED BY <1>1, <1>4, <1>5, <1>6, <1>7, <1>8, <1>9 DEF Finished, Current

\* Where the parent component at hand is, or the entry itself.
Here == Workspace \o SubSeq(Relative, 1, pos)
LEMMA HerePlace ==
  ASSUME Inv, pc = "parent"
  PROVE  /\ SubSeq(Relative, 1, pos) \in Names /\ SubSeq(Relative, 1, pos) # <<>>
         /\ Here \in Names /\ Below(Here) /\ IsPrefix(Here, Destination)
         /\ pos = Len(Relative) => Here = Destination
         /\ pos < Len(Relative) => Strictly(Here, Destination)
         /\ Holds(tree, Front(Here))
         /\ Strictly(Front(Here), Destination)
         /\ \A k \in 1 .. pos - 1 :
                Strictly(Workspace \o SubSeq(Relative, 1, k), Destination)
<1>1. /\ Relative \in Names /\ Relative # <<>> /\ Len(Relative) \in Nat
      /\ pos \in 1 .. Len(Relative) /\ Destination = Workspace \o Relative
      /\ Destination \in Names
  BY CurrentEntry DEF Inv, Destination
<1> DEFINE part(k) == SubSeq(Relative, 1, k)
<1>2. \A k \in 0 .. Len(Relative) :
        /\ part(k) \in Names /\ Len(part(k)) = k /\ IsPrefix(part(k), Relative)
        /\ \A t \in Names : IsPrefix(t, Relative) /\ Len(t) = k => t = part(k)
  BY <1>1, PrefixIsSubSeq DEF Names
<1>3. Workspace \in Names /\ Workspace # HostRoot
  BY Coordinates
<1>4. \A k \in 1 .. Len(Relative) : part(k) # <<>> /\ Front(part(k)) = part(k - 1)
  <2>1. SUFFICES ASSUME NEW k \in 1 .. Len(Relative)
                 PROVE  part(k) # <<>> /\ Front(part(k)) = part(k - 1)
    OBVIOUS
  <2>2. part(k) \in Names /\ Len(part(k)) = k /\ IsPrefix(part(k), Relative)
    BY <1>1, <1>2
  <2> HIDE DEF part
  <2>3. part(k) # <<>>
    BY <2>2, EmptySeq
  <2>4. /\ Front(part(k)) \in Names /\ IsPrefix(Front(part(k)), part(k))
        /\ Len(Front(part(k))) = k - 1
    BY <2>2, <2>3, PathOrder DEF HostRoot
  <2>5. IsPrefix(Front(part(k)), Relative)
    BY <1>1, <2>2, <2>4, PathOrder
  <2>6. k - 1 \in 0 .. Len(Relative)
    BY <1>1
  <2> QED BY <1>2, <2>3, <2>4, <2>5, <2>6
<1>5. part(Len(Relative)) = Relative
  <2>1. IsPrefix(Relative, Relative)
    BY <1>1, PathOrder
  <2> QED BY <1>1, <1>2, <2>1
<1>6. part(0) = <<>> /\ Workspace \o part(0) = Workspace
  <2>1. part(0) = <<>>
    BY <1>1, <1>2, EmptySeq, PathOrder DEF HostRoot
  <2>2. <<>> \in Names
    BY PathOrder DEF HostRoot
  <2> QED BY <1>3, <2>1, <2>2, PrefixAfterConcat DEF Names
<1> HIDE DEF part
<1>7. \A k \in 0 .. Len(Relative) :
        /\ Workspace \o part(k) \in Names
        /\ IsPrefix(Workspace \o part(k), Destination)
        /\ k < Len(Relative) => Strictly(Workspace \o part(k), Destination)
  <2>1. SUFFICES ASSUME NEW k \in 0 .. Len(Relative)
                 PROVE  /\ Workspace \o part(k) \in Names
                        /\ IsPrefix(Workspace \o part(k), Destination)
                        /\ k < Len(Relative) => Workspace \o part(k) # Destination
    BY DEF Strictly, IsStrictPrefix
  <2>2. Workspace \o part(k) = Destination => part(k) = Relative
    BY <1>1, <1>2, BelowWorkspace
  <2>3. part(k) \in Names /\ Len(part(k)) = k /\ IsPrefix(part(k), Relative)
    BY <1>2
  <2>4. /\ Workspace \o part(k) \in Names
        /\ IsPrefix(Workspace \o part(k), Workspace \o Relative)
    BY <1>1, <2>3, BelowWorkspace
  <2>5. part(k) = Relative => k = Len(Relative)
    BY <2>3
  <2> QED BY <1>1, <2>2, <2>4, <2>5
<1>8. Here = Workspace \o part(pos)
  BY DEF Here, part
<1>9. Below(Here) /\ Front(Here) = Workspace \o part(pos - 1)
  <2>1. part(pos) \in Names /\ part(pos) # <<>> /\ Front(part(pos)) = part(pos - 1)
    BY <1>1, <1>2, <1>4
  <2> QED BY <1>8, <2>1, BelowWorkspace
<1>10. Holds(tree, Front(Here))
  <2>1. CASE pos = 1
    <3>1. Front(Here) = Workspace
      BY <1>6, <1>9, <2>1
    <3>2. HasHome /\ Home \in Known /\ Home \in DOMAIN tree
      BY DEF Inv, Stage, Known, HasHome, Unpacking, InArchive
    <3> QED BY <3>1, <3>2, Coordinates DEF Inv, Sound
  <2>2. CASE pos > 1
    <3>1. Front(Here) \in Opened
      <4>1. Opened = {Workspace \o part(k) : k \in 1 .. pos - 1}
        BY DEF Opened, part
      <4>2. pos - 1 \in 1 .. pos - 1
        BY <1>1, <2>2
      <4> QED BY <1>9, <4>1, <4>2
    <3> QED BY <3>1 DEF Inv, Archived, Unpacking, InArchive, Holds, IsDirectory
  <2> QED BY <1>1, <2>1, <2>2
<1>11. \A k \in 1 .. pos - 1 : Strictly(Workspace \o part(k), Destination)
  <2>1. SUFFICES ASSUME NEW k \in 1 .. pos - 1
                 PROVE  Strictly(Workspace \o part(k), Destination)
    OBVIOUS
  <2>2. k \in 0 .. Len(Relative) /\ k < Len(Relative)
    BY <1>1
  <2> QED BY <1>7, <2>2
<1>12. Strictly(Front(Here), Destination)
  <2>1. pos - 1 \in 0 .. Len(Relative) /\ pos - 1 < Len(Relative)
    BY <1>1
  <2> QED BY <1>7, <1>9, <2>1
<1>13. pos < Len(Relative) => Strictly(Here, Destination)
  BY <1>1, <1>7, <1>8
<1>14. /\ part(pos) \in Names /\ part(pos) # <<>> /\ Here \in Names
       /\ IsPrefix(Here, Destination)
       /\ pos = Len(Relative) => Here = Destination
  <2>1. pos \in 0 .. Len(Relative)
    BY <1>1
  <2>2. part(pos) \in Names /\ part(pos) # <<>>
    BY <1>1, <1>2, <1>4, <2>1
  <2>3. Here \in Names /\ IsPrefix(Here, Destination)
    BY <1>7, <1>8, <2>1
  <2> QED BY <1>1, <1>5, <1>8, <2>2, <2>3
<1> QED BY <1>9, <1>10, <1>11, <1>12, <1>13, <1>14 DEF part

(***************************************************************************)
(* What was there stays as it was, except the times of the directories     *)
(* that lead to the entry at hand.                                         *)
(***************************************************************************)
OnTheWay == \A q \in DOMAIN tree : tree'[q] # tree[q] => Strictly(q, Destination)
LEMMA ExtractedStays ==
  ASSUME Inv, pc = "parent", session' = session, pc' \in {"parent", "header"},
         object' = object, Kept(tree'), OnTheWay,
         DOMAIN directories \subseteq DOMAIN directories',
         Finished' \in {Finished, Finished \cup {Current}},
         Opened \subseteq Opened' \/ Current \in Finished'
  PROVE  /\ \A x \in Finished : Regular(x)' /\ Extracted(x)'
         /\ \A x, y \in Finished : x # y => Apart(x, y)'
         /\ \A d \in DOMAIN directories :
              /\ directories'[d] = directories[d]
              /\ Current \in Finished' => Destination # Workspace \o d
              => Pending(d)'
         /\ \A p \in DOMAIN tree :
              /\ Below(p) /\ p # Home
              /\ \A x \in Finished' : Place(x) # p
              => ByDefault(p)'
<1>1. /\ Archives' = Archives /\ Entries' = Entries
      /\ \A x : At(x)' = At(x) /\ Place(x)' = Place(x)
      /\ \A x, y : Apart(x, y)' <=> Apart(x, y)
      /\ \A p, k : Grows(p, k)' <=> Grows(p, k)
      /\ \A mode : Masked(mode)' = Masked(mode)
  BY SessionStays
<1>2. /\ Current \in Entries /\ Place(Current) = Destination
      /\ Current[1] = object /\ object \in Nat
      /\ \A x \in Finished : x \in Entries /\ x[1] \in Nat /\ x[1] <= object
  BY CurrentEntry DEF Inv
<1>3. /\ \A d \in DOMAIN directories : Pending(d)
      /\ \A x \in Finished : Regular(x) /\ Extracted(x)
      /\ \A x, y \in Finished : x # y => Apart(x, y)
      /\ \A p \in Opened : p \in DOMAIN tree /\ IsDirectory(p)
      /\ \A p \in DOMAIN tree :
            Below(p) /\ p # Home /\ (\A x \in Finished : Place(x) # p) => ByDefault(p)
  BY DEF Inv, Archived, Unpacking, InArchive
<1>4. /\ Finished \subseteq Finished' /\ \A x \in Finished' : x \in Finished \/ x = Current
      /\ Current \in Finished' \/ Finished' = Finished
  OBVIOUS
<1>5. \A k : Closing(k) => k < object /\ Closing(k)'
  BY DEF Closing
<1>6. ASSUME NEW x \in Finished PROVE Regular(x)'
  <2>1. Regular(x)
    BY <1>3
  <2> QED BY <1>1, <1>4, <2>1 DEF Regular
<1>7. ASSUME NEW x \in Finished PROVE Extracted(x)'
  <2> DEFINE p == Place(x)
  <2>1. /\ Extracted(x) /\ Regular(x) /\ p \in DOMAIN tree /\ p \in DOMAIN tree'
        /\ tree'[p].type = tree[p].type /\ tree'[p].mode = tree[p].mode
        /\ tree'[p].owner = tree[p].owner
        /\ tree[p].type # "dir" => tree'[p] = tree[p]
    BY <1>3 DEF Extracted, Kept
  <2>2. CASE At(x).type = "dir"
    <3>1. /\ tree[p].type = "dir" /\ tree[p].owner = "host"
          /\ \/ \E d \in DOMAIN directories : p = Workspace \o d
             \/ Matches(x) /\ Closing(x[1])
      BY <2>1, <2>2 DEF Extracted
    <3>2. Matches(x) /\ Closing(x[1]) => Matches(x)' /\ Closing(x[1])'
      <4>1. SUFFICES ASSUME Matches(x), Closing(x[1]) PROVE Matches(x)'
        BY <1>5
      <4>2. /\ tree[p].mode = Masked(At(x).mode)
            /\ tree[p].mtime = At(x).mtime \/ Grows(p, x[1])
        BY <2>2, <4>1 DEF Matches
      <4>3. tree'[p] # tree[p] => Grows(p, x[1])
        <5>1. x[1] < object
          BY <1>5, <4>1
        <5> QED BY <1>2, <2>1, <5>1 DEF OnTheWay, Grows
      <4> QED BY <1>1, <2>1, <2>2, <3>1, <4>2, <4>3 DEF Matches
    <3> QED BY <1>1, <2>1, <2>2, <3>1, <3>2 DEF Extracted
  <2>3. CASE At(x).type = "file"
    <3>1. Matches(x) /\ tree[p].type = "file"
      BY <2>1, <2>3 DEF Extracted
    <3>2. Matches(x)'
      BY <1>1, <2>1, <2>3, <3>1 DEF Matches
    <3> QED BY <1>1, <2>1, <2>3, <3>1, <3>2 DEF Extracted
  <2>4. CASE At(x).type = "link"
    <3>1. Matches(x) /\ tree[p].type = "link"
      BY <2>1, <2>4 DEF Extracted, Matches
    <3>2. Matches(x)'
      BY <1>1, <2>1, <2>4, <3>1 DEF Matches
    <3> QED BY <1>1, <2>1, <2>4, <3>1, <3>2 DEF Extracted
  <2>5. CASE At(x).type = "hard"
    <3>1. Matches(x) /\ tree[p].type = "file"
      BY <2>1, <2>5 DEF Extracted
    <3>2. PICK y \in Finished : /\ At(y).type \in {"file", "hard"}
                                /\ Trimmed(At(y).path) = Trimmed(At(x).to)
      BY <2>1, <2>5 DEF Regular
    <3>3. Place(y) \in DOMAIN tree /\ tree[Place(y)].type = "file"
      BY <1>3, <3>2 DEF Extracted
    <3>4. tree'[Place(y)] = tree[Place(y)]
      BY <3>3 DEF Kept
    <3>5. Place(y) = Workspace \o Trimmed(At(x).to)
      BY <3>2 DEF Place
    <3>6. tree[p] = tree[Workspace \o Trimmed(At(x).to)]
      BY <2>5, <3>1 DEF Matches
    <3>7. Matches(x)'
      BY <1>1, <2>1, <2>5, <3>1, <3>4, <3>5, <3>6 DEF Matches
    <3> QED BY <1>1, <2>1, <2>5, <3>1, <3>7 DEF Extracted
  <2> QED BY <2>1, <2>2, <2>3, <2>4, <2>5 DEF Regular
<1>8. ASSUME NEW d \in DOMAIN directories, directories'[d] = directories[d],
             Current \in Finished' => Destination # Workspace \o d
      PROVE  Pending(d)'
  <2>1. Pending(d)
    BY <1>3
  <2> DEFINE p == Workspace \o d
  <2>2. /\ p \in DOMAIN tree' /\ tree'[p].type = "dir" /\ tree'[p].owner = "host"
    BY <2>1 DEF Pending, IsDirectory, Kept
  <2>3. (\A x \in Finished : Place(x) # p) => \A x \in Finished' : Place(x) # p
    BY <1>2, <1>4, <1>8
  <2>4. \A x \in Finished' : IsPrefix(p, Place(x)) => x[1] = object
    BY <1>2, <1>4, <2>1 DEF Pending
  <2> QED BY <1>1, <1>4, <1>8, <2>1, <2>2, <2>3, <2>4 DEF Pending, IsDirectory
<1>9. ASSUME NEW p \in DOMAIN tree, Below(p), p # Home,
             \A x \in Finished' : Place(x) # p
      PROVE  ByDefault(p)'
  <2>1. ByDefault(p)
    BY <1>3, <1>4, <1>9
  <2>2. Users(p) \subseteq Users(p)'
    BY <1>1, <1>4 DEF Users
  <2>3. /\ p \in DOMAIN tree' /\ tree'[p].type = "dir" /\ tree'[p].mode = tree[p].mode
    BY <2>1 DEF ByDefault, IsDirectory, Kept
  <2>4. p \in Opened' \/ Users(p)' # {}
    <3>1. p \in Opened => p \in Opened' \/ Current \in Users(p)'
      <4>1. SUFFICES ASSUME p \in Opened, Current \in Finished'
                     PROVE  Current \in Users(p)'
        OBVIOUS
      <4>2. Strictly(p, Destination)
        BY <4>1, HerePlace DEF Opened
      <4> QED BY <1>1, <1>2, <4>1, <4>2 DEF Users
    <3> QED BY <2>1, <2>2, <3>1 DEF ByDefault
  <2>5. CASE \E d \in DOMAIN directories : p = Workspace \o d
    BY <2>3, <2>4, <2>5 DEF ByDefault, IsDirectory
  <2>6. ASSUME tree[p].mode = Bit \ session.mask,
               NEW x \in Users(p), Closing(x[1]),
               \/ tree[p].mtime = 0
               \/ \E z \in Users(p), y \in Entries :
                    Strictly(p, Place(y)) /\ z[1] < y[1]
        PROVE  ByDefault(p)'
    <3>1. x \in Users(p)' /\ Closing(x[1])'
      BY <1>5, <2>2, <2>6
    <3>2. \/ tree'[p].mtime = 0
          \/ \E z \in Users(p)', y \in Entries :
                    Strictly(p, Place(y)) /\ z[1] < y[1]
      <4>1. CASE tree'[p] # tree[p]
        <5>1. Strictly(p, Place(Current)) /\ x[1] < Current[1]
          BY <1>2, <1>5, <2>6, <4>1 DEF OnTheWay
        <5> QED BY <1>2, <3>1, <5>1
      <4>2. CASE tree'[p] = tree[p]
        BY <2>2, <2>6, <4>2
      <4> QED BY <4>1, <4>2
    <3> QED BY <1>1, <2>3, <2>4, <2>6, <3>1, <3>2 DEF ByDefault, IsDirectory
  <2> QED BY <2>1, <2>5, <2>6 DEF ByDefault
<1> QED BY <1>1, <1>3, <1>6, <1>7, <1>8, <1>9

\* A new object in its place.
NewHere(node) == /\ Here \notin DOMAIN tree
                 /\ IsNode(node)
                 /\ node.ino = Here \/ LinkTo(tree, Here, node)
LEMMA PutHere ==
  ASSUME Inv, pc = "parent", NEW node, NewHere(node)
  PROVE  /\ Sound(Put(Here, node))
         /\ DOMAIN Put(Here, node) = DOMAIN tree \cup {Here}
         /\ Put(Here, node)[Here] = node
         /\ Kept(Put(Here, node))
         /\ \A q \in DOMAIN tree :
                Put(Here, node)[q] # tree[q] => Strictly(q, Destination)
         /\ node.ino \in DOMAIN tree \cup {Here}
         /\ Here # Home
         /\ \A x \in Finished : ~IsPrefix(Here, Place(x))
<1>1. /\ Here \in Names /\ Below(Here) /\ Holds(tree, Front(Here))
      /\ Strictly(Front(Here), Destination) /\ Sound(tree)
  BY HerePlace DEF Inv
<1>2. Here # HostRoot /\ Inhabited(Here)
  BY <1>1, BelowIsNew DEF Inv
<1>3. \A p \in DOMAIN tree : tree[p].ino \in DOMAIN tree
  BY DEF Inv, Closed, HasHome, Unpacking, InArchive
<1>4. Fresh(tree, Here, node) \/ LinkTo(tree, Here, node)
  BY <1>3 DEF NewHere, Fresh
<1>5. /\ Sound(Put(Here, node))
      /\ DOMAIN Put(Here, node) = DOMAIN tree \cup {Here}
      /\ Put(Here, node)[Here] = node
      /\ Kept(Put(Here, node))
      /\ \A q \in DOMAIN tree : q # Front(Here) => Put(Here, node)[q] = tree[q]
  BY <1>1, <1>2, <1>4, PutIsSound DEF NewHere
<1>6. node.ino \in DOMAIN tree \cup {Here}
  BY <1>3 DEF NewHere, LinkTo
<1>7. Here # Home
  BY DEF Inv, Stage, Known, HasHome, Unpacking, InArchive, NewHere
<1>8. ASSUME NEW x \in Finished, IsPrefix(Here, Place(x)) PROVE FALSE
  <2>1. Place(x) \in DOMAIN tree
    BY DEF Inv, Archived, Unpacking, InArchive, Extracted
  <2> QED BY <1>1, <1>8, <2>1, LeadingDirectories DEF NewHere, Holds
<1> QED BY <1>1, <1>5, <1>6, <1>7, <1>8

\* Such a step keeps the rest of the host as it is.
LEMMA PlacesStay ==
  ASSUME Inv, pc = "parent", pc' \in {"parent", "header"}, session' = session,
         root' = root,
         tree' = tree \/ \E node : NewHere(node) /\ tree' = Put(Here, node)
  PROVE  Sound(tree') /\ Stage' /\ Closed' /\ Kept(tree') /\ OnTheWay
<1>1. Sound(tree) /\ Stage /\ Closed /\ Control /\ Counters
      /\ pc \in Unpacking /\ pc' \in Unpacking
  BY DEF Inv, Unpacking, InArchive
<1>2. CASE tree' = tree
  BY <1>1, <1>2, StageStays, ClosedStays DEF Kept, OnTheWay
<1>3. ASSUME NEW node, NewHere(node), tree' = Put(Here, node)
      PROVE  Sound(tree') /\ Stage' /\ Closed' /\ Kept(tree') /\ OnTheWay
  <2>1. /\ Sound(tree') /\ DOMAIN tree' = DOMAIN tree \cup {Here}
        /\ tree'[Here] = node /\ Kept(tree')
        /\ \A q \in DOMAIN tree : tree'[q] # tree[q] => Strictly(q, Destination)
        /\ node.ino \in DOMAIN tree \cup {Here}
    BY <1>3, PutHere
  <2>2. Below(Here)
    BY HerePlace
  <2>3. \A q \in DOMAIN tree :
          /\ tree'[q].type = tree[q].type /\ tree'[q].mode = tree[q].mode
          /\ tree'[q].owner = tree[q].owner /\ tree'[q].ino = tree[q].ino
    BY <2>1 DEF Kept
  <2>4. Stage'
    BY <1>1, <2>1, <2>2, <2>3, StageStays
  <2>5. Closed'
    BY <1>1, <2>1, <2>3, ClosedStays
  <2> QED BY <2>1, <2>4, <2>5 DEF OnTheWay
<1> QED BY <1>2, <1>3

\* What the header was accepted for makes the entry a consistent one.
LEMMA EntryIsRegular ==
  ASSUME Inv, pc = "parent", Destination # Home
  PROVE  Regular(Current)
<1>1. /\ Current \in Entries /\ At(Current) = Entry
      /\ Trimmed(At(Current).path) = Relative /\ Place(Current) = Destination
      /\ \A x \in Finished : x \in Entries
  BY CurrentEntry DEF Inv
<1>2. /\ Entry.type \in {"dir", "file", "link", "hard"}
      /\ IsCanonical(Relative)
      /\ Entry.type = "link" => StaysBeneath(Entry)
  BY DEF Inv, Archived, Unpacking, InArchive, Accepted
<1>3. ASSUME Entry.type = "hard"
      PROVE  \E y \in Finished : /\ Precedes(y, Current)
                                 /\ At(y).type \in {"file", "hard"}
                                 /\ Trimmed(At(y).path) = Trimmed(Entry.to)
  <2> DEFINE to == Trimmed(Entry.to)
             target == Workspace \o to
  <2>1. IsCanonical(to) /\ target \in DOMAIN tree /\ tree[target].type = "file"
    BY <1>3 DEF Inv, Archived, Unpacking, InArchive, Accepted
  <2>2. to \in Names /\ to # <<>>
    BY <1>1, <2>1, EntryFacts DEF Inv, Control, IsCanonical
  <2> HIDE DEF to
  <2>3. Below(target)
    BY <2>2, BelowWorkspace
  <2>4. target # Home
    <3>1. tree[Home].type = "dir"
      BY DEF Inv, Stage, HasHome, Unpacking, InArchive, IsDirectory
    <3> QED BY <2>1, <3>1
  <2>5. ~ByDefault(target)
    BY <2>1 DEF ByDefault, IsDirectory
  <2>6. PICK y \in Finished : Place(y) = target
    BY <2>1, <2>3, <2>4, <2>5 DEF Inv, Archived, Unpacking, InArchive
  <2>7. Regular(y) /\ Extracted(y) /\ Precedes(y, Current)
    BY <2>6 DEF Inv, Archived, Unpacking, InArchive, Finished, Current
  <2>8. At(y).type \in {"file", "hard"}
    <3>1. At(y).type # "dir"
      BY <2>1, <2>6, <2>7 DEF Extracted
    <3>2. At(y).type # "link"
      BY <2>1, <2>6, <2>7 DEF Extracted, Matches
    <3> QED BY <2>7, <3>1, <3>2 DEF Regular
  <2>9. Trimmed(At(y).path) = to
    <3>1. Trimmed(At(y).path) \in Names
      BY <1>1, <2>6, EntryFacts DEF Inv, Control
    <3> QED BY <2>2, <2>6, <3>1, BelowWorkspace DEF Place
  <2> QED BY <2>7, <2>8, <2>9 DEF to
<1> QED BY <1>1, <1>2, <1>3 DEF Regular

\* It collides with none of those before it.
LEMMA EntryIsApart ==
  ASSUME Inv, pc = "parent", pos = Len(Relative),
         \/ Destination \notin DOMAIN tree
         \/ /\ Relative \in DOMAIN directories
            /\ ~directories[Relative].explicit /\ Entry.type = "dir",
         NEW x \in Finished
  PROVE  Apart(x, Current) /\ Apart(Current, x)
<1>1. /\ Current \in Entries /\ At(Current) = Entry /\ Current[1] = object
      /\ Place(Current) = Destination /\ Destination \in Names
      /\ x \in Entries /\ x[1] \in Nat /\ x[1] <= object
  BY CurrentEntry DEF Inv
<1>2. Regular(x) /\ Extracted(x) /\ Place(x) \in DOMAIN tree /\ Place(x) \in Names
  BY <1>1, EntryFacts DEF Inv, Archived, Unpacking, InArchive, Extracted, Control
<1>3. Here = Destination /\ Holds(tree, Front(Destination)) /\ Destination # HostRoot
  BY HerePlace, BelowIsNew, CurrentEntry DEF Inv
<1>4. Relative \in DOMAIN directories => Pending(Relative)
  BY DEF Inv, Archived, Unpacking, InArchive
<1>5. Place(x) # Destination
  BY <1>2, <1>4 DEF Pending, Destination
<1>6. Strictly(Place(x), Destination) => At(x).type = "dir"
  <2>1. SUFFICES ASSUME Strictly(Place(x), Destination) PROVE At(x).type = "dir"
    OBVIOUS
  <2>2. IsPrefix(Place(x), Front(Destination))
    BY <1>1, <1>2, <1>3, <2>1, PathOrder DEF Strictly, IsStrictPrefix
  <2>3. tree[Place(x)].type = "dir"
    BY <1>2, <1>3, <2>2, LeadingDirectories DEF Holds, Inv
  <2>4. At(x).type \notin {"file", "hard"}
    BY <1>2, <2>3 DEF Extracted
  <2>5. At(x).type # "link"
    BY <1>2, <2>3 DEF Extracted, Matches
  <2> QED BY <1>2, <2>4, <2>5 DEF Regular
<1>7. Strictly(Destination, Place(x)) => Entry.type = "dir" /\ object <= x[1]
  <2>1. SUFFICES ASSUME Strictly(Destination, Place(x))
                 PROVE  Entry.type = "dir" /\ object <= x[1]
    OBVIOUS
  <2>2. Destination \in DOMAIN tree
    BY <1>1, <1>2, <2>1, LeadingDirectories DEF Holds, Inv, Strictly, IsStrictPrefix
  <2>3. x[1] = object
    BY <1>4, <2>1, <2>2 DEF Pending, Destination, Strictly, IsStrictPrefix
  <2> QED BY <1>1, <2>2, <2>3
<1> QED BY <1>1, <1>5, <1>6, <1>7 DEF Apart

\* The entry is done.
LEMMA EntryEnds ==
  ASSUME Inv, pc = "parent", pos = Len(Relative), NextEntry,
         session' = session, root' = root, builds' = builds, faults' = faults,
         tree' = tree \/ \E node : NewHere(node) /\ tree' = Put(Here, node),
         Destination \in DOMAIN tree',
         DOMAIN directories \subseteq DOMAIN directories',
         DOMAIN directories' \subseteq DOMAIN directories \cup {Relative},
         \A d \in DOMAIN directories : d # Relative => directories'[d] = directories[d],
         NEW r, r = Relative, r \in DOMAIN directories' => Pending(r)',
         NEW e, e = Current, Regular(e), Extracted(e)',
         \A x \in Finished : Apart(x, Current) /\ Apart(Current, x)
  PROVE  Inv'
<1>1. /\ Sound(tree') /\ Stage' /\ Closed' /\ Kept(tree') /\ OnTheWay
      /\ pc' = "header" /\ object' = object /\ next' = next + 1 /\ pos' = 1
      /\ outcome' = outcome
  BY PlacesStay DEF NextEntry
<1>2. /\ Current \in Entries /\ Current \notin Finished
      /\ Place(Current) = Destination /\ Relative \in Names /\ Destination \in Names
      /\ Finished \cup {Current} = {x \in Entries : Precedes(x, <<object, next + 1>>)}
  BY CurrentEntry DEF Inv
<1>3. /\ Archives' = Archives /\ Entries' = Entries
      /\ \A x : At(x)' = At(x) /\ Place(x)' = Place(x)
      /\ \A x, y : Apart(x, y)' <=> Apart(x, y)
  BY SessionStays
<1>4. Finished' = Finished \cup {Current}
  BY <1>1, <1>2, <1>3 DEF Finished
<1>5. Counters'
  BY <1>1 DEF Inv, Counters
<1>6. Control'
  <2>1. /\ object \in DOMAIN session.objects
        /\ Len(session.objects[object].entries) \in Nat
    BY SessionFacts DEF Inv, Control, InArchive
  <2>2. IsFiniteSet(DOMAIN directories')
    <3>1. IsFiniteSet(DOMAIN directories \cup {Relative})
      BY FS_AddElement DEF Inv, Control
    <3> QED BY <3>1, FS_Subset
  <2> QED BY <1>1, <2>1, <2>2 DEF Inv, Control, Unpacking, InArchive
<1>7. /\ \A x \in Finished : Regular(x)' /\ Extracted(x)'
      /\ \A x, y \in Finished : x # y => Apart(x, y)'
      /\ \A d \in DOMAIN directories :
              /\ directories'[d] = directories[d]
              /\ Current \in Finished' => Destination # Workspace \o d
              => Pending(d)'
      /\ \A p \in DOMAIN tree :
              /\ Below(p) /\ p # Home
              /\ \A x \in Finished' : Place(x) # p
              => ByDefault(p)'
  BY <1>1, <1>4, ExtractedStays
<1>8. Archived'
  <2>1. \A k \in Archives' : k < object' => (session.objects[k].entries # <<>>)'
    BY <1>1, <1>3 DEF Inv, Archived, Unpacking, InArchive
  <2>2. \A d \in DOMAIN directories' : Pending(d)'
    <3>1. ASSUME NEW d \in DOMAIN directories, d # Relative
          PROVE  Pending(d)'
      <4>1. d \in Names
        BY DEF Inv, Archived, Unpacking, InArchive, Pending
      <4>2. Destination # Workspace \o d
        BY <1>2, <3>1, <4>1, BelowWorkspace DEF Destination
      <4>3. directories'[d] = directories[d]
        BY <3>1
      <4> QED BY <1>7, <4>2, <4>3
    <3>2. \A d \in DOMAIN directories' : d \in DOMAIN directories \/ d = r
      OBVIOUS
    <3> QED BY <3>1, <3>2
  <2>3. \A x \in Finished' : Regular(x)' /\ Extracted(x)'
    <3>1. Regular(e)'
      BY <1>3, <1>4 DEF Regular
    <3> QED BY <1>4, <1>7, <3>1
  <2>4. \A x, y \in Finished' : x # y => Apart(x, y)'
    BY <1>3, <1>4, <1>7
  <2>5. Opened' = {} /\ Accepted'
    BY <1>1 DEF Opened, Accepted
  <2>6. \A p \in DOMAIN tree' :
          Below(p) /\ p # Home /\ (\A x \in Finished' : Place(x)' # p) => ByDefault(p)'
    <3>1. SUFFICES ASSUME NEW p \in DOMAIN tree', Below(p), p # Home,
                          \A x \in Finished' : Place(x) # p
                   PROVE  ByDefault(p)'
      BY <1>3
    <3>2. p # Destination
      BY <1>2, <1>4, <3>1
    <3>3. p \in DOMAIN tree
      BY <3>1, <3>2, PutHere, HerePlace
    <3> QED BY <1>7, <3>1, <3>3
  <2> QED BY <2>1, <2>2, <2>3, <2>4, <2>5, <2>6 DEF Archived
<1>9. PreparedAsDeclared'
  BY <1>1 DEF PreparedAsDeclared
<1> QED BY <1>1, <1>5, <1>6, <1>8, <1>9 DEF Inv

\* What an entry of each type becomes.
Becomes(node, map) ==
    LET target == Workspace \o Trimmed(Entry.to) IN
    CASE Entry.type = "file" -> node = Node("file", Masked(Entry.mode), Entry.mtime,
                                        "host", Entry.data, <<>>, Destination)
      [] Entry.type = "hard" -> node = tree[target]
      [] Entry.type = "link" -> node.type = "link" /\ node.to = Entry.to
                                /\ node.mtime = Entry.mtime
      [] Entry.type = "dir" -> /\ node.type = "dir" /\ node.owner = "host"
                               /\ map = With(directories, Relative,
                                    [mode |-> Masked(Entry.mode),
                                     mtime |-> Entry.mtime, explicit |-> TRUE])
LEMMA CreateKeeps ==
  ASSUME Inv, pc = "parent", pos = Len(Relative), session' = session,
         root' = root, builds' = builds,
         NEW node, NEW partial, NEW map, Create(node, partial, map),
         Destination \notin DOMAIN tree => NewHere(node) /\ NewHere(partial),
         Becomes(node, map), Entry.type # "dir" => map = directories
  PROVE  Inv'
<1>1. /\ Here = Destination /\ Destination \in Names
      /\ Current \in Entries /\ At(Current) = Entry /\ Current[1] = object
      /\ Place(Current) = Destination /\ Relative \in Names /\ Relative # <<>>
      /\ Trimmed(At(Current).path) = Relative
  BY HerePlace, CurrentEntry DEF Inv
<1>2. Sound(tree) /\ root \in DOMAIN Roots
  BY DEF Inv, Counters
<1>3. CASE /\ Fails(~(Destination \notin DOMAIN tree /\ MayAdd(Destination)))
           /\ tree' = tree \/ ((Destination \notin DOMAIN tree /\ MayAdd(Destination))
                               /\ tree' = Put(Destination, partial))
           /\ Throw
  <2>1. Sound(tree')
    BY <1>1, <1>2, <1>3, PutHere
  <2> QED BY <1>2, <1>3, <2>1, ThrowEnds DEF Fails
<1>4. CASE /\ Destination \notin DOMAIN tree
           /\ tree' = Put(Destination, node)
           /\ directories' = map
           /\ NextEntry
           /\ UNCHANGED faults
  <2>1. /\ NewHere(node) /\ tree' = Put(Here, node) /\ Here \notin DOMAIN tree
        /\ DOMAIN tree' = DOMAIN tree \cup {Destination} /\ tree'[Destination] = node
        /\ Kept(tree') /\ Destination # Home
        /\ \A x \in Finished : ~IsPrefix(Destination, Place(x))
    BY <1>1, <1>4, PutHere
  <2>2. Relative \notin DOMAIN directories
    BY <1>4 DEF Inv, Archived, Unpacking, InArchive, Pending, Destination
  <2>3. /\ Entry.type \in {"dir", "file", "link", "hard"}
        /\ Entry.type = "hard" =>
            LET target == Workspace \o Trimmed(Entry.to) IN
            target \in DOMAIN tree /\ tree[target].type = "file"
    BY DEF Inv, Archived, Unpacking, InArchive, Accepted
  <2>4. Regular(Current) /\ \A x \in Finished : Apart(x, Current) /\ Apart(Current, x)
    BY <2>1, <1>4, EntryIsRegular, EntryIsApart
  <2>a. PICK r : r = Relative
    OBVIOUS
  <2>b. PICK e : e = Current
    OBVIOUS
  <2>c. PICK m : m = [mode |-> Masked(Entry.mode), mtime |-> Entry.mtime,
                      explicit |-> TRUE]
    OBVIOUS
  <2>5. Entry.type = "dir" => map = With(directories, r, m)
                              /\ node.type = "dir" /\ node.owner = "host"
    BY <2>a, <2>c DEF Becomes
  <2>6. /\ DOMAIN directories \subseteq DOMAIN directories'
        /\ DOMAIN directories' \subseteq DOMAIN directories \cup {Relative}
        /\ \A d \in DOMAIN directories :
                d # Relative => directories'[d] = directories[d]
        /\ Relative \in DOMAIN directories' <=> Entry.type = "dir"
        /\ Entry.type = "dir" => directories'[r] = m
    <3>1. CASE Entry.type = "dir"
      <4>1. directories' = With(directories, r, m)
        BY <1>4, <2>5, <3>1
      <4>2. /\ DOMAIN directories' = DOMAIN directories \cup {r}
            /\ directories'[r] = m
            /\ \A d \in DOMAIN directories : d # r => directories'[d] = directories[d]
        BY <4>1 DEF With
      <4> QED BY <2>a, <3>1, <4>2
    <3>2. CASE Entry.type # "dir"
      BY <1>4, <2>2, <3>2
    <3> QED BY <3>1, <3>2
  <2>7. /\ e \in Entries /\ Place(e) = Destination /\ At(e) = Entry /\ e[1] = object
        /\ At(e)' = Entry /\ Place(e)' = Destination
        /\ (\A mode : Masked(mode)' = Masked(mode))
        /\ Destination = Workspace \o r /\ r \in Names /\ r # <<>>
    BY <1>1, <2>a, <2>b, SessionStays DEF Destination
  <2>8. Extracted(e)'
    <3>1. CASE Entry.type = "file"
      <4>1. node = Node("file", Masked(Entry.mode), Entry.mtime,
                        "host", Entry.data, <<>>, Destination)
        BY <3>1 DEF Becomes
      <4>2. node.type = "file"
        BY <4>1 DEF Node
      <4> QED BY <2>1, <2>7, <3>1, <4>1, <4>2 DEF Extracted, Matches
    <3>2. CASE Entry.type = "link"
      <4>1. node.type = "link" /\ node.to = Entry.to /\ node.mtime = Entry.mtime
        BY <3>2 DEF Becomes
      <4> QED BY <2>1, <2>7, <3>2, <4>1 DEF Extracted, Matches
    <3>3. CASE Entry.type = "hard"
      <4> DEFINE target == Workspace \o Trimmed(Entry.to)
      <4>1. node = tree[target] /\ node.type = "file" /\ tree'[target] = tree[target]
        BY <2>1, <2>3, <3>3 DEF Becomes, Kept
      <4> QED BY <2>1, <2>7, <3>3, <4>1 DEF Extracted, Matches
    <3>4. CASE Entry.type = "dir"
      <4>1. \E d \in DOMAIN directories' : Place(e)' = Workspace \o d
        BY <2>6, <2>7, <2>a, <3>4
      <4> QED BY <2>1, <2>5, <2>7, <3>4, <4>1 DEF Extracted
    <3> QED BY <2>3, <3>1, <3>2, <3>3, <3>4
  <2>9. r \in DOMAIN directories' => Pending(r)'
    <3>1. SUFFICES ASSUME Entry.type = "dir" PROVE Pending(r)'
      BY <2>6, <2>a
    <3>2. /\ m = [mode |-> m.mode, mtime |-> m.mtime, explicit |-> m.explicit]
          /\ m.explicit = TRUE /\ m.mode = Masked(Entry.mode) /\ m.mtime = Entry.mtime
      BY <2>c
    <3>3. Finished' = Finished \cup {e} /\ object' = object
      <4>1. Finished \cup {e} = {x \in Entries : Precedes(x, <<object, next + 1>>)}
        BY <2>b, CurrentEntry DEF Inv
      <4> QED BY <1>4, <4>1, SessionStays DEF Finished, NextEntry
    <3>4. \A x \in Finished' : IsPrefix(Destination, Place(x)) => x[1] = object
      BY <2>1, <2>7, <3>3
    <3>5. /\ Destination \in DOMAIN tree' /\ tree'[Destination].type = "dir"
          /\ tree'[Destination].owner = "host"
      BY <2>1, <2>5, <3>1
    <3>6. \A x : Place(x)' = Place(x)
      BY SessionStays
    <3>7. \E x \in Finished' : /\ x[1] = object' /\ Place(x)' = Destination
                               /\ At(x)'.type = "dir"
                               /\ m.mode = Masked(At(x).mode)' /\ m.mtime = At(x)'.mtime
      BY <2>7, <3>1, <3>2, <3>3
    <3> QED BY <2>1, <2>6, <2>7, <3>1, <3>2, <3>3, <3>4, <3>5, <3>6, <3>7
            DEF Pending, IsDirectory
  <2>10. /\ tree' = tree \/ \E n : NewHere(n) /\ tree' = Put(Here, n)
         /\ Destination \in DOMAIN tree' /\ faults' = faults
    BY <1>4, <2>1
  <2>11. r = Relative /\ e = Current /\ Regular(e)
    BY <2>4, <2>a, <2>b
  <2> QED BY <1>4, <2>4, <2>6, <2>8, <2>9, <2>10, <2>11, EntryEnds
<1> QED BY <1>3, <1>4 DEF Create

\* The objects that archives bring.
LEMMA ObjectNodes ==
  ASSUME Inv, pc = "parent", pos = Len(Relative), Destination \notin DOMAIN tree
  PROVE  /\ NewHere(Directory(Private, Now, "host", Destination))
         /\ NewHere(Node("file", Masked(Entry.mode), Entry.mtime, "host",
                         Entry.data, <<>>, Destination))
         /\ NewHere(HalfWritten)
         /\ \A time : NewHere(Node("link", Bit, time, "host", Blank, Entry.to,
                                   Destination))
         /\ Entry.type = "hard" => NewHere(tree[Workspace \o Trimmed(Entry.to)])
<1>1. Here = Destination /\ Below(Destination)
  BY HerePlace
<1>2. Private \subseteq Bit /\ Bit \subseteq Bit /\ Masked(Entry.mode) \subseteq Bit
  BY DEF Private, Bit, Masked
<1>3. ASSUME NEW type \in {"dir", "file", "link"}, NEW mode, mode \subseteq Bit,
             NEW time, NEW data, NEW to
      PROVE  NewHere(Node(type, mode, time, "host", data, to, Destination))
  <2> DEFINE n == Node(type, mode, time, "host", data, to, Destination)
  <2>1. IsNode(n) /\ n.ino = Destination
    BY <1>3 DEF IsNode, Node
  <2> QED BY <1>1, <2>1 DEF NewHere
<1>4. ASSUME Entry.type = "hard"
      PROVE  NewHere(tree[Workspace \o Trimmed(Entry.to)])
  <2> DEFINE to == Trimmed(Entry.to)
             target == Workspace \o to
  <2>1. IsCanonical(to) /\ target \in DOMAIN tree /\ tree[target].type = "file"
    BY <1>4 DEF Inv, Archived, Unpacking, InArchive, Accepted
  <2>2. to \in Names /\ to # <<>>
    BY <2>1, CurrentEntry, EntryFacts DEF Inv, Control, IsCanonical
  <2>3. Below(target)
    <3> HIDE DEF to
    <3> QED BY <2>2, BelowWorkspace
  <2>4. IsNode(tree[target])
    BY <2>1 DEF Inv, Sound
  <2> HIDE DEF target
  <2>5. LinkTo(tree, Here, tree[target])
    BY <1>1, <2>1, <2>3 DEF LinkTo
  <2>6. NewHere(tree[target])
    BY <1>1, <2>4, <2>5 DEF NewHere
  <2> QED BY <2>6 DEF target
<1> QED BY <1>2, <1>3, <1>4 DEF Directory, HalfWritten

LEMMA AdmittedIsMasked == \A mode : Admitted(mode) = Masked(mode)
BY DEF Admitted, Masked

LEMMA ExtractRegularKeeps ==
  ASSUME Inv, ExtractRegular, root' = root, builds' = builds PROVE Inv'
<1>1. /\ pc = "parent" /\ pos = Len(Relative) /\ Entry.type = "file"
      /\ session' = session
  BY DEF ExtractRegular, AtLeaf
<1> DEFINE node == Node("file", Masked(Entry.mode), Entry.mtime, "host",
                        Entry.data, <<>>, Destination)
<1>2. Create(node, HalfWritten, directories)
  BY AdmittedIsMasked DEF ExtractRegular
<1>3. Destination \notin DOMAIN tree => NewHere(node) /\ NewHere(HalfWritten)
  BY <1>1, ObjectNodes
<1>4. Becomes(node, directories)
  BY <1>1 DEF Becomes
<1> HIDE DEF node
<1> QED BY <1>1, <1>2, <1>3, <1>4, CreateKeeps

LEMMA ExtractSymlinkKeeps ==
  ASSUME Inv, ExtractSymlink, root' = root, builds' = builds PROVE Inv'
<1>1. /\ pc = "parent" /\ pos = Len(Relative) /\ Entry.type = "link"
      /\ session' = session
  BY DEF ExtractSymlink, AtLeaf
<1> DEFINE link(time) == Node("link", Bit, time, "host", Blank, Entry.to, Destination)
<1>2. Create(link(Entry.mtime), link(Now), directories)
  BY DEF ExtractSymlink
<1>3. Destination \notin DOMAIN tree =>
        NewHere(link(Entry.mtime)) /\ NewHere(link(Now))
  BY <1>1, ObjectNodes
<1>4. Becomes(link(Entry.mtime), directories)
  BY <1>1 DEF Becomes, Node
<1> HIDE DEF link
<1> QED BY <1>1, <1>2, <1>3, <1>4, CreateKeeps

LEMMA ExtractHardlinkKeeps ==
  ASSUME Inv, ExtractHardlink, root' = root, builds' = builds PROVE Inv'
<1> DEFINE file == tree[Workspace \o Trimmed(Entry.to)]
<1>1. /\ pc = "parent" /\ pos = Len(Relative) /\ Entry.type = "hard"
      /\ session' = session
  BY DEF ExtractHardlink, AtLeaf
<1>2. Create(file, file, directories)
  BY DEF ExtractHardlink
<1>3. Destination \notin DOMAIN tree => NewHere(file)
  BY <1>1, ObjectNodes
<1>4. Becomes(file, directories)
  BY <1>1 DEF Becomes
<1> HIDE DEF file
<1> QED BY <1>1, <1>2, <1>3, <1>4, CreateKeeps

\* A directory that entries before it implied takes over what is declared.
LEMMA ExtractDirectoryKeeps ==
  ASSUME Inv, ExtractDirectory, root' = root, builds' = builds PROVE Inv'
<1>1. /\ pc = "parent" /\ pos = Len(Relative) /\ Entry.type = "dir"
      /\ session' = session
  BY DEF ExtractDirectory, AtLeaf
<1>a. root \in DOMAIN Roots /\ Sound(tree)
  BY DEF Inv, Counters
<1>2. CASE Relative \notin DOMAIN directories
  <2> DEFINE node == Directory(Private, Now, "host", Destination)
             map == With(directories, Relative, Declaration)
  <2>1. Create(node, node, map)
    BY <1>2 DEF ExtractDirectory
  <2>2. Destination \notin DOMAIN tree => NewHere(node)
    BY <1>1, ObjectNodes
  <2>3. Becomes(node, map)
    BY <1>1, AdmittedIsMasked DEF Becomes, Declaration, Directory, Node
  <2> HIDE DEF node, map
  <2> QED BY <1>1, <2>1, <2>2, <2>3, CreateKeeps
<1>3. CASE Relative \in DOMAIN directories /\ directories[Relative].explicit
  BY <1>1, <1>3, <1>a, ThrowEnds DEF ExtractDirectory
<1>4. CASE Relative \in DOMAIN directories /\ ~directories[Relative].explicit
  <2>1. /\ tree' = tree /\ faults' = faults /\ NextEntry
        /\ directories' = [directories EXCEPT ![Relative] = TakesOver]
    BY <1>4 DEF ExtractDirectory
  <2>2. Pending(Relative) /\ Destination \in DOMAIN tree /\ Destination # Home
        /\ tree[Destination].type = "dir" /\ tree[Destination].owner = "host"
        /\ \A x \in Finished : IsPrefix(Destination, Place(x)) => x[1] = object
    <3>1. Pending(Relative)
      BY <1>1, <1>4 DEF Inv, Archived, Unpacking, InArchive
    <3> QED BY <1>4, <3>1 DEF Pending, Destination, IsDirectory
  <2>3. Regular(Current) /\ \A x \in Finished : Apart(x, Current) /\ Apart(Current, x)
    BY <1>1, <1>4, <2>2, EntryIsRegular, EntryIsApart
  <2>a. PICK r : r = Relative
    OBVIOUS
  <2>b. PICK e : e = Current
    OBVIOUS
  <2>c. PICK m : m = TakesOver
    OBVIOUS
  <2>4. /\ DOMAIN directories' = DOMAIN directories /\ directories'[r] = m
        /\ \A d \in DOMAIN directories : d # Relative => directories'[d] = directories[d]
    BY <1>4, <2>1, <2>a, <2>c
  <2>5. /\ e \in Entries /\ Place(e) = Destination /\ At(e) = Entry /\ e[1] = object
        /\ At(e)' = Entry /\ Place(e)' = Destination
        /\ (\A mode : Masked(mode)' = Masked(mode))
        /\ Destination = Workspace \o r /\ r \in Names /\ r # <<>>
        /\ object' = object /\ Finished' = Finished \cup {e}
    <3>1. /\ Current \in Entries /\ Place(Current) = Destination
          /\ At(Current) = Entry /\ Current[1] = object
          /\ Relative \in Names /\ Relative # <<>>
          /\ Finished \cup {Current} = {x \in Entries : Precedes(x, <<object, next + 1>>)}
      BY <1>1, CurrentEntry DEF Inv
    <3>2. object' = object /\ Finished' = Finished \cup {Current}
      BY <1>1, <2>1, <3>1, SessionStays DEF Finished, NextEntry
    <3> QED BY <1>1, <2>a, <2>b, <3>1, <3>2, SessionStays DEF Destination
  <2>6. Extracted(e)'
    <3>1. \E d \in DOMAIN directories' : Place(e)' = Workspace \o d
      BY <1>4, <2>4, <2>5, <2>a
    <3> QED BY <1>1, <2>1, <2>2, <2>5, <3>1 DEF Extracted
  <2>7. Pending(r)'
    <3>1. /\ m = [mode |-> m.mode, mtime |-> m.mtime, explicit |-> m.explicit]
          /\ m.explicit = TRUE /\ m.mode = Masked(Entry.mode) /\ m.mtime = Entry.mtime
      BY <2>c, AdmittedIsMasked DEF TakesOver, Declaration
    <3>2. \A x \in Finished' : IsPrefix(Destination, Place(x)) => x[1] = object
      BY <2>2, <2>5
    <3>3. \A x : Place(x)' = Place(x)
      BY <1>1, SessionStays
    <3>4. \E x \in Finished' : /\ x[1] = object' /\ Place(x)' = Destination
                               /\ At(x)'.type = "dir"
                               /\ m.mode = Masked(At(x).mode)' /\ m.mtime = At(x)'.mtime
      BY <1>1, <2>5, <3>1
    <3> QED BY <2>1, <2>2, <2>4, <2>5, <3>1, <3>2, <3>3, <3>4, ZenonT(30) DEF Pending, IsDirectory
  <2>8. r = Relative /\ e = Current /\ Regular(e) /\ Destination \in DOMAIN tree'
    BY <2>1, <2>2, <2>3, <2>a, <2>b
  <2> QED BY <1>1, <2>1, <2>3, <2>4, <2>6, <2>7, <2>8, EntryEnds
<1> QED BY <1>2, <1>3, <1>4

\* A parent component is open.
LEMMA ComponentOpened ==
  ASSUME Inv, pc = "parent", pos < Len(Relative), pc' = "parent", pos' = pos + 1,
         session' = session, root' = root, builds' = builds, faults' = faults,
         outcome' = outcome, object' = object, next' = next,
         tree' = tree \/ \E node : NewHere(node) /\ tree' = Put(Here, node),
         Holds(tree', Here),
         NEW r, r = SubSeq(Relative, 1, pos),
         DOMAIN directories \subseteq DOMAIN directories',
         DOMAIN directories' \subseteq DOMAIN directories \cup {r},
         \A d \in DOMAIN directories : directories'[d] = directories[d],
         r \in DOMAIN directories' \ DOMAIN directories => Pending(r)',
         Here \notin DOMAIN tree => r \in DOMAIN directories'
  PROVE  Inv'
<1>1. Sound(tree') /\ Stage' /\ Closed' /\ Kept(tree') /\ OnTheWay
  BY PlacesStay
<1>2. /\ Archives' = Archives /\ Entries' = Entries
      /\ \A x : At(x)' = At(x) /\ Place(x)' = Place(x)
      /\ \A x, y : Apart(x, y)' <=> Apart(x, y)
  BY SessionStays
<1>3. Entry' = Entry /\ Relative' = Relative /\ Finished' = Finished
  BY <1>2 DEF Entry, Relative, Finished
<1>4. Opened' = Opened \cup {Here}
  <2>1. pos \in Nat \ {0}
    BY DEF Inv, Control
  <2>2. 1 .. pos' - 1 = (1 .. pos - 1) \cup {pos}
    BY <2>1
  <2> QED BY <1>3, <2>2 DEF Opened, Here
<1>5. Counters'
  BY DEF Inv, Counters
<1>6. Control'
  <2>1. IsFiniteSet(DOMAIN directories')
    <3>1. IsFiniteSet(DOMAIN directories \cup {r})
      BY FS_AddElement DEF Inv, Control
    <3> QED BY <3>1, FS_Subset
  <2>2. Len(Relative) \in Nat /\ pos \in Nat
    BY CurrentEntry DEF Inv
  <2> QED BY <1>3, <2>1, <2>2 DEF Inv, Control, Unpacking, InArchive
<1>7. Current \notin Finished'
  BY <1>3, CurrentEntry DEF Inv
<1>8. /\ \A x \in Finished : Regular(x)' /\ Extracted(x)'
      /\ \A x, y \in Finished : x # y => Apart(x, y)'
      /\ \A d \in DOMAIN directories :
              /\ directories'[d] = directories[d]
              /\ Current \in Finished' => Destination # Workspace \o d
              => Pending(d)'
      /\ \A p \in DOMAIN tree :
              /\ Below(p) /\ p # Home
              /\ \A x \in Finished' : Place(x) # p
              => ByDefault(p)'
  BY <1>1, <1>3, <1>4, ExtractedStays
<1>9. Archived'
  <2>1. \A k \in Archives' : k < object' => (session.objects[k].entries # <<>>)'
    BY <1>2 DEF Inv, Archived, Unpacking, InArchive
  <2>2. \A d \in DOMAIN directories' : Pending(d)'
    <3>1. \A d \in DOMAIN directories : Pending(d)'
      BY <1>7, <1>8
    <3> QED BY <3>1
  <2>3. \A x \in Finished' : Regular(x)' /\ Extracted(x)'
    BY <1>3, <1>8
  <2>4. \A x, y \in Finished' : x # y => Apart(x, y)'
    BY <1>3, <1>8
  <2>5. \A p \in Opened' : p \in DOMAIN tree' /\ IsDirectory(p)'
    <3>1. \A p \in Opened : p \in DOMAIN tree /\ tree[p].type = "dir"
      BY DEF Inv, Archived, Unpacking, InArchive, IsDirectory
    <3> QED BY <1>1, <1>4, <3>1 DEF Kept, Holds, IsDirectory
  <2>6. ASSUME NEW p \in DOMAIN tree', Below(p), p # Home,
               \A x \in Finished' : Place(x) # p
        PROVE  ByDefault(p)'
    <3>1. CASE p \in DOMAIN tree
      BY <1>8, <2>6, <3>1
    <3>2. CASE p \notin DOMAIN tree
      <4>1. p = Here
        BY <3>2, PutHere
      <4>2. Here = Workspace \o r /\ r \in DOMAIN directories'
        BY <3>2, <4>1 DEF Here
      <4> QED BY <1>4, <4>1, <4>2 DEF ByDefault, Holds, IsDirectory
    <3> QED BY <3>1, <3>2
  <2>7. Accepted'
    <3>1. /\ Entry.type \in {"dir", "file", "link", "hard"}
          /\ IsCanonical(Relative)
          /\ Entry.type = "link" => StaysBeneath(Entry)
          /\ Entry.type = "hard" =>
              LET target == Workspace \o Trimmed(Entry.to) IN
              /\ IsCanonical(Trimmed(Entry.to))
              /\ target \in DOMAIN tree /\ tree[target].type = "file"
      BY DEF Inv, Archived, Unpacking, InArchive, Accepted
    <3>2. Entry.type = "hard" =>
              LET target == Workspace \o Trimmed(Entry.to) IN
              target \in DOMAIN tree' /\ tree'[target].type = "file"
      BY <1>1, <3>1 DEF Kept
    <3> QED BY <1>3, <3>1, <3>2 DEF Accepted
  <2> QED BY <1>2, <2>1, <2>2, <2>3, <2>4, <2>5, <2>6, <2>7 DEF Archived
<1>10. PreparedAsDeclared'
  BY DEF PreparedAsDeclared
<1> QED BY <1>1, <1>5, <1>6, <1>9, <1>10 DEF Inv

LEMMA OpenParentKeeps ==
  ASSUME Inv, OpenParent, root' = root, builds' = builds PROVE Inv'
<1> DEFINE node == Directory(Private, Now, "host", Here)
           made == Put(Here, node)
           open == Here \in DOMAIN tree /\ PassesThrough(Here) /\ MayUse(Here, {"rx"})
           make == Here \notin DOMAIN tree /\ MayAdd(Here)
<1>1. /\ pc = "parent" /\ pos < Len(Relative) /\ session' = session
      /\ root \in DOMAIN Roots /\ Sound(tree)
  BY DEF OpenParent, Inv, Counters
<1>2. Here \notin DOMAIN tree => NewHere(node)
  <2>1. IsNode(node) /\ node.ino = Here
    BY NewNodes DEF Private, Bit
  <2> HIDE DEF node
  <2> QED BY <2>1 DEF NewHere
<1>3. node.type = "dir" /\ node.owner = "host"
  BY DEF Directory, Node
<1> HIDE DEF node
<1>4. CASE /\ Fails(~open /\ ~make)
           /\ tree' = tree \/ (make /\ tree' = made)
           /\ Throw
  <2>1. Sound(tree')
    BY <1>1, <1>2, <1>4, PutHere
  <2> QED BY <1>1, <1>4, <2>1, ThrowEnds DEF Fails
<1>5. CASE /\ open
           /\ pos' = pos + 1
           /\ UNCHANGED <<pc, outcome, tree, object, next, directories, faults>>
  <2>1. Holds(tree', Here) /\ Here \in DOMAIN tree
    BY <1>5 DEF Holds, PassesThrough, IsDirectory
  <2>2. PICK r : r = SubSeq(Relative, 1, pos)
    OBVIOUS
  <2> HIDE DEF open
  <2> QED BY <1>1, <1>5, <2>1, <2>2, ComponentOpened
<1>6. CASE /\ make
           /\ tree' = made
           /\ directories' =
                With(directories, SubSeq(Relative, 1, pos),
                     [mode |-> Admitted(Bit), mtime |-> 0, explicit |-> FALSE])
           /\ pos' = pos + 1
           /\ UNCHANGED <<pc, outcome, object, next, faults>>
  <2>1. /\ NewHere(node) /\ tree' = Put(Here, node) /\ Here \notin DOMAIN tree
        /\ DOMAIN tree' = DOMAIN tree \cup {Here} /\ tree'[Here] = node
        /\ Here # Home /\ \A x \in Finished : ~IsPrefix(Here, Place(x))
    BY <1>1, <1>2, <1>6, PutHere
  <2>a. PICK r : r = SubSeq(Relative, 1, pos)
    OBVIOUS
  <2>b. PICK m : m = [mode |-> Admitted(Bit), mtime |-> 0, explicit |-> FALSE]
    OBVIOUS
  <2>2. r \notin DOMAIN directories /\ r \in Names /\ r # <<>> /\ Here = Workspace \o r
    <3>1. r \in Names /\ r # <<>> /\ Here = Workspace \o r
      BY <1>1, <2>a, HerePlace DEF Here
    <3>2. r \notin DOMAIN directories
      BY <1>1, <2>1, <3>1 DEF Inv, Archived, Unpacking, InArchive, Pending
    <3> QED BY <3>1, <3>2
  <2>3. /\ DOMAIN directories' = DOMAIN directories \cup {r}
        /\ directories'[r] = m
        /\ \A d \in DOMAIN directories : directories'[d] = directories[d]
    <3>1. directories' = With(directories, r, m)
      BY <1>6, <2>a, <2>b
    <3> QED BY <2>2, <3>1 DEF With
  <2>4. Finished' = Finished /\ \A x : Place(x)' = Place(x)
    BY <1>1, <1>6, SessionStays DEF Finished
  <2>5. Pending(r)'
    <3>1. /\ m = [mode |-> m.mode, mtime |-> m.mtime, explicit |-> m.explicit]
          /\ m.explicit = FALSE /\ m.mode = Bit \ session.mask /\ m.mtime = 0
      BY <2>b DEF Admitted
    <3>2. \A x \in Finished : Place(x) # Here
      <4>1. IsPrefix(Here, Here)
        BY <1>1, HerePlace, PathOrder
      <4> QED BY <2>1, <4>1
    <3>3. tree'[Here].type = "dir" /\ tree'[Here].owner = "host" /\ Here \in DOMAIN tree'
      BY <1>3, <2>1
    <3> QED BY <1>1, <2>1, <2>2, <2>3, <2>4, <3>1, <3>2, <3>3
            DEF Pending, IsDirectory
  <2>6. Holds(tree', Here)
    BY <1>3, <2>1 DEF Holds
  <2> HIDE DEF make
  <2> QED BY <1>1, <1>6, <2>1, <2>3, <2>5, <2>6, <2>a, ComponentOpened
<1> QED BY <1>1, <1>4, <1>5, <1>6 DEF OpenParent, Here, node
-----------------------------------------------------------------------------
(***************************************************************************)
(* The pending metadata, deepest directory first.                          *)
(***************************************************************************)
LEMMA DeepestExists ==
  ASSUME NEW D, D \subseteq Names, IsFiniteSet(D), D # {}
  PROVE  DeepestFirst(D) \in D /\ \A q \in D : Len(q) <= Len(DeepestFirst(D))
<1>1. PICK seq \in Seq(D) : \A d \in D : \E n \in 1 .. Len(seq) : seq[n] = d
  BY DEF IsFiniteSet
<1>2. Len(seq) \in Nat /\ \A n \in 1 .. Len(seq) : seq[n] \in D
  BY LenProperties, ElementOfSeq
<1>3. \A d \in D : Len(d) \in Nat
  BY PathOrder
<1> DEFINE Deepest(n) == \E k \in 1 .. n : \A j \in 1 .. n : Len(seq[j]) <= Len(seq[k])
           T == {n \in Nat : n \in 1 .. Len(seq) => Deepest(n)}
<1>4. Nat \subseteq T
  <2>1. 0 \in T
    BY <1>2
  <2>2. ASSUME NEW n \in Nat, n \in T PROVE n + 1 \in T
    <3>1. SUFFICES ASSUME n + 1 \in 1 .. Len(seq) PROVE Deepest(n + 1)
      OBVIOUS
    <3>2. \A j \in 1 .. n + 1 : Len(seq[j]) \in Nat
      BY <1>2, <1>3, <3>1
    <3>3. CASE n = 0
      <4>1. \A j \in 1 .. n + 1 : j = 1
        BY <3>3
      <4> QED BY <3>2, <3>3, <4>1
    <3>4. ASSUME n # 0 PROVE Deepest(n + 1)
      <4>1. PICK k \in 1 .. n : \A j \in 1 .. n : Len(seq[j]) <= Len(seq[k])
        BY <1>2, <2>2, <3>1, <3>4
      <4>2. \A j \in 1 .. n + 1 : j \in 1 .. n \/ j = n + 1
        OBVIOUS
      <4>3. CASE Len(seq[n + 1]) <= Len(seq[k])
        <5>1. k \in 1 .. n + 1
          BY <4>1
        <5>2. \A j \in 1 .. n + 1 : Len(seq[j]) <= Len(seq[k])
          BY <4>1, <4>2, <4>3
        <5> QED BY <5>1, <5>2
      <4>4. CASE ~(Len(seq[n + 1]) <= Len(seq[k]))
        <5>1. \A j \in 1 .. n + 1 : Len(seq[j]) <= Len(seq[n + 1])
          BY <3>2, <4>1, <4>2, <4>4
        <5> QED BY <5>1
      <4> QED BY <4>3, <4>4
    <3> QED BY <3>3, <3>4
  <2> HIDE DEF T
  <2> QED BY <2>1, <2>2, InductionOverNat
<1>5. Len(seq) \in 1 .. Len(seq)
  BY <1>1, <1>2
<1>6. Deepest(Len(seq))
  BY <1>2, <1>4, <1>5
<1>7. \E p \in D : \A q \in D : Len(q) <= Len(p)
  <2>1. PICK k \in 1 .. Len(seq) :
            \A j \in 1 .. Len(seq) : Len(seq[j]) <= Len(seq[k])
    BY <1>6
  <2> QED BY <1>1, <1>2, <2>1
<1> QED BY <1>7 DEF DeepestFirst

\* New metadata for the directory at hand.
LEMMA SealedNode ==
  ASSUME Sound(tree), NEW p, Holds(tree, p), NEW mode, mode \subseteq Bit, NEW time
  PROVE  LET chmod == [tree EXCEPT ![p].mode = mode]
             done == [chmod EXCEPT ![p].mtime = time]
         IN
         /\ Sound(chmod) /\ Sound(done) /\ DOMAIN done = DOMAIN tree
         /\ done[p].type = "dir" /\ done[p].owner = tree[p].owner
         /\ done[p].ino = tree[p].ino
         /\ done[p].mode = mode /\ done[p].mtime = time
         /\ \A q \in DOMAIN tree : q # p => done[q] = tree[q]
<1> DEFINE n == tree[p]
           m == [n EXCEPT !.mode = mode]
           o == [m EXCEPT !.mtime = time]
           chmod == [tree EXCEPT ![p].mode = mode]
           done == [chmod EXCEPT ![p].mtime = time]
<1>1. p \in DOMAIN tree /\ IsNode(n) /\ n.type = "dir"
  BY DEF Holds, Sound
<1>2. /\ DOMAIN chmod = DOMAIN tree /\ chmod[p] = m
      /\ \A q \in DOMAIN tree : q # p => chmod[q] = tree[q]
  BY <1>1
<1>3. /\ DOMAIN done = DOMAIN tree /\ done[p] = o
      /\ \A q \in DOMAIN tree : q # p => done[q] = tree[q]
  <2> HIDE DEF m
  <2>1. /\ DOMAIN done = DOMAIN chmod /\ done[p] = [chmod[p] EXCEPT !.mtime = time]
        /\ \A q \in DOMAIN chmod : q # p => done[q] = chmod[q]
    <3> HIDE DEF chmod
    <3> QED BY <1>1, <1>2
  <2> HIDE DEF chmod, done
  <2> QED BY <1>2, <2>1
<1> HIDE DEF chmod, done
<1>4. IsNode(m) /\ m.type = n.type /\ m.owner = n.owner /\ m.ino = n.ino
      /\ m.mode = mode
  <2> HIDE DEF n
  <2> QED BY <1>1, RemodedNode DEF m
<1>5. IsNode(o) /\ o.type = m.type /\ o.owner = m.owner /\ o.ino = m.ino
      /\ o.mode = m.mode /\ o.mtime = time
  <2> HIDE DEF m
  <2>1. IsNode(o) /\ o.type = m.type /\ o.owner = m.owner /\ o.ino = m.ino
        /\ o.mode = m.mode
    BY <1>4, RetimedNode DEF o
  <2>2. o.mtime = time
    BY <1>4 DEF o, IsNode, Node
  <2> QED BY <2>1, <2>2
<1> HIDE DEF m, o
<1>6. Retouched(tree, chmod) /\ Retouched(tree, done)
  BY <1>1, <1>2, <1>3, <1>4, <1>5 DEF Retouched, n
<1>7. Sound(chmod) /\ Sound(done)
  BY <1>6, RetouchedIsSound
<1> QED BY <1>1, <1>3, <1>4, <1>5, <1>7 DEF n, chmod, done

LEMMA SealDirectoryKeeps ==
  ASSUME Inv, SealDirectory, root' = root, builds' = builds PROVE Inv'
<1>1. /\ pc = "seal" /\ session' = session /\ DOMAIN directories # {}
      /\ Sound(tree) /\ Counters /\ Control /\ Stage /\ Closed
      /\ root \in DOMAIN Roots /\ pc \in Unpacking
  BY DEF SealDirectory, Inv, Counters, Unpacking, InArchive
<1>2. /\ \A k \in Archives : k < object => session.objects[k].entries # <<>>
      /\ \A d \in DOMAIN directories : Pending(d)
      /\ \A x \in Finished : Regular(x) /\ Extracted(x)
      /\ \A x, y \in Finished : x # y => Apart(x, y)
      /\ \A q \in DOMAIN tree :
            Below(q) /\ q # Home /\ (\A x \in Finished : Place(x) # q) => ByDefault(q)
      /\ Opened = {}
  BY <1>1 DEF Inv, Archived, Opened
<1>3. PICK p : p = DeepestFirst(DOMAIN directories)
  OBVIOUS
<1>4. p \in DOMAIN directories
  <2>1. DOMAIN directories \subseteq Names /\ IsFiniteSet(DOMAIN directories)
    BY <1>1, <1>2 DEF Pending, Control
  <2> QED BY <1>1, <1>3, <2>1, DeepestExists
<1>5. PICK here : here = Workspace \o p
  OBVIOUS
<1>6. PICK m : m = directories[p]
  OBVIOUS
<1>7. /\ p \in Names /\ here \in DOMAIN tree /\ tree[here].type = "dir"
      /\ tree[here].owner = "host" /\ here # Home /\ Below(here)
      /\ m.explicit \in BOOLEAN
      /\ m.explicit => \E x \in Finished :
          /\ x[1] = object /\ Place(x) = here /\ At(x).type = "dir"
          /\ m.mode = Masked(At(x).mode) /\ m.mtime = At(x).mtime
      /\ ~m.explicit => /\ m.mode = Bit \ session.mask /\ m.mtime = 0
                        /\ \A x \in Finished : Place(x) # here
  <2>1. Pending(p)
    BY <1>2, <1>4
  <2> QED BY <1>5, <1>6, <2>1, BelowWorkspace DEF Pending, IsDirectory
<1>8. m.mode \subseteq Bit
  BY <1>7 DEF Masked
<1> DEFINE chmod == [tree EXCEPT ![here].mode = m.mode]
           done == [chmod EXCEPT ![here].mtime = m.mtime]
           open == \A k \in 1 .. Len(p) :
                    MayUse(Workspace \o SubSeq(p, 1, k), {"rx"})
<1>9. /\ Sound(chmod) /\ Sound(done) /\ DOMAIN done = DOMAIN tree
      /\ done[here].type = "dir" /\ done[here].owner = tree[here].owner
      /\ done[here].ino = tree[here].ino
      /\ done[here].mode = m.mode /\ done[here].mtime = m.mtime
      /\ \A q \in DOMAIN tree : q # here => done[q] = tree[q]
  <2>1. Holds(tree, here)
    BY <1>7 DEF Holds
  <2> QED BY <1>1, <1>8, <2>1, SealedNode
<1> HIDE DEF chmod, done, open
<1>10. CASE /\ Fails(~open)
            /\ tree' = tree \/ (open /\ tree' = chmod)
            /\ Throw
  BY <1>1, <1>9, <1>10, ThrowEnds DEF Fails
<1>11. CASE /\ tree' = done
            /\ directories' = [q \in DOMAIN directories \ {p} |-> directories[q]]
            /\ UNCHANGED <<pc, outcome, object, next, pos, faults>>
  <2>1. /\ Sound(tree') /\ DOMAIN tree' = DOMAIN tree
        /\ tree'[here].type = "dir" /\ tree'[here].owner = "host"
        /\ tree'[here].mode = m.mode /\ tree'[here].mtime = m.mtime
        /\ tree'[here].ino = tree[here].ino
        /\ \A q \in DOMAIN tree : q # here => tree'[q] = tree[q]
        /\ DOMAIN directories' = DOMAIN directories \ {p}
        /\ \A d \in DOMAIN directories' : directories'[d] = directories[d]
        /\ pc' = "seal" /\ object' = object /\ next' = next
    BY <1>1, <1>7, <1>9, <1>11
  <2>2. Counters'
    BY <1>1, <1>11 DEF Counters
  <2>3. Control'
    <3>1. IsFiniteSet(DOMAIN directories \ {p})
      BY <1>1, FS_RemoveElement DEF Control
    <3> QED BY <1>1, <1>11, <2>1, <3>1 DEF Control, Unpacking, InArchive
  <2>4. Stage'
    BY <1>1, <1>7, <2>1, StageStays DEF Unpacking, InArchive
  <2>5. Closed'
    <3>1. \A q \in DOMAIN tree : tree'[q].ino = tree[q].ino
      BY <2>1
    <3> QED BY <1>1, <2>1, <3>1, ClosedStays
  <2>6. /\ Archives' = Archives /\ Entries' = Entries
        /\ \A x : At(x)' = At(x) /\ Place(x)' = Place(x)
        /\ \A x, y : Apart(x, y)' <=> Apart(x, y)
        /\ \A q, k : Grows(q, k)' <=> Grows(q, k)
        /\ \A mode : Masked(mode)' = Masked(mode)
    BY <1>1, SessionStays
  <2>7. Finished' = Finished /\ Opened' = {} /\ Accepted'
        /\ \A k : Closing(k) /\ Closing(k)'
    BY <1>1, <2>1, <2>6 DEF Finished, Opened, Accepted, Closing
  <2>8. ASSUME NEW d \in DOMAIN directories' PROVE Pending(d)'
    <3>1. Pending(d) /\ d # p /\ d \in DOMAIN directories
      BY <1>2, <2>1
    <3>2. Workspace \o d # here /\ Workspace \o d \in DOMAIN tree
      BY <1>5, <1>7, <3>1, BelowWorkspace DEF Pending
    <3> QED BY <1>1, <2>1, <2>6, <2>7, <3>1, <3>2 DEF Pending, IsDirectory
  <2>9. ASSUME NEW x \in Finished PROVE Regular(x)' /\ Extracted(x)'
    <3>1. Regular(x) /\ Extracted(x)
      BY <1>2
    <3>2. Regular(x)'
      BY <2>6, <2>7, <3>1 DEF Regular
    <3>3. CASE At(x).type = "dir"
      <4>1. /\ Place(x) \in DOMAIN tree
            /\ tree[Place(x)].type = "dir" /\ tree[Place(x)].owner = "host"
            /\ \/ \E d \in DOMAIN directories : Place(x) = Workspace \o d
               \/ Matches(x)
        BY <3>1, <3>3 DEF Extracted
      <4>2. CASE Place(x) = here
        <5>1. PICK z \in Finished : /\ Place(z) = here /\ At(z).type = "dir"
                                    /\ m.mode = Masked(At(z).mode)
                                    /\ m.mtime = At(z).mtime
          BY <1>7, <4>2
        <5>2. x = z
          BY <1>2, <4>2, <5>1 DEF Apart
        <5>3. Matches(x)'
          BY <2>1, <2>6, <3>3, <4>2, <5>1, <5>2 DEF Matches
        <5> QED BY <2>1, <2>6, <2>7, <3>2, <3>3, <4>1, <4>2, <5>3 DEF Extracted
      <4>3. CASE Place(x) # here
        <5>1. tree'[Place(x)] = tree[Place(x)]
          BY <2>1, <4>1, <4>3
        <5>2. Matches(x) => Matches(x)'
          BY <2>6, <3>3, <5>1 DEF Matches
        <5>3. ASSUME NEW d \in DOMAIN directories, Place(x) = Workspace \o d
              PROVE  d \in DOMAIN directories'
          BY <1>5, <2>1, <4>3, <5>3
        <5> QED BY <2>1, <2>6, <2>7, <3>2, <3>3, <4>1, <5>1, <5>2, <5>3 DEF Extracted
      <4> QED BY <4>2, <4>3
    <3>4. CASE At(x).type \in {"file", "hard", "link"}
      <4>1. Place(x) \in DOMAIN tree /\ Matches(x) /\ tree[Place(x)].type # "dir"
        BY <3>1, <3>4 DEF Extracted, Matches
      <4>2. tree'[Place(x)] = tree[Place(x)]
        BY <1>7, <2>1, <4>1
      <4>3. At(x).type = "hard" =>
              tree'[Workspace \o Trimmed(At(x).to)] = tree[Workspace \o Trimmed(At(x).to)]
        <5>1. SUFFICES ASSUME At(x).type = "hard"
                       PROVE  tree'[Workspace \o Trimmed(At(x).to)]
                                = tree[Workspace \o Trimmed(At(x).to)]
          OBVIOUS
        <5>2. PICK y \in Finished : /\ At(y).type \in {"file", "hard"}
                                    /\ Trimmed(At(y).path) = Trimmed(At(x).to)
          BY <3>1, <5>1 DEF Regular
        <5>3. Place(y) \in DOMAIN tree /\ tree[Place(y)].type = "file"
          BY <1>2, <5>2 DEF Extracted
        <5> QED BY <1>7, <2>1, <5>2, <5>3 DEF Place
      <4>4. Matches(x)'
        BY <2>6, <3>4, <4>1, <4>2, <4>3 DEF Matches
      <4> QED BY <2>1, <2>6, <3>1, <3>2, <3>4, <4>1, <4>2, <4>4 DEF Extracted
    <3> QED BY <3>1, <3>3, <3>4 DEF Regular
  <2>10. ASSUME NEW q \in DOMAIN tree, Below(q), q # Home,
                \A x \in Finished : Place(x) # q
         PROVE  ByDefault(q)'
    <3>1. ByDefault(q) /\ Users(q) # {}
      BY <1>2, <2>10 DEF ByDefault
    <3>2. Users(q)' = Users(q)
      BY <2>6, <2>7 DEF Users
    <3>3. CASE q = here
      <4>1. tree'[q].mode = Bit \ session.mask /\ tree'[q].mtime = 0
        BY <1>7, <2>1, <2>10, <3>3
      <4> QED BY <1>1, <2>1, <2>6, <2>7, <3>1, <3>2, <3>3, <4>1
              DEF ByDefault, IsDirectory
    <3>4. CASE q # here
      <4>1. tree'[q] = tree[q]
        BY <2>1, <3>4
      <4>2. ASSUME NEW d \in DOMAIN directories, q = Workspace \o d
            PROVE  d \in DOMAIN directories'
        BY <1>5, <2>1, <3>4, <4>2
      <4> QED BY <1>1, <2>6, <2>7, <3>1, <3>2, <4>1, <4>2 DEF ByDefault, IsDirectory
    <3> QED BY <3>3, <3>4
  <2>11. Archived'
    <3>1. \A k \in Archives' : k < object' => (session.objects[k].entries # <<>>)'
      BY <1>1, <1>2, <2>1, <2>6
    <3>2. \A x, y \in Finished' : x # y => Apart(x, y)'
      BY <1>2, <2>6, <2>7
    <3>3. \A q \in DOMAIN tree' :
            Below(q) /\ q # Home /\ (\A x \in Finished' : Place(x)' # q) => ByDefault(q)'
      BY <2>1, <2>6, <2>7, <2>10
    <3> QED BY <2>7, <2>8, <2>9, <3>1, <3>2, <3>3 DEF Archived
  <2>12. PreparedAsDeclared'
    BY <2>1 DEF PreparedAsDeclared
  <2> QED BY <2>1, <2>2, <2>3, <2>4, <2>5, <2>11, <2>12 DEF Inv
<1> QED BY <1>1, <1>3, <1>5, <1>6, <1>10, <1>11
        DEF SealDirectory, chmod, done, open
-----------------------------------------------------------------------------
(***************************************************************************)
(* The theorems.                                                           *)
(***************************************************************************)
LEMMA InitHolds ==
  ASSUME Init PROVE Inv
<1>1. /\ session \in Sessions /\ pc = "idle" /\ outcome = "none"
      /\ tree = [p \in {HostRoot} |-> Directory(Bit, Now, "host", p)]
      /\ object = 1 /\ next = 1 /\ pos = 1 /\ directories = <<>>
      /\ faults = MaxFaults(session) /\ root = 1 /\ builds = MaxBuilds(session)
  BY DEF Init
<1>2. Counters
  BY <1>1, SessionFacts, ResetRoots DEF Counters
<1>3. Control
  BY <1>1, FS_EmptySet DEF Control, Unpacking, InArchive
<1>4. Sound(tree)
  <2> DEFINE n == Directory(Bit, Now, "host", HostRoot)
  <2>1. IsNode(n) /\ n.ino = HostRoot /\ n.type = "dir"
    BY DEF IsNode, Node, Directory
  <2>2. DOMAIN tree = {HostRoot} /\ tree[HostRoot] = n
    BY <1>1
  <2> HIDE DEF n
  <2> QED BY <2>1, <2>2, PathOrder DEF Sound, Holds
<1>5. Stage /\ Closed /\ Archived /\ PreparedAsDeclared
  BY <1>1 DEF Stage, Closed, HasHome, Archived, Unpacking, InArchive,
     PreparedAsDeclared
<1> QED BY <1>2, <1>3, <1>4, <1>5 DEF Inv

LEMMA UnpackKeeps ==
  ASSUME Inv, UnpackArchive PROVE Inv'
<1>1. root' = root /\ builds' = builds /\ Unpack
  BY DEF UnpackArchive
<1>2. CASE ReadHeader
  BY <1>1, <1>2, ReadHeaderKeeps
<1>3. CASE OpenParent
  BY <1>1, <1>3, OpenParentKeeps
<1>4. CASE ExtractDirectory
  BY <1>1, <1>4, ExtractDirectoryKeeps
<1>5. CASE ExtractRegular
  BY <1>1, <1>5, ExtractRegularKeeps
<1>6. CASE ExtractSymlink
  BY <1>1, <1>6, ExtractSymlinkKeeps
<1>7. CASE ExtractHardlink
  BY <1>1, <1>7, ExtractHardlinkKeeps
<1>8. CASE SealDirectory
  BY <1>1, <1>8, SealDirectoryKeeps
<1>9. CASE CloseArchive
  BY <1>1, <1>9, CloseArchiveKeeps
<1> QED BY <1>1, <1>2, <1>3, <1>4, <1>5, <1>6, <1>7, <1>8, <1>9 DEF Unpack

LEMMA SameHolds ==
  ASSUME Inv, UNCHANGED vars PROVE Inv'
<1>1. /\ session' = session /\ pc' = pc /\ outcome' = outcome /\ tree' = tree
      /\ object' = object /\ next' = next /\ pos' = pos /\ root' = root
      /\ directories' = directories /\ faults' = faults /\ builds' = builds
  BY DEF vars, entryVars
<1>2. Counters' /\ Control' /\ Sound(tree')
  BY <1>1 DEF Inv, Counters, Control, Relative, Entry
<1>3. Stage'
  <2>1. Rebuilt' = Rebuilt /\ HasSources' = HasSources /\ HasHome' = HasHome
        /\ Sources' = Sources
    BY <1>1 DEF Rebuilt, HasSources, HasHome, Sources
  <2>2. Known' = Known
    BY <2>1 DEF Known
  <2> QED BY <1>1, <2>1, <2>2 DEF Inv, Stage, IsDirectory, Subtree, Reset
<1>4. Closed'
  BY <1>1 DEF Inv, Closed, HasHome
<1>5. /\ Archives' = Archives /\ Entries' = Entries
      /\ \A x : At(x)' = At(x) /\ Place(x)' = Place(x)
      /\ \A x, y : Apart(x, y)' <=> Apart(x, y)
      /\ \A p, k : Grows(p, k)' <=> Grows(p, k)
      /\ \A mode : Masked(mode)' = Masked(mode)
  BY <1>1, SessionStays
<1>6. Archived'
  <2>1. Finished' = Finished /\ Opened' = Opened /\ \A x : Matches(x)' <=> Matches(x)
    BY <1>1, <1>5 DEF Finished, Opened, Matches, Relative, Entry
  <2>2. \A d : Pending(d)' <=> Pending(d)
    BY <1>1, <1>5, <2>1 DEF Pending, IsDirectory
  <2>3. \A x : /\ Regular(x)' <=> Regular(x)
               /\ Extracted(x)' <=> Extracted(x)
    BY <1>1, <1>5, <2>1 DEF Regular, Extracted, Closing
  <2>4. \A p : ByDefault(p)' <=> ByDefault(p)
    BY <1>1, <1>5, <2>1 DEF ByDefault, Users, Closing, IsDirectory
  <2>5. Accepted' <=> Accepted
    BY <1>1 DEF Accepted, Relative, Entry
  <2> QED BY <1>1, <1>5, <2>1, <2>2, <2>3, <2>4, <2>5 DEF Inv, Archived, IsDirectory
<1>7. PreparedAsDeclared'
  <2>1. pc = "ready" => Declared
    BY DEF Inv, PreparedAsDeclared, Declared
  <2>2. CASE pc = "ready"
    BY <1>1, <2>1, <2>2, DeclaredStays
  <2>3. CASE pc # "ready"
    BY <1>1, <2>3 DEF PreparedAsDeclared
  <2> QED BY <2>2, <2>3
<1> QED BY <1>2, <1>3, <1>4, <1>6, <1>7 DEF Inv

LEMMA StepsKeep ==
  ASSUME Inv, [Next]_vars PROVE Inv'
<1>1. CASE Call
  BY <1>1, CallKeeps
<1>2. CASE SealRequest
  BY <1>2, SealRequestKeeps
<1>3. CASE Unlock
  BY <1>3, UnlockKeeps
<1>4. CASE RemoveTree
  BY <1>4, RemoveTreeKeeps
<1>5. CASE CreateRoot
  BY <1>5, CreateRootKeeps
<1>6. CASE Realize
  BY <1>6, RealizeKeeps
<1>7. CASE MakeHome
  BY <1>7, MakeHomeKeeps
<1>8. CASE OpenObject
  BY <1>8, OpenObjectKeeps
<1>9. CASE UnpackArchive
  BY <1>9, UnpackKeeps
<1>10. CASE Admit
  BY <1>10, AdmitKeeps
<1>11. CASE Build
  BY <1>11, BuildKeeps
<1>12. CASE UNCHANGED vars
  BY <1>12, SameHolds
<1> QED BY <1>1, <1>2, <1>3, <1>4, <1>5, <1>6, <1>7, <1>8, <1>9, <1>10, <1>11,
           <1>12 DEF Next, Step, Done

\* In every state, whatever failed, died or was built before.
THEOREM Invariance == Spec => []Inv
<1>1. Init => Inv
  BY InitHolds
<1>2. Inv /\ [Next]_vars => Inv'
  BY StepsKeep
<1> QED BY <1>1, <1>2, PTL DEF Spec

(***************************************************************************)
(* The host always holds a tree: every object is in a directory, hard      *)
(* links agree, the pending metadata (directory_map) is about directories. *)
(***************************************************************************)
THEOREM TypeCorrect == Spec => []TypeOK
<1>1. Inv => TypeOK
  <2>1. SUFFICES ASSUME Inv PROVE TypeOK
    OBVIOUS
  <2>2. \A p \in DOMAIN directories :
            Workspace \o p \in DOMAIN tree /\ IsDirectory(Workspace \o p)
    <3>1. CASE pc \in InArchive
      BY <2>1, <3>1 DEF Inv, Archived, Unpacking, Pending
    <3>2. CASE pc \notin InArchive
      BY <2>1, <3>2 DEF Inv, Control
    <3> QED BY <3>1, <3>2
  <2>3. Sound(tree)
    BY <2>1 DEF Inv
  <2> QED BY <2>1, <2>2, <2>3, SoundTree DEF Inv, Counters, TypeOK
<1> QED BY <1>1, Invariance, PTL

(***************************************************************************)
(* When prepare() returns, the host holds exactly what the session         *)
(* declares, whatever earlier attempts, deaths and builds left behind and  *)
(* in whatever order the entries of the archives come.                     *)
(***************************************************************************)
THEOREM ReturnsAsDeclared == Spec => []PreparedAsDeclared
<1>1. Inv => PreparedAsDeclared
  BY DEF Inv
<1> QED BY <1>1, Invariance, PTL

(***************************************************************************)
(* A session whose supplied resource aliases an adapter-owned one is       *)
(* refused before any effect (seal_execution_request()).                   *)
(***************************************************************************)
THEOREM AliasesAreRefused == Spec => AliasLeavesHostAlone
<1>1. ASSUME Inv, [Next]_vars PROVE [session.aliased => tree' = tree]_vars
  <2>1. SUFFICES ASSUME Next, session.aliased PROVE tree' = tree
    BY <1>1
  <2>2. pc \in {"idle", "request"}
    BY <1>1, <2>1 DEF Inv, Control
  <2>3. CASE Call \/ SealRequest \/ UNCHANGED vars
    BY <2>3 DEF Call, SealRequest, vars
  <2>4. ~(\/ Unlock \/ RemoveTree \/ CreateRoot \/ Realize \/ MakeHome \/ OpenObject
          \/ Admit \/ Build)
    BY <2>2 DEF Unlock, RemoveTree, CreateRoot, Realize, MakeHome, OpenObject,
       Admit, Build
  <2>5. ~UnpackArchive
    BY <2>2 DEF UnpackArchive, Unpack, ReadHeader, OpenParent, ExtractDirectory,
       ExtractRegular, ExtractSymlink, ExtractHardlink, AtLeaf, SealDirectory,
       CloseArchive
  <2> QED BY <2>1, <2>3, <2>4, <2>5 DEF Next, Step, Done
<1> QED BY <1>1, Invariance, PTL DEF Spec, AliasLeavesHostAlone
-----------------------------------------------------------------------------
(***************************************************************************)
(* What prepare() refuses.                                                 *)
(***************************************************************************)
LEMMA PreparableFacts ==
  ASSUME Inv, Preparable
  PROVE  /\ ~session.aliased /\ Consistent
         /\ session.privileged \/ Cardinality(Archives) <= 1 \/
              (/\ Private \cap session.mask = {}
               /\ \A x \in Entries :
                    At(x).type = "dir" => Private \subseteq At(x).mode)
         /\ session \in Sessions
BY DEF Preparable, Usable, Inv, Control

\* With several archives no directory shuts the process out.
LEMMA SeveralArchives ==
  ASSUME session \in Sessions, NEW k \in Archives
  PROVE  Cardinality(Archives) > 1 \/ \A j \in Archives : j = k
<1>1. IsFiniteSet(Archives)
  <2>1. Archives \subseteq 1 .. Len(session.objects) /\ Len(session.objects) \in Nat
    BY EntryFacts, SessionFacts
  <2>2. IsFiniteSet(1 .. Len(session.objects))
    BY <2>1, FS_Interval
  <2> QED BY <2>1, <2>2, FS_Subset
<1>2. Cardinality(Archives) \in Nat
  BY <1>1, FS_CardinalityType
<1>3. ASSUME NEW j \in Archives, j # k PROVE Cardinality(Archives) > 1
  <2>1. IsFiniteSet(Archives \ {k}) /\ Cardinality(Archives \ {k}) = Cardinality(Archives) - 1
    BY <1>1, FS_RemoveElement
  <2>2. Cardinality(Archives \ {k}) # 0
    BY <1>3, <2>1, FS_EmptySet
  <2>3. Cardinality(Archives \ {k}) \in Nat
    BY <2>1, FS_CardinalityType
  <2> QED BY <1>2, <2>1, <2>2, <2>3
<1> QED BY <1>3

\* While entries are extracted every directory is open.
LEMMA MayEnter ==
  ASSUME Inv, Permitted, Preparable, pc \in {"header", "parent"},
         NEW p \in DOMAIN tree, tree[p].type = "dir", InWorkspace(p)
  PROVE  MayUse(p, {"rx"}) /\ MayUse(p, {"rx", "w"})
<1>1. session.privileged \/ Private \subseteq tree[p].mode
  BY DEF Permitted, AllOpen, IsDirectory
<1> QED BY <1>1 DEF MayUse, Private

LEMMA RemovalIsAllowed ==
  ASSUME Inv, Permitted, Preparable, pc = "remove",
         NEW q \in Subtree(Reset.path), q # Reset.path
  PROVE  MayAdd(q)
<1>1. /\ q \in DOMAIN tree /\ q \in Names /\ IsPrefix(Reset.path, q) /\ Sound(tree)
      /\ Reset.path \in Names /\ Reset.path # HostRoot
  BY ResetRoots DEF Inv, Sound, Subtree, Counters, Reset
<1>2. q # HostRoot
  BY <1>1, PathOrder
<1>3. Holds(tree, Front(q)) /\ IsPrefix(Reset.path, Front(q))
  BY <1>1, <1>2, PathOrder DEF Sound
<1>4. session.privileged \/ Private \subseteq tree[Front(q)].mode
  BY <1>3 DEF Permitted, Directories, Subtree, Holds, IsDirectory
<1> QED BY <1>4 DEF MayAdd, MayUse, Private

\* A consistent entry is acceptable when its turn comes.
LEMMA HeaderIsAccepted ==
  ASSUME Inv, Permitted, Preparable, pc = "header"
  PROVE  IF next <= Len(session.objects[object].entries)
         THEN Acceptable(Entry) ELSE next # 1
<1>1. /\ session \in Sessions /\ object \in Nat \ {0} /\ next \in Nat \ {0}
      /\ object <= Len(session.objects) /\ session.objects[object].unpack
      /\ Consistent
  BY PreparableFacts DEF Inv, Control, InArchive
<1>2. /\ object \in DOMAIN session.objects /\ object \in Archives
      /\ Len(session.objects[object].entries) \in Nat
      /\ session.objects[object].entries = <<>>
            <=> Len(session.objects[object].entries) = 0
  BY <1>1, SessionFacts DEF Archives
<1>3. CASE next > Len(session.objects[object].entries)
  BY <1>1, <1>2, <1>3 DEF Consistent
<1>4. CASE next <= Len(session.objects[object].entries)
  <2>1. /\ Current \in Entries /\ At(Current) = Entry
    BY <1>1, <1>2, <1>4, EntryFacts DEF Current, At, Entry
  <2>2. /\ Entry.type \in {"dir", "file", "link", "hard"}
        /\ IsCanonical(Trimmed(Entry.path))
        /\ Entry.type = "link" => StaysBeneath(Entry)
    BY <1>1, <2>1 DEF Consistent
  <2>3. ASSUME Entry.type = "hard" PROVE HasTarget(Entry)
    <3>1. PICK y \in Entries : /\ Precedes(y, Current)
                               /\ At(y).type \in {"file", "hard"}
                               /\ Trimmed(At(y).path) = Trimmed(Entry.to)
      BY <1>1, <2>1, <2>3 DEF Consistent
    <3>2. y \in Finished
      BY <3>1 DEF Finished, Current
    <3>3. PICK to : to = Trimmed(Entry.to)
      OBVIOUS
    <3>4. /\ IsCanonical(to) /\ to \in Names /\ Len(to) \in Nat
          /\ Place(y) = Workspace \o to /\ Place(y) \in Names
      BY <1>1, <3>1, <3>3, EntryFacts, PathOrder DEF Consistent, Place
    <3>5. Place(y) \in DOMAIN tree /\ tree[Place(y)].type = "file"
      BY <3>1, <3>2 DEF Inv, Archived, Unpacking, InArchive, Extracted
    <3>6. ASSUME NEW k \in 1 .. Len(to) - 1
          PROVE  LET p == Workspace \o SubSeq(to, 1, k) IN
                 p \in DOMAIN tree /\ IsDirectory(p) /\ MayUse(p, {"rx"})
      <4>1. PICK part : part = SubSeq(to, 1, k)
        OBVIOUS
      <4>2. k \in 0 .. Len(to) /\ k # 0 /\ k # Len(to)
        BY <3>4
      <4>3. part \in Names /\ Len(part) = k /\ IsPrefix(part, to)
        BY <3>4, <4>1, <4>2, PrefixIsSubSeq DEF Names
      <4>4. part # <<>> /\ part # to
        BY <4>2, <4>3, EmptySeq
      <4>5. PICK p : p = Workspace \o part
        OBVIOUS
      <4>6. p \in Names /\ Below(p) /\ IsPrefix(p, Place(y)) /\ p # Place(y)
        BY <3>4, <4>3, <4>4, <4>5, BelowWorkspace
      <4>7. Holds(tree, p)
        BY <3>5, <4>6, LeadingDirectories DEF Inv
      <4>8. MayUse(p, {"rx"})
        BY <4>6, <4>7, MayEnter DEF Holds, InWorkspace
      <4> QED BY <4>1, <4>5, <4>7, <4>8 DEF Holds, IsDirectory
    <3> QED BY <3>3, <3>4, <3>5, <3>6 DEF HasTarget
  <2> QED BY <1>4, <2>2, <2>3 DEF Acceptable
<1> QED BY <1>1, <1>2, <1>3, <1>4

LEMMA FrontInWorkspace ==
  ASSUME NEW p \in Names, Below(p)
  PROVE  InWorkspace(Front(p))
<1>1. IsPrefix(Workspace, p) /\ Workspace # p /\ Workspace \in Names
  BY Coordinates DEF Below, IsStrictPrefix
<1>2. p # HostRoot
  BY <1>1, Coordinates, PathOrder
<1>3. IsPrefix(Workspace, Front(p))
  BY <1>1, <1>2, PathOrder
<1> QED BY <1>3 DEF InWorkspace, Below, IsStrictPrefix

\* Its parents are there, or can be made.
LEMMA ParentIsOpened ==
  ASSUME Inv, Permitted, Preparable, pc = "parent", pos < Len(Relative)
  PROVE  \/ Here \in DOMAIN tree /\ IsDirectory(Here) /\ MayUse(Here, {"rx"})
         \/ Here \notin DOMAIN tree /\ MayAdd(Here)
<1>1. /\ Here \in Names /\ Below(Here) /\ Strictly(Here, Destination)
      /\ Holds(tree, Front(Here)) /\ Consistent
  BY HerePlace, PreparableFacts
<1>2. /\ Current \in Entries /\ Place(Current) = Destination /\ Current \notin Finished
      /\ \A x \in Finished : x \in Entries
  BY CurrentEntry DEF Inv
<1>3. CASE Here \in DOMAIN tree
  <2>1. tree[Here].type = "dir"
    <3>1. CASE Here = Home
      BY <3>1 DEF Inv, Stage, HasHome, Unpacking, InArchive, IsDirectory
    <3>2. ASSUME NEW x \in Finished, Place(x) = Here PROVE tree[Here].type = "dir"
      <4>1. At(x).type = "dir"
        BY <1>1, <1>2, <3>2 DEF Consistent
      <4> QED BY <3>2, <4>1 DEF Inv, Archived, Unpacking, InArchive, Extracted
    <3>3. CASE Here # Home /\ \A x \in Finished : Place(x) # Here
      BY <1>1, <1>3, <3>3
      DEF Inv, Archived, Unpacking, InArchive, ByDefault, IsDirectory
    <3> QED BY <3>1, <3>2, <3>3
  <2> QED BY <1>1, <1>3, <2>1, MayEnter DEF InWorkspace, IsDirectory
<1>4. CASE Here \notin DOMAIN tree
  <2>1. InWorkspace(Front(Here))
    BY <1>1, <1>4, FrontInWorkspace
  <2>2. MayUse(Front(Here), {"rx", "w"})
    BY <1>1, <2>1, MayEnter DEF Holds
  <2> QED BY <1>4, <2>2 DEF MayAdd
<1> QED BY <1>3, <1>4

\* Nothing is in its place, except a directory that other entries implied.
LEMMA PlaceIsFree ==
  ASSUME Inv, Permitted, Preparable, pc = "parent", pos = Len(Relative)
  PROVE  /\ Relative \in DOMAIN directories => ~directories[Relative].explicit
         /\ \/ Entry.type = "dir" /\ Relative \in DOMAIN directories
            \/ Destination \notin DOMAIN tree /\ MayAdd(Destination)
<1>1. /\ Here = Destination /\ Destination \in Names /\ Below(Destination)
      /\ Holds(tree, Front(Destination)) /\ Consistent
  BY HerePlace, CurrentEntry, PreparableFacts DEF Inv
<1>2. /\ Current \in Entries /\ Place(Current) = Destination /\ Current \notin Finished
      /\ At(Current) = Entry /\ Current[1] = object /\ object \in Nat
      /\ Relative \in Names
      /\ \A x \in Finished : x \in Entries /\ x[1] \in Nat /\ x[1] <= object
  BY CurrentEntry DEF Inv
<1>3. \A x \in Finished : Place(x) # Destination
  BY <1>1, <1>2 DEF Consistent
<1>4. Relative \in DOMAIN directories => ~directories[Relative].explicit
  <2>1. SUFFICES ASSUME Relative \in DOMAIN directories, directories[Relative].explicit
                 PROVE  FALSE
    BY DEF Inv, Archived, Unpacking, InArchive, Pending
  <2>2. Pending(Relative)
    BY <2>1 DEF Inv, Archived, Unpacking, InArchive
  <2> QED BY <1>3, <2>1, <2>2 DEF Pending, Destination
<1>5. CASE Destination \notin DOMAIN tree
  <2>1. InWorkspace(Front(Destination))
    BY <1>1, FrontInWorkspace
  <2>2. MayUse(Front(Destination), {"rx", "w"})
    BY <1>1, <2>1, MayEnter DEF Holds
  <2> QED BY <1>4, <1>5, <2>2 DEF MayAdd
<1>6. CASE Destination \in DOMAIN tree
  <2>1. Destination # Home
    BY <1>1, <1>2 DEF Consistent
  <2>2. ByDefault(Destination)
    BY <1>1, <1>3, <1>6, <2>1 DEF Inv, Archived, Unpacking, InArchive
  <2>3. Destination \notin Opened
    <3>1. \A k \in 1 .. pos - 1 : Workspace \o SubSeq(Relative, 1, k) # Destination
      BY HerePlace DEF Strictly, IsStrictPrefix
    <3> QED BY <3>1 DEF Opened
  <2>4. \A x \in Users(Destination) : Entry.type = "dir" /\ ~(x[1] < object)
    BY <1>1, <1>2 DEF Users, Consistent
  <2>5. Users(Destination) # {} /\ Entry.type = "dir"
    BY <2>2, <2>3, <2>4 DEF ByDefault
  <2>6. PICK d \in DOMAIN directories : Destination = Workspace \o d
    BY <2>2, <2>4 DEF ByDefault, Closing
  <2>7. d = Relative
    BY <1>2, <2>6, BelowWorkspace
    DEF Destination, Inv, Archived, Unpacking, InArchive, Pending
  <2> QED BY <1>4, <2>5, <2>6, <2>7
<1> QED BY <1>5, <1>6

\* The directories that lead to the deepest one are still open.
LEMMA DirectoryIsOpen ==
  ASSUME Inv, Permitted, Preparable, pc = "seal", DOMAIN directories # {}
  PROVE  \A k \in 1 .. Len(DeepestFirst(DOMAIN directories)) :
            MayUse(Workspace \o SubSeq(DeepestFirst(DOMAIN directories), 1, k), {"rx"})
<1>1. PICK p : p = DeepestFirst(DOMAIN directories)
  OBVIOUS
<1>2. p \in DOMAIN directories
  <2>1. DOMAIN directories \subseteq Names /\ IsFiniteSet(DOMAIN directories)
    BY DEF Inv, Archived, Unpacking, InArchive, Pending, Control
  <2> QED BY <1>1, <2>1, DeepestExists
<1>3. ASSUME NEW k \in 1 .. Len(p)
      PROVE  MayUse(Workspace \o SubSeq(p, 1, k), {"rx"})
  BY <1>2 DEF Permitted, MayUse
<1> QED BY <1>1, <1>3
-----------------------------------------------------------------------------
(***************************************************************************)
(* A step that fails without a failing system call would refuse a session  *)
(* that can be prepared.                                                   *)
(***************************************************************************)
Justified == \/ outcome' # "failed"
             \/ Fault
             \/ outcome' = outcome /\ faults' = faults
LEMMA RebuildingIsJustified ==
  ASSUME Inv, Permitted, Preparable,
         Call \/ SealRequest \/ Unlock \/ RemoveTree \/ CreateRoot \/ Realize
         \/ MakeHome \/ OpenObject \/ Admit \/ Build \/ UNCHANGED vars
  PROVE  Justified
<1>1. ~session.aliased
  BY PreparableFacts
<1>2. CASE Call
  BY <1>2 DEF Call, Justified
<1>3. CASE SealRequest
  BY <1>1, <1>3 DEF SealRequest, Justified
<1>4. CASE Unlock
  BY <1>4 DEF Unlock, Justified
<1>5. CASE RemoveTree
  <2> DEFINE all == Subtree(Reset.path)
             allowed == {q \in all : q = Reset.path \/ MayAdd(q)}
  <2>1. pc = "remove"
    BY <1>5 DEF RemoveTree
  <2>2. allowed = all
    BY <2>1, RemovalIsAllowed
  <2>3. \/ UNCHANGED <<outcome, entryVars, faults>>
        \/ Fails(allowed # all)
    BY <1>5 DEF RemoveTree
  <2> QED BY <2>2, <2>3 DEF Justified, Fails
<1>6. CASE CreateRoot
  BY <1>6 DEF CreateRoot, Justified
<1>7. CASE Realize
  BY <1>7 DEF Realize, Justified
<1>8. CASE MakeHome
  BY <1>8 DEF MakeHome, Justified
<1>9. CASE OpenObject
  BY <1>9 DEF OpenObject, Justified
<1>10. CASE Admit
  BY <1>1, <1>10 DEF Admit, Justified, Fails
<1>11. CASE Build
  BY <1>11 DEF Build, Justified
<1>12. CASE UNCHANGED vars
  BY <1>12 DEF vars, Justified
<1> QED BY <1>2, <1>3, <1>4, <1>5, <1>6, <1>7, <1>8, <1>9, <1>10, <1>11, <1>12

LEMMA UnpackingIsJustified ==
  ASSUME Inv, Permitted, Preparable, UnpackArchive
  PROVE  Justified
<1>1. Unpack
  BY DEF UnpackArchive
<1>2. CASE ReadHeader
  <2>1. pc = "header"
    BY <1>2 DEF ReadHeader
  <2> QED BY <1>2, <2>1, HeaderIsAccepted DEF ReadHeader, Fails, Justified
<1>3. CASE OpenParent
  <2>1. pc = "parent" /\ pos < Len(Relative)
    BY <1>3 DEF OpenParent
  <2> DEFINE open == Here \in DOMAIN tree /\ PassesThrough(Here) /\ MayUse(Here, {"rx"})
             make == Here \notin DOMAIN tree /\ MayAdd(Here)
  <2>2. open \/ make
    BY <2>1, ParentIsOpened DEF PassesThrough
  <2>3. UNCHANGED <<outcome, faults>> \/ Fails(~open /\ ~make)
    BY <1>3 DEF OpenParent, Here
  <2> HIDE DEF open, make
  <2> QED BY <2>2, <2>3 DEF Fails, Justified
<1>4. ASSUME pc = "parent", pos = Len(Relative), NEW node, NEW partial, NEW map,
             Create(node, partial, map),
             Entry.type # "dir" \/ Relative \notin DOMAIN directories
      PROVE  Justified
  <2>1. Destination \notin DOMAIN tree /\ MayAdd(Destination)
    BY <1>4, PlaceIsFree
  <2>2. \/ NextEntry /\ UNCHANGED faults
        \/ Fails(~(Destination \notin DOMAIN tree /\ MayAdd(Destination)))
    BY <1>4 DEF Create
  <2> QED BY <2>1, <2>2 DEF NextEntry, Fails, Justified
<1>5. CASE ExtractDirectory
  <2>1. pc = "parent" /\ pos = Len(Relative) /\ Entry.type = "dir"
    BY <1>5 DEF ExtractDirectory, AtLeaf
  <2>2. CASE Relative \in DOMAIN directories
    <3>1. ~directories[Relative].explicit
      BY <2>1, <2>2, PlaceIsFree
    <3> QED BY <1>5, <2>2, <3>1 DEF ExtractDirectory, NextEntry, Justified
  <2>3. CASE Relative \notin DOMAIN directories
    <3> DEFINE node == Directory(Private, Now, "host", Destination)
               map == With(directories, Relative, Declaration)
    <3>1. Create(node, node, map)
      BY <1>5, <2>3 DEF ExtractDirectory
    <3> HIDE DEF node, map
    <3> QED BY <1>4, <2>1, <2>3, <3>1
  <2> QED BY <2>2, <2>3
<1>6. CASE ExtractRegular
  <2> DEFINE node == Node("file", Admitted(Entry.mode), Entry.mtime, "host",
                          Entry.data, <<>>, Destination)
  <2>1. /\ pc = "parent" /\ pos = Len(Relative) /\ Entry.type = "file"
        /\ Create(node, HalfWritten, directories)
    BY <1>6 DEF ExtractRegular, AtLeaf
  <2> HIDE DEF node
  <2> QED BY <1>4, <2>1
<1>7. CASE ExtractSymlink
  <2> DEFINE link(time) == Node("link", Bit, time, "host", Blank, Entry.to, Destination)
  <2>1. /\ pc = "parent" /\ pos = Len(Relative) /\ Entry.type = "link"
        /\ Create(link(Entry.mtime), link(Now), directories)
    BY <1>7 DEF ExtractSymlink, AtLeaf
  <2> HIDE DEF link
  <2> QED BY <1>4, <2>1
<1>8. CASE ExtractHardlink
  <2> DEFINE file == tree[Workspace \o Trimmed(Entry.to)]
  <2>1. /\ pc = "parent" /\ pos = Len(Relative) /\ Entry.type = "hard"
        /\ Create(file, file, directories)
    BY <1>8 DEF ExtractHardlink, AtLeaf
  <2> HIDE DEF file
  <2> QED BY <1>4, <2>1
<1>9. CASE SealDirectory
  <2> DEFINE p == DeepestFirst(DOMAIN directories)
             open == \A k \in 1 .. Len(p) : MayUse(Workspace \o SubSeq(p, 1, k), {"rx"})
  <2>1. pc = "seal" /\ DOMAIN directories # {}
    BY <1>9 DEF SealDirectory
  <2>2. open
    BY <2>1, DirectoryIsOpen
  <2>3. UNCHANGED <<outcome, faults>> \/ Fails(~open)
    BY <1>9 DEF SealDirectory
  <2> HIDE DEF open
  <2> QED BY <2>2, <2>3 DEF Fails, Justified
<1>10. CASE CloseArchive
  BY <1>10 DEF CloseArchive, Justified
<1> QED BY <1>1, <1>2, <1>3, <1>5, <1>6, <1>7, <1>8, <1>9, <1>10 DEF Unpack
-----------------------------------------------------------------------------
(***************************************************************************)
(* Permissions, step by step.                                              *)
(***************************************************************************)
LEMMA PreparableStays ==
  ASSUME session' = session PROVE Preparable' <=> Preparable
BY DEF Preparable, Consistent, Usable, Archives, Entries, At, Place

LEMMA UnlockPermits ==
  ASSUME Inv, Unlock PROVE Permitted'
<1> DEFINE all == Directories(Subtree(Reset.path))
<1>1. CASE pc' = "idle"
  BY <1>1 DEF Permitted, Unpacking, InArchive
<1>2. ASSUME pc' # "idle" PROVE Permitted'
  <2>1. /\ tree' = Unlocked(tree, all) /\ pc' = "remove" /\ root' = root
    BY <1>2 DEF Unlock, Throw, MadeRemovable
  <2>2. \A q \in all : Holds(tree, q)
    BY DEF Directories, Subtree, Holds, IsDirectory
  <2>3. Sound(tree) /\ all = {q \in DOMAIN tree : IsPrefix(Reset.path, q)
                                                  /\ tree[q].type = "dir"}
    BY DEF Inv, Directories, Subtree, IsDirectory
  <2> HIDE DEF all
  <2>4. /\ DOMAIN tree' = DOMAIN tree
        /\ \A q \in DOMAIN tree : tree'[q].type = tree[q].type
        /\ \A q \in all : Private \subseteq tree'[q].mode
    BY <2>1, <2>2, <2>3, UnlockedIsSound
  <2>5. \A p \in Directories(Subtree(Reset.path))' : p \in all
    BY <2>1, <2>3, <2>4 DEF Directories, Subtree, IsDirectory, Reset
  <2> QED BY <2>1, <2>4, <2>5 DEF Permitted, Unpacking, InArchive
<1> QED BY <1>1, <1>2

LEMMA MakeHomePermits ==
  ASSUME Inv, MakeHome PROVE Permitted'
<1>1. CASE pc' = "idle"
  BY <1>1 DEF Permitted, Unpacking, InArchive
<1>2. ASSUME pc' # "idle" PROVE Permitted'
  <2>1. pc' = "object" /\ Inv'
    BY <1>2, MakeHomeKeeps DEF MakeHome, Throw
  <2>2. /\ HasHome' /\ 4 \in Rebuilt' /\ 2 \in Rebuilt'
    BY <2>1 DEF HasHome, Rebuilt, Resetting, Unpacking, InArchive
  <2>3. /\ tree'[Home].mode = Private /\ tree'[Workspace].mode = Roots[2].mode
    BY <2>1, <2>2, ResetRoots DEF Inv, Stage
  <2>4. Private \subseteq tree'[Workspace].mode
    BY <2>3, ResetRoots
  <2>5. ASSUME NEW p \in DOMAIN tree', Below(p), p # Home PROVE FALSE
    <3>1. /\ object' = 1 /\ next' = 1 /\ session' = session
      BY <1>2 DEF MakeHome, Throw, entryVars, Inv, Control, Unpacking, InArchive
    <3>2. Finished' = {}
      <4>1. ASSUME NEW x \in Entries, Precedes(x, <<1, 1>>) PROVE FALSE
        BY <4>1, EntryFacts DEF Precedes, Inv, Control
      <4> QED BY <3>1, <4>1, SessionStays DEF Finished
    <3>3. Opened' = {} /\ Users(p)' = {}
      BY <2>1, <3>2 DEF Opened, Users
    <3>4. ByDefault(p)'
      BY <2>1, <2>5, <3>2 DEF Inv, Archived, Unpacking
    <3> QED BY <3>3, <3>4 DEF ByDefault
  <2>6. AllOpen'
    BY <2>3, <2>4, <2>5 DEF AllOpen, InWorkspace, Private
  <2> QED BY <2>1, <2>6 DEF Permitted
<1> QED BY <1>1, <1>2

LEMMA OpenObjectPermits ==
  ASSUME Inv, Permitted, OpenObject PROVE Permitted'
<1>1. CASE pc' = "idle"
  BY <1>1 DEF Permitted, Unpacking, InArchive
<1>2. ASSUME pc' # "idle", Preparable, ~session.privileged,
             \/ pc' \in {"header", "parent"}
             \/ pc' = "object" /\ \A k \in Archives : object' <= k
             \/ pc' \in Unpacking /\ Cardinality(Archives) > 1
      PROVE  AllOpen
  <2>1. /\ pc = "object" /\ session \in Sessions /\ object \in Nat \ {0}
        /\ object <= Len(session.objects)
        /\ \/ pc' = "header" /\ object' = object /\ session.objects[object].unpack
           \/ pc' = "object" /\ object' = object + 1
    BY <1>2 DEF OpenObject, Throw, Inv, Control
  <2>2. \A k \in Archives : k \in Nat
    BY <2>1, EntryFacts
  <2>3. CASE pc' = "header"
    <3>1. object \in Archives
      BY <2>1, <2>3, SessionFacts DEF Archives
    <3>2. Cardinality(Archives) > 1 \/ \A k \in Archives : object <= k
      BY <2>1, <3>1, SeveralArchives
    <3> QED BY <1>2, <2>1, <3>2 DEF Permitted, Unpacking
  <2>4. CASE pc' = "object"
    BY <1>2, <2>1, <2>2, <2>4 DEF Permitted, Unpacking
  <2> QED BY <2>1, <2>3, <2>4
<1>3. ASSUME pc' # "idle" PROVE Permitted'
  <2>1. /\ pc' \in {"object", "header"} /\ session' = session /\ tree' = tree
    BY <1>3 DEF OpenObject, Throw
  <2>2. AllOpen' <=> AllOpen
    BY <2>1 DEF AllOpen, IsDirectory
  <2>3. Archives' = Archives /\ (Preparable' <=> Preparable)
    BY <2>1, PreparableStays, SessionStays
  <2> QED BY <1>2, <1>3, <2>1, <2>2, <2>3 DEF Permitted
<1> QED BY <1>1, <1>3

\* A pending directory is below directories.
LEMMA PendingIsReached ==
  ASSUME Sound(tree), NEW d \in Names, Holds(tree, Workspace \o d),
         NEW k \in 1 .. Len(d)
  PROVE  /\ SubSeq(d, 1, k) \in Names /\ IsPrefix(SubSeq(d, 1, k), d)
         /\ Below(Workspace \o SubSeq(d, 1, k))
         /\ Holds(tree, Workspace \o SubSeq(d, 1, k))
<1>1. PICK part : part = SubSeq(d, 1, k)
  OBVIOUS
<1>2. Len(d) \in Nat
  BY PathOrder
<1>3. k \in 0 .. Len(d) /\ k # 0
  BY <1>2
<1>4. part \in Names /\ Len(part) = k /\ IsPrefix(part, d)
  BY <1>1, <1>3, PrefixIsSubSeq DEF Names
<1>5. part # <<>>
  BY <1>3, <1>4, EmptySeq
<1>6. /\ Workspace \o part \in Names /\ Below(Workspace \o part)
      /\ IsPrefix(Workspace \o part, Workspace \o d)
  BY <1>4, <1>5, BelowWorkspace
<1>7. Holds(tree, Workspace \o part)
  BY <1>6, LeadingDirectories DEF Holds
<1> QED BY <1>1, <1>4, <1>6, <1>7

LEMMA ReadHeaderPermits ==
  ASSUME Inv, Permitted, ReadHeader PROVE Permitted'
<1>1. CASE pc' = "idle"
  BY <1>1 DEF Permitted, Unpacking, InArchive
<1>2. ASSUME pc' # "idle" PROVE Permitted'
  <2>1. /\ pc = "header" /\ pc' \in {"parent", "seal"}
        /\ session' = session /\ tree' = tree /\ directories' = directories
    BY <1>2 DEF ReadHeader, Throw, entryVars
  <2>2. Preparable' <=> Preparable
    BY <2>1, PreparableStays
  <2>3. AllOpen' <=> AllOpen
    BY <2>1 DEF AllOpen, IsDirectory
  <2>4. ASSUME Preparable, ~session.privileged PROVE AllOpen
    BY <2>1, <2>4 DEF Permitted
  <2>5. ASSUME AllOpen, NEW d \in DOMAIN directories, NEW k \in 1 .. Len(d)
        PROVE  "rx" \in tree[Workspace \o SubSeq(d, 1, k)].mode
    <3>1. d \in Names /\ Holds(tree, Workspace \o d)
      BY <2>1 DEF Inv, Archived, Unpacking, InArchive, Pending, Holds, IsDirectory
    <3>2. /\ Below(Workspace \o SubSeq(d, 1, k))
          /\ Holds(tree, Workspace \o SubSeq(d, 1, k))
      BY <3>1, PendingIsReached DEF Inv
    <3> QED BY <2>5, <3>2 DEF AllOpen, InWorkspace, Holds, IsDirectory, Private
  <2> QED BY <2>1, <2>2, <2>3, <2>4, <2>5 DEF Permitted
<1> QED BY <1>1, <1>2

\* What is new while entries are extracted is open too.
LEMMA OpenStays ==
  ASSUME Inv, Permitted, pc = "parent", pc' \in {"parent", "header"},
         session' = session,
         \/ tree' = tree
         \/ \E node : /\ NewHere(node) /\ tree' = Put(Here, node)
                      /\ node.type = "dir" => Private \subseteq node.mode
  PROVE  Permitted'
<1>1. Preparable' <=> Preparable
  BY PreparableStays
<1>2. ASSUME Preparable, ~session.privileged PROVE AllOpen'
  <2>1. AllOpen
    BY <1>2 DEF Permitted
  <2>2. CASE tree' = tree
    BY <2>1, <2>2 DEF AllOpen, IsDirectory
  <2>3. ASSUME NEW node, NewHere(node), tree' = Put(Here, node),
               node.type = "dir" => Private \subseteq node.mode
        PROVE  AllOpen'
    <3>1. DOMAIN tree' = DOMAIN tree \cup {Here} /\ tree'[Here] = node /\ Kept(tree')
      BY <2>3, PutHere
    <3> QED BY <2>1, <2>3, <3>1 DEF AllOpen, IsDirectory, Kept
  <2> QED BY <2>2, <2>3
<1> QED BY <1>1, <1>2 DEF Permitted

LEMMA CreatePermits ==
  ASSUME Inv, Permitted, pc = "parent", pos = Len(Relative), session' = session,
         NEW node, NEW partial, NEW map, Create(node, partial, map),
         Destination \notin DOMAIN tree => NewHere(node),
         node.type = "dir" => Private \subseteq node.mode
  PROVE  Permitted'
<1>1. CASE pc' = "idle"
  BY <1>1 DEF Permitted, Unpacking, InArchive
<1>2. ASSUME pc' # "idle" PROVE Permitted'
  <2>1. /\ Destination \notin DOMAIN tree /\ pc' = "header"
        /\ tree' = Put(Destination, node)
    BY <1>2 DEF Create, NextEntry, Throw
  <2>2. Here = Destination
    BY HerePlace
  <2> QED BY <2>1, <2>2, OpenStays
<1> QED BY <1>1, <1>2

LEMMA ExtractionPermits ==
  ASSUME Inv, Permitted,
         OpenParent \/ ExtractDirectory \/ ExtractRegular \/ ExtractSymlink
         \/ ExtractHardlink
  PROVE  Permitted'
<1>1. CASE OpenParent
  <2>1. CASE pc' = "idle"
    BY <2>1 DEF Permitted, Unpacking, InArchive
  <2>2. ASSUME pc' # "idle" PROVE Permitted'
    <3> DEFINE node == Directory(Private, Now, "host", Here)
    <3>1. /\ pc = "parent" /\ pc' = "parent" /\ session' = session
          /\ tree' = tree \/ (Here \notin DOMAIN tree /\ tree' = Put(Here, node))
      BY <1>1, <2>2 DEF OpenParent, Throw, Here
    <3>2. /\ Here \notin DOMAIN tree => NewHere(node)
          /\ Private \subseteq node.mode
      <4>1. IsNode(node) /\ node.ino = Here /\ node.mode = Private
        BY NewNodes DEF Private, Bit
      <4> HIDE DEF node
      <4> QED BY <4>1 DEF NewHere
    <3> HIDE DEF node
    <3> QED BY <3>1, <3>2, OpenStays
  <2> QED BY <2>1, <2>2
<1>2. CASE ExtractDirectory
  <2>1. /\ pc = "parent" /\ pos = Len(Relative) /\ session' = session
    BY <1>2 DEF ExtractDirectory, AtLeaf
  <2>2. CASE Relative \in DOMAIN directories
    <3>1. CASE pc' = "idle"
      BY <3>1 DEF Permitted, Unpacking, InArchive
    <3>2. ASSUME pc' # "idle" PROVE Permitted'
      <4>1. tree' = tree /\ pc' = "header"
        BY <1>2, <2>2, <3>2 DEF ExtractDirectory, NextEntry, Throw
      <4> QED BY <2>1, <4>1, OpenStays
    <3> QED BY <3>1, <3>2
  <2>3. CASE Relative \notin DOMAIN directories
    <3> DEFINE node == Directory(Private, Now, "host", Destination)
               map == With(directories, Relative, Declaration)
    <3>1. Create(node, node, map)
      BY <1>2, <2>3 DEF ExtractDirectory
    <3>2. Destination \notin DOMAIN tree => NewHere(node)
      BY <2>1, ObjectNodes
    <3>3. Private \subseteq node.mode
      BY DEF Directory, Node
    <3> HIDE DEF node, map
    <3> QED BY <2>1, <3>1, <3>2, <3>3, CreatePermits
  <2> QED BY <2>2, <2>3
<1>3. CASE ExtractRegular
  <2> DEFINE node == Node("file", Masked(Entry.mode), Entry.mtime, "host",
                          Entry.data, <<>>, Destination)
  <2>1. /\ pc = "parent" /\ pos = Len(Relative) /\ session' = session
        /\ Create(node, HalfWritten, directories)
    BY <1>3, AdmittedIsMasked DEF ExtractRegular, AtLeaf
  <2>2. /\ Destination \notin DOMAIN tree => NewHere(node)
        /\ node.type # "dir"
    BY <2>1, ObjectNodes DEF Node
  <2> HIDE DEF node
  <2> QED BY <2>1, <2>2, CreatePermits
<1>4. CASE ExtractSymlink
  <2> DEFINE link(time) == Node("link", Bit, time, "host", Blank, Entry.to, Destination)
  <2>1. /\ pc = "parent" /\ pos = Len(Relative) /\ session' = session
        /\ Create(link(Entry.mtime), link(Now), directories)
    BY <1>4 DEF ExtractSymlink, AtLeaf
  <2>2. /\ Destination \notin DOMAIN tree => NewHere(link(Entry.mtime))
        /\ link(Entry.mtime).type # "dir"
    BY <2>1, ObjectNodes DEF Node
  <2> HIDE DEF link
  <2> QED BY <2>1, <2>2, CreatePermits
<1>5. CASE ExtractHardlink
  <2> DEFINE file == tree[Workspace \o Trimmed(Entry.to)]
  <2>1. /\ pc = "parent" /\ pos = Len(Relative) /\ session' = session
        /\ Create(file, file, directories) /\ Entry.type = "hard"
    BY <1>5 DEF ExtractHardlink, AtLeaf
  <2>2. /\ Destination \notin DOMAIN tree => NewHere(file)
        /\ file.type # "dir"
    BY <2>1, ObjectNodes DEF Inv, Archived, Unpacking, InArchive, Accepted
  <2> HIDE DEF file
  <2> QED BY <2>1, <2>2, CreatePermits
<1> QED BY <1>1, <1>2, <1>3, <1>4, <1>5

LEMMA SealDirectoryPermits ==
  ASSUME Inv, Permitted, SealDirectory PROVE Permitted'
<1>1. CASE pc' = "idle"
  BY <1>1 DEF Permitted, Unpacking, InArchive
<1>2. ASSUME pc' # "idle" PROVE Permitted'
  <2>1. PICK p : p = DeepestFirst(DOMAIN directories)
    OBVIOUS
  <2>2. PICK here : here = Workspace \o p
    OBVIOUS
  <2>3. /\ pc = "seal" /\ pc' = "seal" /\ session' = session
        /\ DOMAIN directories # {}
        /\ tree' = [[tree EXCEPT ![here].mode = directories[p].mode]
                        EXCEPT ![here].mtime = directories[p].mtime]
        /\ directories' = [q \in DOMAIN directories \ {p} |-> directories[q]]
    BY <1>2, <2>1, <2>2 DEF SealDirectory, Throw
  <2>4. p \in DOMAIN directories /\ \A q \in DOMAIN directories : Len(q) <= Len(p)
    <3>1. DOMAIN directories \subseteq Names /\ IsFiniteSet(DOMAIN directories)
      BY <2>3 DEF Inv, Archived, Unpacking, InArchive, Pending, Control
    <3> QED BY <2>1, <2>3, <3>1, DeepestExists
  <2>5. PICK m : m = directories[p]
    OBVIOUS
  <2>6. /\ \A d \in DOMAIN directories : d \in Names /\ Holds(tree, Workspace \o d)
        /\ \/ \E x \in Finished : /\ At(x).type = "dir"
                                  /\ m.mode = Masked(At(x).mode)
           \/ m.mode = Bit \ session.mask
        /\ Sound(tree)
    <3>1. \A d \in DOMAIN directories : Pending(d)
      BY <2>3 DEF Inv, Archived, Unpacking, InArchive
    <3>2. \/ \E x \in Finished : /\ At(x).type = "dir"
                                 /\ m.mode = Masked(At(x).mode)
          \/ m.mode = Bit \ session.mask
      BY <2>4, <2>5, <3>1 DEF Pending
    <3> QED BY <3>1, <3>2 DEF Pending, Holds, IsDirectory, Inv
  <2>7. /\ DOMAIN tree' = DOMAIN tree /\ tree'[here].mode = m.mode
        /\ \A q \in DOMAIN tree : tree'[q].type = tree[q].type
        /\ \A q \in DOMAIN tree : q # here => tree'[q] = tree[q]
    <3>1. m.mode \subseteq Bit /\ Holds(tree, here)
      BY <2>2, <2>4, <2>6 DEF Masked
    <3>2. /\ DOMAIN tree' = DOMAIN tree /\ tree'[here].type = "dir"
          /\ tree'[here].mode = m.mode
          /\ \A q \in DOMAIN tree : q # here => tree'[q] = tree[q]
      <4>1. PICK time : time = directories[p].mtime
        OBVIOUS
      <4> DEFINE chmod == [tree EXCEPT ![here].mode = m.mode]
                 done == [chmod EXCEPT ![here].mtime = time]
      <4>2. tree' = done
        BY <2>3, <2>5, <4>1
      <4>3. /\ Sound(chmod) /\ Sound(done) /\ DOMAIN done = DOMAIN tree
            /\ done[here].type = "dir" /\ done[here].owner = tree[here].owner
            /\ done[here].ino = tree[here].ino
            /\ done[here].mode = m.mode /\ done[here].mtime = time
            /\ \A q \in DOMAIN tree : q # here => done[q] = tree[q]
        <5>1. Sound(tree)
          BY <2>6
        <5> QED BY <3>1, <5>1, SealedNode
      <4> HIDE DEF done
      <4> QED BY <4>2, <4>3
    <3> QED BY <3>1, <3>2 DEF Holds
  <2>8. Archives' = Archives /\ (Preparable' <=> Preparable)
    BY <2>3, PreparableStays, SessionStays
  <2>9. ASSUME Preparable, ~session.privileged, Cardinality(Archives) > 1
        PROVE  AllOpen'
    <3>1. AllOpen
      BY <2>3, <2>9 DEF Permitted, Unpacking, InArchive
    <3>2. Private \subseteq m.mode
      <4>1. /\ Private \cap session.mask = {}
            /\ \A x \in Entries : At(x).type = "dir" => Private \subseteq At(x).mode
        <5>1. Cardinality(Archives) \in Nat
          <6>1. /\ session \in Sessions /\ Archives \subseteq 1 .. Len(session.objects)
                /\ Len(session.objects) \in Nat
            BY EntryFacts, SessionFacts DEF Inv, Control
          <6>2. IsFiniteSet(1 .. Len(session.objects))
            BY <6>1, FS_Interval
          <6>3. IsFiniteSet(Archives)
            BY <6>1, <6>2, FS_Subset
          <6> QED BY <6>3, FS_CardinalityType
        <5> QED BY <2>9, <5>1 DEF Preparable, Usable
      <4>2. Private \subseteq Bit
        BY DEF Private, Bit
      <4>3. \A x \in Finished : x \in Entries
        BY DEF Finished
      <4>4. \A mode : Private \subseteq mode => Private \subseteq Masked(mode)
        BY <4>1, <4>2 DEF Masked
      <4> QED BY <2>6, <4>1, <4>2, <4>3, <4>4
    <3> QED BY <2>7, <3>1, <3>2 DEF AllOpen, IsDirectory
  <2>10. ASSUME Preparable, ~session.privileged,
                NEW d \in DOMAIN directories', NEW k \in 1 .. Len(d)
         PROVE  "rx" \in tree'[Workspace \o SubSeq(d, 1, k)].mode
    <3>1. d \in DOMAIN directories /\ d # p
      BY <2>3
    <3>2. PICK part : part = SubSeq(d, 1, k)
      OBVIOUS
    <3>3. /\ part \in Names /\ IsPrefix(part, d) /\ Workspace \o part \in DOMAIN tree
      BY <2>6, <3>1, <3>2, PendingIsReached DEF Holds
    <3>4. part # p
      BY <2>4, <2>6, <3>1, <3>3, PathOrder
    <3>5. Workspace \o part # here
      BY <2>2, <2>4, <2>6, <3>3, <3>4, BelowWorkspace
    <3>6. "rx" \in tree[Workspace \o part].mode
      BY <2>3, <2>10, <3>1, <3>2 DEF Permitted
    <3> QED BY <2>7, <3>2, <3>3, <3>5, <3>6
  <2> QED BY <2>3, <2>8, <2>9, <2>10 DEF Permitted
<1> QED BY <1>1, <1>2

LEMMA CloseArchivePermits ==
  ASSUME Inv, Permitted, CloseArchive PROVE Permitted'
<1>1. CASE pc' = "idle"
  BY <1>1 DEF Permitted, Unpacking, InArchive
<1>2. ASSUME pc' # "idle" PROVE Permitted'
  <2>1. /\ pc = "seal" /\ pc' = "object" /\ object' = object + 1
        /\ session' = session /\ tree' = tree
    BY <1>2 DEF CloseArchive, Throw
  <2>2. /\ Archives' = Archives /\ (Preparable' <=> Preparable)
        /\ AllOpen' <=> AllOpen
    BY <2>1, PreparableStays, SessionStays DEF AllOpen, IsDirectory
  <2>3. ~(\A k \in Archives : object' <= k)
    <3>1. object \in Archives /\ object \in Nat
      BY <2>1, SessionFacts DEF Inv, Control, InArchive, Archives
    <3> QED BY <2>1, <3>1
  <2> QED BY <2>1, <2>2, <2>3 DEF Permitted, Unpacking, InArchive
<1> QED BY <1>1, <1>2

LEMMA StepsPermit ==
  ASSUME Inv, Permitted, [Next]_vars PROVE Permitted'
<1>1. ASSUME pc' \notin {"remove"} \cup Unpacking PROVE Permitted'
  BY <1>1 DEF Permitted, Unpacking, InArchive
<1>2. CASE Call \/ SealRequest \/ CreateRoot \/ Realize \/ Admit \/ Build
  <2>1. pc' \in {"idle", "request", "unlock", "realize", "home", "ready"}
    BY <1>2 DEF Call, SealRequest, CreateRoot, Realize, Admit, Build, Throw
  <2> QED BY <1>1, <2>1 DEF Unpacking, InArchive
<1>3. CASE RemoveTree
  <2>1. pc' \in {"idle", "create"}
    BY <1>3 DEF RemoveTree, Throw
  <2> QED BY <1>1, <2>1 DEF Unpacking, InArchive
<1>4. CASE Unlock \/ MakeHome \/ OpenObject
  BY <1>4, UnlockPermits, MakeHomePermits, OpenObjectPermits
<1>5. CASE UnpackArchive
  BY <1>5, ReadHeaderPermits, ExtractionPermits, SealDirectoryPermits,
     CloseArchivePermits DEF UnpackArchive, Unpack
<1>6. CASE UNCHANGED vars
  <2>1. /\ session' = session /\ pc' = pc /\ tree' = tree /\ object' = object
        /\ root' = root /\ directories' = directories
    BY <1>6 DEF vars, entryVars
  <2>2. /\ Archives' = Archives /\ (Preparable' <=> Preparable)
        /\ AllOpen' <=> AllOpen
    BY <2>1, PreparableStays, SessionStays DEF AllOpen, IsDirectory
  <2> QED BY <2>1, <2>2 DEF Permitted, Directories, Subtree, IsDirectory, Reset
<1> QED BY <1>2, <1>3, <1>4, <1>5, <1>6 DEF Next, Step, Done

(***************************************************************************)
(* As long as no system call fails, prepare() refuses only what cannot be  *)
(* prepared, whatever modes, debris and orders of entries it meets.        *)
(***************************************************************************)
THEOREM RefusalsAreJustified == Spec => []RefusesOnlyInconsistent
<1> DEFINE IInv == Inv /\ Permitted /\ RefusesOnlyInconsistent
<1>1. Init => IInv
  BY InitHolds DEF Init, Permitted, Unpacking, InArchive, RefusesOnlyInconsistent
<1>2. IInv /\ [Next]_vars => IInv'
  <2>1. SUFFICES ASSUME IInv, [Next]_vars PROVE RefusesOnlyInconsistent'
    BY StepsKeep, StepsPermit
  <2>2. session' = session
    BY <2>1 DEF Next, Step, Done, vars, Call, SealRequest, Unlock, RemoveTree,
       CreateRoot, Realize, MakeHome, OpenObject, Admit, Build, UnpackArchive,
       Unpack, ReadHeader, OpenParent, ExtractDirectory, ExtractRegular,
       ExtractSymlink, ExtractHardlink, SealDirectory, CloseArchive
  <2>3. SUFFICES ASSUME Preparable, outcome' = "failed", faults' = MaxFaults(session)
                 PROVE  FALSE
    BY <2>2, PreparableStays DEF RefusesOnlyInconsistent
  <2>4. Justified
    BY <2>1, <2>3, RebuildingIsJustified, UnpackingIsJustified DEF Next, Step, Done
  <2>5. ~Fault
    <3>1. faults \in Nat /\ faults <= MaxFaults(session) /\ MaxFaults(session) \in Nat
      BY <2>1, SessionFacts DEF Inv, Counters, Control
    <3> QED BY <2>3, <3>1 DEF Fault
  <2>6. outcome = "failed" /\ faults = MaxFaults(session)
    BY <2>3, <2>4, <2>5 DEF Justified
  <2> QED BY <2>1, <2>3, <2>6 DEF RefusesOnlyInconsistent
<1>3. IInv => RefusesOnlyInconsistent
  OBVIOUS
<1> HIDE DEF IInv
<1> QED BY <1>1, <1>2, <1>3, PTL DEF Spec
=============================================================================
