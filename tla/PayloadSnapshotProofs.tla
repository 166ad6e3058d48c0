------------------------ MODULE PayloadSnapshotProofs ------------------------
(***************************************************************************)
(* What a sealed payload guarantees, for every tree, every change it may   *)
(* undergo and any number of changes: the archive is the manifest, the     *)
(* regular files were there, in the versions sealed, at one moment, and    *)
(* what holds still from the second inspection on is sealed as it is.      *)
(* And a tree that nobody touches is not refused.                          *)
(*                                                                         *)
(* The moment is the one at which the first inspection left the root.      *)
(***************************************************************************)
EXTENDS PayloadSnapshot, SequenceLemmas

(***************************************************************************)
(* Types.                                                                  *)
(***************************************************************************)
Stamps == [ino : Node \cup {None}, type : Type \cup {"none"}, stamp : Nat,
           links : Nat]
Frames == [dir : Node, path : Seq(EntryName), opened : Stamps, before : Stamps,
           todo : SUBSET EntryName]
ManifestEntry == [path : Seq(EntryName) \ {<<>>}, type : Type \cup {"hardlink"},
                  data : Data \cup {None}, target : Seq(EntryName)]
Scans == [stack : Seq(Frames), name : Nat, before : Stamps,
          read : Data \cup {None}, entries : Seq(ManifestEntry),
          stamps : Seq(Stamps), targets : [Node -> Seq(EntryName)]]
Payloads == [entries : Seq(ManifestEntry), stamps : Seq(Stamps), root : Stamps]
Encodings == [ino : Node, rest : Seq(EntryName), read : Data \cup {None},
              archive : Seq(ManifestEntry)]

\* The next system call is about an entry, about the tree, or writes.
AtEntry == {"dir", "regular", "symlink", "fifo", "socket", "read", "hashed",
            "hardlink", "target"}
Inspects == {"enter", "list", "next", "retain"} \cup AtEntry
Encodes == {"reopen", "encode", "beneath", "copy", "copied"}

Now == [node |-> node, entry |-> entry]

TreeOK ==
    /\ node \in [Node -> [type : Type, data : Data, stamp : Nat]]
    /\ entry \in [Node -> [EntryName -> Node \cup {None}]]
    /\ changes \in Nat /\ coarse \in BOOLEAN
    /\ \A n \in Node : node[n].stamp <= changes
    /\ node[Root].type = "dir"
    /\ Now \in views

TypeOK ==
    /\ TreeOK
    /\ since \in Nat
    /\ pc \in Inspects \cup Encodes \cup {"sealed", "failed"}
    /\ scan \in Scans
    /\ payload \in Payloads
    /\ enc \in Encodings
    /\ Len(scan.stack) >= 1
    /\ pc \in AtEntry => scan.name \in EntryName /\ scan.before.ino \in Node
    /\ pc = "beneath" => enc.rest # <<>>

(***************************************************************************)
(* The archive is the part of the manifest written so far.                 *)
(***************************************************************************)
Copied(archive) ==
    /\ Len(archive) <= Len(payload.entries)
    /\ \A k \in 1 .. Len(archive) : archive[k] = payload.entries[k]

Archived ==
    /\ pc = "retain" => scan.entries # <<>>
    /\ pc \in Inspects => enc.archive = payload.entries
    /\ pc \in Encodes => payload.entries # <<>> /\ Copied(enc.archive)
    /\ pc \in {"beneath", "copy", "copied"} => Index <= Len(payload.entries)
    /\ pc = "sealed" => enc.archive = payload.entries

(***************************************************************************)
(* What has been inspected, seen from the tree t that there is now.  What  *)
(* an inode was when it was inspected holds as long as its stamp does; and *)
(* where it is, as long as the root keeps the stamp it had first.          *)
(***************************************************************************)
IsFile(e) == e.type \in {"regular", "hardlink"}
Changed(t, s) == t.node[s.ino].stamp > s.stamp
RootMoved(t, root) == t.node[Root].stamp > root

\* The path leads to node n, through one directory at most.
Leads(t, path, n) ==
    \/ Len(path) = 1 /\ t.entry[Root][path[1]] = n
    \/ /\ Len(path) = 2 /\ t.entry[Root][path[1]] \in Node
       /\ t.node[t.entry[Root][path[1]]].type = "dir"
       /\ t.entry[t.entry[Root][path[1]]][path[2]] = n

Known(t, root, e, s) ==
    IsFile(e) =>
        /\ s.ino \in Node /\ t.node[s.ino].stamp >= s.stamp
        /\ e.type = "regular" => Changed(t, s) \/ InVersion(t, e, s)
        /\ IsHigh(e.path) =>
            RootMoved(t, root) \/ Changed(t, s) \/ Leads(t, e.path, s.ino)

\* A hard link has its target in the manifest, inspected before it.
Targets(entries, stamps, path, s) ==
    \E j \in 1 .. Len(entries) :
        /\ entries[j].type = "regular" /\ entries[j].path = path
        /\ stamps[j].ino = s.ino /\ stamps[j].stamp <= s.stamp
Linked(entries, stamps) ==
    \A k \in 1 .. Len(entries) : entries[k].type = "hardlink" =>
        Targets(entries, stamps, entries[k].target, stamps[k])

Recorded(t, root, entries, stamps) ==
    /\ Len(stamps) = Len(entries)
    /\ \A k \in 1 .. Len(entries) : Known(t, root, entries[k], stamps[k])
    /\ Linked(entries, stamps)

\* The directories being inspected, the root at the bottom.
Bottom(stack) == stack[Len(stack)]
First(stack) == Bottom(stack).before.stamp
Stacked(t, stack) ==
    LET depth == Len(stack) IN
    /\ \A i \in 1 .. depth : Len(stack[i].path) = depth - i
    /\ Bottom(stack).dir = Root
    /\ First(stack) <= t.node[Root].stamp
    /\ depth >= 2 =>
        LET f == stack[depth - 1] IN
        \/ RootMoved(t, First(stack))
        \/ t.entry[Root][f.path[1]] = f.dir /\ t.node[f.dir].type = "dir"

\* The known places of files that have further links.
Targeted ==
    \A n \in Node : scan.targets[n] # <<>> =>
        \/ \E j \in 1 .. Len(scan.entries) :
            /\ scan.entries[j].type = "regular"
            /\ scan.entries[j].path = scan.targets[n]
            /\ scan.stamps[j].ino = n
        \/ /\ pc \in {"read", "hashed"} /\ n = scan.before.ino
           /\ scan.targets[n] = Append(Top.path, scan.name)

AtHand ==
    /\ pc = "enter" /\ Len(scan.stack) = 1 => scan.entries = <<>>
    /\ pc = "dir" => scan.before.type = "dir"
    /\ pc \in {"regular", "read", "hashed", "hardlink"} =>
        /\ scan.before.type = "regular"
        /\ node[scan.before.ino].stamp >= scan.before.stamp
    /\ pc = "hashed" =>
        Changed(Now, scan.before) \/ node[scan.before.ino].data = scan.read
    /\ pc = "hardlink" => scan.targets[scan.before.ino] # <<>>

(***************************************************************************)
(* The moment t.  What has not changed since it was inspected was there.   *)
(***************************************************************************)
Sound(t, e, s) ==
    /\ s.ino \in Node
    /\ e.type = "regular" => InVersion(t, e, s)
    /\ IsHigh(e.path) => At(t, e.path) = s.ino

Held(now, t, entries, stamps) ==
    \A k \in 1 .. Len(entries) : IsFile(entries[k]) =>
        /\ stamps[k].ino \in Node
        /\ Changed(now, stamps[k]) \/ Sound(t, entries[k], stamps[k])

\* An archived file had not changed, nor had the hard links to it.
Checked(t, k) ==
    payload.entries[k].type = "regular" =>
        \A i \in 1 .. Len(payload.entries) :
            /\ IsFile(payload.entries[i])
            /\ payload.stamps[i].ino = payload.stamps[k].ino
            /\ payload.stamps[k].stamp <= payload.stamps[i].stamp
            => Sound(t, payload.entries[i], payload.stamps[i])
Secured(t) ==
    /\ Held(Now, t, payload.entries, payload.stamps)
    /\ \A k \in 1 .. Len(enc.archive) : Checked(t, k)
Coexist(t) ==
    \A k \in 1 .. Len(payload.entries) : IsFile(payload.entries[k]) =>
        Sound(t, payload.entries[k], payload.stamps[k])

Moment ==
    /\ pc = "retain" => \E t \in views : Held(Now, t, scan.entries, scan.stamps)
    /\ payload.entries # <<>> =>
        /\ Len(payload.stamps) = Len(payload.entries)
        /\ Linked(payload.entries, payload.stamps)
        /\ pc \in Encodes => \E t \in views : Secured(t)
        /\ pc \notin Encodes => \E t \in views : Coexist(t)

Files == /\ Stacked(Now, scan.stack)
         /\ Recorded(Now, First(scan.stack), scan.entries, scan.stamps)
         /\ Targeted
         /\ AtHand
         /\ Moment
Inv == TypeOK /\ Archived /\ (~coarse /\ pc # "failed" => Files)
-----------------------------------------------------------------------------
(***************************************************************************)
(* Stacks, and what the file system answers.                               *)
(***************************************************************************)
LEMMA Popped ==
  ASSUME NEW S, NEW s \in Seq(S), Len(s) >= 1
  PROVE  /\ Head(s) = s[1] /\ Head(s) \in S
         /\ Tail(s) \in Seq(S) /\ Len(Tail(s)) = Len(s) - 1
         /\ \A i \in 1 .. Len(s) - 1 : Tail(s)[i] = s[i + 1]
<1>1. s # <<>> /\ Len(s) \in Nat /\ 1 \in 1 .. Len(s)
  BY EmptySeq, LenProperties
<1>2. Head(s) = s[1] /\ s[1] \in S
  BY <1>1, ElementOfSeq
<1>3. Tail(s) \in Seq(S) /\ Len(Tail(s)) = Len(s) - 1
      /\ \A i \in 1 .. Len(Tail(s)) : Tail(s)[i] = s[i + 1]
  BY <1>1, HeadTailProperties
<1>4. QED
  BY <1>2, <1>3

LEMMA Pushed ==
  ASSUME NEW S, NEW s \in Seq(S), NEW x \in S
  PROVE  LET u == <<x>> \o s IN
         /\ u \in Seq(S) /\ Len(u) = Len(s) + 1 /\ u[1] = x
         /\ \A i \in 1 .. Len(s) : u[i + 1] = s[i]
<1>1. <<x>> \in Seq(S) /\ Len(<<x>>) = 1 /\ <<x>>[1] = x
  OBVIOUS
<1>2. Len(s) \in Nat
  BY LenProperties
<1>3. /\ <<x>> \o s \in Seq(S) /\ Len(<<x>> \o s) = 1 + Len(s)
      /\ \A i \in 1 .. 1 : (<<x>> \o s)[i] = <<x>>[i]
      /\ \A i \in 1 .. Len(s) : (<<x>> \o s)[1 + i] = s[i]
  BY <1>1, ConcatAt
<1>4. \A i \in 1 .. Len(s) : (<<x>> \o s)[i + 1] = s[i]
  <2> TAKE i \in 1 .. Len(s)
  <2>1. i + 1 = 1 + i
    BY <1>2
  <2> QED BY <1>3, <2>1
<1>5. QED
  BY <1>1, <1>2, <1>3, <1>4

\* The frame on top is replaced.
LEMMA Replaced ==
  ASSUME NEW S, NEW s \in Seq(S), Len(s) >= 1, NEW x \in S
  PROVE  LET u == <<x>> \o Tail(s) IN
         /\ u \in Seq(S) /\ Len(u) = Len(s) /\ u[1] = x
         /\ \A i \in 2 .. Len(s) : u[i] = s[i]
<1>1. /\ Tail(s) \in Seq(S) /\ Len(Tail(s)) = Len(s) - 1 /\ Len(s) \in Nat
      /\ \A i \in 1 .. Len(s) - 1 : Tail(s)[i] = s[i + 1]
  BY Popped, LenProperties
<1> DEFINE u == <<x>> \o Tail(s)
<1>2. /\ u \in Seq(S) /\ Len(u) = Len(Tail(s)) + 1 /\ u[1] = x
      /\ \A i \in 1 .. Len(Tail(s)) : u[i + 1] = Tail(s)[i]
  BY <1>1, Pushed
<1> HIDE DEF u
<1>3. \A i \in 2 .. Len(s) : u[i] = s[i]
  <2> TAKE i \in 2 .. Len(s)
  <2>1. i - 1 \in 1 .. Len(s) - 1 /\ (i - 1) + 1 = i
    BY <1>1
  <2> QED BY <1>1, <1>2, <2>1
<1>4. QED
  BY <1>1, <1>2, <1>3 DEF u

LEMMA Appended ==
  ASSUME NEW S, NEW s \in Seq(S), NEW x \in S
  PROVE  /\ Append(s, x) \in Seq(S) /\ Append(s, x) # <<>>
         /\ Len(s) \in Nat /\ Len(Append(s, x)) = Len(s) + 1
         /\ Append(s, x)[Len(s) + 1] = x
         /\ \A i \in 1 .. Len(s) : Append(s, x)[i] = s[i]
<1>1. Len(s) \in Nat
  BY LenProperties
<1>2. /\ Append(s, x) \in Seq(S) /\ Len(Append(s, x)) = Len(s) + 1
      /\ Append(s, x)[Len(s) + 1] = x
      /\ \A i \in 1 .. Len(s) : Append(s, x)[i] = s[i]
  BY AppendProperties
<1>3. Append(s, x) # <<>>
  BY <1>1, <1>2, EmptySeq
<1>4. QED
  BY <1>1, <1>2, <1>3

LEMMA StatShape ==
  ASSUME TreeOK, NEW n \in Node
  PROVE  /\ Stat(n) \in Stamps /\ Stat(n).ino = n
         /\ Stat(n).type = node[n].type /\ Stat(n).stamp = node[n].stamp
<1>1. LinksTo(n) \subseteq Node \X EntryName
  BY DEF LinksTo
<1>2. IsFiniteSet(Node \X EntryName)
  BY PayloadAssumption, FS_Product
<1>3. Cardinality(LinksTo(n)) \in Nat
  BY <1>1, <1>2, FS_Subset, FS_CardinalityType
<1>4. node[n].type \in Type /\ node[n].stamp \in Nat
  BY DEF TreeOK
<1> DEFINE c == Cardinality(LinksTo(n))
<1> HIDE DEF c
<1>5. Stat(n) = [ino |-> n, type |-> node[n].type, stamp |-> node[n].stamp,
                 links |-> c]
  BY DEF Stat, c
<1>6. QED
  BY <1>3, <1>4, <1>5 DEF Stamps, c

LEMMA NoStatShape == NoStat \in Stamps
BY DEF NoStat, Stamps

\* Where short paths lead.
LEMMA AtOne ==
  ASSUME NEW t, NEW path, Len(path) = 1, t.node[Root].type = "dir"
  PROVE  At(t, path) = t.entry[Root][path[1]]
<1> DEFINE Body(w) == [k \in 0 .. 1 |->
                IF k = 0 THEN Root ELSE Below(t, w[k - 1], path[k])]
           g == [k \in 0 .. 1 |-> IF k = 0 THEN Root
                                  ELSE t.entry[Root][path[1]]]
           w == CHOOSE f : f = Body(f)
<1>1. Root # None
  BY PayloadAssumption
<1>2. g = Body(g)
  <2>1. g[0] = Root /\ Below(t, Root, path[1]) = t.entry[Root][path[1]]
    BY <1>1 DEF Below
  <2>2. \A k \in 0 .. 1 : g[k] = IF k = 0 THEN Root
                                 ELSE Below(t, g[k - 1], path[k])
    <3>1. \A k \in 0 .. 1 : k = 0 \/ (k = 1 /\ k - 1 = 0)
      OBVIOUS
    <3> QED BY <2>1, <3>1
  <2> QED BY <2>2
<1>3. w = Body(w)
  BY <1>2
<1>4. w[0] = Root /\ w[1] = Below(t, w[0], path[1])
  <2> HIDE DEF w
  <2>1. w[0] = Body(w)[0] /\ w[1] = Body(w)[1]
    BY <1>3
  <2>2. Body(w)[0] = Root /\ Body(w)[1] = Below(t, w[0], path[1])
    OBVIOUS
  <2> QED BY <2>1, <2>2
<1>5. At(t, path) = w[1]
  BY DEF At
<1>6. QED
  BY <1>1, <1>4, <1>5 DEF Below

LEMMA AtTwo ==
  ASSUME NEW t, NEW path, Len(path) = 2, t.node[Root].type = "dir",
         NEW d, d = t.entry[Root][path[1]], d # None, t.node[d].type = "dir"
  PROVE  At(t, path) = t.entry[d][path[2]]
<1> DEFINE Body(w) == [k \in 0 .. 2 |->
                IF k = 0 THEN Root ELSE Below(t, w[k - 1], path[k])]
           g == [k \in 0 .. 2 |-> IF k = 0 THEN Root ELSE
                                  IF k = 1 THEN d ELSE t.entry[d][path[2]]]
           w == CHOOSE f : f = Body(f)
<1>1. Root # None
  BY PayloadAssumption
<1>2. g = Body(g)
  <2>1. /\ g[0] = Root /\ Below(t, Root, path[1]) = d
        /\ g[1] = d /\ Below(t, d, path[2]) = t.entry[d][path[2]]
    BY <1>1 DEF Below
  <2>2. \A k \in 0 .. 2 : g[k] = IF k = 0 THEN Root
                                 ELSE Below(t, g[k - 1], path[k])
    <3>1. \A k \in 0 .. 2 : k = 0 \/ (k = 1 /\ k - 1 = 0) \/ (k = 2 /\ k - 1 = 1)
      OBVIOUS
    <3> QED BY <2>1, <3>1
  <2> QED BY <2>2
<1>3. w = Body(w)
  BY <1>2
<1>4. w[0] = Root /\ w[1] = Below(t, w[0], path[1])
      /\ w[2] = Below(t, w[1], path[2])
  <2> HIDE DEF w
  <2>1. w[0] = Body(w)[0] /\ w[1] = Body(w)[1] /\ w[2] = Body(w)[2]
    BY <1>3
  <2>2. Body(w)[0] = Root /\ Body(w)[1] = Below(t, w[0], path[1])
        /\ Body(w)[2] = Below(t, w[1], path[2])
    OBVIOUS
  <2> QED BY <2>1, <2>2
<1>5. At(t, path) = w[2]
  BY DEF At
<1>6. QED
  BY <1>1, <1>4, <1>5 DEF Below
-----------------------------------------------------------------------------
(***************************************************************************)
(* Changes of the tree.  Unless the clock is coarse, an inode whose stamp  *)
(* did not grow is what it was, where it was.                              *)
(***************************************************************************)
Kept(n) ==
    \/ node'[n].stamp > node[n].stamp
    \/ /\ node'[n] = node[n] /\ entry'[n] = entry[n]
       /\ \A d \in Node : \A m \in EntryName :
            entry[d][m] = n => entry'[d][m] = n

ChangesTree ==
    /\ UNCHANGED <<coarse, since, pc, scan, payload, enc>>
    /\ TreeOK' /\ views \subseteq views' /\ changes' = changes + 1
    /\ \A n \in Node : \/ node'[n].stamp = node[n].stamp
                       \/ node'[n].stamp = changes'
    /\ \A n \in Node : node'[n].stamp >= node[n].stamp
    /\ \A n \in Attached \cup {Root} : node'[n].type = node[n].type
    /\ ~coarse => \A n \in Node : Kept(n)

LEMMA Changes ==
  ASSUME TreeOK, NEW kind, NEW new, NEW S, NEW e,
         Change(kind, new, S, e),
         new \in [Node -> [type : Type, data : Data, stamp : Nat]],
         e \in [Node -> [EntryName -> Node \cup {None}]],
         \A n \in Node : new[n].stamp = node[n].stamp,
         \A n \in Attached \cup {Root} : new[n].type = node[n].type,
         ~coarse => \A n \in Node \ S :
            /\ new[n] = node[n] /\ e[n] = entry[n]
            /\ \A d \in Node : \A m \in EntryName : entry[d][m] = n => e[d][m] = n
  PROVE  ChangesTree
<1>1. /\ UNCHANGED <<coarse, since, pc, scan, payload, enc>>
      /\ changes' = changes + 1 /\ entry' = e
      /\ node' = [n \in Node |-> IF n \in S
                    THEN [new[n] EXCEPT !.stamp = changes + 1] ELSE new[n]]
      /\ views' = views \cup {[node |-> node', entry |-> entry']}
  BY DEF Change
<1>2. changes \in Nat /\ changes + 1 \in Nat
  BY DEF TreeOK
<1>3. \A n \in Node :
        /\ node'[n] \in [type : Type, data : Data, stamp : Nat]
        /\ node'[n].type = new[n].type /\ node'[n].data = new[n].data
        /\ n \in S => node'[n].stamp = changes + 1
        /\ n \notin S => node'[n] = new[n]
  <2> TAKE n \in Node
  <2> DEFINE r == new[n]
  <2>1. node'[n] = IF n \in S THEN [r EXCEPT !.stamp = changes + 1] ELSE r
    BY <1>1
  <2>2. r \in [type : Type, data : Data, stamp : Nat]
    OBVIOUS
  <2> HIDE DEF r
  <2>3. /\ [r EXCEPT !.stamp = changes + 1] \in [type : Type, data : Data, stamp : Nat]
        /\ [r EXCEPT !.stamp = changes + 1].type = r.type
        /\ [r EXCEPT !.stamp = changes + 1].data = r.data
        /\ [r EXCEPT !.stamp = changes + 1].stamp = changes + 1
    BY <1>2, <2>2
  <2>4. CASE n \in S
    BY <2>1, <2>3, <2>4 DEF r
  <2>5. CASE n \notin S
    BY <2>1, <2>2, <2>5 DEF r
  <2> QED BY <2>4, <2>5
<1>4. \A n \in Node : node[n].stamp \in Nat /\ node[n].stamp <= changes
  BY DEF TreeOK
<1>5. \A n \in Node : /\ node'[n].stamp >= node[n].stamp
                      /\ node'[n].stamp <= changes + 1
                      /\ n \in S => node'[n].stamp > node[n].stamp
                      /\ \/ node'[n].stamp = node[n].stamp
                         \/ node'[n].stamp = changes'
  <2> TAKE n \in Node
  <2>1. CASE n \in S
    BY <1>1, <1>2, <1>3, <1>4, <2>1
  <2>2. CASE n \notin S
    <3>1. node'[n].stamp = node[n].stamp
      BY <1>3, <2>2
    <3> QED BY <1>2, <1>4, <2>2, <3>1
  <2> QED BY <2>1, <2>2
<1>6. \A n \in Attached \cup {Root} : node'[n].type = node[n].type
  <2> TAKE n \in Attached \cup {Root}
  <2>1. n \in Node
    BY PayloadAssumption DEF Attached, TreeOK
  <2> QED BY <1>3, <2>1
<1>7. TreeOK'
  <2>1. (DOMAIN node') = Node /\ node' = [n \in Node |-> node'[n]]
    BY <1>1
  <2>2. node' \in [Node -> [type : Type, data : Data, stamp : Nat]]
    BY <1>3, <2>1
  <2>3. node'[Root].type = "dir"
    BY <1>6 DEF TreeOK
  <2>4. Now' \in views'
    BY <1>1 DEF Now
  <2> QED BY <1>1, <1>2, <1>5, <2>2, <2>3, <2>4 DEF TreeOK
<1>8. ~coarse => \A n \in Node : Kept(n)
  <2> SUFFICES ASSUME ~coarse, NEW n \in Node
               PROVE  Kept(n)
    OBVIOUS
  <2>1. CASE n \in S
    BY <1>5, <2>1 DEF Kept
  <2>2. CASE n \notin S
    BY <1>1, <1>3, <2>2 DEF Kept
  <2> QED BY <2>1, <2>2
<1>9. QED
  BY <1>1, <1>5, <1>6, <1>7, <1>8 DEF ChangesTree

LEMMA TreeChanges ==
  ASSUME TreeOK, Alter \/ Put \/ Detach \/ Join \/ Move
  PROVE  ChangesTree
<1> DEFINE Nodes == [type : Type, data : Data, stamp : Nat]
           Entries == [Node -> [EntryName -> Node \cup {None}]]
<1>0. /\ node \in [Node -> Nodes] /\ entry \in Entries
      /\ Attached \subseteq Node /\ Dirs \subseteq Node
      /\ Root \in Node /\ None \notin Node
  <2>1. node \in [Node -> Nodes] /\ entry \in Entries
    BY DEF TreeOK
  <2>2. Root \in Node /\ None \notin Node
    BY PayloadAssumption
  <2>3. Attached \subseteq Node
    BY <2>1 DEF Attached
  <2>4. Dirs \subseteq Node
    BY <2>2, <2>3 DEF Dirs
  <2> QED BY <2>1, <2>2, <2>3, <2>4
<1>1. CASE Alter
  <2>1. PICK n \in Attached \cup {Root}, v \in Data :
            \E S \in IF coarse /\ node[n].type = "regular"
                     THEN {{}, {n}} ELSE {{n}} :
                Change("alter", [node EXCEPT ![n].data = v], S, entry)
    BY <1>1 DEF Alter
  <2> DEFINE new == [node EXCEPT ![n].data = v]
  <2>2. PICK S \in IF coarse /\ node[n].type = "regular"
                   THEN {{}, {n}} ELSE {{n}} :
                Change("alter", new, S, entry)
    BY <2>1
  <2>3. n \in Node
    BY <1>0
  <2>4. /\ new \in [Node -> Nodes]
        /\ \A x \in Node : /\ new[x].stamp = node[x].stamp
                           /\ new[x].type = node[x].type
                           /\ x # n => new[x] = node[x]
    BY <1>0, <2>3
  <2>5. ~coarse => S = {n}
    BY <2>2
  <2> HIDE DEF new
  <2> QED BY <1>0, <2>2, <2>4, <2>5, Changes
<1>2. CASE Put
  <2> DEFINE free == Node \ (Attached \cup InUse \cup {Root})
             n == Min(free)
  <2>1. free # {} /\ n \in free
    BY <1>2, PayloadAssumption, MinIsLeast DEF Put
  <2>2. PICK d \in Dirs, m \in EntryName, t \in NewTypes, v \in Data :
            Change("put", [node EXCEPT ![n].type = t, ![n].data = v],
                   {d, n, entry[d][m]} \ {None}, [entry EXCEPT ![d][m] = n])
    BY <1>2 DEF Put
  <2> DEFINE new == [node EXCEPT ![n].type = t, ![n].data = v]
             e == [entry EXCEPT ![d][m] = n]
             S == {d, n, entry[d][m]} \ {None}
  <2>3. n \in Node /\ n \notin Attached /\ n # Root
    BY <2>1
  <2> HIDE DEF n
  <2>4. t \in Type
    BY PayloadAssumption DEF Type
  <2>5. /\ new \in [Node -> Nodes]
        /\ \A x \in Node : /\ new[x].stamp = node[x].stamp
                           /\ x # n => new[x] = node[x]
    BY <1>0, <2>3, <2>4
  <2>6. e \in Entries /\ \A x \in Node : x # d => e[x] = entry[x]
    BY <1>0, <2>3
  <2>7. \A x \in Node \ S : \A d2 \in Node : \A m2 \in EntryName :
            entry[d2][m2] = x => e[d2][m2] = x
    <3> TAKE x \in Node \ S
    <3> TAKE d2 \in Node
    <3> TAKE m2 \in EntryName
    <3>1. CASE d2 = d /\ m2 = m
      BY <1>0, <3>1
    <3>2. CASE d2 = d /\ m2 # m
      BY <1>0, <3>2
    <3>3. CASE d2 # d
      BY <2>6, <3>3
    <3> QED BY <3>1, <3>2, <3>3
  <2>8. \A x \in Node \ S : x # d /\ x # n
    BY <1>0
  <2> HIDE DEF new, e, S
  <2>9. \A x \in Attached \cup {Root} : new[x].type = node[x].type
    BY <1>0, <2>3, <2>5
  <2>10. Change("put", new, S, e)
    BY <2>2 DEF new, e, S
  <2> QED BY <2>5, <2>6, <2>7, <2>8, <2>9, <2>10, Changes
<1>3. CASE Detach
  <2>1. PICK d \in Dirs, m \in EntryName :
            Change("remove", node, {d, entry[d][m]}, [entry EXCEPT ![d][m] = None])
    BY <1>3 DEF Detach
  <2> DEFINE e == [entry EXCEPT ![d][m] = None]
             S == {d, entry[d][m]}
  <2>2. e \in Entries /\ \A x \in Node : x # d => e[x] = entry[x]
    BY <1>0
  <2>3. \A x \in Node \ S : \A d2 \in Node : \A m2 \in EntryName :
            entry[d2][m2] = x => e[d2][m2] = x
    <3> TAKE x \in Node \ S
    <3> TAKE d2 \in Node
    <3> TAKE m2 \in EntryName
    <3>1. CASE d2 = d /\ m2 = m
      BY <1>0, <3>1
    <3>2. CASE d2 = d /\ m2 # m
      BY <1>0, <3>2
    <3>3. CASE d2 # d
      BY <2>2, <3>3
    <3> QED BY <3>1, <3>2, <3>3
  <2>4. \A x \in Node \ S : x # d
    OBVIOUS
  <2> HIDE DEF e, S
  <2>5. Change("remove", node, S, e)
    BY <2>1 DEF e, S
  <2> QED BY <1>0, <2>2, <2>3, <2>4, <2>5, Changes
<1>4. CASE Join
  <2>1. PICK d \in Dirs, m \in EntryName, n \in Attached :
            /\ entry[d][m] = None
            /\ Change("join", node, {d, n}, [entry EXCEPT ![d][m] = n])
    BY <1>4 DEF Join
  <2> DEFINE e == [entry EXCEPT ![d][m] = n]
             S == {d, n}
  <2>2. e \in Entries /\ \A x \in Node : x # d => e[x] = entry[x]
    BY <1>0
  <2>3. \A x \in Node \ S : \A d2 \in Node : \A m2 \in EntryName :
            entry[d2][m2] = x => e[d2][m2] = x
    <3> TAKE x \in Node \ S
    <3> TAKE d2 \in Node
    <3> TAKE m2 \in EntryName
    <3>1. CASE d2 = d /\ m2 = m
      BY <1>0, <2>1, <3>1
    <3>2. CASE d2 = d /\ m2 # m
      BY <1>0, <3>2
    <3>3. CASE d2 # d
      BY <2>2, <3>3
    <3> QED BY <3>1, <3>2, <3>3
  <2>4. \A x \in Node \ S : x # d
    OBVIOUS
  <2> HIDE DEF e, S
  <2>5. Change("join", node, S, e)
    BY <2>1 DEF e, S
  <2> QED BY <1>0, <2>2, <2>3, <2>4, <2>5, Changes
<1>5. CASE Move
  <2>1. PICK d \in Dirs, m \in EntryName, k \in EntryName :
            /\ entry[d][m] \in Dirs /\ entry[d][k] = None
            /\ Change("move", node, {d, entry[d][m]},
                      [entry EXCEPT ![d][k] = entry[d][m], ![d][m] = None])
    BY <1>5 DEF Move
  <2> DEFINE e == [entry EXCEPT ![d][k] = entry[d][m], ![d][m] = None]
             S == {d, entry[d][m]}
  <2>2. e \in Entries /\ \A x \in Node : x # d => e[x] = entry[x]
    BY <1>0, <2>1
  <2>3. \A x \in Node \ S : \A d2 \in Node : \A m2 \in EntryName :
            entry[d2][m2] = x => e[d2][m2] = x
    <3> TAKE x \in Node \ S
    <3> TAKE d2 \in Node
    <3> TAKE m2 \in EntryName
    <3>1. CASE d2 = d /\ m2 \in {m, k}
      BY <1>0, <2>1, <3>1
    <3>2. CASE d2 = d /\ m2 \notin {m, k}
      BY <1>0, <3>2
    <3>3. CASE d2 # d
      BY <2>2, <3>3
    <3> QED BY <3>1, <3>2, <3>3
  <2>4. \A x \in Node \ S : x # d
    OBVIOUS
  <2> HIDE DEF e, S
  <2>5. Change("move", node, S, e)
    BY <2>1 DEF e, S
  <2> QED BY <1>0, <2>2, <2>3, <2>4, <2>5, Changes
<1>6. QED
  BY <1>1, <1>2, <1>3, <1>4, <1>5
-----------------------------------------------------------------------------
(***************************************************************************)
(* Types, and the archive.                                                 *)
(***************************************************************************)
LEMMA TreeSame ==
  ASSUME TreeOK, UNCHANGED treeVars
  PROVE  TreeOK' /\ Now' = Now /\ \A n \in Node : Stat(n)' = Stat(n)
<1>1. node' = node /\ entry' = entry /\ changes' = changes /\ coarse' = coarse
      /\ views' = views
  BY DEF treeVars
<1>2. \A n \in Node : Stat(n)' = Stat(n)
  <2> TAKE n \in Node
  <2>1. LinksTo(n)' = LinksTo(n)
    BY <1>1 DEF LinksTo
  <2> QED BY <1>1, <2>1 DEF Stat
<1>3. QED
  BY <1>1, <1>2 DEF TreeOK, Now

LEMMA FrameShape ==
  ASSUME NEW n \in Node, NEW path \in Seq(EntryName), NEW opened \in Stamps
  PROVE  /\ Frame(n, path, opened) \in Frames
         /\ Frame(n, path, opened).dir = n /\ Frame(n, path, opened).path = path
<1>1. {} \in SUBSET EntryName
  OBVIOUS
<1>2. QED
  BY <1>1, NoStatShape DEF Frame, Frames

\* The frame on top, and its replacement.
LEMMA TopShape ==
  ASSUME TypeOK
  PROVE  /\ scan.stack \in Seq(Frames) /\ Len(scan.stack) \in Nat
         /\ Len(scan.stack) >= 1
         /\ Top \in Frames /\ Top = scan.stack[1]
         /\ Top.dir \in Node /\ Top.path \in Seq(EntryName)
         /\ Top.todo \subseteq EntryName /\ Top.before \in Stamps
         /\ scan \in Scans /\ scan.targets \in [Node -> Seq(EntryName)]
         /\ scan.entries \in Seq(ManifestEntry) /\ scan.stamps \in Seq(Stamps)
         /\ scan.before \in Stamps /\ scan.read \in Data \cup {None}
<1> HIDE DEF Frames, Stamps, ManifestEntry
<1>1. /\ scan \in Scans /\ Len(scan.stack) >= 1 /\ scan.stack \in Seq(Frames)
      /\ scan.targets \in [Node -> Seq(EntryName)]
      /\ scan.entries \in Seq(ManifestEntry) /\ scan.stamps \in Seq(Stamps)
      /\ scan.before \in Stamps /\ scan.read \in Data \cup {None}
  BY DEF TypeOK, Scans
<1>2. Top \in Frames /\ Top = scan.stack[1] /\ Len(scan.stack) \in Nat
  BY <1>1, Popped, LenProperties DEF Top
<1>3. /\ Top.dir \in Node /\ Top.path \in Seq(EntryName)
      /\ Top.todo \subseteq EntryName /\ Top.before \in Stamps
  BY <1>2 DEF Frames
<1>4. QED
  BY <1>1, <1>2, <1>3

LEMMA OnTopShape ==
  ASSUME TypeOK, NEW f \in Frames
  PROVE  /\ OnTop(f) \in Seq(Frames) /\ Len(OnTop(f)) = Len(scan.stack)
         /\ OnTop(f)[1] = f
         /\ \A i \in 2 .. Len(scan.stack) : OnTop(f)[i] = scan.stack[i]
BY TopShape, Replaced DEF OnTop

LEMMA WithShape ==
  ASSUME TypeOK, pc \in AtEntry, NEW type \in Type \cup {"hardlink"},
         NEW data \in Data \cup {None}, NEW target \in Seq(EntryName)
  PROVE  LET e == [path |-> Append(Top.path, scan.name), type |-> type,
                   data |-> data, target |-> target]
             w == With(type, data, target)
         IN /\ e \in ManifestEntry /\ w \in Scans
            /\ w.entries = Append(scan.entries, e)
            /\ w.stamps = Append(scan.stamps, scan.before)
            /\ w.entries # <<>>
            /\ w.stack = scan.stack /\ w.targets = scan.targets
            /\ w.name = scan.name /\ w.before = scan.before
            /\ w.read = scan.read
<1> DEFINE p == Append(Top.path, scan.name)
           e == [path |-> p, type |-> type, data |-> data, target |-> target]
           w == With(type, data, target)
<1>0. scan.name \in EntryName /\ Top.path \in Seq(EntryName)
  BY TopShape DEF TypeOK
<1>1. p \in Seq(EntryName) /\ p # <<>>
  BY <1>0, Appended
<1>2. e \in ManifestEntry
  <2> HIDE DEF p
  <2> QED BY <1>1 DEF ManifestEntry
<1>3. w = [scan EXCEPT !.entries = Append(scan.entries, e),
                       !.stamps = Append(scan.stamps, scan.before)]
  BY DEF With
<1> HIDE DEF e
<1>4. /\ Append(scan.entries, e) \in Seq(ManifestEntry)
      /\ Append(scan.entries, e) # <<>>
      /\ Append(scan.stamps, scan.before) \in Seq(Stamps)
  BY <1>2, TopShape, Appended
<1> HIDE DEF w
<1>5. /\ w \in Scans
      /\ w.entries = Append(scan.entries, e)
      /\ w.stamps = Append(scan.stamps, scan.before)
      /\ w.stack = scan.stack /\ w.targets = scan.targets
      /\ w.name = scan.name /\ w.before = scan.before /\ w.read = scan.read
  BY <1>3, <1>4, TopShape DEF Scans
<1>6. QED
  BY <1>2, <1>4, <1>5 DEF w, e

\* What a step of an inspection leaves behind.
Inspection ==
    /\ UNCHANGED <<treeVars, since, payload, enc>>
    /\ pc \in Inspects /\ pc' \in Inspects \cup {"failed"}
    /\ scan' \in Scans /\ Len(scan'.stack) >= 1
    /\ pc' \in AtEntry => scan'.name \in EntryName /\ scan'.before.ino \in Node
    /\ pc' = "retain" => scan'.entries # <<>>

LEMMA InspectionKeeps ==
  ASSUME TypeOK, Archived, Inspection
  PROVE  TypeOK' /\ Archived'
<1>1. TreeOK'
  BY TreeSame DEF TypeOK, Inspection
<1>2. since' = since /\ payload' = payload /\ enc' = enc
  BY DEF Inspection
<1>3. pc' \notin Encodes /\ pc' \notin {"sealed", "beneath", "copy", "copied"}
  BY DEF Inspection, Inspects, Encodes, AtEntry
<1>4. TypeOK'
  BY <1>1, <1>2, <1>3 DEF TypeOK, Inspection
<1>5. Archived'
  BY <1>2, <1>3 DEF Archived, Inspection
<1>6. QED
  BY <1>4, <1>5

LEMMA Thrown ==
  ASSUME TypeOK, pc \in Inspects, Throw, UNCHANGED <<treeVars, since>>
  PROVE  Inspection
BY DEF TypeOK, Throw, Inspection, AtEntry

LEMMA Finished ==
  ASSUME TypeOK, pc \in AtEntry, NEW type \in Type \cup {"hardlink"},
         NEW data \in Data \cup {None}, NEW target \in Seq(EntryName),
         Finish(type, data, target), UNCHANGED <<treeVars, since>>
  PROVE  Inspection
<1>0. pc \in Inspects
  BY DEF Inspects
<1>1. CASE Throw
  BY <1>0, <1>1, Thrown
<1>2. CASE ~Throw
  <2>1. pc' = "next" /\ scan' = With(type, data, target)
        /\ UNCHANGED <<payload, enc>>
    BY <1>2 DEF Finish
  <2>2. scan' \in Scans /\ Len(scan'.stack) >= 1
    BY <2>1, WithShape, TopShape
  <2> QED BY <1>0, <2>1, <2>2 DEF Inspection, Inspects, AtEntry
<1>3. QED
  BY <1>1, <1>2

LEMMA InspectingTyped ==
  ASSUME TypeOK, Inspecting, ~Retain, UNCHANGED <<treeVars, since>>
  PROVE  Inspection
<1> USE DEF AtEntry, Inspects
<1>0. TreeOK
  BY DEF TypeOK
<1>a. ASSUME NEW f \in Frames, pc \in Inspects, pc' \in {"list", "next"},
             scan' = [scan EXCEPT !.stack = OnTop(f)], UNCHANGED <<payload, enc>>
      PROVE  Inspection
  <2>1. OnTop(f) \in Seq(Frames) /\ Len(OnTop(f)) >= 1
    BY OnTopShape, TopShape
  <2>2. scan' \in Scans /\ scan'.stack = OnTop(f)
    BY <1>a, <2>1, TopShape DEF Scans
  <2> QED BY <1>a, <2>1, <2>2 DEF Inspection
<1>1. CASE Enter
  <2>1. [Top EXCEPT !.before = Stat(Top.dir)] \in Frames
    BY <1>0, TopShape, StatShape DEF Frames
  <2> QED BY <1>a, <1>1, <2>1 DEF Enter
<1>2. CASE List
  <2>1. [Top EXCEPT !.todo = {m \in EntryName : entry[Top.dir][m] # None}]
            \in Frames
    BY TopShape DEF Frames
  <2> QED BY <1>a, <1>2, <2>1 DEF List
<1>3. CASE Visit
  <2> DEFINE name == Min(Top.todo)
             n == entry[Top.dir][name]
             f == [Top EXCEPT !.todo = @ \ {name}]
  <2>1. name \in Top.todo /\ name \in EntryName /\ Top.dir \in Node
    BY <1>3, TopShape, MinIsLeast, PayloadAssumption DEF Visit
  <2>2. CASE Throw
    BY <1>3, <2>2, Thrown DEF Visit
  <2>3. CASE ~Throw
    <3>1. /\ n # None /\ pc = "next" /\ pc' = node[n].type
          /\ scan' = [scan EXCEPT !.name = name, !.before = Stat(n),
                                  !.read = node[n].data, !.stack = OnTop(f)]
          /\ UNCHANGED <<payload, enc>>
      BY <1>3, <2>3 DEF Visit
    <3>2. n \in Node
      BY <1>0, <2>1, <3>1 DEF TreeOK
    <3>3. f \in Frames
      BY <2>1, TopShape DEF Frames
    <3>4. OnTop(f) \in Seq(Frames) /\ Len(OnTop(f)) >= 1
      BY <3>3, OnTopShape, TopShape
    <3>5. Stat(n) \in Stamps /\ Stat(n).ino = n /\ node[n].data \in Data
          /\ node[n].type \in Type /\ name \in Nat
      BY <1>0, <2>1, <3>2, StatShape, PayloadAssumption DEF TreeOK
    <3> HIDE DEF n, f, name
    <3>6. scan' \in Scans /\ scan'.stack = OnTop(f) /\ scan'.name = name
          /\ scan'.before = Stat(n)
      BY <3>1, <3>4, <3>5, TopShape DEF Scans
    <3>7. pc' \in Inspects /\ pc' # "retain"
      BY <3>1, <3>5 DEF Type
    <3> QED BY <2>1, <3>1, <3>2, <3>4, <3>5, <3>6, <3>7 DEF Inspection
  <2> QED BY <2>2, <2>3
<1>4. CASE OpenDir
  <2>1. CASE Throw
    BY <1>4, <2>1, Thrown DEF OpenDir
  <2>2. CASE ~Throw
    <3> DEFINE w == With("dir", scan.read, <<>>)
               f == Frame(scan.before.ino, Append(Top.path, scan.name),
                          scan.before)
    <3>1. /\ pc = "dir" /\ pc' = "enter"
          /\ scan' = [w EXCEPT !.stack = <<f>> \o @]
          /\ UNCHANGED <<payload, enc>>
      BY <1>4, <2>2 DEF OpenDir
    <3>2. scan.before.ino \in Node /\ scan.name \in EntryName
      BY <3>1 DEF TypeOK
    <3>3. f \in Frames
      BY <3>2, TopShape, Appended, FrameShape
    <3>4. w \in Scans /\ w.stack = scan.stack
      <4>1. <<>> \in Seq(EntryName) /\ "dir" \in Type \cup {"hardlink"}
        BY EmptySeq DEF Type
      <4> QED BY <3>1, <4>1, TopShape, WithShape
    <3> HIDE DEF w, f
    <3>5. <<f>> \o scan.stack \in Seq(Frames) /\ Len(<<f>> \o scan.stack) >= 1
      BY <3>3, TopShape, Pushed
    <3>6. scan' \in Scans /\ scan'.stack = <<f>> \o scan.stack
      BY <3>1, <3>4, <3>5 DEF Scans
    <3> QED BY <3>1, <3>5, <3>6 DEF Inspection
  <2> QED BY <2>1, <2>2
<1>5. CASE LeaveDir
  <2>1. CASE Throw
    BY <1>5, <2>1, Thrown DEF LeaveDir
  <2>2. CASE pc' = "next"
    <3>1. /\ pc = "next" /\ Len(scan.stack) > 1
          /\ scan' = [scan EXCEPT !.stack = Tail(scan.stack)]
          /\ UNCHANGED <<payload, enc>>
      BY <1>5, <2>2 DEF LeaveDir, Throw
    <3>2. Tail(scan.stack) \in Seq(Frames) /\ Len(Tail(scan.stack)) >= 1
      BY <3>1, TopShape, Popped
    <3>3. scan' \in Scans /\ scan'.stack = Tail(scan.stack)
      BY <3>1, <3>2, TopShape DEF Scans
    <3> QED BY <2>2, <3>1, <3>2, <3>3 DEF Inspection
  <2>3. CASE pc' = "retain"
    <3>1. pc = "next" /\ UNCHANGED <<scan, payload, enc>> /\ scan.entries # <<>>
      BY <1>5, <2>3 DEF LeaveDir, Throw
    <3> QED BY <2>3, <3>1, TopShape DEF Inspection
  <2> QED BY <1>5, <2>1, <2>2, <2>3 DEF LeaveDir
<1>6. CASE OpenRegular
  <2>1. CASE Throw
    BY <1>6, <2>1, Thrown DEF OpenRegular
  <2>2. CASE ~Throw
    <3>1. pc = "regular" /\ UNCHANGED <<payload, enc>>
      BY <1>6, <2>2 DEF OpenRegular
    <3>2. scan.before.ino \in Node /\ scan.name \in EntryName
      BY <3>1 DEF TypeOK
    <3>3. CASE scan' = scan
      <4>1. pc' \in {"hardlink", "read"}
        BY <1>6, <2>2 DEF OpenRegular
      <4> QED BY <3>1, <3>2, <3>3, <4>1, TopShape DEF Inspection
    <3>4. CASE scan' # scan
      <4>1. /\ pc' = "read"
            /\ scan' = [scan EXCEPT !.targets[scan.before.ino] =
                                        Append(Top.path, scan.name)]
        BY <1>6, <2>2, <3>4 DEF OpenRegular
      <4>2. Append(Top.path, scan.name) \in Seq(EntryName)
        BY <3>2, TopShape, Appended
      <4>3. /\ scan' \in Scans /\ scan'.stack = scan.stack
            /\ scan'.name = scan.name /\ scan'.before = scan.before
        BY <4>1, <4>2, TopShape DEF Scans
      <4> QED BY <3>1, <3>2, <4>1, <4>3, TopShape DEF Inspection
    <3> QED BY <3>3, <3>4
  <2> QED BY <2>1, <2>2
<1>b. /\ <<>> \in Seq(EntryName) /\ None \in Data \cup {None}
      /\ scan.read \in Data \cup {None}
      /\ {"regular", "symlink", "fifo", "hardlink"} \subseteq Type \cup {"hardlink"}
  BY EmptySeq, TopShape DEF Type
<1>7. CASE HardLink
  <2>1. scan.before.ino \in Node
    BY <1>7 DEF TypeOK, HardLink
  <2>2. scan.targets[scan.before.ino] \in Seq(EntryName)
    BY <2>1, TopShape
  <2> QED BY <1>7, <1>b, <2>2, Finished DEF HardLink
<1>c. ASSUME NEW v \in Data, pc \in AtEntry, pc' \in AtEntry,
             scan' = [scan EXCEPT !.read = v], UNCHANGED <<payload, enc>>
      PROVE  Inspection
  <2>1. scan.before.ino \in Node /\ scan.name \in EntryName
    BY <1>c DEF TypeOK
  <2>2. /\ scan' \in Scans /\ scan'.stack = scan.stack
        /\ scan'.name = scan.name /\ scan'.before = scan.before
    BY <1>c, TopShape DEF Scans
  <2> QED BY <1>c, <2>1, <2>2, TopShape DEF Inspection
<1>8. CASE ReadRegular
  <2>1. scan.before.ino \in Node
    BY <1>8 DEF TypeOK, ReadRegular
  <2>2. node[scan.before.ino].data \in Data
    BY <1>0, <2>1 DEF TreeOK
  <2> QED BY <1>8, <1>c, <2>2 DEF ReadRegular
<1>9. CASE HashRegular
  BY <1>9, <1>b, Finished DEF HashRegular
<1>10. CASE ReadLink
  <2>1. CASE Throw
    BY <1>10, <2>1, Thrown DEF ReadLink
  <2>2. CASE ~Throw
    <3>1. /\ Here # None /\ pc = "symlink" /\ pc' = "target"
          /\ scan' = [scan EXCEPT !.read = node[Here].data]
          /\ UNCHANGED <<payload, enc>>
      BY <1>10, <2>2 DEF ReadLink
    <3>2. scan.name \in EntryName
      BY <3>1 DEF TypeOK
    <3>3. Here \in Node
      BY <1>0, <3>1, <3>2, TopShape DEF Here, TreeOK
    <3>4. node[Here].data \in Data
      BY <1>0, <3>3 DEF TreeOK
    <3> QED BY <1>c, <3>1, <3>4
  <2> QED BY <2>1, <2>2
<1>11. CASE CheckLink
  BY <1>11, <1>b, Finished DEF CheckLink
<1>12. CASE Special
  BY <1>12, <1>b, Finished, Thrown DEF Special
<1>13. QED
  BY <1>1, <1>2, <1>3, <1>4, <1>5, <1>6, <1>7, <1>8, <1>9, <1>10, <1>11,
     <1>12 DEF Inspecting

LEMMA RetainTyped ==
  ASSUME TypeOK, Archived, Retain, UNCHANGED <<treeVars, since>>
  PROVE  TypeOK' /\ Archived'
<1>1. pc = "retain" /\ pc \in Inspects /\ UNCHANGED <<scan, enc, since>>
  BY DEF Retain, Inspects
<1>2. TreeOK /\ TreeOK'
  BY TreeSame DEF TypeOK
<1>3. Len(<<>>) = 0
  OBVIOUS
<1>4. CASE payload.entries = <<>>
  <2>1. /\ pc' = "reopen"
        /\ payload' = [entries |-> scan.entries, stamps |-> scan.stamps,
                       root |-> Stat(Root)]
    BY <1>4 DEF Retain
  <2>2. Stat(Root) \in Stamps
    BY <1>2, StatShape, PayloadAssumption
  <2>3. payload' \in Payloads /\ payload'.entries = scan.entries
    BY <2>1, <2>2, TopShape DEF Payloads
  <2>4. enc.archive = <<>> /\ scan.entries # <<>>
    BY <1>1, <1>4 DEF Archived
  <2>5. Len(scan.entries) \in Nat
    BY TopShape, LenProperties
  <2>6. Copied(enc.archive)'
    BY <1>1, <1>3, <2>3, <2>4, <2>5 DEF Copied
  <2>7. TypeOK'
    BY <1>1, <1>2, <2>1, <2>3 DEF TypeOK, Encodes, AtEntry
  <2>8. Archived'
    BY <1>1, <2>1, <2>3, <2>4, <2>6 DEF Archived, Inspects, AtEntry
  <2> QED BY <2>7, <2>8
<1>5. CASE payload.entries # <<>>
  <2>1. pc' \in {"sealed", "failed"} /\ UNCHANGED payload
    BY <1>5 DEF Retain
  <2>2. TypeOK'
    BY <1>1, <1>2, <2>1 DEF TypeOK, Encodes, AtEntry
  <2>3. enc.archive = payload.entries
    BY <1>1 DEF Archived
  <2>4. Archived'
    BY <1>1, <2>1, <2>3 DEF Archived, Inspects, Encodes, AtEntry
  <2> QED BY <2>2, <2>4
<1>6. QED
  BY <1>4, <1>5

\* What a step of the encoding leaves behind.
Encoded ==
    /\ UNCHANGED <<treeVars, since, scan, payload>>
    /\ pc \in Encodes /\ pc' \in Encodes \cup {"failed"}
    /\ enc' \in Encodings
    /\ pc' \in Encodes => Copied(enc'.archive)
    /\ pc' \in {"beneath", "copy", "copied"} =>
        Len(enc'.archive) + 1 <= Len(payload.entries)
    /\ pc' = "beneath" => enc'.rest # <<>>

LEMMA EncodedKeeps ==
  ASSUME TypeOK, Archived, Encoded
  PROVE  TypeOK' /\ Archived'
<1>1. TreeOK'
  BY TreeSame DEF TypeOK, Encoded
<1>2. since' = since /\ payload' = payload /\ scan' = scan
  BY DEF Encoded
<1>3. pc' \notin Inspects /\ pc' \notin AtEntry /\ pc' \notin {"sealed", "retain"}
  BY DEF Encoded, Inspects, Encodes, AtEntry
<1>4. TypeOK'
  BY <1>1, <1>2, <1>3 DEF TypeOK, Encoded
<1>5. pc \in Encodes /\ payload.entries # <<>>
  BY DEF Encoded, Archived
<1>6. Archived'
  BY <1>2, <1>3, <1>5 DEF Archived, Encoded, Copied, Index
<1>7. QED
  BY <1>4, <1>6

\* One more entry in the archive.
LEMMA OneMoreCopied ==
  ASSUME TypeOK, Archived, pc \in Encodes, Index <= Len(payload.entries)
  PROVE  /\ Index \in 1 .. Len(payload.entries)
         /\ payload.entries[Index] \in ManifestEntry
         /\ Copied(Append(enc.archive, payload.entries[Index]))
         /\ Append(enc.archive, payload.entries[Index]) \in Seq(ManifestEntry)
         /\ Len(Append(enc.archive, payload.entries[Index])) = Index
<1> DEFINE e == payload.entries[Index]
           a == enc.archive
           b == Append(a, e)
<1>1. a \in Seq(ManifestEntry) /\ payload.entries \in Seq(ManifestEntry)
      /\ Copied(a)
  BY DEF TypeOK, Encodings, Payloads, Archived
<1>2. Len(a) \in Nat /\ Len(payload.entries) \in Nat
  BY <1>1, LenProperties
<1>3. Index = Len(a) + 1 /\ Index \in 1 .. Len(payload.entries)
  BY <1>2 DEF Index
<1>4. e \in ManifestEntry
  BY <1>1, <1>3, ElementOfSeq
<1>5. /\ b \in Seq(ManifestEntry) /\ Len(b) = Len(a) + 1
      /\ b[Len(a) + 1] = e /\ \A i \in 1 .. Len(a) : b[i] = a[i]
  <2> HIDE DEF a, e
  <2> QED BY <1>1, <1>4, Appended DEF a, e
<1>6. Copied(b)
  <2> HIDE DEF b
  <2>1. ASSUME NEW k \in 1 .. Len(b)
        PROVE  b[k] = payload.entries[k]
    <3>1. k \in 1 .. Len(a) \/ k = Len(a) + 1
      BY <1>2, <1>5
    <3> QED BY <1>1, <1>3, <1>5, <3>1 DEF Copied
  <2> QED BY <1>3, <1>5, <2>1 DEF Copied
<1>7. QED
  BY <1>3, <1>4, <1>5, <1>6

LEMMA EncodingTyped ==
  ASSUME TypeOK, Archived, Encoding, UNCHANGED <<treeVars, since>>
  PROVE  Encoded
<1> USE DEF Encodes
<1>0. /\ enc \in Encodings /\ enc.archive \in Seq(ManifestEntry)
      /\ enc.ino \in Node /\ enc.rest \in Seq(EntryName)
      /\ enc.read \in Data \cup {None}
      /\ TreeOK /\ Root \in Node
  BY PayloadAssumption DEF TypeOK, Encodings
<1>a. ASSUME Throw, pc \in Encodes
      PROVE  Encoded
  BY <1>0, <1>a DEF Throw, Encoded
<1>1. CASE Reopen
  <2>1. CASE Throw
    BY <1>1, <1>a, <2>1 DEF Reopen
  <2>2. CASE ~Throw
    <3>1. pc = "reopen" /\ pc' = "encode" /\ UNCHANGED <<scan, payload, enc>>
      BY <1>1, <2>2 DEF Reopen
    <3>2. Copied(enc.archive)
      BY <3>1 DEF Archived
    <3> QED BY <1>0, <3>1, <3>2 DEF Encoded
  <2> QED BY <2>1, <2>2
<1>2. CASE Encode
  <2> DEFINE e == payload.entries[Index]
  <2>1. pc = "encode" /\ Index <= Len(payload.entries)
        /\ UNCHANGED <<scan, payload>>
    BY <1>2 DEF Encode
  <2>2. e \in ManifestEntry /\ Copied(Append(enc.archive, e))
        /\ Append(enc.archive, e) \in Seq(ManifestEntry)
    BY <2>1, OneMoreCopied
  <2>3. CASE HasContent(e)
    <3>1. pc' = "beneath" /\ enc' = [enc EXCEPT !.ino = Root, !.rest = e.path]
      BY <1>2, <2>3 DEF Encode
    <3>2. e.path \in Seq(EntryName) /\ e.path # <<>>
      BY <2>2 DEF ManifestEntry
    <3> HIDE DEF e
    <3>3. enc' \in Encodings /\ enc'.archive = enc.archive /\ enc'.rest = e.path
      BY <1>0, <3>1, <3>2 DEF Encodings
    <3>4. Copied(enc.archive)
      BY <2>1 DEF Archived
    <3> QED BY <2>1, <3>1, <3>2, <3>3, <3>4 DEF Encoded, Index
  <2>4. CASE ~HasContent(e)
    <3>1. pc' = pc /\ enc' = [enc EXCEPT !.archive = Append(enc.archive, e)]
      BY <1>2, <2>4 DEF Encode
    <3> DEFINE b == Append(enc.archive, e)
    <3> HIDE DEF b
    <3>2. enc' \in Encodings /\ enc'.archive = b
      BY <1>0, <2>2, <3>1 DEF Encodings, b
    <3> QED BY <2>1, <2>2, <3>1, <3>2 DEF Encoded, b
  <2> QED BY <2>3, <2>4
<1>3. CASE Beneath
  <2>1. CASE Throw
    BY <1>3, <1>a, <2>1 DEF Beneath
  <2>2. CASE ~Throw
    <3> DEFINE n == entry[enc.ino][Head(enc.rest)]
               last == Len(enc.rest) = 1
    <3>1. /\ pc = "beneath" /\ n # None
          /\ pc' = IF last THEN "copy" ELSE "beneath"
          /\ enc' = [enc EXCEPT !.ino = n, !.rest = Tail(enc.rest)]
          /\ UNCHANGED <<scan, payload>>
      BY <1>3, <2>2 DEF Beneath
    <3>2. enc.rest # <<>> /\ Len(enc.rest) \in Nat /\ Len(enc.rest) >= 1
      BY <1>0, <3>1, EmptySeq, LenProperties DEF TypeOK
    <3>3. /\ Head(enc.rest) \in EntryName /\ Tail(enc.rest) \in Seq(EntryName)
          /\ Len(Tail(enc.rest)) = Len(enc.rest) - 1
      BY <1>0, <3>2, Popped
    <3>4. n \in Node
      BY <1>0, <3>1, <3>3 DEF TreeOK
    <3>5. pc' = "beneath" => Tail(enc.rest) # <<>>
      <4>1. Tail(enc.rest) = <<>> => Len(Tail(enc.rest)) = 0
        BY <3>3, EmptySeq
      <4>2. pc' = "beneath" => Len(enc.rest) # 1
        BY <3>1
      <4>3. Len(enc.rest) # 1 => Len(Tail(enc.rest)) # 0
        BY <3>2, <3>3
      <4> QED BY <4>1, <4>2, <4>3
    <3> HIDE DEF n, last
    <3>6. enc' \in Encodings /\ enc'.archive = enc.archive
          /\ enc'.rest = Tail(enc.rest)
      BY <1>0, <3>1, <3>3, <3>4 DEF Encodings
    <3>7. Copied(enc.archive) /\ Index <= Len(payload.entries)
      BY <3>1 DEF Archived
    <3>8. pc' \in {"copy", "beneath"}
      BY <3>1
    <3> QED BY <3>1, <3>5, <3>6, <3>7, <3>8 DEF Encoded, Index
  <2> QED BY <2>1, <2>2
<1>4. CASE Copy
  <2>1. /\ pc = "copy" /\ pc' = "copied"
        /\ enc' = [enc EXCEPT !.read = node[enc.ino].data]
        /\ UNCHANGED <<scan, payload>>
    BY <1>4 DEF Copy
  <2>2. node[enc.ino].data \in Data
    BY <1>0 DEF TreeOK
  <2>3. enc' \in Encodings /\ enc'.archive = enc.archive
    BY <1>0, <2>1, <2>2 DEF Encodings
  <2>4. Copied(enc.archive) /\ Index <= Len(payload.entries)
    BY <2>1 DEF Archived
  <2> QED BY <2>1, <2>3, <2>4 DEF Encoded, Index
<1>5. CASE CopyCheck
  <2>1. CASE Throw
    BY <1>5, <1>a, <2>1 DEF CopyCheck
  <2>2. CASE ~Throw
    <3> DEFINE e == payload.entries[Index]
               c == [e EXCEPT !.data = enc.read]
    <3>1. /\ pc = "copied" /\ pc' = "encode" /\ SameDigest
          /\ enc' = [enc EXCEPT !.archive = Append(enc.archive, c)]
          /\ UNCHANGED <<scan, payload>>
      BY <1>5, <2>2 DEF CopyCheck
    <3>2. Index <= Len(payload.entries)
      BY <3>1 DEF Archived
    <3>3. e \in ManifestEntry /\ Copied(Append(enc.archive, e))
          /\ Append(enc.archive, e) \in Seq(ManifestEntry)
      BY <3>1, <3>2, OneMoreCopied
    <3>4. enc.read = e.data
      BY <3>1 DEF SameDigest
    <3> HIDE DEF e
    <3>5. c = e
      BY <3>3, <3>4 DEF ManifestEntry
    <3> DEFINE b == Append(enc.archive, e)
    <3> HIDE DEF b, c
    <3>6. enc' = [enc EXCEPT !.archive = b]
      BY <3>1, <3>5 DEF b
    <3>7. b \in Seq(ManifestEntry)
      BY <3>3 DEF b
    <3>8. enc' \in Encodings /\ enc'.archive = b
      BY <1>0, <3>6, <3>7 DEF Encodings
    <3> QED BY <3>1, <3>3, <3>8 DEF Encoded, b
  <2> QED BY <2>1, <2>2
<1>6. QED
  BY <1>1, <1>2, <1>3, <1>4, <1>5 DEF Encoding

LEMMA FreshShape ==
  /\ FreshScan \in Scans /\ Len(FreshScan.stack) = 1
  /\ FreshScan.stack[1] = Frame(Root, <<>>, NoStat)
  /\ FreshScan.stack[1].dir = Root /\ FreshScan.stack[1].path = <<>>
  /\ FreshScan.entries = <<>> /\ FreshScan.stamps = <<>>
  /\ FreshScan.targets = [n \in Node |-> <<>>]
<1> DEFINE f == Frame(Root, <<>>, NoStat)
           targets == [n \in Node |-> <<>>]
<1>1. <<>> \in Seq(EntryName) /\ <<>> \in Seq(ManifestEntry) /\ <<>> \in Seq(Stamps)
  BY EmptySeq
<1>2. f \in Frames /\ f.dir = Root /\ f.path = <<>>
  BY <1>1, FrameShape, NoStatShape, PayloadAssumption, ZenonT(30)
<1>3. targets \in [Node -> Seq(EntryName)]
  BY <1>1
<1> HIDE DEF f, targets
<1>4. <<f>> \in Seq(Frames) /\ Len(<<f>>) = 1 /\ <<f>>[1] = f
  BY <1>2
<1>5. FreshScan = [stack |-> <<f>>, name |-> 0, before |-> NoStat, read |-> None,
                   entries |-> <<>>, stamps |-> <<>>, targets |-> targets]
  BY DEF FreshScan, f, targets
<1> DEFINE s == <<f>>
<1> HIDE DEF s
<1>6. FreshScan \in Scans
  BY <1>1, <1>3, <1>4, <1>5, NoStatShape DEF Scans, s
<1>7. QED
  BY <1>2, <1>4, <1>5, <1>6 DEF f, targets

LEMMA EncodeEndTyped ==
  ASSUME TypeOK, Archived, EncodeEnd
  PROVE  TypeOK' /\ Archived'
<1>0. UNCHANGED treeVars /\ TreeOK' /\ pc = "encode" /\ pc \in Encodes
  BY TreeSame DEF TypeOK, EncodeEnd, Encodes
<1>1. CASE Throw
  <2>1. pc' = "failed" /\ UNCHANGED <<scan, payload, enc>>
    BY <1>1 DEF Throw
  <2>2. since' \in Nat
    BY <1>0 DEF EncodeEnd, TypeOK, TreeOK
  <2>3. TypeOK'
    BY <1>0, <2>1, <2>2 DEF TypeOK, AtEntry
  <2>4. Archived'
    BY <2>1 DEF Archived, Inspects, Encodes, AtEntry
  <2> QED BY <2>3, <2>4
<1>2. CASE ~Throw
  <2>1. /\ Index > Len(payload.entries)
        /\ pc' = "enter" /\ scan' = FreshScan /\ since' = changes
        /\ UNCHANGED <<payload, enc>>
    BY <1>2 DEF EncodeEnd
  <2>2. TypeOK'
    BY <1>0, <2>1, FreshShape DEF TypeOK, TreeOK, Inspects, AtEntry
  <2>3. /\ Copied(enc.archive)
        /\ enc.archive \in Seq(ManifestEntry)
        /\ payload.entries \in Seq(ManifestEntry)
    BY <1>0 DEF Archived, TypeOK, Encodings, Payloads
  <2>4. Len(enc.archive) = Len(payload.entries)
    <3>1. Len(enc.archive) \in Nat /\ Len(payload.entries) \in Nat
      BY <2>3, LenProperties
    <3> QED BY <2>1, <2>3, <3>1 DEF Copied, Index
  <2>5. enc.archive = payload.entries
    BY <2>3, <2>4, SeqEqual DEF Copied
  <2>6. Archived'
    BY <2>1, <2>5 DEF Archived, Encodes
  <2> QED BY <2>2, <2>6
<1>3. QED
  BY <1>1, <1>2

LEMMA InitTyped ==
  ASSUME Init
  PROVE  TypeOK /\ Archived
<1>1. PICK t \in Tree : /\ node = t.node /\ entry = t.entry
                        /\ changes = t.clock /\ coarse = t.coarse
  BY DEF Init
<1>2. /\ views = {[node |-> node, entry |-> entry]} /\ since = 0 /\ pc = "enter"
      /\ scan = FreshScan
      /\ payload = [entries |-> <<>>, stamps |-> <<>>, root |-> NoStat]
      /\ enc = [ino |-> Root, rest |-> <<>>, read |-> None, archive |-> <<>>]
  BY DEF Init
<1>3. TreeOK
  <2>1. /\ t.clock \in Nat /\ t.coarse \in BOOLEAN
        /\ t.node \in [Node -> [type : Type, data : Data, stamp : 0 .. t.clock]]
        /\ t.entry \in [Node -> [EntryName -> Node \cup {None}]]
        /\ t.node[Root].type = "dir"
    BY TreeAssumption
  <2>2. node \in [Node -> [type : Type, data : Data, stamp : 0 .. changes]]
        /\ changes \in Nat
    BY <1>1, <2>1
  <2>3. \A n \in Node : /\ node[n] \in [type : Type, data : Data, stamp : Nat]
                        /\ node[n].stamp <= changes
    BY <2>2
  <2>4. node \in [Node -> [type : Type, data : Data, stamp : Nat]]
    BY <2>2, <2>3
  <2> QED BY <1>1, <1>2, <2>1, <2>2, <2>3, <2>4 DEF TreeOK, Now
<1>4. <<>> \in Seq(EntryName) /\ <<>> \in Seq(ManifestEntry) /\ <<>> \in Seq(Stamps)
  BY EmptySeq
<1>5. payload \in Payloads /\ enc \in Encodings
  BY <1>2, <1>4, NoStatShape, PayloadAssumption DEF Payloads, Encodings
<1>6. TypeOK
  BY <1>2, <1>3, <1>5, FreshShape DEF TypeOK, Inspects, AtEntry
<1>7. Archived
  BY <1>2 DEF Archived, Encodes
<1>8. QED
  BY <1>6, <1>7

LEMMA StepTyped ==
  ASSUME TypeOK, Archived, [Next]_vars
  PROVE  TypeOK' /\ Archived'
<1>0. TreeOK
  BY DEF TypeOK
<1>1. CASE Sealer
  <2>1. UNCHANGED <<treeVars, since>>
    BY <1>1 DEF Sealer
  <2>2. CASE Inspecting
    BY <2>1, <2>2, InspectingTyped, InspectionKeeps, RetainTyped
  <2>3. CASE Encoding
    BY <2>1, <2>3, EncodingTyped, EncodedKeeps
  <2> QED BY <1>1, <2>2, <2>3 DEF Sealer
<1>2. CASE EncodeEnd
  BY <1>2, EncodeEndTyped
<1>3. CASE Alter \/ Put \/ Detach \/ Join \/ Move
  <2>1. TreeOK' /\ UNCHANGED <<since, pc, scan, payload, enc>>
    BY <1>0, <1>3, TreeChanges DEF ChangesTree
  <2>2. TypeOK'
    BY <2>1 DEF TypeOK
  <2>3. Archived'
    BY <2>1 DEF Archived, Copied, Index
  <2> QED BY <2>2, <2>3
<1>4. CASE UNCHANGED vars
  <2>1. UNCHANGED treeVars /\ UNCHANGED <<since, pc, scan, payload, enc>>
    BY <1>4 DEF vars
  <2>2. TypeOK'
    BY <1>0, <2>1, TreeSame DEF TypeOK
  <2>3. Archived'
    BY <2>1 DEF Archived, Copied, Index
  <2> QED BY <2>2, <2>3
<1>5. QED
  BY <1>1, <1>2, <1>3, <1>4 DEF Next, Done

(***************************************************************************)
(* The archive that is sealed holds what the manifest says, whatever       *)
(* happened to the tree and however coarse the clock is: inspect_payload() *)
(* hashed the bytes, write_regular_payload() hashes them as it writes.     *)
(***************************************************************************)
THEOREM SealedArchiveIsManifest == Spec => []ArchiveIsManifest
<1>1. Init => TypeOK /\ Archived
  BY InitTyped
<1>2. TypeOK /\ Archived /\ [Next]_vars => TypeOK' /\ Archived'
  BY StepTyped
<1>3. TypeOK /\ Archived => ArchiveIsManifest
  BY DEF Archived, ArchiveIsManifest
<1>4. QED
  BY <1>1, <1>2, <1>3, PTL DEF Spec
-----------------------------------------------------------------------------
(***************************************************************************)
(* What is known of the tree outlives its changes.                         *)
(***************************************************************************)
LEMMA Later ==
  ASSUME TreeOK, ChangesTree, ~coarse, NEW n \in Node
  PROVE  /\ node[n].stamp \in Nat /\ node'[n].stamp \in Nat
         /\ node'[n].stamp >= node[n].stamp
         /\ Now.node = node /\ Now'.node = node'
         /\ Now.entry = entry /\ Now'.entry = entry'
         /\ \/ node'[n].stamp > node[n].stamp
            \/ /\ node'[n] = node[n] /\ entry'[n] = entry[n]
               /\ \A d \in Node : \A m \in EntryName :
                    entry[d][m] = n => entry'[d][m] = n
<1>1. node[n].stamp \in Nat /\ node'[n].stamp \in Nat
  BY DEF TreeOK, ChangesTree
<1>2. node'[n].stamp >= node[n].stamp /\ Kept(n)
  BY DEF ChangesTree
<1>3. QED
  BY <1>1, <1>2 DEF Kept, Now

\* A directory entry of the root, unless the root changes.
LEMMA StaysInRoot ==
  ASSUME TreeOK, ChangesTree, ~coarse, NEW m \in EntryName,
         entry[Root][m] \in Node
  PROVE  \/ node'[Root].stamp > node[Root].stamp
         \/ /\ entry'[Root][m] = entry[Root][m]
            /\ node'[entry[Root][m]].type = node[entry[Root][m]].type
<1>1. Root \in Node /\ None \notin Node
  BY PayloadAssumption
<1>2. entry[Root][m] \in Attached
  BY <1>1 DEF Attached
<1>3. node'[entry[Root][m]].type = node[entry[Root][m]].type
  BY <1>2 DEF ChangesTree
<1>4. \/ node'[Root].stamp > node[Root].stamp
      \/ entry'[Root] = entry[Root]
  BY <1>1, Later
<1>5. QED
  BY <1>3, <1>4

LEMMA LeadsLater ==
  ASSUME TreeOK, ChangesTree, ~coarse, NEW path \in Seq(EntryName), NEW n \in Node,
         Leads(Now, path, n)
  PROVE  \/ node'[Root].stamp > node[Root].stamp
         \/ node'[n].stamp > node[n].stamp
         \/ Leads(Now', path, n)
<1>1. /\ Now.node = node /\ Now'.node = node'
      /\ Now.entry = entry /\ Now'.entry = entry' /\ Root \in Node
  BY Later, PayloadAssumption
<1>2. SUFFICES ASSUME ~(node'[Root].stamp > node[Root].stamp),
                      ~(node'[n].stamp > node[n].stamp)
               PROVE  Leads(Now', path, n)
  OBVIOUS
<1>3. CASE Len(path) = 1 /\ entry[Root][path[1]] = n
  <2>1. path[1] \in EntryName
    <3>1. 1 \in 1 .. Len(path)
      BY <1>3
    <3> QED BY <3>1, ElementOfSeq
  <2>2. entry'[Root][path[1]] = n
    BY <1>2, <1>3, <2>1, StaysInRoot
  <2> QED BY <1>1, <1>3, <2>2 DEF Leads
<1>4. CASE /\ Len(path) = 2 /\ entry[Root][path[1]] \in Node
           /\ node[entry[Root][path[1]]].type = "dir"
           /\ entry[entry[Root][path[1]]][path[2]] = n
  <2> DEFINE d == entry[Root][path[1]]
  <2>1. path[1] \in EntryName /\ path[2] \in EntryName
    <3>1. 1 \in 1 .. Len(path) /\ 2 \in 1 .. Len(path)
      BY <1>4
    <3> QED BY <3>1, ElementOfSeq
  <2>2. entry'[Root][path[1]] = d /\ node'[d].type = "dir"
    BY <1>2, <1>4, <2>1, StaysInRoot
  <2>3. entry'[d][path[2]] = n
    BY <1>2, <1>4, <2>1, Later
  <2> QED BY <1>1, <1>4, <2>2, <2>3 DEF Leads
<1>5. QED
  BY <1>1, <1>3, <1>4 DEF Leads

LEMMA KnownLater ==
  ASSUME TreeOK, ChangesTree, ~coarse, NEW root \in Nat, root <= node[Root].stamp,
         NEW e \in ManifestEntry, NEW s \in Stamps, Known(Now, root, e, s)
  PROVE  Known(Now', root, e, s)
<1>1. SUFFICES ASSUME IsFile(e) PROVE Known(Now', root, e, s)
  BY DEF Known
<1> DEFINE n == s.ino
<1>2. /\ n \in Node /\ node[n].stamp >= s.stamp /\ s.stamp \in Nat
      /\ e.type = "regular" => Changed(Now, s) \/ InVersion(Now, e, s)
      /\ IsHigh(e.path) =>
            RootMoved(Now, root) \/ Changed(Now, s) \/ Leads(Now, e.path, n)
  BY <1>1 DEF Known, Now, Stamps
<1>3. /\ Now.node = node /\ Now'.node = node' /\ Root \in Node
      /\ node[n].stamp \in Nat /\ node'[n].stamp \in Nat
      /\ node'[n].stamp >= node[n].stamp
      /\ node'[n].stamp > node[n].stamp \/ node'[n] = node[n]
      /\ node[Root].stamp \in Nat /\ node'[Root].stamp \in Nat
      /\ node'[Root].stamp >= node[Root].stamp
  BY <1>2, Later, PayloadAssumption
<1>4. Changed(Now, s) => Changed(Now', s)
  BY <1>2, <1>3 DEF Changed
<1>5. node'[n].stamp > node[n].stamp => Changed(Now', s)
  BY <1>2, <1>3 DEF Changed
<1>6. e.type = "regular" => Changed(Now', s) \/ InVersion(Now', e, s)
  BY <1>2, <1>3, <1>4, <1>5 DEF InVersion
<1>7. /\ RootMoved(Now, root) => RootMoved(Now', root)
      /\ node'[Root].stamp > node[Root].stamp => RootMoved(Now', root)
  BY <1>3 DEF RootMoved
<1>8. e.path \in Seq(EntryName)
  BY DEF ManifestEntry
<1>9. IsHigh(e.path) =>
        RootMoved(Now', root) \/ Changed(Now', s) \/ Leads(Now', e.path, n)
  BY <1>2, <1>4, <1>5, <1>7, <1>8, LeadsLater
<1>10. node'[n].stamp >= s.stamp
  BY <1>2, <1>3
<1>11. QED
  BY <1>2, <1>3, <1>6, <1>9, <1>10 DEF Known

LEMMA HeldLater ==
  ASSUME TreeOK, ChangesTree, ~coarse, NEW t,
         NEW entries, NEW stamps \in Seq(Stamps), Len(stamps) = Len(entries),
         Held(Now, t, entries, stamps)
  PROVE  Held(Now', t, entries, stamps)
<1>1. SUFFICES ASSUME NEW k \in 1 .. Len(entries), IsFile(entries[k]),
                      Changed(Now, stamps[k]), stamps[k].ino \in Node
               PROVE  Changed(Now', stamps[k])
  BY DEF Held
<1>2. stamps[k] \in Stamps
  BY ElementOfSeq
<1>3. stamps[k].stamp \in Nat
  BY <1>2 DEF Stamps
<1>4. /\ Now.node = node /\ Now'.node = node'
      /\ node[stamps[k].ino].stamp \in Nat /\ node'[stamps[k].ino].stamp \in Nat
      /\ node'[stamps[k].ino].stamp >= node[stamps[k].ino].stamp
  BY <1>1, Later
<1>5. QED
  BY <1>1, <1>3, <1>4 DEF Changed

LEMMA StackedLater ==
  ASSUME TreeOK, ChangesTree, ~coarse, NEW stack \in Seq(Frames), Len(stack) >= 1,
         Stacked(Now, stack)
  PROVE  Stacked(Now', stack) /\ First(stack) \in Nat
         /\ First(stack) <= node[Root].stamp
<1>1. Len(stack) \in Nat
  BY LenProperties
<1>2. Len(stack) \in 1 .. Len(stack)
  BY <1>1
<1>3. Bottom(stack) \in Frames
  BY <1>2, ElementOfSeq DEF Bottom
<1>4. First(stack) \in Nat
  BY <1>3 DEF First, Frames, Stamps
<1>5. /\ Now.node = node /\ Now'.node = node' /\ Root \in Node
      /\ Now.entry = entry /\ Now'.entry = entry'
      /\ node[Root].stamp \in Nat /\ node'[Root].stamp \in Nat
      /\ node'[Root].stamp >= node[Root].stamp
  BY Later, PayloadAssumption
<1>6. First(stack) <= node[Root].stamp /\ First(stack) <= node'[Root].stamp
  BY <1>4, <1>5 DEF Stacked
<1>7. ASSUME Len(stack) >= 2
      PROVE  LET f == stack[Len(stack) - 1] IN
             \/ RootMoved(Now', First(stack))
             \/ entry'[Root][f.path[1]] = f.dir /\ node'[f.dir].type = "dir"
  <2> DEFINE f == stack[Len(stack) - 1]
  <2>1. Len(stack) - 1 \in 1 .. Len(stack)
    BY <1>1, <1>7
  <2>2. f \in Frames /\ Len(f.path) = Len(stack) - (Len(stack) - 1)
    BY <2>1, ElementOfSeq DEF Stacked
  <2>3. Len(f.path) = 1
    BY <1>1, <2>2
  <2>4. f.path \in Seq(EntryName) /\ f.dir \in Node
    BY <2>2 DEF Frames
  <2>5. f.path[1] \in EntryName
    BY <2>3, <2>4, ElementOfSeq
  <2>6. \/ RootMoved(Now, First(stack))
        \/ entry[Root][f.path[1]] = f.dir /\ node[f.dir].type = "dir"
    BY <1>5, <1>7 DEF Stacked
  <2>7. /\ RootMoved(Now, First(stack)) => RootMoved(Now', First(stack))
        /\ node'[Root].stamp > node[Root].stamp => RootMoved(Now', First(stack))
    BY <1>4, <1>5, <1>6 DEF RootMoved
  <2> HIDE DEF f
  <2>8. CASE entry[Root][f.path[1]] = f.dir /\ node[f.dir].type = "dir"
    <3>1. \/ node'[Root].stamp > node[Root].stamp
          \/ entry'[Root][f.path[1]] = f.dir /\ node'[f.dir].type = "dir"
      BY <2>4, <2>5, <2>8, StaysInRoot
    <3> QED BY <2>7, <3>1 DEF f
  <2> QED BY <2>6, <2>7, <2>8 DEF f
<1>8. Stacked(Now', stack)
  BY <1>5, <1>6, <1>7 DEF Stacked
<1>9. QED
  BY <1>4, <1>6, <1>8

LEMMA ChangesKeepFiles ==
  ASSUME TypeOK, Files, ChangesTree, ~coarse
  PROVE  Files'
<1>0. /\ TreeOK /\ UNCHANGED <<pc, scan, payload, enc>> /\ views \subseteq views'
      /\ scan.stack \in Seq(Frames) /\ Len(scan.stack) >= 1
      /\ scan.stamps \in Seq(Stamps) /\ scan.entries \in Seq(ManifestEntry)
      /\ payload.stamps \in Seq(Stamps)
  BY TopShape DEF TypeOK, ChangesTree, Payloads
<1>1. /\ Stacked(Now', scan.stack) /\ First(scan.stack) \in Nat
      /\ First(scan.stack) <= node[Root].stamp
  BY <1>0, StackedLater DEF Files
<1>2. Recorded(Now', First(scan.stack), scan.entries, scan.stamps)
  <2>1. ASSUME NEW k \in 1 .. Len(scan.entries)
        PROVE  Known(Now', First(scan.stack), scan.entries[k], scan.stamps[k])
    <3>1. /\ Known(Now, First(scan.stack), scan.entries[k], scan.stamps[k])
          /\ Len(scan.stamps) = Len(scan.entries)
      BY DEF Files, Recorded
    <3>2. scan.entries[k] \in ManifestEntry /\ scan.stamps[k] \in Stamps
      BY <1>0, <3>1, ElementOfSeq
    <3> QED BY <1>0, <1>1, <3>1, <3>2, KnownLater
  <2> QED BY <2>1 DEF Files, Recorded
<1>3. Targeted'
  <2>1. Targeted
    BY DEF Files
  <2> QED BY <1>0, <2>1 DEF Targeted, Top
<1>4. AtHand'
  <2>1. AtHand /\ pc' = pc /\ scan' = scan
    BY <1>0 DEF Files
  <2>2. ASSUME pc \in {"regular", "read", "hashed", "hardlink"}
        PROVE  /\ node'[scan.before.ino].stamp >= scan.before.stamp
               /\ Changed(Now, scan.before) => Changed(Now', scan.before)
               /\ \/ Changed(Now', scan.before)
                  \/ node'[scan.before.ino] = node[scan.before.ino]
    <3>1. /\ scan.before.ino \in Node /\ scan.before.stamp \in Nat
          /\ node[scan.before.ino].stamp >= scan.before.stamp
      BY <2>1, <2>2, TopShape DEF TypeOK, AtHand, AtEntry, Stamps
    <3>2. /\ node[scan.before.ino].stamp \in Nat
          /\ node'[scan.before.ino].stamp \in Nat
          /\ node'[scan.before.ino].stamp >= node[scan.before.ino].stamp
          /\ Now.node = node /\ Now'.node = node'
          /\ \/ node'[scan.before.ino].stamp > node[scan.before.ino].stamp
             \/ node'[scan.before.ino] = node[scan.before.ino]
      BY <1>0, <3>1, Later
    <3> QED BY <3>1, <3>2 DEF Changed
  <2>3. pc = "hashed" =>
            Changed(Now', scan.before) \/ node'[scan.before.ino].data = scan.read
    BY <2>1, <2>2 DEF AtHand
  <2> QED BY <2>1, <2>2, <2>3 DEF AtHand
<1>5. Moment'
  <2>1. Moment
    BY DEF Files
  <2>2. ASSUME pc = "retain"
        PROVE  \E t \in views' : Held(Now', t, scan.entries, scan.stamps)
    <3>1. PICK t \in views : Held(Now, t, scan.entries, scan.stamps)
      BY <2>1, <2>2 DEF Moment
    <3>2. Len(scan.stamps) = Len(scan.entries)
      BY DEF Files, Recorded
    <3>3. Held(Now', t, scan.entries, scan.stamps)
      BY <1>0, <3>1, <3>2, HeldLater
    <3> QED BY <1>0, <3>1, <3>3
  <2>3. ASSUME payload.entries # <<>>
        PROVE  /\ Len(payload.stamps) = Len(payload.entries)
               /\ Linked(payload.entries, payload.stamps)
               /\ pc \in Encodes => \E t \in views' :
                    /\ Held(Now', t, payload.entries, payload.stamps)
                    /\ \A k \in 1 .. Len(enc.archive) : Checked(t, k)
               /\ pc \notin Encodes => \E t \in views' : Coexist(t)
    <3>1. /\ Len(payload.stamps) = Len(payload.entries)
          /\ Linked(payload.entries, payload.stamps)
          /\ pc \in Encodes => \E t \in views : Secured(t)
          /\ pc \notin Encodes => \E t \in views : Coexist(t)
      BY <2>1, <2>3 DEF Moment
    <3>2. ASSUME pc \in Encodes
          PROVE  \E t \in views' :
                    /\ Held(Now', t, payload.entries, payload.stamps)
                    /\ \A k \in 1 .. Len(enc.archive) : Checked(t, k)
      <4>1. PICK t \in views : Secured(t)
        BY <3>1, <3>2
      <4>2. Held(Now', t, payload.entries, payload.stamps)
        BY <1>0, <3>1, <4>1, HeldLater DEF Secured
      <4> QED BY <1>0, <4>1, <4>2 DEF Secured
    <3> QED BY <1>0, <3>1, <3>2
  <2> QED BY <1>0, <2>2, <2>3 DEF Moment, Secured, Checked, Coexist
<1>6. QED
  BY <1>0, <1>1, <1>2, <1>3, <1>4, <1>5 DEF Files
-----------------------------------------------------------------------------
(***************************************************************************)
(* The directories being inspected.                                        *)
(***************************************************************************)
LEMMA StackedOnTop ==
  ASSUME NEW t, NEW stack \in Seq(Frames), Len(stack) >= 1, Stacked(t, stack),
         NEW f \in Frames, f.dir = stack[1].dir, f.path = stack[1].path,
         Len(stack) = 1 =>
            f.before = stack[1].before \/ f.before.stamp <= t.node[Root].stamp
  PROVE  LET u == <<f>> \o Tail(stack) IN
         /\ Stacked(t, u)
         /\ Len(stack) # 1 \/ f.before = stack[1].before => First(u) = First(stack)
<1> DEFINE u == <<f>> \o Tail(stack)
           n == Len(stack)
<1>1. /\ Len(u) = n /\ u[1] = f /\ n \in Nat
      /\ \A i \in 2 .. n : u[i] = stack[i]
  BY Replaced, LenProperties
<1> HIDE DEF u
<1>2. \A i \in 1 .. n : u[i].path = stack[i].path /\ u[i].dir = stack[i].dir
  <2> TAKE i \in 1 .. n
  <2>1. i = 1 \/ i \in 2 .. n
    BY <1>1
  <2> QED BY <1>1, <2>1
<1>3. n \in 1 .. n
  BY <1>1
<1>4. Bottom(u).dir = Root
  BY <1>1, <1>2, <1>3 DEF Bottom, Stacked
<1>5. n # 1 => Bottom(u) = Bottom(stack)
  <2>1. n # 1 => n \in 2 .. n
    BY <1>1
  <2> QED BY <1>1, <2>1 DEF Bottom
<1>6. n = 1 => First(u) = f.before.stamp /\ First(stack) = stack[1].before.stamp
  BY <1>1 DEF First, Bottom
<1>7. n # 1 \/ f.before = stack[1].before => First(u) = First(stack)
  BY <1>5, <1>6 DEF First
<1>8. First(u) <= t.node[Root].stamp
  BY <1>6, <1>7 DEF Stacked
<1>9. ASSUME n >= 2
      PROVE  LET g == u[n - 1] IN
             \/ RootMoved(t, First(u))
             \/ t.entry[Root][g.path[1]] = g.dir /\ t.node[g.dir].type = "dir"
  <2>1. n - 1 \in 1 .. n /\ n # 1
    BY <1>1, <1>9
  <2> QED BY <1>2, <1>7, <1>9, <2>1 DEF Stacked
<1>10. Stacked(t, u)
  <2>1. \A i \in 1 .. n : Len(u[i].path) = n - i
    BY <1>2 DEF Stacked
  <2> QED BY <1>1, <1>4, <1>8, <1>9, <2>1 DEF Stacked
<1>11. QED
  BY <1>7, <1>10 DEF u

LEMMA StackedPop ==
  ASSUME NEW t, NEW stack \in Seq(Frames), Len(stack) > 1, Stacked(t, stack)
  PROVE  Stacked(t, Tail(stack)) /\ First(Tail(stack)) = First(stack)
<1> DEFINE u == Tail(stack)
           n == Len(stack)
<1>1. /\ n \in Nat /\ Len(u) = n - 1
      /\ \A i \in 1 .. n - 1 : u[i] = stack[i + 1]
  BY Popped, LenProperties
<1> HIDE DEF u
<1>2. Bottom(u) = Bottom(stack)
  <2>1. n - 1 \in 1 .. n - 1 /\ (n - 1) + 1 = n
    BY <1>1
  <2> QED BY <1>1, <2>1 DEF Bottom
<1>3. \A i \in 1 .. n - 1 : Len(u[i].path) = (n - 1) - i
  <2> TAKE i \in 1 .. n - 1
  <2>1. i + 1 \in 1 .. n /\ n - (i + 1) = (n - 1) - i
    BY <1>1
  <2> QED BY <1>1, <2>1 DEF Stacked
<1>4. ASSUME n - 1 >= 2
      PROVE  LET g == u[(n - 1) - 1] IN
             \/ RootMoved(t, First(u))
             \/ t.entry[Root][g.path[1]] = g.dir /\ t.node[g.dir].type = "dir"
  <2>1. (n - 1) - 1 \in 1 .. n - 1 /\ ((n - 1) - 1) + 1 = n - 1 /\ n >= 2
    BY <1>1, <1>4
  <2>2. u[(n - 1) - 1] = stack[n - 1]
    BY <1>1, <2>1
  <2> QED BY <1>2, <2>1, <2>2 DEF Stacked, First
<1>5. Stacked(t, u)
  BY <1>1, <1>2, <1>3, <1>4 DEF Stacked, First
<1>6. QED
  BY <1>2, <1>5 DEF First, u

LEMMA StackedPush ==
  ASSUME NEW t, NEW stack \in Seq(Frames), Len(stack) >= 1, Stacked(t, stack),
         NEW f \in Frames, Len(f.path) = Len(stack),
         Len(stack) = 1 => /\ t.entry[Root][f.path[1]] = f.dir
                           /\ t.node[f.dir].type = "dir"
  PROVE  Stacked(t, <<f>> \o stack) /\ First(<<f>> \o stack) = First(stack)
<1> DEFINE u == <<f>> \o stack
           n == Len(stack)
<1>1. /\ n \in Nat /\ Len(u) = n + 1 /\ u[1] = f
      /\ \A i \in 1 .. n : u[i + 1] = stack[i]
  BY Pushed, LenProperties
<1> HIDE DEF u
<1>2. Bottom(u) = Bottom(stack)
  <2>1. n \in 1 .. n
    BY <1>1
  <2> QED BY <1>1, <2>1 DEF Bottom
<1>3. \A i \in 1 .. n + 1 : Len(u[i].path) = (n + 1) - i
  <2> TAKE i \in 1 .. n + 1
  <2>1. CASE i = 1
    <3>1. (n + 1) - 1 = n
      BY <1>1
    <3> QED BY <1>1, <2>1, <3>1
  <2>2. CASE i # 1
    <3>1. i - 1 \in 1 .. n /\ (i - 1) + 1 = i /\ n - (i - 1) = (n + 1) - i
      BY <1>1, <2>2
    <3>2. u[i] = stack[i - 1]
      BY <1>1, <3>1
    <3> QED BY <3>1, <3>2 DEF Stacked
  <2> QED BY <2>1, <2>2
<1>4. LET g == u[(n + 1) - 1] IN
      \/ RootMoved(t, First(u))
      \/ t.entry[Root][g.path[1]] = g.dir /\ t.node[g.dir].type = "dir"
  <2>1. (n + 1) - 1 = n
    BY <1>1
  <2>2. CASE n = 1
    BY <1>1, <2>1, <2>2
  <2>3. CASE n # 1
    <3>1. n - 1 \in 1 .. n /\ (n - 1) + 1 = n /\ n >= 2
      <4>1. n \in Nat /\ n >= 1
        BY <1>1
      <4> HIDE DEF n
      <4> QED BY <2>3, <4>1
    <3>2. u[n] = stack[n - 1]
      BY <1>1, <3>1
    <3> QED BY <1>2, <2>1, <3>1, <3>2 DEF Stacked, First
  <2> QED BY <2>2, <2>3
<1>5. Stacked(t, u)
  BY <1>1, <1>2, <1>3, <1>4 DEF Stacked, First
<1>6. QED
  BY <1>2, <1>5 DEF First, u

\* The name at hand, and where it leads.
LEMMA PathAtHand ==
  ASSUME TypeOK, Stacked(Now, scan.stack), pc \in AtEntry, Here = scan.before.ino
  PROVE  LET path == Append(Top.path, scan.name)
             n == scan.before.ino
         IN /\ Len(path) = Len(scan.stack)
            /\ Len(path) = 1 => path[1] = scan.name /\ entry[Root][scan.name] = n
            /\ IsHigh(path) =>
                RootMoved(Now, First(scan.stack)) \/ Leads(Now, path, n)
<1> DEFINE p == Top.path
           path == Append(p, scan.name)
           n == scan.before.ino
           depth == Len(scan.stack)
<1>1. /\ scan.name \in EntryName /\ n \in Node
      /\ p \in Seq(EntryName) /\ Top = scan.stack[1] /\ Top.dir \in Node
      /\ depth \in Nat /\ depth >= 1
      /\ Now.entry = entry /\ Now.node = node
  BY TopShape DEF TypeOK, Now
<1>2. 1 \in 1 .. depth
  BY <1>1
<1>3. Len(p) = depth - 1
  BY <1>1, <1>2 DEF Stacked
<1>4. /\ Len(path) = Len(p) + 1 /\ path[Len(p) + 1] = scan.name
      /\ \A i \in 1 .. Len(p) : path[i] = p[i]
  BY <1>1, Appended
<1>5. Len(path) = depth
  BY <1>1, <1>3, <1>4
<1>6. entry[Top.dir][scan.name] = n
  BY DEF Here
<1> HIDE DEF path, p
<1>7. ASSUME depth = 1
      PROVE  path[1] = scan.name /\ entry[Root][scan.name] = n
  <2>1. Len(p) + 1 = 1
    BY <1>3, <1>7
  <2>2. Top.dir = Root
    BY <1>1, <1>7 DEF Stacked, Bottom
  <2> QED BY <1>4, <1>6, <2>1, <2>2
<1>8. ASSUME depth = 2
      PROVE  RootMoved(Now, First(scan.stack)) \/ Leads(Now, path, n)
  <2>1. Len(p) = 1 /\ Len(p) + 1 = 2 /\ depth - 1 = 1 /\ depth >= 2
    BY <1>3, <1>8
  <2>2. path[1] = p[1] /\ path[2] = scan.name
    <3>1. 1 \in 1 .. Len(p)
      BY <2>1
    <3> QED BY <1>4, <2>1, <3>1
  <2>3. \/ RootMoved(Now, First(scan.stack))
        \/ entry[Root][p[1]] = Top.dir /\ node[Top.dir].type = "dir"
    BY <1>1, <2>1 DEF Stacked, p
  <2> QED BY <1>1, <1>5, <1>6, <1>8, <2>2, <2>3 DEF Leads
<1>9. IsHigh(path) => RootMoved(Now, First(scan.stack)) \/ Leads(Now, path, n)
  <2>1. IsHigh(path) => depth = 1 \/ depth = 2
    <3>1. depth \in Nat /\ depth >= 1
      BY <1>1
    <3>2. IsHigh(path) => depth <= 2
      BY <1>5 DEF IsHigh
    <3> HIDE DEF depth
    <3> QED BY <3>1, <3>2
  <2>2. depth = 1 => Leads(Now, path, n)
    BY <1>1, <1>5, <1>7 DEF Leads
  <2> QED BY <1>8, <2>1, <2>2
<1>10. QED
  BY <1>5, <1>7, <1>9 DEF path, p
-----------------------------------------------------------------------------
(***************************************************************************)
(* One more entry in the manifest.                                         *)
(***************************************************************************)
LEMMA RecordedMore ==
  ASSUME NEW t, NEW root, NEW entries \in Seq(ManifestEntry),
         NEW stamps \in Seq(Stamps), Recorded(t, root, entries, stamps),
         NEW e \in ManifestEntry, NEW s \in Stamps, Known(t, root, e, s),
         e.type = "hardlink" => Targets(entries, stamps, e.target, s)
  PROVE  Recorded(t, root, Append(entries, e), Append(stamps, s))
<1> DEFINE n == Len(entries)
           u == Append(entries, e)
           v == Append(stamps, s)
<1>1. /\ n \in Nat /\ Len(u) = n + 1 /\ u[n + 1] = e
      /\ \A i \in 1 .. n : u[i] = entries[i]
  BY Appended
<1>2. /\ Len(v) = n + 1 /\ v[n + 1] = s /\ \A i \in 1 .. n : v[i] = stamps[i]
  BY Appended DEF Recorded
<1> HIDE DEF u, v
<1>3. \A k \in 1 .. Len(u) : k \in 1 .. n \/ k = n + 1
  BY <1>1
<1>4. \A k \in 1 .. Len(u) : Known(t, root, u[k], v[k])
  BY <1>1, <1>2, <1>3 DEF Recorded
<1>5. ASSUME NEW path, NEW x, Targets(entries, stamps, path, x)
      PROVE  Targets(u, v, path, x)
  <2>1. PICK j \in 1 .. n : /\ entries[j].type = "regular"
                            /\ entries[j].path = path
                            /\ stamps[j].ino = x.ino /\ stamps[j].stamp <= x.stamp
    BY <1>5 DEF Targets
  <2>2. j \in 1 .. Len(u)
    BY <1>1
  <2> QED BY <1>1, <1>2, <2>1, <2>2 DEF Targets
<1>6. Linked(u, v)
  <2>1. ASSUME NEW k \in 1 .. Len(u), u[k].type = "hardlink"
        PROVE  Targets(u, v, u[k].target, v[k])
    <3>1. CASE k \in 1 .. n
      BY <1>1, <1>2, <1>5, <2>1, <3>1 DEF Recorded, Linked
    <3>2. CASE k = n + 1
      BY <1>1, <1>2, <1>5, <2>1, <3>2
    <3> QED BY <1>3, <3>1, <3>2
  <2> QED BY <2>1 DEF Linked
<1>7. QED
  BY <1>1, <1>2, <1>4, <1>6 DEF Recorded, u, v

\* Files known before stay known.
LEMMA TargetedMore ==
  ASSUME NEW entries \in Seq(ManifestEntry), NEW stamps \in Seq(Stamps),
         Len(stamps) = Len(entries), NEW e \in ManifestEntry, NEW s \in Stamps,
         NEW path, NEW n,
         \/ \E j \in 1 .. Len(entries) :
                entries[j].type = "regular" /\ entries[j].path = path
                /\ stamps[j].ino = n
         \/ e.type = "regular" /\ e.path = path /\ s.ino = n
  PROVE  \E j \in 1 .. Len(Append(entries, e)) :
                /\ Append(entries, e)[j].type = "regular"
                /\ Append(entries, e)[j].path = path
                /\ Append(stamps, s)[j].ino = n
<1> DEFINE l == Len(entries)
           u == Append(entries, e)
           v == Append(stamps, s)
<1>1. /\ l \in Nat /\ Len(u) = l + 1 /\ u[l + 1] = e
      /\ \A i \in 1 .. l : u[i] = entries[i]
  BY Appended
<1>2. v[l + 1] = s /\ \A i \in 1 .. l : v[i] = stamps[i]
  BY Appended
<1> HIDE DEF u, v
<1>3. l + 1 \in 1 .. Len(u) /\ \A j \in 1 .. l : j \in 1 .. Len(u)
  BY <1>1
<1>4. QED
  BY <1>1, <1>2, <1>3 DEF u, v

\* A step of the inspection whose entry is at hand, and not yet complete.
LEMMA UnfinishedFiles ==
  ASSUME TypeOK, Files, Inspection, pc' \notin {"failed", "retain"},
         scan'.entries = scan.entries, scan'.stamps = scan.stamps,
         Stacked(Now, scan'.stack), First(scan'.stack) = First(scan.stack),
         Targeted', AtHand'
  PROVE  Files'
<1>1. Now' = Now /\ pc \notin Encodes /\ pc' \notin Encodes
      /\ UNCHANGED <<treeVars, payload>>
  BY TreeSame DEF TypeOK, Inspection, Inspects, Encodes, AtEntry
<1>2. Moment'
  BY <1>1 DEF Files, Moment, Coexist, treeVars
<1>3. QED
  BY <1>1, <1>2 DEF Files

\* A complete entry.
LEMMA FinishedFiles ==
  ASSUME TypeOK, Files, pc \in AtEntry, Rebound,
         NEW type \in Type \cup {"hardlink"},
         NEW data \in Data \cup {None}, NEW target \in Seq(EntryName),
         Inspection, pc' \notin {"failed", "retain"},
         scan'.entries = With(type, data, target).entries,
         scan'.stamps = With(type, data, target).stamps,
         scan'.targets = scan.targets,
         Stacked(Now, scan'.stack), First(scan'.stack) = First(scan.stack),
         pc' \in {"next", "enter"}, pc' = "enter" => Len(scan'.stack) # 1,
         pc \in {"read", "hashed"} => type = "regular",
         type \in {"regular", "hardlink"} => node[scan.before.ino].type = "regular",
         type = "regular" => node[scan.before.ino].data = data,
         type = "hardlink" => pc = "hardlink" /\ target = scan.targets[scan.before.ino]
  PROVE  Files'
<1> DEFINE n == scan.before.ino
           s == scan.before
           e == [path |-> Append(Top.path, scan.name), type |-> type,
                 data |-> data, target |-> target]
           root == First(scan.stack)
<1>1. /\ TreeOK /\ n \in Node /\ Here = n /\ Stat(n) = s
      /\ s \in Stamps /\ scan.entries \in Seq(ManifestEntry)
      /\ scan.stamps \in Seq(Stamps) /\ Now.node = node
  BY TopShape DEF TypeOK, Rebound, Now
<1>2. s.type = node[n].type /\ s.stamp = node[n].stamp /\ s.stamp \in Nat
  BY <1>1, StatShape DEF Stamps
<1>3. /\ e \in ManifestEntry
      /\ scan'.entries = Append(scan.entries, e)
      /\ scan'.stamps = Append(scan.stamps, s)
  BY WithShape
<1>4. IsHigh(e.path) => RootMoved(Now, root) \/ Leads(Now, e.path, n)
  BY <1>1, PathAtHand DEF Files
<1>5. e.type = type /\ e.data = data /\ e.target = target
      /\ e.path = Append(Top.path, scan.name)
  OBVIOUS
<1> HIDE DEF e
<1>6. type = "regular" => InVersion(Now, e, s)
  <2>1. node[n] \in [type : Type, data : Data, stamp : Nat]
    BY <1>1 DEF TreeOK
  <2>2. SUFFICES ASSUME type = "regular"
                 PROVE  node[n] = [type |-> "regular", data |-> e.data,
                                   stamp |-> s.stamp]
    BY <1>1 DEF InVersion
  <2> DEFINE r == node[n]
  <2>3. r.type = "regular" /\ r.data = e.data /\ r.stamp = s.stamp
    BY <1>2, <1>5, <2>2
  <2>4. r \in [type : Type, data : Data, stamp : Nat]
    BY <2>1
  <2> HIDE DEF r
  <2>5. r = [type |-> "regular", data |-> e.data, stamp |-> s.stamp]
    BY <2>3, <2>4
  <2> QED BY <2>5 DEF r
<1>7. Known(Now, root, e, s)
  <2>1. node[n].stamp >= s.stamp
    BY <1>2
  <2> QED BY <1>1, <1>4, <1>5, <1>6, <2>1 DEF Known
<1>8. type = "hardlink" => Targets(scan.entries, scan.stamps, e.target, s)
  <2>1. SUFFICES ASSUME type = "hardlink"
                 PROVE  Targets(scan.entries, scan.stamps, target, s)
    BY <1>5
  <2>2. pc = "hardlink" /\ target = scan.targets[n] /\ scan.targets[n] # <<>>
    BY <2>1 DEF Files, AtHand
  <2>3. PICK j \in 1 .. Len(scan.entries) :
            /\ scan.entries[j].type = "regular"
            /\ scan.entries[j].path = target
            /\ scan.stamps[j].ino = n
    BY <1>1, <2>2 DEF Files, Targeted
  <2>4. /\ Known(Now, root, scan.entries[j], scan.stamps[j])
        /\ Len(scan.stamps) = Len(scan.entries)
    BY DEF Files, Recorded
  <2>5. scan.stamps[j].stamp <= s.stamp
    <3>0. scan.stamps[j] \in Stamps
      BY <1>1, <2>4, ElementOfSeq
    <3>1. scan.stamps[j].stamp \in Nat
      BY <3>0 DEF Stamps
    <3>2. node[n].stamp >= scan.stamps[j].stamp
      BY <1>1, <2>3, <2>4 DEF Known, IsFile
    <3> QED BY <1>2, <3>1, <3>2
  <2> QED BY <2>3, <2>5 DEF Targets
<1>9. Recorded(Now, root, scan'.entries, scan'.stamps)
  BY <1>1, <1>3, <1>5, <1>7, <1>8, RecordedMore DEF Files
<1>10. Now' = Now /\ pc \notin Encodes /\ pc' \notin Encodes
       /\ UNCHANGED <<treeVars, payload>>
  BY TreeSame DEF TypeOK, Inspection, Inspects, Encodes, AtEntry
<1>11. Targeted'
  <2>1. SUFFICES ASSUME NEW x \in Node, scan.targets[x] # <<>>
                 PROVE  \E j \in 1 .. Len(scan'.entries) :
                            /\ scan'.entries[j].type = "regular"
                            /\ scan'.entries[j].path = scan.targets[x]
                            /\ scan'.stamps[j].ino = x
    BY DEF Targeted
  <2>2. \/ \E j \in 1 .. Len(scan.entries) :
            /\ scan.entries[j].type = "regular"
            /\ scan.entries[j].path = scan.targets[x]
            /\ scan.stamps[j].ino = x
        \/ e.type = "regular" /\ e.path = scan.targets[x] /\ s.ino = x
    BY <1>5, <2>1 DEF Files, Targeted
  <2>3. Len(scan.stamps) = Len(scan.entries)
    BY DEF Files, Recorded
  <2> QED BY <1>1, <1>3, <2>2, <2>3, TargetedMore, SMTT(30)
<1>12. AtHand'
  BY DEF AtHand
<1>13. Moment'
  BY <1>10 DEF Files, Moment, Coexist, treeVars
<1>14. QED
  BY <1>9, <1>10, <1>11, <1>12, <1>13 DEF Files

LEMMA EnterFiles ==
  ASSUME TypeOK, Files, Enter, Inspection
  PROVE  Files'
<1> DEFINE f == [Top EXCEPT !.before = Stat(Top.dir)]
<1>1. /\ pc = "enter" /\ pc' = "list"
      /\ scan' = [scan EXCEPT !.stack = OnTop(f)]
  BY DEF Enter
<1>2. /\ TreeOK /\ scan \in Scans /\ scan.stack \in Seq(Frames)
      /\ Len(scan.stack) \in Nat /\ Len(scan.stack) >= 1
      /\ Top \in Frames /\ Top = scan.stack[1] /\ Top.dir \in Node
      /\ Now.node = node
  BY TopShape DEF TypeOK, Now
<1>3. /\ f \in Frames /\ f.dir = Top.dir /\ f.path = Top.path
      /\ f.before = Stat(Top.dir)
  BY <1>2, StatShape DEF Frames
<1> HIDE DEF f
<1>4. /\ scan'.stack = OnTop(f) /\ scan'.entries = scan.entries
      /\ scan'.stamps = scan.stamps /\ scan'.targets = scan.targets
  BY <1>1, <1>2 DEF Scans
<1>5. Targeted'
  BY <1>1, <1>4 DEF Files, Targeted
<1>6. AtHand'
  BY <1>1 DEF AtHand
<1>7. CASE Len(scan.stack) = 1
  <2>1. Top.dir = Root
    BY <1>2, <1>7 DEF Files, Stacked, Bottom
  <2>2. Stat(Root).stamp = node[Root].stamp /\ node[Root].stamp \in Nat
    BY <1>2, StatShape, PayloadAssumption DEF TreeOK
  <2>3. f.before.stamp <= Now.node[Root].stamp
    BY <1>2, <1>3, <2>1, <2>2
  <2>4. Stacked(Now, scan'.stack)
    BY <1>2, <1>3, <1>4, <2>3, StackedOnTop DEF Files, OnTop
  <2>5. scan.entries = <<>> /\ scan.stamps = <<>> /\ Len(<<>>) = 0
    <3>1. scan.entries = <<>>
      BY <1>1, <1>7 DEF Files, AtHand
    <3>2. Len(scan.stamps) = Len(scan.entries) /\ Len(<<>>) = 0
      BY DEF Files, Recorded
    <3> QED BY <3>1, <3>2, TopShape, EmptySeq
  <2>6. Recorded(Now, First(scan'.stack), scan'.entries, scan'.stamps)
    BY <1>4, <2>5 DEF Recorded, Linked
  <2>7. Now' = Now /\ UNCHANGED <<treeVars, payload>>
    BY TreeSame DEF TypeOK, Inspection
  <2>8. Moment'
    BY <1>1, <2>7 DEF Files, Moment, Coexist, treeVars, Encodes
  <2> QED BY <1>5, <1>6, <2>4, <2>6, <2>7, <2>8 DEF Files
<1>8. CASE Len(scan.stack) # 1
  <2>1. Stacked(Now, scan'.stack) /\ First(scan'.stack) = First(scan.stack)
    BY <1>2, <1>3, <1>4, <1>8, StackedOnTop DEF Files, OnTop
  <2> QED BY <1>1, <1>4, <1>5, <1>6, <2>1, UnfinishedFiles
<1>9. QED
  BY <1>7, <1>8

LEMMA ListFiles ==
  ASSUME TypeOK, Files, List, Inspection
  PROVE  Files'
<1> DEFINE f == [Top EXCEPT !.todo = {m \in EntryName : entry[Top.dir][m] # None}]
<1>1. /\ pc = "list" /\ pc' = "next"
      /\ scan' = [scan EXCEPT !.stack = OnTop(f)]
  BY DEF List
<1>2. /\ scan \in Scans /\ scan.stack \in Seq(Frames)
      /\ Len(scan.stack) >= 1 /\ Top \in Frames /\ Top = scan.stack[1]
  BY TopShape
<1>3. /\ f \in Frames /\ f.dir = Top.dir /\ f.path = Top.path
      /\ f.before = Top.before
  BY <1>2 DEF Frames
<1> HIDE DEF f
<1>4. /\ scan'.stack = OnTop(f) /\ scan'.entries = scan.entries
      /\ scan'.stamps = scan.stamps /\ scan'.targets = scan.targets
  BY <1>1, <1>2 DEF Scans
<1>5. Stacked(Now, scan'.stack) /\ First(scan'.stack) = First(scan.stack)
  BY <1>2, <1>3, <1>4, StackedOnTop DEF Files, OnTop
<1>6. Targeted'
  BY <1>1, <1>4 DEF Files, Targeted
<1>7. AtHand'
  BY <1>1 DEF AtHand
<1>8. QED
  BY <1>1, <1>4, <1>5, <1>6, <1>7, UnfinishedFiles

LEMMA VisitFiles ==
  ASSUME TypeOK, Files, Visit, Inspection, pc' # "failed"
  PROVE  Files'
<1> DEFINE name == Min(Top.todo)
           n == entry[Top.dir][name]
           f == [Top EXCEPT !.todo = @ \ {name}]
<1>1. /\ pc = "next" /\ n # None /\ pc' = node[n].type
      /\ scan' = [scan EXCEPT !.name = name, !.before = Stat(n),
                              !.read = node[n].data, !.stack = OnTop(f)]
  BY DEF Visit, Throw
<1>2. /\ TreeOK /\ scan \in Scans /\ scan.stack \in Seq(Frames)
      /\ Len(scan.stack) \in Nat /\ Len(scan.stack) >= 1
      /\ Top \in Frames /\ Top = scan.stack[1] /\ Top.dir \in Node
  BY TopShape DEF TypeOK
<1>3. name \in Top.todo /\ name \in EntryName
  BY TopShape, MinIsLeast, PayloadAssumption DEF Visit
<1>4. n \in Node
  <2> HIDE DEF name, f
  <2>1. entry[Top.dir][name] \in Node \cup {None}
    BY <1>2, <1>3 DEF TreeOK
  <2> QED BY <1>1, <2>1
<1>5. /\ f \in Frames /\ f.dir = Top.dir /\ f.path = Top.path
      /\ f.before = Top.before
  BY <1>2 DEF Frames
<1> HIDE DEF f, name, n
<1>6. /\ scan'.stack = OnTop(f) /\ scan'.entries = scan.entries
      /\ scan'.stamps = scan.stamps /\ scan'.targets = scan.targets
      /\ scan'.before = Stat(n)
  BY <1>1, <1>2 DEF Scans
<1>7. /\ Stat(n).ino = n /\ Stat(n).type = node[n].type
      /\ Stat(n).stamp = node[n].stamp /\ node[n].stamp \in Nat
      /\ node[n].type \in Type
  BY <1>2, <1>4, StatShape DEF TreeOK
<1>8. Stacked(Now, scan'.stack) /\ First(scan'.stack) = First(scan.stack)
  BY <1>2, <1>5, <1>6, StackedOnTop DEF Files, OnTop
<1>9. Targeted'
  BY <1>1, <1>6 DEF Files, Targeted
<1>10. AtHand'
  <2>1. node' = node
    BY DEF Inspection, treeVars
  <2>2. pc' \in Type /\ pc' = node[n].type
    BY <1>1, <1>7
  <2>3. pc' \notin {"enter", "hashed", "hardlink", "read"}
    BY <2>2 DEF Type
  <2>4. node'[scan'.before.ino].stamp >= scan'.before.stamp
    BY <1>6, <1>7, <2>1
  <2> QED BY <1>6, <1>7, <2>2, <2>3, <2>4 DEF AtHand
<1>11. pc' \notin {"failed", "retain"}
  BY <1>1, <1>7 DEF Type
<1>12. QED
  BY <1>6, <1>8, <1>9, <1>10, <1>11, UnfinishedFiles

LEMMA OpenDirFiles ==
  ASSUME TypeOK, Files, OpenDir, Inspection, pc' # "failed"
  PROVE  Files'
<1> DEFINE w == With("dir", scan.read, <<>>)
           path == Append(Top.path, scan.name)
           f == Frame(scan.before.ino, path, scan.before)
<1>1. /\ pc = "dir" /\ pc' = "enter" /\ Rebound /\ pc \in AtEntry
      /\ scan' = [w EXCEPT !.stack = <<f>> \o @]
  BY DEF OpenDir, Throw, AtEntry
<1>2. /\ TreeOK /\ scan.before.ino \in Node /\ scan.name \in EntryName
      /\ scan.stack \in Seq(Frames) /\ Len(scan.stack) \in Nat
      /\ Len(scan.stack) >= 1 /\ Top.path \in Seq(EntryName)
      /\ scan.before \in Stamps /\ scan.read \in Data \cup {None}
      /\ Now.entry = entry /\ Now.node = node
  BY <1>1, TopShape DEF TypeOK, Now
<1>3. <<>> \in Seq(EntryName) /\ "dir" \in Type \cup {"hardlink"}
  BY EmptySeq DEF Type
<1>4. w \in Scans /\ w.stack = scan.stack /\ w.targets = scan.targets
  BY <1>1, <1>2, <1>3, WithShape
<1>5. path \in Seq(EntryName)
  BY <1>2, Appended
<1>6. f \in Frames /\ f.dir = scan.before.ino /\ f.path = path
  <2>1. \A n \in Node, q \in Seq(EntryName), s \in Stamps :
            /\ Frame(n, q, s) \in Frames
            /\ Frame(n, q, s).dir = n /\ Frame(n, q, s).path = q
    BY FrameShape
  <2> HIDE DEF path
  <2> QED BY <1>2, <1>5, <2>1
<1>7. /\ Len(path) = Len(scan.stack)
      /\ Len(path) = 1 => /\ path[1] = scan.name
                          /\ entry[Root][scan.name] = scan.before.ino
  BY <1>1, PathAtHand DEF Files, Rebound
<1>8. node[scan.before.ino].type = "dir"
  <2>1. scan.before.type = "dir" /\ Stat(scan.before.ino) = scan.before
    BY <1>1 DEF Files, AtHand, Rebound
  <2> QED BY <1>2, <2>1, StatShape
<1> HIDE DEF w, f, path
<1>9. /\ scan'.stack = <<f>> \o scan.stack /\ scan'.entries = w.entries
      /\ scan'.stamps = w.stamps /\ scan'.targets = scan.targets
  BY <1>1, <1>4 DEF Scans
<1>10. Len(scan.stack) = 1 => /\ Now.entry[Root][f.path[1]] = f.dir
                              /\ Now.node[f.dir].type = "dir"
  BY <1>2, <1>6, <1>7, <1>8
<1>11. Stacked(Now, scan'.stack) /\ First(scan'.stack) = First(scan.stack)
  BY <1>2, <1>6, <1>7, <1>9, <1>10, StackedPush DEF Files
<1>12. Len(scan'.stack) # 1
  <2>1. Len(<<f>> \o scan.stack) = Len(scan.stack) + 1
    BY <1>2, <1>6, Pushed
  <2> QED BY <1>2, <1>9, <2>1
<1>13. QED
  BY <1>1, <1>2, <1>3, <1>9, <1>11, <1>12, FinishedFiles DEF w

\* When the root is left it has the stamp it had first: the moment is now.
LEMMA LeaveDirFiles ==
  ASSUME TypeOK, Files, LeaveDir, Inspection, pc' # "failed"
  PROVE  Files'
<1>0. /\ TreeOK /\ scan \in Scans /\ scan.stack \in Seq(Frames)
      /\ Len(scan.stack) \in Nat /\ Len(scan.stack) >= 1
      /\ Top \in Frames /\ Top = scan.stack[1]
      /\ scan.entries \in Seq(ManifestEntry) /\ scan.stamps \in Seq(Stamps)
      /\ Now.entry = entry /\ Now.node = node
  BY TopShape DEF TypeOK, Now
<1>1. pc = "next" /\ pc' \in {"next", "retain"} /\ Unaltered
  BY DEF LeaveDir, Throw
<1>2. CASE pc' = "next"
  <2>1. Len(scan.stack) > 1 /\ scan' = [scan EXCEPT !.stack = Tail(scan.stack)]
    BY <1>1, <1>2 DEF LeaveDir, Throw
  <2>2. /\ scan'.stack = Tail(scan.stack) /\ scan'.entries = scan.entries
        /\ scan'.stamps = scan.stamps /\ scan'.targets = scan.targets
    BY <1>0, <2>1 DEF Scans
  <2>3. Stacked(Now, scan'.stack) /\ First(scan'.stack) = First(scan.stack)
    BY <1>0, <2>1, <2>2, StackedPop DEF Files
  <2>4. Targeted'
    BY <1>1, <1>2, <2>2 DEF Files, Targeted
  <2>5. AtHand'
    BY <1>2 DEF AtHand
  <2> QED BY <1>2, <2>2, <2>3, <2>4, <2>5, UnfinishedFiles
<1>3. CASE pc' = "retain"
  <2>1. Len(scan.stack) = 1 /\ scan' = scan
    BY <1>1, <1>3 DEF LeaveDir, Throw
  <2>2. First(scan.stack) = node[Root].stamp /\ node[Root].stamp \in Nat
    <3>1. Top.dir = Root /\ Bottom(scan.stack) = Top
      BY <1>0, <2>1 DEF Files, Stacked, Bottom
    <3>2. Stat(Root) = Top.before
      BY <1>1, <3>1 DEF Unaltered
    <3> QED BY <1>0, <3>1, <3>2, StatShape, PayloadAssumption DEF First, TreeOK
  <2>3. ~RootMoved(Now, First(scan.stack))
    BY <1>0, <2>2 DEF RootMoved
  <2>4. Held(Now, Now, scan.entries, scan.stamps)
    <3>1. SUFFICES ASSUME NEW k \in 1 .. Len(scan.entries),
                          IsFile(scan.entries[k]), ~Changed(Now, scan.stamps[k])
                   PROVE  Sound(Now, scan.entries[k], scan.stamps[k])
      <4>1. \A k \in 1 .. Len(scan.entries) : IsFile(scan.entries[k]) =>
                scan.stamps[k].ino \in Node
        BY DEF Files, Recorded, Known
      <4> QED BY <4>1 DEF Held
    <3> DEFINE e == scan.entries[k]
               s == scan.stamps[k]
    <3>2. Known(Now, First(scan.stack), e, s) /\ e \in ManifestEntry
      BY <1>0, ElementOfSeq DEF Files, Recorded
    <3> HIDE DEF e, s
    <3>3. /\ s.ino \in Node
          /\ e.type = "regular" => InVersion(Now, e, s)
          /\ IsHigh(e.path) => Leads(Now, e.path, s.ino)
      BY <2>3, <3>1, <3>2 DEF Known, e, s
    <3>4. ASSUME IsHigh(e.path)
          PROVE  At(Now, e.path) = s.ino
      <4>1. Leads(Now, e.path, s.ino) /\ node[Root].type = "dir"
            /\ None \notin Node
        BY <1>0, <3>3, <3>4, PayloadAssumption DEF TreeOK
      <4>2. CASE Len(e.path) = 1 /\ entry[Root][e.path[1]] = s.ino
        BY <1>0, <4>1, <4>2, AtOne
      <4>3. CASE /\ Len(e.path) = 2 /\ entry[Root][e.path[1]] \in Node
                 /\ node[entry[Root][e.path[1]]].type = "dir"
                 /\ entry[entry[Root][e.path[1]]][e.path[2]] = s.ino
        BY <1>0, <4>1, <4>3, AtTwo
      <4> QED BY <1>0, <4>1, <4>2, <4>3 DEF Leads
    <3> QED BY <3>3, <3>4 DEF Sound, e, s
  <2>5. Now' = Now /\ UNCHANGED <<treeVars, payload>> /\ Now \in views
    BY <1>0, TreeSame DEF Inspection, TreeOK
  <2>6. Moment'
    BY <1>1, <1>3, <2>1, <2>4, <2>5
       DEF Files, Moment, Coexist, treeVars, Encodes
  <2>7. Targeted'
    BY <1>1, <1>3, <2>1 DEF Files, Targeted
  <2>8. AtHand'
    BY <1>3 DEF AtHand
  <2> QED BY <2>1, <2>5, <2>6, <2>7, <2>8 DEF Files
<1>4. QED
  BY <1>1, <1>2, <1>3

LEMMA OpenRegularFiles ==
  ASSUME TypeOK, Files, OpenRegular, Inspection, pc' # "failed"
  PROVE  Files'
<1> DEFINE n == scan.before.ino
           path == Append(Top.path, scan.name)
<1>1. /\ pc = "regular" /\ pc' \in {"hardlink", "read"}
      /\ pc' = "hardlink" => scan' = scan /\ scan.targets[n] # <<>>
      /\ scan' # scan => /\ pc' = "read"
                         /\ scan' = [scan EXCEPT !.targets[n] = path]
  BY DEF OpenRegular, Throw
<1>2. /\ n \in Node /\ scan \in Scans
      /\ scan.targets \in [Node -> Seq(EntryName)] /\ node' = node
  BY <1>1, TopShape DEF TypeOK, AtEntry, Inspection, treeVars
<1> HIDE DEF path
<1>3. /\ scan'.stack = scan.stack /\ scan'.name = scan.name
      /\ scan'.before = scan.before
      /\ scan'.entries = scan.entries /\ scan'.stamps = scan.stamps
      /\ scan'.targets = IF scan' = scan THEN scan.targets
                         ELSE [scan.targets EXCEPT ![n] = path]
  BY <1>1, <1>2 DEF Scans
<1>4. Targeted'
  <2>1. SUFFICES ASSUME NEW x \in Node, scan'.targets[x] # <<>>
                 PROVE  \/ \E j \in 1 .. Len(scan.entries) :
                            /\ scan.entries[j].type = "regular"
                            /\ scan.entries[j].path = scan'.targets[x]
                            /\ scan.stamps[j].ino = x
                        \/ /\ pc' \in {"read", "hashed"} /\ x = n
                           /\ scan'.targets[x] = path
    BY <1>3 DEF Targeted, Top, path
  <2>2. CASE scan' # scan /\ x = n
    BY <1>1, <1>2, <1>3, <2>2
  <2>3. CASE scan' = scan \/ x # n
    <3>1. scan'.targets[x] = scan.targets[x]
      BY <1>2, <1>3, <2>3
    <3>2. \E j \in 1 .. Len(scan.entries) :
            /\ scan.entries[j].type = "regular"
            /\ scan.entries[j].path = scan.targets[x]
            /\ scan.stamps[j].ino = x
      BY <1>1, <2>1, <3>1 DEF Files, Targeted
    <3> QED BY <3>1, <3>2
  <2> QED BY <2>2, <2>3
<1>5. AtHand'
  <2>1. scan.before.type = "regular" /\ node[n].stamp >= scan.before.stamp
    BY <1>1 DEF Files, AtHand
  <2> QED BY <1>1, <1>2, <1>3, <2>1 DEF AtHand
<1>6. QED
  BY <1>1, <1>3, <1>4, <1>5, UnfinishedFiles DEF Files

LEMMA ReadFiles ==
  ASSUME TypeOK, Files, ReadRegular \/ ReadLink, Inspection, pc' # "failed"
  PROVE  Files'
<1>1. PICK v : scan' = [scan EXCEPT !.read = v]
  BY DEF ReadRegular, ReadLink, Throw
<1>2. /\ scan \in Scans /\ node' = node
      /\ scan'.stack = scan.stack /\ scan'.name = scan.name
      /\ scan'.before = scan.before /\ scan'.targets = scan.targets
      /\ scan'.entries = scan.entries /\ scan'.stamps = scan.stamps
      /\ scan'.read = v
  BY <1>1, TopShape DEF Scans, Inspection, treeVars
<1>3. \/ pc = "read" /\ pc' = "hashed" /\ v = node[scan.before.ino].data
      \/ pc = "symlink" /\ pc' = "target"
  <2>1. CASE ReadRegular
    <3>1. scan' = [scan EXCEPT !.read = node[scan.before.ino].data]
          /\ pc = "read" /\ pc' = "hashed"
      BY <2>1 DEF ReadRegular
    <3>2. scan'.read = node[scan.before.ino].data
      BY <1>2, <3>1 DEF Scans
    <3> QED BY <1>2, <3>1, <3>2
  <2>2. CASE ReadLink
    BY <2>2 DEF ReadLink, Throw
  <2> QED BY <2>1, <2>2
<1>4. Targeted'
  BY <1>2, <1>3 DEF Files, Targeted, Top
<1>5. AtHand'
  BY <1>2, <1>3 DEF Files, AtHand
<1>6. QED
  BY <1>2, <1>3, <1>4, <1>5, UnfinishedFiles DEF Files

LEMMA FinishFiles ==
  ASSUME TypeOK, Files, HardLink \/ HashRegular \/ CheckLink \/ Special,
         Inspection, pc' # "failed"
  PROVE  Files'
<1>1. PICK type \in {"hardlink", "regular", "symlink", "fifo"},
           data \in {None, scan.read},
           target \in {<<>>, scan.targets[scan.before.ino]} :
        /\ Finish(type, data, target)
        /\ \/ /\ type = "hardlink" /\ pc = "hardlink"
              /\ target = scan.targets[scan.before.ino]
           \/ type = "regular" /\ pc = "hashed" /\ data = scan.read
           \/ type = "symlink" /\ pc = "target"
           \/ type = "fifo" /\ pc = "fifo"
  BY DEF HardLink, HashRegular, CheckLink, Special, Throw
<1>2. /\ Rebound /\ pc' = "next" /\ scan' = With(type, data, target)
      /\ pc \in AtEntry
  BY <1>1 DEF Finish, Throw, AtEntry
<1>3. /\ scan.before.ino \in Node /\ TreeOK
      /\ scan.targets \in [Node -> Seq(EntryName)]
      /\ scan.read \in Data \cup {None}
  BY <1>2, TopShape DEF TypeOK
<1>4. /\ type \in Type \cup {"hardlink"} /\ data \in Data \cup {None}
      /\ target \in Seq(EntryName)
  BY <1>1, <1>3, EmptySeq DEF Type
<1>5. scan'.targets = scan.targets /\ scan'.stack = scan.stack
  BY <1>2, <1>4, WithShape
<1>6. ASSUME type \in {"regular", "hardlink"}
      PROVE  node[scan.before.ino].type = "regular"
  <2>1. scan.before.type = "regular" /\ Stat(scan.before.ino) = scan.before
    BY <1>1, <1>2, <1>6 DEF Files, AtHand, Rebound
  <2> QED BY <1>3, <2>1, StatShape
<1>7. ASSUME type = "regular"
      PROVE  node[scan.before.ino].data = data
  <2>1. pc = "hashed" /\ data = scan.read
    BY <1>1, <1>7
  <2>2. Changed(Now, scan.before) \/ node[scan.before.ino].data = scan.read
    BY <2>1 DEF Files, AtHand
  <2>3. node[scan.before.ino].stamp = scan.before.stamp /\ scan.before.stamp \in Nat
    BY <1>2, <1>3, StatShape DEF Rebound, TreeOK
  <2>4. ~Changed(Now, scan.before)
    BY <2>3 DEF Changed, Now
  <2> QED BY <2>1, <2>2, <2>4
<1>8. Stacked(Now, scan'.stack) /\ First(scan'.stack) = First(scan.stack)
  BY <1>5 DEF Files
<1>9. /\ pc \in {"read", "hashed"} => type = "regular"
      /\ type = "hardlink" => /\ pc = "hardlink"
                              /\ target = scan.targets[scan.before.ino]
  BY <1>1
<1>10. QED
  BY <1>2, <1>4, <1>5, <1>6, <1>7, <1>8, <1>9, FinishedFiles

LEMMA RetainFiles ==
  ASSUME TypeOK, Archived, Files, Retain, UNCHANGED <<treeVars, since>>,
         pc' # "failed"
  PROVE  Files'
<1>1. pc = "retain" /\ UNCHANGED <<scan, enc>> /\ UNCHANGED treeVars
      /\ pc' \in {"reopen", "sealed"}
  BY DEF Retain
<1>2. Now' = Now /\ views' = views
  BY TreeSame DEF TypeOK, treeVars
<1>3. Targeted'
  BY <1>1 DEF Files, Targeted
<1>4. AtHand'
  BY <1>1 DEF AtHand
<1>5. Moment'
  <2>1. CASE payload.entries = <<>>
    <3>1. /\ pc' = "reopen"
          /\ payload' = [entries |-> scan.entries, stamps |-> scan.stamps,
                         root |-> Stat(Root)]
      BY <2>1 DEF Retain
    <3>2. payload'.entries = scan.entries /\ payload'.stamps = scan.stamps
      BY <3>1
    <3>3. enc'.archive = <<>> /\ Len(<<>>) = 0
      BY <1>1, <2>1 DEF Archived, Inspects
    <3>4. PICK t \in views : Held(Now, t, scan.entries, scan.stamps)
      BY <1>1 DEF Files, Moment
    <3>5. /\ Len(payload'.stamps) = Len(payload'.entries)
          /\ Linked(payload'.entries, payload'.stamps)
      BY <3>2 DEF Files, Recorded
    <3>6. Held(Now', t, payload'.entries, payload'.stamps)
      BY <1>2, <3>2, <3>4
    <3>7. \A k \in 1 .. Len(enc'.archive) : Checked(t, k)'
      BY <3>3
    <3>8. \E u \in views' : /\ Held(Now', u, payload'.entries, payload'.stamps)
                            /\ \A k \in 1 .. Len(enc'.archive) : Checked(u, k)'
      BY <1>2, <3>4, <3>6, <3>7
    <3> QED BY <3>1, <3>5, <3>8 DEF Moment, Secured, Encodes
  <2>2. CASE payload.entries # <<>>
    <3>1. pc' = "sealed" /\ UNCHANGED payload
      BY <1>1, <2>2 DEF Retain
    <3> QED BY <1>1, <1>2, <3>1 DEF Files, Moment, Coexist, Encodes
  <2> QED BY <2>1, <2>2
<1>6. QED
  BY <1>1, <1>2, <1>3, <1>4, <1>5 DEF Files
-----------------------------------------------------------------------------
(***************************************************************************)
(* While the archive is written the moment is kept, and what is written    *)
(* was there.                                                              *)
(***************************************************************************)
LEMMA EncodingFiles ==
  ASSUME TypeOK, Archived, Files, Encoding, UNCHANGED <<treeVars, since>>,
         pc' # "failed"
  PROVE  Files'
<1>1. Encoded /\ UNCHANGED <<scan, payload>> /\ views' = views
      /\ pc \in Encodes /\ pc' \in Encodes /\ Now' = Now /\ TreeOK
  BY EncodingTyped, TreeSame DEF Encoded, TypeOK, treeVars
<1>2. Targeted' /\ AtHand'
  BY <1>1 DEF Files, Targeted, AtHand, Encodes
<1>3. payload.entries # <<>> /\ payload.stamps \in Seq(Stamps)
      /\ enc \in Encodings /\ enc.archive \in Seq(ManifestEntry)
  BY <1>1 DEF Archived, TypeOK, Payloads, Encodings
<1>4. /\ Len(payload.stamps) = Len(payload.entries)
      /\ Linked(payload.entries, payload.stamps)
      /\ \E t \in views : Secured(t)
  BY <1>1, <1>3 DEF Files, Moment
<1>5. PICK t \in views : Secured(t)
  BY <1>4
<1>6. ASSUME NEW k \in 1 .. Len(enc'.archive)
      PROVE  Checked(t, k)
  <2>1. CASE enc'.archive = enc.archive
    BY <1>5, <1>6, <2>1 DEF Secured
  <2>2. CASE enc'.archive # enc.archive
    <3> DEFINE e == payload.entries[Index]
    <3>1. /\ Index <= Len(payload.entries)
          /\ enc'.archive = Append(enc.archive, e)
          /\ \/ e.type # "regular"
             \/ SameStamp(enc.ino) /\ enc.ino \in Node
      <4>1. CASE Encode
        <5>1. Index <= Len(payload.entries)
          BY <4>1 DEF Encode
        <5>2. CASE HasContent(e)
          <6>1. enc' = [enc EXCEPT !.ino = Root, !.rest = e.path]
            BY <4>1, <5>2 DEF Encode
          <6>2. enc'.archive = enc.archive
            BY <1>3, <6>1 DEF Encodings
          <6> QED BY <2>2, <6>2
        <5>3. CASE ~HasContent(e)
          <6>1. enc' = [enc EXCEPT !.archive = Append(enc.archive, e)]
            BY <4>1, <5>3 DEF Encode
          <6>2. enc'.archive = Append(enc.archive, e)
            BY <1>3, <6>1 DEF Encodings
          <6> QED BY <5>1, <5>3, <6>2 DEF HasContent
        <5> QED BY <5>2, <5>3
      <4>2. CASE CopyCheck
        <5>1. /\ pc = "copied" /\ SameStamp(enc.ino) /\ SameDigest
              /\ enc' = [enc EXCEPT !.archive =
                            Append(enc.archive, [e EXCEPT !.data = enc.read])]
          BY <4>2 DEF CopyCheck, Throw
        <5>2. Index <= Len(payload.entries) /\ enc.ino \in Node
          BY <5>1, <1>3 DEF Archived, Encodings
        <5>3. e \in ManifestEntry
          BY <1>1, <5>2, OneMoreCopied
        <5>4. enc.read = e.data
          BY <5>1 DEF SameDigest
        <5> HIDE DEF e
        <5>5. [e EXCEPT !.data = enc.read] = e
          BY <5>3, <5>4 DEF ManifestEntry
        <5> DEFINE b == Append(enc.archive, e)
        <5> HIDE DEF b
        <5>6. enc' = [enc EXCEPT !.archive = b]
          BY <5>1, <5>5 DEF b
        <5>7. enc'.archive = b
          BY <1>3, <5>6 DEF Encodings
        <5> QED BY <5>1, <5>2, <5>7 DEF b
      <4>3. CASE Reopen \/ Beneath \/ Copy
        <5>1. enc'.archive = enc.archive
          BY <1>3, <4>3 DEF Reopen, Beneath, Copy, Throw, Encodings
        <5> QED BY <2>2, <5>1
      <4> QED BY <4>1, <4>2, <4>3 DEF Encoding
    <3> HIDE DEF e
    <3>2. Len(enc'.archive) = Index /\ Len(enc.archive) \in Nat
          /\ Index = Len(enc.archive) + 1 /\ Index \in 1 .. Len(payload.entries)
      BY <1>1, <1>3, <3>1, OneMoreCopied, LenProperties DEF e, Index
    <3>3. CASE k \in 1 .. Len(enc.archive)
      BY <1>5, <3>3 DEF Secured
    <3>4. CASE k = Index
      <4>1. SUFFICES ASSUME e.type = "regular",
                            NEW i \in 1 .. Len(payload.entries),
                            IsFile(payload.entries[i]),
                            payload.stamps[i].ino = payload.stamps[Index].ino,
                            payload.stamps[Index].stamp <= payload.stamps[i].stamp
                     PROVE  Sound(t, payload.entries[i], payload.stamps[i])
        BY <3>4 DEF Checked, e
      <4>2. SameStamp(enc.ino) /\ enc.ino \in Node
        BY <3>1, <4>1
      <4>3. /\ payload.stamps[Index].ino = enc.ino
            /\ payload.stamps[Index].stamp = node[enc.ino].stamp
        BY <1>1, <4>2, StatShape DEF SameStamp
      <4>4. payload.stamps[i] \in Stamps
        BY <1>3, <1>4, ElementOfSeq
      <4>5. payload.stamps[i].stamp \in Nat /\ node[enc.ino].stamp \in Nat
        BY <1>1, <4>2, <4>4 DEF Stamps, TreeOK
      <4>6. ~Changed(Now, payload.stamps[i])
        BY <4>1, <4>3, <4>5 DEF Changed, Now
      <4> QED BY <1>5, <4>1, <4>6 DEF Secured, Held
    <3>5. k \in 1 .. Len(enc.archive) \/ k = Index
      BY <1>6, <3>2
    <3> QED BY <3>3, <3>4, <3>5
  <2> QED BY <2>1, <2>2
<1>7. Held(Now', t, payload'.entries, payload'.stamps)
      /\ \A k \in 1 .. Len(enc'.archive) : Checked(t, k)'
  BY <1>1, <1>5, <1>6 DEF Secured, Checked
<1>8. \E u \in views' : /\ Held(Now', u, payload'.entries, payload'.stamps)
                        /\ \A k \in 1 .. Len(enc'.archive) : Checked(u, k)'
  BY <1>1, <1>7
<1>9. Moment'
  BY <1>1, <1>4, <1>8 DEF Moment, Secured, Encodes
<1>10. QED
  BY <1>1, <1>2, <1>9 DEF Files

LEMMA FreshFiles ==
  ASSUME TreeOK
  PROVE  /\ Stacked(Now, FreshScan.stack)
         /\ Recorded(Now, First(FreshScan.stack), FreshScan.entries, FreshScan.stamps)
<1>1. node[Root].stamp \in Nat /\ Now.node = node
  BY PayloadAssumption DEF TreeOK, Now
<1> DEFINE s == FreshScan.stack
<1>2. /\ Len(s) = 1 /\ s[1].dir = Root /\ s[1].path = <<>> /\ Len(<<>>) = 0
      /\ s[1].before = NoStat /\ NoStat.stamp = 0
  BY FreshShape DEF Frame, NoStat
<1> HIDE DEF s
<1>3. Bottom(s) = s[1] /\ First(s) = 0
  BY <1>2 DEF First, Bottom
<1>4. \A i \in 1 .. Len(s) : Len(s[i].path) = Len(s) - i
  <2> TAKE i \in 1 .. Len(s)
  <2>1. i = 1
    BY <1>2
  <2> QED BY <1>2, <2>1
<1>5. Stacked(Now, s)
  BY <1>1, <1>2, <1>3, <1>4 DEF Stacked
<1>6. Recorded(Now, First(s), FreshScan.entries, FreshScan.stamps)
  BY <1>2, FreshShape DEF Recorded, Linked
<1>7. QED
  BY <1>5, <1>6 DEF s

\* Once all is written, every file of the manifest was there.
LEMMA EncodeEndFiles ==
  ASSUME TypeOK, Archived, Files, EncodeEnd, pc' # "failed"
  PROVE  Files'
<1>1. /\ pc = "encode" /\ pc' = "enter" /\ pc \in Encodes /\ pc' \notin Encodes
      /\ Index > Len(payload.entries) /\ scan' = FreshScan
      /\ UNCHANGED treeVars /\ UNCHANGED <<payload, enc>>
  BY DEF EncodeEnd, Throw, Encodes
<1>2. Now' = Now /\ views' = views /\ TreeOK /\ node[Root].stamp \in Nat
      /\ Now.node = node
  BY <1>1, TreeSame, PayloadAssumption DEF TypeOK, treeVars, TreeOK, Now
<1>3. /\ Stacked(Now, FreshScan.stack)
      /\ Recorded(Now, First(FreshScan.stack), FreshScan.entries, FreshScan.stamps)
  BY <1>2, FreshFiles
<1>4. Targeted'
  BY <1>1, FreshShape DEF Targeted
<1>5. AtHand'
  BY <1>1, FreshShape DEF AtHand
<1>6. /\ payload.entries # <<>>
      /\ enc.archive \in Seq(ManifestEntry) /\ payload.entries \in Seq(ManifestEntry)
  BY <1>1 DEF Archived, TypeOK, Encodings, Payloads
<1>7. /\ Len(payload.stamps) = Len(payload.entries)
      /\ Linked(payload.entries, payload.stamps)
  BY <1>1, <1>6 DEF Files, Moment
<1>8. PICK t \in views : Secured(t)
  BY <1>1, <1>6 DEF Files, Moment
<1>9. \A k \in 1 .. Len(payload.entries) : Checked(t, k)
  <2>1. Len(enc.archive) \in Nat /\ Len(payload.entries) \in Nat
    BY <1>6, LenProperties
  <2>2. \A k \in 1 .. Len(payload.entries) : k \in 1 .. Len(enc.archive)
    BY <1>1, <2>1 DEF Index
  <2> QED BY <1>8, <2>2 DEF Secured
<1>10. Coexist(t)
  <2>1. SUFFICES ASSUME NEW k \in 1 .. Len(payload.entries),
                        IsFile(payload.entries[k])
                 PROVE  Sound(t, payload.entries[k], payload.stamps[k])
    BY DEF Coexist
  <2>2. CASE payload.entries[k].type = "regular"
    <3>1. payload.stamps[k].stamp \in Nat
      <4>1. payload.stamps[k] \in Stamps
        BY <1>7, ElementOfSeq DEF TypeOK, Payloads
      <4> QED BY <4>1 DEF Stamps
    <3>2. payload.stamps[k].stamp <= payload.stamps[k].stamp
      BY <3>1
    <3> QED BY <1>9, <2>1, <2>2, <3>2 DEF Checked
  <2>3. CASE payload.entries[k].type = "hardlink"
    <3>1. PICK j \in 1 .. Len(payload.entries) :
            /\ payload.entries[j].type = "regular"
            /\ payload.stamps[j].ino = payload.stamps[k].ino
            /\ payload.stamps[j].stamp <= payload.stamps[k].stamp
      BY <1>7, <2>3 DEF Linked, Targets
    <3> QED BY <1>9, <2>1, <3>1 DEF Checked
  <2> QED BY <2>1, <2>2, <2>3 DEF IsFile
<1>11. Moment'
  BY <1>1, <1>2, <1>7, <1>8, <1>10 DEF Moment, Coexist
<1>12. QED
  BY <1>1, <1>2, <1>3, <1>4, <1>5, <1>11 DEF Files

LEMMA InitFiles ==
  ASSUME Init
  PROVE  Files
<1>1. /\ pc = "enter" /\ scan = FreshScan /\ TreeOK
      /\ payload = [entries |-> <<>>, stamps |-> <<>>, root |-> NoStat]
  BY InitTyped DEF Init, TypeOK
<1>2. Targeted /\ AtHand /\ Moment
  BY <1>1, FreshShape DEF Targeted, AtHand, Moment
<1>3. QED
  BY <1>1, <1>2, FreshFiles DEF Files

LEMMA StepFiles ==
  ASSUME Inv, [Next]_vars, ~coarse, pc' # "failed"
  PROVE  Files'
<1>1. TypeOK /\ Archived /\ TreeOK
  BY DEF Inv, TypeOK
<1>2. CASE Sealer
  <2>1. UNCHANGED <<treeVars, since>> /\ pc # "failed"
    BY <1>2 DEF Sealer, Inspecting, Encoding, Enter, List, Visit, OpenDir,
                LeaveDir, OpenRegular, HardLink, ReadRegular, HashRegular,
                ReadLink, CheckLink, Special, Retain, Reopen, Encode, Beneath,
                Copy, CopyCheck
  <2>2. Files
    BY <2>1 DEF Inv
  <2>3. CASE Retain
    BY <1>1, <2>1, <2>2, <2>3, RetainFiles
  <2>4. CASE Inspecting /\ ~Retain
    <3>1. Inspection
      BY <1>1, <2>1, <2>4, InspectingTyped
    <3>2. CASE List
      BY <1>1, <2>2, <3>1, <3>2, ListFiles
    <3> QED BY <1>1, <2>2, <2>4, <3>1, <3>2, EnterFiles, VisitFiles,
               OpenDirFiles, LeaveDirFiles, OpenRegularFiles, ReadFiles,
               FinishFiles DEF Inspecting
  <2>5. CASE Encoding
    BY <1>1, <2>1, <2>2, <2>5, EncodingFiles
  <2> QED BY <1>2, <2>3, <2>4, <2>5 DEF Sealer
<1>3. CASE EncodeEnd
  <2>1. Files
    BY <1>3 DEF Inv, EncodeEnd
  <2> QED BY <1>1, <1>3, <2>1, EncodeEndFiles
<1>4. CASE Alter \/ Put \/ Detach \/ Join \/ Move
  <2>1. ChangesTree
    BY <1>1, <1>4, TreeChanges
  <2>2. Files
    BY <2>1 DEF Inv, ChangesTree
  <2> QED BY <1>1, <2>1, <2>2, ChangesKeepFiles
<1>5. CASE UNCHANGED vars
  <2>1. /\ UNCHANGED treeVars /\ UNCHANGED <<pc, scan, payload, enc>>
        /\ views' = views
    BY <1>5 DEF vars, treeVars
  <2>2. Files /\ Now' = Now
    BY <1>1, <2>1, TreeSame DEF Inv
  <2>3. Targeted' /\ AtHand'
    BY <2>1, <2>2 DEF Files, Targeted, AtHand, Top, treeVars
  <2>4. Moment'
    BY <2>1, <2>2 DEF Files, Moment, Secured, Checked, Coexist
  <2> QED BY <2>1, <2>2, <2>3, <2>4 DEF Files
<1>6. QED
  BY <1>2, <1>3, <1>4, <1>5 DEF Next, Done

LEMMA StepKeepsInv ==
  ASSUME Inv, [Next]_vars
  PROVE  Inv'
<1>1. TypeOK' /\ Archived'
  BY StepTyped DEF Inv
<1>2. coarse' = coarse
  <2>1. TreeOK
    BY DEF Inv, TypeOK
  <2> QED BY <2>1, TreeChanges
          DEF Next, Sealer, EncodeEnd, Done, vars, treeVars, ChangesTree
<1>3. ~coarse' /\ pc' # "failed" => Files'
  BY <1>2, StepFiles
<1> QED BY <1>1, <1>3 DEF Inv

(***************************************************************************)
(* The regular files of a sealed payload coexisted, whatever else happened *)
(* to the package output between any two system calls: when the first      *)
(* inspection left the root, each of them was there in the version that is *)
(* sealed, and those that are in the root or in a directory of the root    *)
(* were at their paths, under every name that the manifest gives them.     *)
(* inspect_payload() alone does not show it: it is the comparison of each  *)
(* stamp in write_regular_payload(), after that moment, that does.         *)
(***************************************************************************)
THEOREM SealedFilesCoexisted == Spec => []RegularFilesAreSnapshot
<1>1. Init => Inv
  BY InitTyped, InitFiles DEF Inv
<1>2. Inv /\ [Next]_vars => Inv'
  BY StepKeepsInv
<1>3. Inv => RegularFilesAreSnapshot
  <2> SUFFICES ASSUME Inv, pc = "sealed", ~coarse
               PROVE  \E t \in views : \A k \in DOMAIN payload.entries :
                        LET e == payload.entries[k]
                            stamp == payload.stamps[k]
                        IN /\ e.type = "regular" => InVersion(t, e, stamp)
                           /\ e.type = "regular" /\ IsHigh(e.path) =>
                                At(t, e.path) = stamp.ino
                           /\ (e.type = "hardlink" /\ IsHigh(e.path)
                                   /\ IsHigh(e.target)) => Shows(t, e)
    BY DEF RegularFilesAreSnapshot
  <2>1. /\ Files /\ Now \in views /\ None \notin Node
        /\ payload.entries \in Seq(ManifestEntry)
    BY PayloadAssumption DEF Inv, TypeOK, TreeOK, Payloads
  <2>2. DOMAIN payload.entries = 1 .. Len(payload.entries)
    BY <2>1, LenProperties
  <2>3. CASE payload.entries = <<>>
    <3>1. DOMAIN payload.entries = {}
      BY <2>3
    <3> QED BY <2>1, <3>1
  <2>4. CASE payload.entries # <<>>
    <3>1. Linked(payload.entries, payload.stamps)
      BY <2>1, <2>4 DEF Files, Moment
    <3>2. PICK t \in views : Coexist(t)
      BY <2>1, <2>4 DEF Files, Moment, Encodes
    <3>3. ASSUME NEW k \in 1 .. Len(payload.entries),
                 payload.entries[k].type = "hardlink",
                 IsHigh(payload.entries[k].path),
                 IsHigh(payload.entries[k].target)
          PROVE  Shows(t, payload.entries[k])
      <4> DEFINE e == payload.entries[k]
      <4>1. PICK j \in 1 .. Len(payload.entries) :
              /\ payload.entries[j].type = "regular"
              /\ payload.entries[j].path = e.target
              /\ payload.stamps[j].ino = payload.stamps[k].ino
        BY <3>1, <3>3 DEF Linked, Targets
      <4>2. /\ At(t, e.path) = payload.stamps[k].ino
            /\ payload.stamps[k].ino \in Node
        BY <3>2, <3>3 DEF Coexist, Sound, IsFile
      <4>3. At(t, e.target) = payload.stamps[j].ino
        BY <3>2, <3>3, <4>1 DEF Coexist, Sound, IsFile
      <4> QED BY <2>1, <3>3, <4>1, <4>2, <4>3 DEF Shows
    <3>4. ASSUME NEW k \in 1 .. Len(payload.entries),
                 payload.entries[k].type = "regular"
          PROVE  /\ InVersion(t, payload.entries[k], payload.stamps[k])
                 /\ IsHigh(payload.entries[k].path) =>
                        At(t, payload.entries[k].path) = payload.stamps[k].ino
      BY <3>2, <3>4 DEF Coexist, Sound, IsFile
    <3> QED BY <2>2, <3>2, <3>3, <3>4
  <2> QED BY <2>3, <2>4
<1>4. QED
  BY <1>1, <1>2, <1>3, PTL DEF Spec

-----------------------------------------------------------------------------
(***************************************************************************)
(* Where paths lead.  Route(t, path, w): w lists the nodes on the way.     *)
(***************************************************************************)
Paths == Seq(EntryName)
Leading(q, p) == Len(q) <= Len(p) /\ \A k \in 1 .. Len(q) : p[k] = q[k]
Route(t, path, w) ==
    w[0] = Root /\ \A k \in 1 .. Len(path) : w[k] = Below(t, w[k - 1], path[k])

LEMMA RouteExists ==
  ASSUME NEW t, NEW path \in Paths
  PROVE  \E w : Route(t, path, w) /\ At(t, path) = w[Len(path)]
<1> DEFINE L == Len(path)
           Body(n, f) == [k \in 0 .. n |->
                IF k = 0 THEN Root ELSE Below(t, f[k - 1], path[k])]
           T == {n \in Nat : \E f : f = Body(n, f)}
<1>1. L \in Nat
  BY LenProperties DEF Paths
<1>2. 0 \in T
  <2> DEFINE f == [k \in 0 .. 0 |-> Root]
  <2>1. f = Body(0, f)
    OBVIOUS
  <2> HIDE DEF f
  <2> QED BY <2>1
<1>3. \A n \in Nat : n \in T => n + 1 \in T
  <2> SUFFICES ASSUME NEW n \in Nat, n \in T
               PROVE  n + 1 \in T
    OBVIOUS
  <2>1. PICK f : f = Body(n, f)
    OBVIOUS
  <2> DEFINE g == [k \in 0 .. n + 1 |->
                      IF k = n + 1 THEN Below(t, f[n], path[n + 1]) ELSE f[k]]
  <2>2. \A k \in 0 .. n : g[k] = f[k]
    OBVIOUS
  <2>3. g[n + 1] = Below(t, f[n], path[n + 1])
    OBVIOUS
  <2>4. \A k \in 0 .. n : f[k] = IF k = 0 THEN Root
                                 ELSE Below(t, f[k - 1], path[k])
    <3> TAKE k \in 0 .. n
    <3>1. f[k] = Body(n, f)[k]
      BY <2>1
    <3> HIDE DEF g
    <3> QED BY <3>1
  <2>5. g = [k \in 0 .. n + 1 |-> g[k]]
    OBVIOUS
  <2> HIDE DEF g
  <2>6. \A k \in 0 .. n + 1 : g[k] = IF k = 0 THEN Root
                                     ELSE Below(t, g[k - 1], path[k])
    <3> TAKE k \in 0 .. n + 1
    <3>1. CASE k = n + 1
      <4>1. k - 1 = n /\ n \in 0 .. n /\ k # 0
        BY <3>1
      <4> QED BY <2>2, <2>3, <3>1, <4>1
    <3>2. CASE k = 0
      BY <2>2, <2>4, <3>2
    <3>3. CASE k # 0 /\ k # n + 1
      <4>1. k \in 0 .. n /\ k - 1 \in 0 .. n
        BY <3>3
      <4> QED BY <2>2, <2>4, <3>3, <4>1
    <3> QED BY <3>1, <3>2, <3>3
  <2>7. g = Body(n + 1, g)
    BY <2>5, <2>6
  <2> QED BY <2>7
<1>4. L \in T
  <2> HIDE DEF T
  <2> QED BY <1>1, <1>2, <1>3, InductionOverNat
<1> DEFINE w == CHOOSE f : f = Body(L, f)
<1>5. w = Body(L, w)
  BY <1>4
<1>6. At(t, path) = w[L]
  BY DEF At
<1> HIDE DEF w
<1>7. \A k \in 0 .. L : w[k] = Body(L, w)[k]
  BY <1>5
<1>8. w[0] = Root /\ \A k \in 1 .. L : w[k] = Below(t, w[k - 1], path[k])
  BY <1>1, <1>7
<1>9. QED
  BY <1>6, <1>8 DEF Route

LEMMA RoutePrefix ==
  ASSUME NEW t, NEW path \in Paths, NEW w, Route(t, path, w),
         NEW q \in Paths, Leading(q, path)
  PROVE  At(t, q) = w[Len(q)]
<1>1. PICK v : Route(t, q, v) /\ At(t, q) = v[Len(q)]
  BY RouteExists
<1>2. Len(q) \in Nat /\ Len(path) \in Nat /\ Len(q) <= Len(path)
      /\ \A k \in 1 .. Len(q) : path[k] = q[k]
  BY LenProperties DEF Paths, Leading
<1> DEFINE T == {n \in Nat : n <= Len(q) => w[n] = v[n]}
<1>3. 0 \in T
  BY <1>1 DEF Route
<1>4. \A n \in Nat : n \in T => n + 1 \in T
  <2> SUFFICES ASSUME NEW n \in Nat, w[n] = v[n], n + 1 <= Len(q)
               PROVE  w[n + 1] = v[n + 1]
    BY <1>2
  <2>1. n + 1 \in 1 .. Len(q) /\ n + 1 \in 1 .. Len(path) /\ (n + 1) - 1 = n
    BY <1>2
  <2>2. /\ w[n + 1] = Below(t, w[n], path[n + 1])
        /\ v[n + 1] = Below(t, v[n], q[n + 1])
    BY <1>1, <2>1 DEF Route
  <2> QED BY <1>2, <2>1, <2>2
<1>5. Len(q) \in T
  <2> HIDE DEF T
  <2> QED BY <1>2, <1>3, <1>4, InductionOverNat
<1>6. QED
  BY <1>1, <1>2, <1>5

LEMMA LeadingPaths ==
  /\ <<>> \in Paths
  /\ \A p \in Paths : Len(p) \in Nat /\ Leading(<<>>, p) /\ Leading(p, p)
  /\ \A p \in Paths, m \in EntryName :
        /\ Append(p, m) \in Paths /\ Len(Append(p, m)) = Len(p) + 1
        /\ Append(p, m)[Len(p) + 1] = m /\ Leading(p, Append(p, m))
        /\ Append(p, m) # <<>>
        /\ \A i \in 1 .. Len(p) : Append(p, m)[i] = p[i]
  /\ \A p, q, r \in Paths : Leading(p, q) /\ Leading(q, r) => Leading(p, r)
<1>1. <<>> \in Paths /\ Len(<<>>) = 0 /\ \A p \in Paths : Len(p) \in Nat
  BY EmptySeq, LenProperties DEF Paths
<1>2. \A p \in Paths : Leading(<<>>, p) /\ Leading(p, p)
  BY <1>1 DEF Leading
<1>3. ASSUME NEW p \in Paths, NEW m \in EntryName
      PROVE  /\ Append(p, m) \in Paths /\ Len(Append(p, m)) = Len(p) + 1
             /\ Append(p, m)[Len(p) + 1] = m /\ Leading(p, Append(p, m))
             /\ Append(p, m) # <<>>
             /\ \A i \in 1 .. Len(p) : Append(p, m)[i] = p[i]
  <2>1. /\ Append(p, m) \in Seq(EntryName) /\ Append(p, m) # <<>>
        /\ Len(p) \in Nat /\ Len(Append(p, m)) = Len(p) + 1
        /\ Append(p, m)[Len(p) + 1] = m
        /\ \A i \in 1 .. Len(p) : Append(p, m)[i] = p[i]
    BY Appended DEF Paths
  <2>2. Leading(p, Append(p, m))
    <3> DEFINE a == Append(p, m)
    <3> HIDE DEF a
    <3>1. Len(p) \in Nat /\ Len(a) = Len(p) + 1 /\ \A i \in 1 .. Len(p) : a[i] = p[i]
      BY <2>1 DEF a
    <3>2. Leading(p, a)
      BY <3>1 DEF Leading
    <3> QED BY <3>2 DEF a
  <2> QED BY <2>1, <2>2 DEF Paths
<1>4. ASSUME NEW p \in Paths, NEW q \in Paths, NEW r \in Paths,
             Leading(p, q), Leading(q, r)
      PROVE  Leading(p, r)
  <2>1. Len(p) \in Nat /\ Len(q) \in Nat /\ Len(r) \in Nat
    BY <1>1
  <2> QED BY <1>4, <2>1 DEF Leading
<1>5. QED
  BY <1>1, <1>2, <1>3, <1>4

\* The way to a place has a path of every length.
LEMMA LeadingOfLength ==
  ASSUME NEW p \in Paths, NEW k \in 0 .. Len(p)
  PROVE  \E q \in Paths : Leading(q, p) /\ Len(q) = k /\ q = SubSeq(p, 1, k)
<1> DEFINE u == SubSeq(p, 1, k)
<1>1. Len(p) \in Nat
  BY LeadingPaths
<1>2. u \in Seq(EntryName) /\ Len(u) = k /\ \A i \in 1 .. k : u[i] = p[i]
  BY <1>1, SubSeqProperties DEF Paths
<1> HIDE DEF u
<1>3. Leading(u, p)
  BY <1>1, <1>2 DEF Leading
<1>4. QED
  BY <1>2, <1>3 DEF u, Paths

LEMMA AtRoot ==
  ASSUME NEW t
  PROVE  At(t, <<>>) = Root
<1>1. PICK w : Route(t, <<>>, w) /\ At(t, <<>>) = w[Len(<<>>)]
  BY RouteExists, LeadingPaths
<1>2. Len(<<>>) = 0
  OBVIOUS
<1>3. QED
  BY <1>1, <1>2 DEF Route

LEMMA AtStep ==
  ASSUME NEW t, NEW p \in Paths, NEW m \in EntryName
  PROVE  At(t, Append(p, m)) = Below(t, At(t, p), m)
<1> DEFINE a == Append(p, m)
<1>1. /\ a \in Paths /\ Len(a) = Len(p) + 1 /\ a[Len(p) + 1] = m
      /\ Leading(p, a) /\ Len(p) \in Nat
  BY LeadingPaths
<1> HIDE DEF a
<1>2. PICK w : Route(t, a, w) /\ At(t, a) = w[Len(a)]
  BY <1>1, RouteExists
<1>3. At(t, p) = w[Len(p)]
  BY <1>1, <1>2, RoutePrefix
<1>4. Len(a) \in 1 .. Len(a) /\ Len(a) - 1 = Len(p)
  BY <1>1
<1>5. w[Len(a)] = Below(t, w[Len(a) - 1], a[Len(a)])
  BY <1>2, <1>4 DEF Route
<1>6. QED
  BY <1>1, <1>2, <1>3, <1>4, <1>5 DEF a

\* All that lies on the way to something exists.
LEMMA AtWay ==
  ASSUME NEW t, NEW p \in Paths, At(t, p) # None, NEW q \in Paths, Leading(q, p)
  PROVE  /\ At(t, q) # None
         /\ Len(q) < Len(p) => /\ t.node[At(t, q)].type = "dir"
                               /\ t.entry[At(t, q)][p[Len(q) + 1]] # None
<1>1. PICK w : Route(t, p, w) /\ At(t, p) = w[Len(p)]
  BY RouteExists
<1>2. Len(p) \in Nat /\ Len(q) \in Nat /\ Len(q) <= Len(p)
  BY LeadingPaths DEF Leading
<1> DEFINE T == {j \in Nat : j <= Len(p) => w[Len(p) - j] # None}
<1>3. 0 \in T
  <2>1. Len(p) - 0 = Len(p)
    BY <1>2
  <2> QED BY <1>1, <2>1
<1>4. ASSUME NEW k \in 1 .. Len(p), w[k] # None
      PROVE  /\ w[k - 1] # None /\ t.node[w[k - 1]].type = "dir"
             /\ t.entry[w[k - 1]][p[k]] # None
  <2>1. w[k] = Below(t, w[k - 1], p[k])
    BY <1>1 DEF Route
  <2> QED BY <1>4, <2>1 DEF Below
<1>5. \A j \in Nat : j \in T => j + 1 \in T
  <2> SUFFICES ASSUME NEW j \in Nat, w[Len(p) - j] # None, j + 1 <= Len(p)
               PROVE  w[Len(p) - (j + 1)] # None
    BY <1>2
  <2>1. Len(p) - j \in 1 .. Len(p) /\ (Len(p) - j) - 1 = Len(p) - (j + 1)
    BY <1>2
  <2>2. PICK k \in 1 .. Len(p) : k = Len(p) - j
    BY <2>1
  <2>3. w[k - 1] # None
    BY <1>4, <2>2
  <2> QED BY <2>1, <2>2, <2>3
<1>6. Nat \subseteq T
  <2> HIDE DEF T
  <2> QED BY <1>3, <1>5, InductionOverNat
<1>7. \A k \in 0 .. Len(p) : w[k] # None
  <2> TAKE k \in 0 .. Len(p)
  <2>1. PICK j \in Nat : j = Len(p) - k
    BY <1>2
  <2>2. j <= Len(p) /\ Len(p) - j = k
    BY <1>2, <2>1
  <2> QED BY <1>6, <2>2
<1>8. At(t, q) = w[Len(q)]
  BY <1>1, RoutePrefix
<1>9. At(t, q) # None
  BY <1>2, <1>7, <1>8
<1>10. ASSUME Len(q) < Len(p)
       PROVE  t.node[At(t, q)].type = "dir" /\ t.entry[At(t, q)][p[Len(q) + 1]] # None
  <2>1. PICK k \in 1 .. Len(p) : k = Len(q) + 1
    BY <1>2, <1>10
  <2>2. k - 1 = Len(q)
    BY <1>2, <2>1
  <2>3. w[k] # None
    BY <1>7, <1>2
  <2>4. /\ t.node[w[k - 1]].type = "dir" /\ t.entry[w[k - 1]][p[k]] # None
    BY <1>4, <2>3
  <2> QED BY <1>8, <2>1, <2>2, <2>4
<1>11. QED
  BY <1>9, <1>10
-----------------------------------------------------------------------------
(***************************************************************************)
(* What holds still.                                                       *)
(***************************************************************************)
StillIn(t, s, p) ==
    /\ t.node[Root].stamp <= s
    /\ \A k \in DOMAIN p : LET n == At(t, SubSeq(p, 1, k)) IN
            n # None => t.node[n].stamp <= s

LEMMA StillMeans ==
  ASSUME NEW t, NEW s, NEW p \in Paths
  PROVE  StillIn(t, s, p) <=> \A q \in Paths : Leading(q, p) =>
            (At(t, q) # None => t.node[At(t, q)].stamp <= s)
<1>1. PICK w : Route(t, p, w) /\ At(t, p) = w[Len(p)]
  BY RouteExists
<1>2. \A q \in Paths : Leading(q, p) => At(t, q) = w[Len(q)]
  BY <1>1, RoutePrefix
<1>3. Len(p) \in Nat /\ DOMAIN p = 1 .. Len(p)
  BY LenProperties DEF Paths
<1>4. \A k \in 0 .. Len(p) : /\ SubSeq(p, 1, k) \in Paths /\ Leading(SubSeq(p, 1, k), p)
                             /\ Len(SubSeq(p, 1, k)) = k
  BY LeadingOfLength
<1>5. StillIn(t, s, p) <=> /\ t.node[Root].stamp <= s
                   /\ \A k \in 1 .. Len(p) : w[k] # None => t.node[w[k]].stamp <= s
  <2>1. ASSUME NEW k \in 1 .. Len(p)
        PROVE  At(t, SubSeq(p, 1, k)) = w[k]
    <3>1. k \in 0 .. Len(p)
      BY <1>3
    <3> QED BY <1>2, <1>4, <3>1
  <2> QED BY <1>3, <2>1 DEF StillIn
<1>6. w[0] = Root /\ Root # None
  BY <1>1, PayloadAssumption DEF Route
<1>7. ASSUME StillIn(t, s, p), NEW q \in Paths, Leading(q, p), At(t, q) # None
      PROVE  t.node[At(t, q)].stamp <= s
  <2>1. Len(q) \in 0 .. Len(p)
    BY <1>3, <1>7, LeadingPaths DEF Leading
  <2>2. Len(q) = 0 \/ Len(q) \in 1 .. Len(p)
    BY <1>3, <2>1
  <2> QED BY <1>2, <1>5, <1>6, <1>7, <2>2
<1>8. ASSUME \A q \in Paths : Leading(q, p) =>
                (At(t, q) # None => t.node[At(t, q)].stamp <= s)
      PROVE  StillIn(t, s, p)
  <2>1. ASSUME NEW k \in 0 .. Len(p), w[k] # None
        PROVE  t.node[w[k]].stamp <= s
    <3>1. PICK q \in Paths : Leading(q, p) /\ Len(q) = k
      BY <1>4
    <3> QED BY <1>2, <1>8, <2>1, <3>1
  <2>2. t.node[Root].stamp <= s
    BY <1>3, <1>6, <2>1
  <2>3. \A k \in 1 .. Len(p) : k \in 0 .. Len(p)
    BY <1>3
  <2> QED BY <1>5, <2>1, <2>2, <2>3
<1>9. QED
  BY <1>7, <1>8

LEMMA StillLeading ==
  ASSUME NEW t, NEW s, NEW p \in Paths, StillIn(t, s, p),
         NEW q \in Paths, Leading(q, p)
  PROVE  StillIn(t, s, q)
<1>1. \A r \in Paths : Leading(r, q) => Leading(r, p)
  BY LeadingPaths
<1>2. QED
  BY <1>1, StillMeans

\* What holds still after a change did so before, and is the same.
LEMMA StillLater ==
  ASSUME TreeOK, ChangesTree, ~coarse, since \in Nat, since <= changes,
         NEW p \in Paths, StillIn(Now', since, p)
  PROVE  /\ StillIn(Now, since, p) /\ At(Now', p) = At(Now, p)
         /\ At(Now, p) \in Node \cup {None}
         /\ At(Now, p) # None => /\ node'[At(Now, p)] = node[At(Now, p)]
                                 /\ entry'[At(Now, p)] = entry[At(Now, p)]
<1>1. /\ since' = since /\ changes' = changes + 1 /\ changes \in Nat
      /\ Root \in Node /\ None \notin Node
      /\ Now.node = node /\ Now.entry = entry
      /\ Now'.node = node' /\ Now'.entry = entry'
      /\ entry \in [Node -> [EntryName -> Node \cup {None}]]
  BY PayloadAssumption DEF TreeOK, ChangesTree, Now
<1>2. ASSUME NEW n \in Node, node'[n].stamp <= since
      PROVE  node'[n] = node[n] /\ entry'[n] = entry[n]
  <2>1. node'[n].stamp = node[n].stamp /\ node[n].stamp \in Nat
    BY <1>1, <1>2 DEF ChangesTree, TreeOK
  <2> QED BY <2>1 DEF ChangesTree, Kept
<1>3. PICK w : Route(Now, p, w)
  BY RouteExists
<1>4. PICK v : Route(Now', p, v)
  BY RouteExists
<1>5. Len(p) \in Nat /\ \A i \in 1 .. Len(p) : p[i] \in EntryName
  BY LenProperties, ElementOfSeq DEF Paths
<1>6. \A q \in Paths : Leading(q, p) => At(Now, q) = w[Len(q)] /\ At(Now', q) = v[Len(q)]
  BY <1>3, <1>4, RoutePrefix
<1>7. \A q \in Paths : Leading(q, p) =>
            (At(Now', q) # None => node'[At(Now', q)].stamp <= since)
  BY <1>1, StillMeans
<1> DEFINE T == {k \in Nat : k <= Len(p) =>
                /\ v[k] = w[k] /\ w[k] \in Node \cup {None}
                /\ w[k] # None => /\ node'[w[k]].stamp <= since
                                  /\ node'[w[k]] = node[w[k]]
                                  /\ entry'[w[k]] = entry[w[k]]}
<1>8. \A k \in 0 .. Len(p) : v[k] # None => node'[v[k]].stamp <= since
  <2> TAKE k \in 0 .. Len(p)
  <2>1. PICK q \in Paths : Leading(q, p) /\ Len(q) = k
    BY LeadingOfLength
  <2> QED BY <1>6, <1>7, <2>1
<1>9. 0 \in T
  <2>1. w[0] = Root /\ v[0] = Root
    BY <1>3, <1>4 DEF Route
  <2>2. 0 \in 0 .. Len(p)
    BY <1>5
  <2> QED BY <1>1, <1>2, <1>8, <2>1, <2>2
<1>10. ASSUME NEW k \in Nat, k \in T
       PROVE  k + 1 \in T
  <2>1. SUFFICES ASSUME k + 1 <= Len(p)
                 PROVE  /\ v[k + 1] = w[k + 1] /\ w[k + 1] \in Node \cup {None}
                        /\ w[k + 1] # None =>
                            /\ node'[w[k + 1]].stamp <= since
                            /\ node'[w[k + 1]] = node[w[k + 1]]
                            /\ entry'[w[k + 1]] = entry[w[k + 1]]
    OBVIOUS
  <2>2. /\ v[k] = w[k] /\ w[k] \in Node \cup {None}
        /\ w[k] # None => node'[w[k]] = node[w[k]] /\ entry'[w[k]] = entry[w[k]]
    BY <1>5, <1>10, <2>1
  <2>3. k + 1 \in 1 .. Len(p) /\ (k + 1) - 1 = k /\ k + 1 \in 0 .. Len(p)
    BY <1>5, <2>1
  <2>4. /\ w[k + 1] = Below(Now, w[k], p[k + 1])
        /\ v[k + 1] = Below(Now', v[k], p[k + 1])
    BY <1>3, <1>4, <2>3 DEF Route
  <2>5. v[k + 1] = w[k + 1]
    BY <1>1, <2>2, <2>4 DEF Below
  <2>6. w[k + 1] \in Node \cup {None}
    BY <1>1, <1>5, <2>2, <2>3, <2>4 DEF Below
  <2> QED BY <1>2, <1>8, <2>3, <2>5, <2>6
<1>11. Nat \subseteq T
  <2> HIDE DEF T
  <2> QED BY <1>9, <1>10, InductionOverNat
<1>12. \A k \in 0 .. Len(p) :
            /\ v[k] = w[k] /\ w[k] \in Node \cup {None}
            /\ w[k] # None => /\ node'[w[k]].stamp <= since
                              /\ node'[w[k]] = node[w[k]]
                              /\ entry'[w[k]] = entry[w[k]]
  BY <1>5, <1>11
<1>13. \A q \in Paths : Leading(q, p) => Len(q) \in 0 .. Len(p)
  BY LeadingPaths DEF Leading
<1>14. StillIn(Now, since, p)
  <2>1. \A q \in Paths : Leading(q, p) =>
            (At(Now, q) # None => node[At(Now, q)].stamp <= since)
    BY <1>6, <1>12, <1>13
  <2> QED BY <1>1, <2>1, StillMeans
<1>15. Leading(p, p) /\ Len(p) \in 0 .. Len(p)
  BY <1>5, LeadingPaths
<1>16. QED
  BY <1>6, <1>12, <1>14, <1>15
-----------------------------------------------------------------------------
(***************************************************************************)
(* What the inspection under way knows of what holds still: everything it  *)
(* has recorded is there as recorded, and everything there is recorded or  *)
(* still ahead.  (s: changes before it began.)                             *)
(***************************************************************************)
Placed(t, s, stack) ==
    \A i \in 1 .. Len(stack) : StillIn(t, s, stack[i].path) =>
        /\ At(t, stack[i].path) = stack[i].dir
        /\ t.node[stack[i].dir].type = "dir"

Faithful(t, s, entries, stamps) ==
    \A k \in 1 .. Len(entries) : StillIn(t, s, entries[k].path) =>
        /\ stamps[k].ino \in Node /\ At(t, entries[k].path) = stamps[k].ino
        /\ entries[k].type # "hardlink" =>
            /\ t.node[stamps[k].ino].type = entries[k].type
            /\ t.node[stamps[k].ino].data = entries[k].data

Reaches(q, p) == Leading(q, p) /\ Len(q) < Len(p)
Listed(stack, p) == \E i \in 1 .. Len(stack) :
    /\ Reaches(stack[i].path, p)
    /\ p[Len(stack[i].path) + 1] \in stack[i].todo
PlaceAtHand == Append(Top.path, scan.name)
Ahead(p) ==
    /\ pc \notin {"retain", "sealed"}
    /\ \/ Listed(scan.stack, p)
       \/ pc \in {"enter", "list"} /\ Reaches(Top.path, p)
       \/ pc \in AtEntry /\ Leading(PlaceAtHand, p)
Complete ==
    \A p \in Paths \ {<<>>} : StillIn(Now, since, p) /\ At(Now, p) # None =>
        \/ Ahead(p)
        \/ \E k \in 1 .. Len(scan.entries) : scan.entries[k].path = p

Kind(l) == CASE l \in {"read", "hashed", "hardlink"} -> "regular"
             [] l = "target" -> "symlink"
             [] OTHER -> l
SettledAtHand ==
    pc \in AtEntry /\ StillIn(Now, since, PlaceAtHand) =>
        /\ At(Now, PlaceAtHand) = scan.before.ino
        /\ node[scan.before.ino].type = Kind(pc)
        /\ pc \in {"dir", "fifo", "hashed", "target"} =>
            scan.read = node[scan.before.ino].data

Covered == /\ Placed(Now, since, scan.stack)
           /\ Faithful(Now, since, scan.entries, scan.stamps)
           /\ Complete
           /\ SettledAtHand
Covers == ~coarse /\ pc \in Inspects \cup {"sealed"} => Covered

LEMMA CoveredLater ==
  ASSUME TypeOK, ChangesTree, ~coarse, since <= changes, Covered,
         Len(scan.stamps) = Len(scan.entries)
  PROVE  Covered'
<1>1. /\ TreeOK /\ since \in Nat /\ since' = since /\ scan' = scan /\ pc' = pc
      /\ Now.node = node /\ Now'.node = node' /\ None \notin Node
  BY PayloadAssumption DEF TypeOK, ChangesTree, Now
<1>2. ASSUME NEW p \in Paths, StillIn(Now', since, p)
      PROVE  /\ StillIn(Now, since, p) /\ At(Now', p) = At(Now, p)
             /\ At(Now, p) \in Node \cup {None}
             /\ At(Now, p) # None => node'[At(Now, p)] = node[At(Now, p)]
  BY <1>1, <1>2, StillLater
<1>3. Placed(Now', since, scan.stack)
  <2> SUFFICES ASSUME NEW i \in 1 .. Len(scan.stack),
                      StillIn(Now', since, scan.stack[i].path)
               PROVE  /\ At(Now', scan.stack[i].path) = scan.stack[i].dir
                      /\ node'[scan.stack[i].dir].type = "dir"
    BY <1>1 DEF Placed
  <2>1. scan.stack[i] \in Frames
    BY TopShape, ElementOfSeq
  <2>2. scan.stack[i].path \in Paths /\ scan.stack[i].dir \in Node
    BY <2>1 DEF Frames, Paths
  <2>3. /\ At(Now, scan.stack[i].path) = scan.stack[i].dir
        /\ node[scan.stack[i].dir].type = "dir"
        /\ At(Now', scan.stack[i].path) = At(Now, scan.stack[i].path)
        /\ At(Now, scan.stack[i].path) # None =>
            node'[At(Now, scan.stack[i].path)] = node[At(Now, scan.stack[i].path)]
    BY <1>1, <1>2, <2>2 DEF Covered, Placed
  <2> QED BY <1>1, <2>2, <2>3
<1>4. Faithful(Now', since, scan.entries, scan.stamps)
  <2> SUFFICES ASSUME NEW k \in 1 .. Len(scan.entries),
                      StillIn(Now', since, scan.entries[k].path)
               PROVE  /\ scan.stamps[k].ino \in Node
                      /\ At(Now', scan.entries[k].path) = scan.stamps[k].ino
                      /\ scan.entries[k].type # "hardlink" =>
                          /\ node'[scan.stamps[k].ino].type = scan.entries[k].type
                          /\ node'[scan.stamps[k].ino].data = scan.entries[k].data
    BY <1>1 DEF Faithful
  <2>1. scan.entries[k] \in ManifestEntry
    BY TopShape, ElementOfSeq
  <2>2. scan.entries[k].path \in Paths
    BY <2>1 DEF ManifestEntry, Paths
  <2> QED BY <1>1, <1>2, <2>2 DEF Covered, Faithful
<1>5. Complete'
  <2>1. \A p : Ahead(p) => Ahead(p)'
    BY <1>1 DEF Ahead, PlaceAtHand, Top
  <2> SUFFICES ASSUME NEW p \in Paths \ {<<>>}, StillIn(Now', since, p),
                      At(Now', p) # None
               PROVE  \/ Ahead(p)'
                      \/ \E k \in 1 .. Len(scan.entries) : scan.entries[k].path = p
    BY <1>1 DEF Complete
  <2> QED BY <1>2, <2>1 DEF Covered, Complete
<1>6. SettledAtHand'
  <2>1. PlaceAtHand' = PlaceAtHand
    BY <1>1 DEF PlaceAtHand, Top
  <2>2. CASE pc \in AtEntry
    <3>1. PlaceAtHand \in Paths /\ scan.before.ino \in Node
      BY <2>2, TopShape, LeadingPaths DEF TypeOK, PlaceAtHand, Paths
    <3> QED BY <1>1, <1>2, <2>1, <3>1 DEF Covered, SettledAtHand
  <2>3. CASE pc \notin AtEntry
    BY <1>1, <2>3 DEF SettledAtHand
  <2> QED BY <2>2, <2>3
<1>7. QED
  BY <1>1, <1>3, <1>4, <1>5, <1>6 DEF Covered

\* A path that leads beyond q, or through the entry m of q.
LEMMA ReachesOn ==
  ASSUME NEW p \in Paths, NEW q \in Paths
  PROVE  /\ Reaches(q, p) => p[Len(q) + 1] \in EntryName
         /\ Leading(q, p) /\ ~Reaches(q, p) => q = p
<1>1. Len(q) \in Nat /\ Len(p) \in Nat
  BY LeadingPaths
<1>2. ASSUME Reaches(q, p)
      PROVE  p[Len(q) + 1] \in EntryName
  <2>1. Len(q) + 1 \in 1 .. Len(p)
    BY <1>1, <1>2 DEF Reaches
  <2> QED BY <2>1, ElementOfSeq DEF Paths
<1>3. ASSUME Leading(q, p), ~Reaches(q, p)
      PROVE  q = p
  <2>1. Len(q) = Len(p)
    BY <1>1, <1>3 DEF Leading, Reaches
  <2> QED BY <1>3, <2>1, SeqEqual DEF Paths, Leading
<1>4. QED
  BY <1>2, <1>3

LEMMA LeadingEntry ==
  ASSUME NEW p \in Paths, NEW q \in Paths, NEW m \in EntryName
  PROVE  Leading(Append(q, m), p) <=> Reaches(q, p) /\ p[Len(q) + 1] = m
<1> DEFINE a == Append(q, m)
<1>1. /\ Len(a) = Len(q) + 1 /\ a[Len(q) + 1] = m
      /\ \A i \in 1 .. Len(q) : a[i] = q[i]
      /\ Len(q) \in Nat /\ Len(p) \in Nat
  BY LeadingPaths
<1> HIDE DEF a
<1>2. ASSUME Leading(a, p)
      PROVE  Reaches(q, p) /\ p[Len(q) + 1] = m
  <2>1. Len(q) + 1 \in 1 .. Len(a) /\ \A i \in 1 .. Len(q) : i \in 1 .. Len(a)
    BY <1>1
  <2> QED BY <1>1, <1>2, <2>1 DEF Leading, Reaches
<1>3. ASSUME Reaches(q, p), p[Len(q) + 1] = m
      PROVE  Leading(a, p)
  <2>1. \A i \in 1 .. Len(a) : i \in 1 .. Len(q) \/ i = Len(q) + 1
    BY <1>1
  <2> QED BY <1>1, <1>3, <2>1 DEF Leading, Reaches
<1>4. QED
  BY <1>2, <1>3 DEF a

LEMMA TopPaths ==
  ASSUME TypeOK
  PROVE  /\ Top.path \in Paths /\ Len(Top.path) \in Nat
         /\ 1 \in 1 .. Len(scan.stack) /\ Top = scan.stack[1]
         /\ \A i \in 1 .. Len(scan.stack) :
                scan.stack[i].path \in Paths /\ scan.stack[i].dir \in Node
         /\ \A k \in 1 .. Len(scan.entries) : scan.entries[k].path \in Paths \ {<<>>}
         /\ pc \in AtEntry => /\ PlaceAtHand \in Paths \ {<<>>}
                              /\ Leading(Top.path, PlaceAtHand)
<1>1. Top.path \in Paths /\ 1 \in 1 .. Len(scan.stack) /\ Top = scan.stack[1]
  BY TopShape DEF Paths
<1>2. ASSUME NEW i \in 1 .. Len(scan.stack)
      PROVE  scan.stack[i].path \in Paths /\ scan.stack[i].dir \in Node
  <2>1. scan.stack[i] \in Frames
    BY TopShape, ElementOfSeq
  <2> QED BY <2>1 DEF Frames, Paths
<1>3. ASSUME NEW k \in 1 .. Len(scan.entries)
      PROVE  scan.entries[k].path \in Paths \ {<<>>}
  <2>1. scan.entries[k] \in ManifestEntry
    BY TopShape, ElementOfSeq
  <2> QED BY <2>1 DEF ManifestEntry, Paths
<1>4. pc \in AtEntry => PlaceAtHand \in Paths \ {<<>>} /\ Leading(Top.path, PlaceAtHand)
  BY <1>1, LeadingPaths DEF TypeOK, PlaceAtHand
<1>5. QED
  BY <1>1, <1>2, <1>3, <1>4, LeadingPaths

\* The directory on top of the stack, and the entry at hand, if they hold still.
LEMMA TopSettled ==
  ASSUME TypeOK, Placed(Now, since, scan.stack), NEW m \in EntryName,
         StillIn(Now, since, Append(Top.path, m))
  PROVE  /\ At(Now, Top.path) = Top.dir /\ node[Top.dir].type = "dir"
         /\ At(Now, Append(Top.path, m)) = entry[Top.dir][m]
<1>1. /\ Top.path \in Paths /\ 1 \in 1 .. Len(scan.stack) /\ Top = scan.stack[1]
      /\ Top.dir \in Node /\ None \notin Node
      /\ Now.node = node /\ Now.entry = entry
  BY TopPaths, TopShape, PayloadAssumption DEF Now
<1>2. StillIn(Now, since, Top.path)
  BY <1>1, LeadingPaths, StillLeading
<1>3. At(Now, Top.path) = Top.dir /\ node[Top.dir].type = "dir"
  BY <1>1, <1>2 DEF Placed
<1>4. At(Now, Append(Top.path, m)) = Below(Now, Top.dir, m)
  BY <1>1, <1>3, AtStep
<1>5. QED
  BY <1>1, <1>3, <1>4 DEF Below

LEMMA TopReplaced ==
  ASSUME TypeOK, NEW f \in Frames, f.dir = Top.dir, f.path = Top.path,
         NEW t, NEW s, Placed(t, s, scan.stack)
  PROVE  /\ Placed(t, s, OnTop(f))
         /\ \A p : \/ Listed(OnTop(f), p) \/ ~Listed(scan.stack, p)
                   \/ Reaches(Top.path, p) /\ p[Len(Top.path) + 1] \in Top.todo
         /\ \A p : Reaches(Top.path, p) /\ p[Len(Top.path) + 1] \in f.todo
                        => Listed(OnTop(f), p)
<1> DEFINE u == OnTop(f)
<1>1. /\ Len(u) = Len(scan.stack) /\ u[1] = f
      /\ \A i \in 2 .. Len(scan.stack) : u[i] = scan.stack[i]
      /\ Len(scan.stack) \in Nat /\ Len(scan.stack) >= 1 /\ Top = scan.stack[1]
  BY OnTopShape, TopShape
<1> HIDE DEF u
<1>2. \A i \in 1 .. Len(scan.stack) : i = 1 \/ i \in 2 .. Len(scan.stack)
  BY <1>1
<1>3. 1 \in 1 .. Len(u)
  BY <1>1
<1>4. Placed(t, s, u)
  BY <1>1, <1>2 DEF Placed
<1>5. \A p : Reaches(Top.path, p) /\ p[Len(Top.path) + 1] \in f.todo => Listed(u, p)
  BY <1>1, <1>3 DEF Listed
<1>6. ASSUME NEW p, Listed(scan.stack, p),
             ~(Reaches(Top.path, p) /\ p[Len(Top.path) + 1] \in Top.todo)
      PROVE  Listed(u, p)
  <2>1. PICK i \in 1 .. Len(scan.stack) :
            /\ Reaches(scan.stack[i].path, p)
            /\ p[Len(scan.stack[i].path) + 1] \in scan.stack[i].todo
    BY <1>6 DEF Listed
  <2>2. i \in 2 .. Len(scan.stack)
    BY <1>1, <1>2, <1>6, <2>1
  <2> QED BY <1>1, <2>1, <2>2 DEF Listed
<1>7. QED
  BY <1>4, <1>5, <1>6 DEF u
-----------------------------------------------------------------------------
LEMMA EnterCovers ==
  ASSUME TypeOK, Covered, Enter, UNCHANGED <<treeVars, since>>
  PROVE  Covered'
<1> DEFINE f == [Top EXCEPT !.before = Stat(Top.dir)]
<1>1. /\ pc = "enter" /\ pc' = "list" /\ pc' \notin AtEntry /\ pc \notin AtEntry
      /\ scan' = [scan EXCEPT !.stack = OnTop(f)]
  BY DEF Enter, AtEntry
<1>2. TreeOK /\ Now' = Now /\ since' = since
  BY TreeSame DEF TypeOK
<1>3. f \in Frames /\ f.dir = Top.dir /\ f.path = Top.path /\ f.todo = Top.todo
  BY <1>2, TopShape, StatShape DEF Frames
<1> HIDE DEF f
<1>4. scan'.stack = OnTop(f) /\ scan'.entries = scan.entries /\ scan'.stamps = scan.stamps
  BY <1>1, TopShape DEF Scans
<1>5. Top' = f
  BY <1>3, <1>4, OnTopShape, TopShape, Popped DEF Top
<1>6. Placed(Now, since, OnTop(f)) /\ \A p : Listed(scan.stack, p) => Listed(OnTop(f), p)
  BY <1>3, TopReplaced DEF Covered
<1>7. \A p : Ahead(p) => Ahead(p)'
  BY <1>1, <1>3, <1>4, <1>5, <1>6 DEF Ahead
<1>8. Complete'
  BY <1>2, <1>4, <1>7 DEF Covered, Complete
<1>9. QED
  BY <1>1, <1>2, <1>4, <1>6, <1>8 DEF Covered, SettledAtHand

LEMMA ListCovers ==
  ASSUME TypeOK, Covered, List, UNCHANGED <<treeVars, since>>
  PROVE  Covered'
<1> DEFINE names == {m \in EntryName : entry[Top.dir][m] # None}
           f == [Top EXCEPT !.todo = names]
<1>1. /\ pc = "list" /\ pc' = "next" /\ pc' \notin AtEntry /\ pc \notin AtEntry
      /\ scan' = [scan EXCEPT !.stack = OnTop(f)]
  BY DEF List, AtEntry
<1>2. TreeOK /\ Now' = Now /\ since' = since /\ Now.entry = entry
  BY TreeSame DEF TypeOK, Now
<1>3. f \in Frames /\ f.dir = Top.dir /\ f.path = Top.path /\ f.todo = names
  BY TopShape DEF Frames
<1> HIDE DEF f
<1>4. scan'.stack = OnTop(f) /\ scan'.entries = scan.entries /\ scan'.stamps = scan.stamps
  BY <1>1, TopShape DEF Scans
<1>5. Placed(Now, since, OnTop(f))
  BY <1>3, TopReplaced DEF Covered
<1>6. ASSUME NEW p \in Paths, StillIn(Now, since, p), At(Now, p) # None, Ahead(p)
      PROVE  Listed(OnTop(f), p)
  <2>1. CASE Reaches(Top.path, p)
    <3> DEFINE m == p[Len(Top.path) + 1]
    <3>1. m \in EntryName /\ Leading(Top.path, p) /\ Len(Top.path) < Len(p)
      BY <2>1, TopPaths, ReachesOn DEF Reaches
    <3>2. At(Now, Top.path) = Top.dir
      <4>1. StillIn(Now, since, Top.path)
        BY <1>6, <3>1, TopPaths, StillLeading
      <4> QED BY <4>1, TopPaths DEF Covered, Placed
    <3>3. entry[Top.dir][m] # None
      <4>1. Top.path \in Paths
        BY TopPaths
      <4>2. Now.entry[At(Now, Top.path)][p[Len(Top.path) + 1]] # None
        BY <1>6, <3>1, <4>1, AtWay
      <4> QED BY <1>2, <3>2, <4>2
    <3>4. m \in f.todo
      BY <1>3, <3>1, <3>3
    <3> QED BY <1>3, <2>1, <3>4, TopReplaced DEF Covered
  <2>2. CASE ~Reaches(Top.path, p)
    <3>1. Listed(scan.stack, p)
      BY <1>1, <1>6, <2>2 DEF Ahead
    <3> QED BY <1>3, <2>2, <3>1, TopReplaced DEF Covered
  <2> QED BY <2>1, <2>2
<1>7. Complete'
  <2>1. \A p : Listed(OnTop(f), p) => Ahead(p)'
    BY <1>1, <1>4 DEF Ahead
  <2> QED BY <1>2, <1>4, <1>6, <2>1 DEF Covered, Complete
<1>8. QED
  BY <1>1, <1>2, <1>4, <1>5, <1>7 DEF Covered, SettledAtHand

LEMMA VisitCovers ==
  ASSUME TypeOK, Covered, Visit, pc' # "failed", UNCHANGED <<treeVars, since>>
  PROVE  Covered'
<1> DEFINE name == Min(Top.todo)
           n == entry[Top.dir][name]
           f == [Top EXCEPT !.todo = @ \ {name}]
<1>1. /\ pc = "next" /\ Top.todo # {} /\ n # None /\ pc' = node[n].type
      /\ scan' = [scan EXCEPT !.name = name, !.before = Stat(n),
                              !.read = node[n].data, !.stack = OnTop(f)]
  BY DEF Visit, Throw
<1>2. TreeOK /\ Now' = Now /\ since' = since /\ node' = node
      /\ Now.entry = entry /\ Now.node = node
  BY TreeSame DEF TypeOK, Now, treeVars
<1>3. name \in Top.todo /\ name \in EntryName /\ Top.dir \in Node
  BY <1>1, TopShape, MinIsLeast, PayloadAssumption
<1>4. f \in Frames /\ f.dir = Top.dir /\ f.path = Top.path
      /\ f.todo = Top.todo \ {name}
  BY <1>3, TopShape DEF Frames
<1>5. n \in Node /\ node[n].type \in Type
  BY <1>1, <1>2, <1>3 DEF TreeOK
<1>6. pc' \in {"dir", "regular", "symlink", "fifo", "socket"} /\ Kind(pc') = node[n].type
  BY <1>1, <1>5 DEF Type, Kind
<1> HIDE DEF f
<1>7. /\ scan'.stack = OnTop(f) /\ scan'.entries = scan.entries
      /\ scan'.stamps = scan.stamps /\ scan'.name = name
      /\ scan'.before = Stat(n) /\ scan'.read = node[n].data
  BY <1>1, TopShape DEF Scans
<1>8. Top' = f
  BY <1>4, <1>7, OnTopShape, TopShape, Popped DEF Top
<1>9. PlaceAtHand' = Append(Top.path, name)
  BY <1>4, <1>7, <1>8 DEF PlaceAtHand
<1>10. Placed(Now, since, OnTop(f))
  BY <1>4, TopReplaced DEF Covered
<1> HIDE DEF n, name
<1>11. ASSUME NEW p \in Paths, Ahead(p)
       PROVE  Ahead(p)'
  <2>0. pc' \in AtEntry /\ pc' \notin {"retain", "sealed"}
    BY <1>6 DEF AtEntry
  <2>1. Listed(scan.stack, p)
    BY <1>1, <1>11 DEF Ahead, AtEntry
  <2>2. CASE Reaches(Top.path, p) /\ p[Len(Top.path) + 1] = name
    <3>1. Leading(Append(Top.path, name), p)
      BY <1>3, <2>2, TopPaths, LeadingEntry
    <3> QED BY <1>9, <2>0, <3>1 DEF Ahead
  <2>3. CASE ~(Reaches(Top.path, p) /\ p[Len(Top.path) + 1] = name)
    <3>1. Listed(OnTop(f), p)
      BY <1>4, <2>1, <2>3, TopReplaced DEF Covered
    <3> QED BY <1>7, <2>0, <3>1 DEF Ahead
  <2> QED BY <2>2, <2>3
<1>12. Complete'
  BY <1>2, <1>7, <1>11 DEF Covered, Complete
<1>13. SettledAtHand'
  <2> SUFFICES ASSUME StillIn(Now, since, Append(Top.path, name))
               PROVE  /\ At(Now, Append(Top.path, name)) = n
                      /\ node[n].type = Kind(pc')
    <3>1. Stat(n).ino = n
      BY DEF Stat
    <3> QED BY <1>2, <1>7, <1>9, <3>1 DEF SettledAtHand
  <2> QED BY <1>3, <1>6, TopSettled DEF n, Covered
<1>14. QED
  BY <1>2, <1>7, <1>10, <1>12, <1>13 DEF Covered

\* Steps on an entry that leave it unfinished.
LEMMA UnfinishedCovers ==
  ASSUME TypeOK, Covered, OpenRegular \/ ReadRegular \/ ReadLink,
         pc' # "failed", UNCHANGED <<treeVars, since>>
  PROVE  Covered'
<1>1. TreeOK /\ Now' = Now /\ since' = since /\ node' = node
      /\ Now.entry = entry /\ Now.node = node
  BY TreeSame DEF TypeOK, Now, treeVars
<1>2. /\ scan'.stack = scan.stack /\ scan'.entries = scan.entries
      /\ scan'.stamps = scan.stamps /\ scan'.name = scan.name
      /\ scan'.before = scan.before
  BY TopShape DEF OpenRegular, ReadRegular, ReadLink, Throw, Scans
<1>3. /\ pc \in {"regular", "read", "symlink"}
      /\ pc' \in {"hardlink", "read", "hashed", "target"} /\ Kind(pc') = Kind(pc)
  BY DEF OpenRegular, ReadRegular, ReadLink, Throw, Kind
<1>4. pc \in AtEntry /\ pc' \in AtEntry /\ pc' \notin {"retain", "sealed"}
  BY <1>3 DEF AtEntry
<1>5. Top' = Top /\ PlaceAtHand' = PlaceAtHand
  BY <1>2 DEF Top, PlaceAtHand
<1>6. \A p : Ahead(p) => Ahead(p)'
  BY <1>2, <1>3, <1>4, <1>5 DEF Ahead
<1>7. Complete'
  BY <1>1, <1>2, <1>6 DEF Covered, Complete
<1>8. SettledAtHand'
  <2> SUFFICES ASSUME StillIn(Now, since, PlaceAtHand)
               PROVE  /\ At(Now, PlaceAtHand) = scan.before.ino
                      /\ node[scan.before.ino].type = Kind(pc')
                      /\ pc' \in {"hashed", "target"} =>
                            scan'.read = node[scan.before.ino].data
    BY <1>1, <1>2, <1>3, <1>5 DEF SettledAtHand
  <2>1. /\ At(Now, PlaceAtHand) = scan.before.ino
        /\ node[scan.before.ino].type = Kind(pc')
    BY <1>3, <1>4 DEF Covered, SettledAtHand
  <2>2. CASE pc' = "hashed"
    <3>1. scan' = [scan EXCEPT !.read = node[scan.before.ino].data]
      BY <2>2 DEF OpenRegular, ReadRegular, ReadLink, Throw
    <3> QED BY <2>1, <2>2, <3>1, TopShape DEF Scans
  <2>3. CASE pc' = "target"
    <3>1. scan' = [scan EXCEPT !.read = node[Here].data]
      BY <2>3 DEF OpenRegular, ReadRegular, ReadLink, Throw
    <3>2. scan.name \in EntryName
      BY <1>4 DEF TypeOK
    <3>3. Here = scan.before.ino
      BY <2>1, <3>2, TopSettled DEF Here, PlaceAtHand, Covered
    <3> QED BY <2>1, <2>3, <3>1, <3>3, TopShape DEF Scans
  <2> QED BY <1>3, <2>1, <2>2, <2>3
<1>9. QED
  BY <1>1, <1>2, <1>7, <1>8 DEF Covered

\* One more entry that is true of the place at hand.
LEMMA FaithfulMore ==
  ASSUME TypeOK, Covered, pc \in AtEntry, Len(scan.stamps) = Len(scan.entries),
         NEW type \in Type \cup {"hardlink"}, NEW data \in Data \cup {None},
         NEW target \in Seq(EntryName),
         type \in {Kind(pc), "hardlink"},
         type # "hardlink" => /\ data = scan.read
                              /\ pc \in {"dir", "fifo", "hashed", "target"}
  PROVE  LET w == With(type, data, target) IN
         /\ Faithful(Now, since, w.entries, w.stamps)
         /\ Len(w.stamps) = Len(w.entries)
         /\ \A k \in 1 .. Len(scan.entries) :
                k \in 1 .. Len(w.entries) /\ w.entries[k] = scan.entries[k]
         /\ \E k \in 1 .. Len(w.entries) : w.entries[k].path = PlaceAtHand
<1> DEFINE e == [path |-> Append(Top.path, scan.name), type |-> type,
                 data |-> data, target |-> target]
           w == With(type, data, target)
<1>1. /\ e \in ManifestEntry
      /\ w.entries = Append(scan.entries, e)
      /\ w.stamps = Append(scan.stamps, scan.before)
  BY WithShape
<1>2. e.path = PlaceAtHand /\ e.type = type /\ e.data = data
  BY DEF PlaceAtHand
<1> DEFINE L == Len(scan.entries)
<1> HIDE DEF e, w
<1>3. /\ L \in Nat /\ Len(w.entries) = L + 1
      /\ w.entries[L + 1] = e
      /\ \A i \in 1 .. L : w.entries[i] = scan.entries[i]
  BY <1>1, TopShape, Appended
<1>4. /\ Len(w.stamps) = L + 1 /\ w.stamps[L + 1] = scan.before
      /\ \A i \in 1 .. L : w.stamps[i] = scan.stamps[i]
  BY <1>1, TopShape, Appended
<1>5. scan.before.ino \in Node /\ Now.node = node
  BY DEF TypeOK, Now
<1>6. Faithful(Now, since, w.entries, w.stamps)
  <2> SUFFICES ASSUME NEW k \in 1 .. L + 1, StillIn(Now, since, w.entries[k].path)
               PROVE  /\ w.stamps[k].ino \in Node
                      /\ At(Now, w.entries[k].path) = w.stamps[k].ino
                      /\ w.entries[k].type # "hardlink" =>
                          /\ node[w.stamps[k].ino].type = w.entries[k].type
                          /\ node[w.stamps[k].ino].data = w.entries[k].data
    BY <1>3, <1>5 DEF Faithful
  <2>1. CASE k = L + 1
    BY <1>2, <1>3, <1>4, <1>5, <2>1 DEF Covered, SettledAtHand
  <2>2. CASE k \in 1 .. L
    BY <1>3, <1>4, <1>5, <2>2 DEF Covered, Faithful
  <2> QED BY <1>3, <2>1, <2>2
<1>7. L + 1 \in 1 .. Len(w.entries) /\ \A k \in 1 .. L : k \in 1 .. Len(w.entries)
  BY <1>3
<1>8. \E k \in 1 .. Len(w.entries) : w.entries[k].path = PlaceAtHand
  BY <1>2, <1>3, <1>7
<1>9. QED
  BY <1>3, <1>4, <1>6, <1>7, <1>8 DEF w

LEMMA FinishCovers ==
  ASSUME TypeOK, Covered, Len(scan.stamps) = Len(scan.entries),
         HardLink \/ HashRegular \/ CheckLink \/ Special,
         pc' # "failed", UNCHANGED <<treeVars, since>>
  PROVE  Covered'
<1>1. Now' = Now /\ since' = since /\ Now.node = node
  BY TreeSame DEF TypeOK, Now
<1>2. /\ pc \in {"hardlink", "hashed", "target", "fifo"} /\ pc' = "next"
      /\ Kind(pc) \in {"regular", "symlink", "fifo"}
  BY DEF HardLink, HashRegular, CheckLink, Special, Finish, Throw, Kind
<1>3. pc \in AtEntry /\ pc' \notin AtEntry /\ pc' \notin {"retain", "sealed"}
  BY <1>2 DEF AtEntry
<1>4. PICK type \in Type \cup {"hardlink"}, data \in Data \cup {None},
           target \in Seq(EntryName) :
        /\ scan' = With(type, data, target)
        /\ type \in {Kind(pc), "hardlink"}
        /\ type # "hardlink" => /\ data = scan.read
                                /\ pc \in {"dir", "fifo", "hashed", "target"}
  <2>1. /\ <<>> \in Seq(EntryName) /\ None \in Data \cup {None}
        /\ scan.read \in Data \cup {None}
        /\ {"regular", "symlink", "fifo", "hardlink"} \subseteq Type \cup {"hardlink"}
    BY EmptySeq, TopShape DEF Type
  <2>2. CASE HardLink
    <3>1. scan.targets[scan.before.ino] \in Seq(EntryName)
      BY <1>3, TopShape DEF TypeOK
    <3> QED BY <1>2, <2>1, <2>2, <3>1 DEF HardLink, Finish, Throw
  <2>3. CASE HashRegular
    <3>1. Kind(pc) = "regular" /\ pc = "hashed"
      BY <2>3 DEF HashRegular, Kind
    <3> QED BY <1>2, <2>1, <2>3, <3>1 DEF HashRegular, Finish, Throw
  <2>4. CASE CheckLink
    <3>1. Kind(pc) = "symlink" /\ pc = "target"
      BY <2>4 DEF CheckLink, Kind
    <3> QED BY <1>2, <2>1, <2>4, <3>1 DEF CheckLink, Finish, Throw
  <2>5. CASE Special
    <3>1. Kind(pc) = "fifo" /\ pc = "fifo"
      BY <1>2, <2>5 DEF Special, Kind
    <3> QED BY <1>2, <2>1, <2>5, <3>1 DEF Special, Finish, Throw
  <2> QED BY <2>2, <2>3, <2>4, <2>5
<1>5. scan'.stack = scan.stack
  BY <1>3, <1>4, WithShape
<1>6. /\ Faithful(Now, since, scan'.entries, scan'.stamps)
      /\ \A k \in 1 .. Len(scan.entries) :
            k \in 1 .. Len(scan'.entries) /\ scan'.entries[k] = scan.entries[k]
      /\ \E k \in 1 .. Len(scan'.entries) : scan'.entries[k].path = PlaceAtHand
  <2> DEFINE w == With(type, data, target)
  <2>1. /\ Faithful(Now, since, w.entries, w.stamps)
        /\ \A k \in 1 .. Len(scan.entries) :
              k \in 1 .. Len(w.entries) /\ w.entries[k] = scan.entries[k]
        /\ \E k \in 1 .. Len(w.entries) : w.entries[k].path = PlaceAtHand
    BY <1>3, <1>4, FaithfulMore
  <2> HIDE DEF w
  <2>2. scan' = w
    BY <1>4 DEF w
  <2> QED BY <2>1, <2>2
<1>7. ASSUME NEW p \in Paths, StillIn(Now, since, p), At(Now, p) # None, Ahead(p)
      PROVE  Ahead(p)' \/ p = PlaceAtHand
  <2>1. CASE Leading(PlaceAtHand, p) /\ p # PlaceAtHand
    <3>1. PlaceAtHand \in Paths
      BY <1>3, TopPaths
    <3>2. Len(PlaceAtHand) < Len(p)
      BY <2>1, <3>1, ReachesOn DEF Reaches
    <3>3. node[At(Now, PlaceAtHand)].type = "dir"
      BY <1>1, <1>7, <2>1, <3>1, <3>2, AtWay
    <3>4. node[At(Now, PlaceAtHand)].type = Kind(pc)
      <4>1. StillIn(Now, since, PlaceAtHand)
        BY <1>7, <2>1, <3>1, StillLeading
      <4> QED BY <1>3, <4>1 DEF Covered, SettledAtHand
    <3> QED BY <1>2, <3>3, <3>4
  <2>2. CASE Listed(scan.stack, p)
    BY <1>3, <1>5, <2>2 DEF Ahead
  <2> QED BY <1>2, <1>7, <2>1, <2>2 DEF Ahead
<1>8. Complete'
  BY <1>1, <1>6, <1>7 DEF Covered, Complete
<1>9. QED
  BY <1>1, <1>3, <1>5, <1>6, <1>8 DEF Covered, SettledAtHand

LEMMA OpenDirCovers ==
  ASSUME TypeOK, Covered, Len(scan.stamps) = Len(scan.entries), OpenDir,
         pc' # "failed", UNCHANGED <<treeVars, since>>
  PROVE  Covered'
<1> DEFINE f == Frame(scan.before.ino, PlaceAtHand, scan.before)
           w == With("dir", scan.read, <<>>)
           u == <<f>> \o scan.stack
<1>1. /\ pc = "dir" /\ pc' = "enter" /\ scan' = [w EXCEPT !.stack = <<f>> \o @]
  BY DEF OpenDir, Throw, PlaceAtHand
<1>2. Now' = Now /\ since' = since /\ Now.node = node
  BY TreeSame DEF TypeOK, Now
<1>3. pc \in AtEntry /\ pc' \notin AtEntry /\ Kind(pc) = "dir"
  BY <1>1 DEF AtEntry, Kind
<1>4. /\ PlaceAtHand \in Paths /\ scan.before.ino \in Node
      /\ scan.stack \in Seq(Frames) /\ Len(scan.stack) \in Nat
  BY <1>3, TopPaths, TopShape DEF TypeOK
<1>5. f \in Frames /\ f.dir = scan.before.ino /\ f.path = PlaceAtHand
  BY <1>4, FrameShape, TopShape DEF Paths
<1>6. /\ <<>> \in Seq(EntryName) /\ "dir" \in Type \cup {"hardlink"}
      /\ scan.read \in Data \cup {None}
  BY EmptySeq, TopShape DEF Type
<1>7. w \in Scans /\ w.stack = scan.stack
  BY <1>3, <1>6, WithShape
<1>8. /\ Faithful(Now, since, w.entries, w.stamps)
      /\ \A k \in 1 .. Len(scan.entries) :
            k \in 1 .. Len(w.entries) /\ w.entries[k] = scan.entries[k]
      /\ \E k \in 1 .. Len(w.entries) : w.entries[k].path = PlaceAtHand
  BY <1>1, <1>3, <1>6, FaithfulMore
<1> HIDE DEF w, f
<1>9. /\ scan'.stack = u /\ scan'.entries = w.entries /\ scan'.stamps = w.stamps
  BY <1>1, <1>7 DEF Scans
<1>10. /\ Len(u) = Len(scan.stack) + 1 /\ u[1] = f /\ u \in Seq(Frames)
       /\ \A i \in 1 .. Len(scan.stack) : u[i + 1] = scan.stack[i]
  BY <1>4, <1>5, Pushed
<1> HIDE DEF u
<1>11. Top' = f
  BY <1>4, <1>9, <1>10, Popped DEF Top
<1>12. \A i \in 1 .. Len(u) : i = 1 \/ \E j \in 1 .. Len(scan.stack) : i = j + 1
  <2> TAKE i \in 1 .. Len(u)
  <2>1. i = 1 \/ (i - 1 \in 1 .. Len(scan.stack) /\ i = (i - 1) + 1)
    BY <1>4, <1>10
  <2> QED BY <2>1
<1>13. Placed(Now, since, u)
  <2> SUFFICES ASSUME NEW i \in 1 .. Len(u), StillIn(Now, since, u[i].path)
               PROVE  /\ At(Now, u[i].path) = u[i].dir
                      /\ node[u[i].dir].type = "dir"
    BY <1>2 DEF Placed
  <2>1. CASE i = 1
    BY <1>3, <1>5, <1>10, <2>1 DEF Covered, SettledAtHand
  <2>2. CASE i # 1
    <3>1. PICK j \in 1 .. Len(scan.stack) : i = j + 1
      BY <1>12, <2>2
    <3> QED BY <1>2, <1>10, <3>1 DEF Covered, Placed
  <2> QED BY <2>1, <2>2
<1>14. ASSUME NEW p \in Paths, Ahead(p)
       PROVE  Ahead(p)' \/ p = PlaceAtHand
  <2>1. CASE Leading(PlaceAtHand, p) /\ p # PlaceAtHand
    <3>1. Reaches(PlaceAtHand, p)
      BY <1>4, <2>1, ReachesOn
    <3> QED BY <1>1, <1>5, <1>11, <3>1 DEF Ahead
  <2>2. CASE Listed(scan.stack, p)
    <3>1. PICK i \in 1 .. Len(scan.stack) :
            /\ Reaches(scan.stack[i].path, p)
            /\ p[Len(scan.stack[i].path) + 1] \in scan.stack[i].todo
      BY <2>2 DEF Listed
    <3>2. i + 1 \in 1 .. Len(u) /\ u[i + 1] = scan.stack[i]
      BY <1>4, <1>10
    <3>3. Listed(u, p)
      BY <3>1, <3>2 DEF Listed
    <3> QED BY <1>1, <1>9, <3>3 DEF Ahead
  <2> QED BY <1>1, <1>14, <2>1, <2>2 DEF Ahead
<1>15. Complete'
  BY <1>2, <1>8, <1>9, <1>14 DEF Covered, Complete
<1>16. QED
  BY <1>2, <1>3, <1>8, <1>9, <1>13, <1>15 DEF Covered, SettledAtHand

LEMMA LeaveDirCovers ==
  ASSUME TypeOK, Covered, LeaveDir, pc' # "failed", UNCHANGED <<treeVars, since>>
  PROVE  Covered'
<1>1. /\ pc = "next" /\ Top.todo = {} /\ pc \notin AtEntry /\ pc' \notin AtEntry
      /\ Now' = Now /\ since' = since
  BY TreeSame DEF LeaveDir, Throw, AtEntry, TypeOK
<1>2. /\ scan.stack \in Seq(Frames) /\ Len(scan.stack) \in Nat
      /\ Len(scan.stack) >= 1 /\ Top = scan.stack[1]
  BY TopShape
<1>3. SettledAtHand'
  BY <1>1 DEF SettledAtHand
<1>4. \A p : Ahead(p) => \E i \in 2 .. Len(scan.stack) :
            /\ Reaches(scan.stack[i].path, p)
            /\ p[Len(scan.stack[i].path) + 1] \in scan.stack[i].todo
  <2>1. \A i \in 1 .. Len(scan.stack) : i = 1 \/ i \in 2 .. Len(scan.stack)
    BY <1>2
  <2> QED BY <1>1, <1>2, <2>1 DEF Ahead, Listed
<1>5. CASE Len(scan.stack) > 1
  <2> DEFINE u == Tail(scan.stack)
  <2>1. pc' = pc /\ scan' = [scan EXCEPT !.stack = u]
    <3>1. Len(scan.stack) # 1
      <4>1. \A k : k = 1 => ~(k > 1)
        OBVIOUS
      <4> QED BY <1>5, <4>1
    <3> QED BY <3>1 DEF LeaveDir, Throw
  <2>2. /\ scan'.stack = u /\ scan'.entries = scan.entries
        /\ scan'.stamps = scan.stamps
    BY <2>1, TopShape DEF Scans
  <2>3. /\ Len(u) = Len(scan.stack) - 1
        /\ \A i \in 1 .. Len(scan.stack) - 1 : u[i] = scan.stack[i + 1]
    BY <1>2, Popped
  <2> HIDE DEF u
  <2>4. Placed(Now, since, u)
    <3>1. \A i \in 1 .. Len(u) : /\ i + 1 \in 1 .. Len(scan.stack)
                                 /\ u[i] = scan.stack[i + 1]
      BY <1>2, <2>3
    <3> QED BY <3>1 DEF Covered, Placed
  <2>5. ASSUME NEW p, Ahead(p)
        PROVE  Ahead(p)'
    <3>1. PICK i \in 2 .. Len(scan.stack) :
            /\ Reaches(scan.stack[i].path, p)
            /\ p[Len(scan.stack[i].path) + 1] \in scan.stack[i].todo
      BY <1>4, <2>5
    <3>2. i - 1 \in 1 .. Len(u) /\ i - 1 \in 1 .. Len(scan.stack) - 1
          /\ (i - 1) + 1 = i
      BY <1>2, <2>3
    <3>3. u[i - 1] = scan.stack[i]
      BY <2>3, <3>2
    <3>4. Listed(u, p)
      BY <3>1, <3>2, <3>3 DEF Listed
    <3> QED BY <1>1, <2>1, <2>2, <3>4 DEF Ahead
  <2>6. Complete'
    BY <1>1, <2>2, <2>5 DEF Covered, Complete
  <2> QED BY <1>1, <1>3, <2>2, <2>4, <2>6 DEF Covered
<1>6. CASE ~(Len(scan.stack) > 1)
  <2>1. scan' = scan /\ pc' = "retain"
    BY <1>2, <1>6 DEF LeaveDir, Throw
  <2>2. \A p : ~Ahead(p)
    BY <1>2, <1>4, <1>6
  <2>3. Complete'
    BY <1>1, <2>1, <2>2 DEF Covered, Complete
  <2> QED BY <1>1, <1>3, <2>1, <2>3 DEF Covered
<1>7. QED
  BY <1>5, <1>6

\* The inspection that begins.
LEMMA FreshIsCovered ==
  ASSUME TreeOK, scan = FreshScan, pc = "enter"
  PROVE  Covered
<1>1. /\ Len(FreshScan.stack) = 1 /\ FreshScan.stack[1].dir = Root
      /\ FreshScan.stack[1].path = <<>> /\ Len(FreshScan.entries) = 0
  <2>1. FreshScan.entries = <<>> /\ Len(<<>>) = 0
    BY FreshShape
  <2> QED BY <2>1, FreshShape
<1>2. Now.node = node /\ node[Root].type = "dir"
  BY DEF Now, TreeOK
<1>3. Placed(Now, since, FreshScan.stack)
  <2>1. \A i \in 1 .. Len(FreshScan.stack) : i = 1
    BY <1>1
  <2> QED BY <1>1, <1>2, <2>1, AtRoot DEF Placed
<1>4. Faithful(Now, since, FreshScan.entries, FreshScan.stamps)
  BY <1>1 DEF Faithful
<1>5. Top = FreshScan.stack[1]
  <2>1. FreshScan.stack \in Seq(Frames)
    BY FreshShape DEF Scans
  <2>2. Head(FreshScan.stack) = FreshScan.stack[1]
    BY <1>1, <2>1, Popped
  <2> QED BY <2>2 DEF Top
<1>6. \A p \in Paths \ {<<>>} : Reaches(<<>>, p)
  BY LeadingPaths, ReachesOn
<1>7. \A p \in Paths \ {<<>>} : Ahead(p)
  BY <1>1, <1>5, <1>6 DEF Ahead
<1>8. Complete
  BY <1>7 DEF Complete
<1>9. SettledAtHand
  BY DEF SettledAtHand, AtEntry
<1>10. QED
  BY <1>3, <1>4, <1>8, <1>9 DEF Covered

LEMMA FreshCovers ==
  (TreeOK /\ scan = FreshScan /\ pc = "enter")' => Covered'
<1>1. (TreeOK /\ scan = FreshScan /\ pc = "enter") => Covered
  BY FreshIsCovered
<1>2. QED
  BY <1>1, PTL

-----------------------------------------------------------------------------
Ends == /\ since <= changes
        /\ pc = "sealed" => scan.entries = payload.entries
        /\ Covers

LEMMA StepCovers ==
  ASSUME Inv, Ends, [Next]_vars
  PROVE  Ends'
<1>1. TypeOK /\ Archived /\ TreeOK /\ since \in Nat /\ changes \in Nat
  BY DEF Inv, TypeOK, TreeOK
<1>2. ASSUME ~coarse, pc # "failed"
      PROVE  /\ Linked(scan.entries, scan.stamps)
             /\ Len(scan.stamps) = Len(scan.entries)
  BY <1>2 DEF Inv, Files, Recorded
<1>3. CASE Sealer
  <2>1. /\ UNCHANGED <<treeVars, since>> /\ pc # "failed" /\ pc # "sealed"
    BY <1>3 DEF Sealer, Inspecting, Encoding, Enter, List, Visit, OpenDir,
                LeaveDir, OpenRegular, HardLink, ReadRegular, HashRegular,
                ReadLink, CheckLink, Special, Retain, Reopen, Encode, Beneath,
                Copy, CopyCheck
  <2>2. since' <= changes' /\ coarse' = coarse
    BY <2>1 DEF Ends, treeVars
  <2>3. CASE Inspecting /\ ~Retain
    <3>1. Inspection
      BY <1>1, <2>1, <2>3, InspectingTyped
    <3>2. pc \in Inspects /\ pc' \in Inspects \cup {"failed"} /\ pc' # "sealed"
      BY <3>1 DEF Inspection, Inspects, AtEntry
    <3>3. ASSUME ~coarse, pc' # "failed"
          PROVE  Covered'
      <4>1. Covered /\ Len(scan.stamps) = Len(scan.entries)
        BY <1>2, <2>1, <3>2, <3>3 DEF Ends, Covers
      <4> QED BY <1>1, <2>1, <2>3, <3>3, <4>1, EnterCovers, ListCovers,
                 VisitCovers, UnfinishedCovers, FinishCovers, OpenDirCovers,
                 LeaveDirCovers DEF Inspecting
    <3>4. Covers'
      BY <2>2, <3>2, <3>3 DEF Covers, Inspects, AtEntry
    <3> QED BY <2>2, <3>2, <3>4 DEF Ends
  <2>4. CASE Retain
    <3>1. pc = "retain" /\ scan' = scan /\ pc' \in {"reopen", "sealed", "failed"}
          /\ (pc' = "sealed" => scan'.entries = payload'.entries)
      <4>1. CASE payload.entries = <<>>
        BY <2>4, <4>1 DEF Retain
      <4>2. CASE payload.entries # <<>>
        BY <2>4, <4>2 DEF Retain, SamePayload
      <4> QED BY <4>1, <4>2
    <3>2. pc' # "retain" /\ (pc' = "sealed" \/ pc' \notin Inspects \cup {"sealed"})
      BY <3>1 DEF Inspects, AtEntry
    <3>3. ASSUME ~coarse, pc' = "sealed"
          PROVE  Covered'
      <4>1. Covered
        BY <3>1, <3>3 DEF Ends, Covers, Inspects
      <4>2. Now' = Now /\ since' = since
        BY <1>1, <2>1, TreeSame
      <4>3. Complete'
        <5>1. \A p : ~Ahead(p)
          BY <3>1 DEF Ahead
        <5> QED BY <3>1, <4>1, <4>2, <5>1 DEF Covered, Complete
      <4>4. SettledAtHand'
        BY <3>3 DEF SettledAtHand, AtEntry
      <4> QED BY <3>1, <4>1, <4>2, <4>3, <4>4 DEF Covered
    <3>4. Covers'
      BY <2>2, <3>2, <3>3 DEF Covers
    <3> QED BY <2>2, <3>1, <3>4 DEF Ends
  <2>5. CASE Encoding
    <3>1. Encoded
      BY <1>1, <2>1, <2>5, EncodingTyped
    <3>2. pc' \notin Inspects \cup {"sealed"}
      BY <3>1 DEF Encoded, Encodes, Inspects, AtEntry
    <3> QED BY <2>2, <3>2 DEF Ends, Covers
  <2> QED BY <1>3, <2>3, <2>4, <2>5 DEF Sealer
<1>4. CASE EncodeEnd
  <2>1. TreeOK' /\ changes' = changes
    BY <1>1, <1>4, TreeSame DEF EncodeEnd, treeVars
  <2>2. CASE Throw
    <3>1. pc' = "failed" /\ since' = since
      BY <1>4, <2>2 DEF EncodeEnd, Throw
    <3> QED BY <2>1, <3>1 DEF Ends, Covers, Inspects, AtEntry
  <2>3. CASE ~Throw
    <3>1. pc' = "enter" /\ since' = changes /\ scan' = FreshScan
      BY <1>4, <2>3 DEF EncodeEnd
    <3>2. Covered'
      BY <2>1, <3>1, FreshCovers
    <3> QED BY <1>1, <2>1, <3>1, <3>2 DEF Ends, Covers
  <2> QED BY <2>2, <2>3
<1>5. CASE Alter \/ Put \/ Detach \/ Join \/ Move
  <2>1. ChangesTree
    BY <1>1, <1>5, TreeChanges
  <2>2. /\ since' <= changes' /\ coarse' = coarse /\ pc' = pc
        /\ scan' = scan /\ payload' = payload
    BY <1>1, <2>1 DEF ChangesTree, Ends
  <2>3. ASSUME ~coarse, pc \in Inspects \cup {"sealed"}
        PROVE  Covered'
    <3>1. pc # "failed"
      BY <2>3 DEF Inspects, AtEntry
    <3> QED BY <1>1, <1>2, <2>1, <2>3, <3>1, CoveredLater DEF Ends, Covers
  <2> QED BY <2>2, <2>3 DEF Ends, Covers
<1>6. CASE UNCHANGED vars
  <2>1. UNCHANGED <<treeVars, since, pc, scan, payload>>
    BY <1>6 DEF vars
  <2>2. Now' = Now /\ coarse' = coarse /\ changes' = changes /\ node' = node
    BY <1>1, <2>1, TreeSame DEF treeVars
  <2>3. \A p : Ahead(p)' <=> Ahead(p)
    BY <2>1 DEF Ahead, PlaceAtHand, Top
  <2>4. Complete' <=> Complete
    BY <2>1, <2>2, <2>3 DEF Complete
  <2>5. SettledAtHand' <=> SettledAtHand
    BY <2>1, <2>2 DEF SettledAtHand, PlaceAtHand, Top
  <2>6. Covered' <=> Covered
    BY <2>1, <2>2, <2>4, <2>5 DEF Covered
  <2> QED BY <2>1, <2>2, <2>6 DEF Ends, Covers
<1>7. QED
  BY <1>3, <1>4, <1>5, <1>6 DEF Next, Done

\* The manifest that is sealed agrees with what holds still.
LEMMA SettledAgrees ==
  ASSUME Inv, Ends
  PROVE  SettledPartAgrees
<1> SUFFICES ASSUME pc = "sealed", ~coarse, NEW path \in Path, Still(path)
             PROVE  LET found == {e \in ToSet(payload.entries) : e.path = path} IN
                    /\ At(Now, path) # None <=> found # {}
                    /\ \A e \in found :
                        (e.type = "hardlink" => Still(e.target)) => Shows(Now, e)
  BY DEF SettledPartAgrees, Now
<1>1. /\ Covered /\ scan.entries = payload.entries
      /\ Linked(scan.entries, scan.stamps)
      /\ TypeOK /\ None \notin Node /\ Now.node = node
  BY PayloadAssumption DEF Ends, Covers, Inv, Files, Recorded, Now
<1>2. path \in Paths \ {<<>>}
  <2>1. PICK k \in 1 .. 3 : path \in [1 .. k -> EntryName]
    BY DEF Path
  <2>2. path \in Seq(EntryName) /\ Len(path) = k
    BY <2>1, FunctionIsSeq
  <2> QED BY <2>2 DEF Paths
<1>3. \A p : Still(p) <=> StillIn(Now, since, p)
  BY DEF Still, StillIn, Now
<1>4. DOMAIN scan.entries = 1 .. Len(scan.entries)
  BY <1>1, TopShape, LenProperties
<1>5. \A e : e \in ToSet(payload.entries) <=>
            \E k \in 1 .. Len(scan.entries) : e = scan.entries[k]
  BY <1>1, <1>4 DEF ToSet
<1>6. ASSUME At(Now, path) # None
      PROVE  \E e \in ToSet(payload.entries) : e.path = path
  <2>1. ~Ahead(path)
    BY DEF Ahead
  <2>2. PICK k \in 1 .. Len(scan.entries) : scan.entries[k].path = path
    BY <1>1, <1>2, <1>3, <1>6, <2>1 DEF Covered, Complete
  <2> QED BY <1>5, <2>2
<1>7. ASSUME NEW e \in ToSet(payload.entries), e.path = path
      PROVE  /\ At(Now, path) # None
             /\ (e.type = "hardlink" => Still(e.target)) => Shows(Now, e)
  <2>1. PICK k \in 1 .. Len(scan.entries) : e = scan.entries[k]
    BY <1>5
  <2> DEFINE n == scan.stamps[k].ino
  <2>2. /\ n \in Node /\ At(Now, path) = n
        /\ e.type # "hardlink" => node[n].type = e.type /\ node[n].data = e.data
    BY <1>1, <1>3, <1>7, <2>1 DEF Covered, Faithful
  <2>3. ASSUME e.type = "hardlink", Still(e.target)
        PROVE  Shows(Now, e)
    <3>1. PICK j \in 1 .. Len(scan.entries) :
            scan.entries[j].path = e.target /\ scan.stamps[j].ino = n
      BY <1>1, <2>1, <2>3 DEF Linked, Targets
    <3>2. At(Now, e.target) = n
      BY <1>1, <1>3, <2>3, <3>1 DEF Covered, Faithful
    <3> QED BY <1>1, <1>7, <2>2, <2>3, <3>2 DEF Shows
  <2>4. ASSUME e.type # "hardlink"
        PROVE  Shows(Now, e)
    BY <1>1, <1>7, <2>2, <2>4 DEF Shows
  <2> QED BY <1>1, <2>2, <2>3, <2>4
<1>8. QED
  BY <1>6, <1>7

(***************************************************************************)
(* What holds still from the second inspection on is in the sealed         *)
(* manifest exactly as it is: inspect_payload(), run again after the       *)
(* archive was written, neither leaves out what has come into the tree     *)
(* meanwhile nor keeps what has gone, however deep, as long as stamps      *)
(* tell changes apart.                                                     *)
(***************************************************************************)
THEOREM SettledPayloadAgrees == Spec => []SettledPartAgrees
<1>1. Init => Inv /\ Ends
  <2> SUFFICES ASSUME Init
               PROVE  Inv /\ Ends
    OBVIOUS
  <2>1. Inv
    BY InitTyped, InitFiles DEF Inv
  <2>2. /\ scan = FreshScan /\ pc = "enter" /\ since = 0 /\ TreeOK
    BY <2>1 DEF Init, Inv, TypeOK
  <2>3. Covered
    BY <2>2, FreshIsCovered
  <2>4. since <= changes
    BY <2>2 DEF TreeOK
  <2> QED BY <2>1, <2>2, <2>3, <2>4 DEF Ends, Covers
<1>2. Inv /\ Ends /\ [Next]_vars => Inv' /\ Ends'
  BY StepKeepsInv, StepCovers
<1>3. Inv /\ Ends => SettledPartAgrees
  BY SettledAgrees
<1>4. QED
  BY <1>1, <1>2, <1>3, PTL DEF Spec

-----------------------------------------------------------------------------
(***************************************************************************)
(* Trees that nobody touches.  Onward(t, p, s): the inspection s of the    *)
(* tree t, whose next system call is p, after that call.                   *)
(***************************************************************************)
StatIn(t, n) ==
    [ino |-> n, type |-> t.node[n].type, stamp |-> t.node[n].stamp,
     links |-> Cardinality({l \in Node \X EntryName :
                                t.entry[l[1]][l[2]] = n})]
NamesIn(t, n) == {m \in EntryName : t.entry[n][m] # None}

OnTopOf(s, frame) == [s EXCEPT !.stack = <<frame>> \o Tail(s.stack)]
PlaceIn(s) == Append(Head(s.stack).path, s.name)
More(s, type, data, target) ==
    [s EXCEPT !.entries = Append(@, [path |-> PlaceIn(s), type |-> type,
                                     data |-> data, target |-> target]),
              !.stamps = Append(@, s.before)]

Turned(t, s) ==
    LET top == Head(s.stack)
        name == Min(top.todo)
        n == t.entry[top.dir][name]
    IN [OnTopOf(s, [top EXCEPT !.todo = @ \ {name}]) EXCEPT
            !.name = name, !.before = StatIn(t, n), !.read = t.node[n].data]
Descended(s) ==
    [More(s, "dir", s.read, <<>>) EXCEPT
        !.stack = <<Frame(s.before.ino, PlaceIn(s), s.before)>> \o @]

Onward(t, p, s) ==
    LET top == Head(s.stack)
        ino == s.before.ino
        known == s.before.links > 1 /\ s.targets[ino] # <<>>
        step(q, r) == [pc |-> q, scan |-> r]
    IN
    CASE p = "enter" ->
            step("list", OnTopOf(s, [top EXCEPT !.before = StatIn(t, top.dir)]))
      [] p = "list" ->
            step("next", OnTopOf(s, [top EXCEPT !.todo = NamesIn(t, top.dir)]))
      [] p = "next" ->
            IF top.todo # {}
            THEN step(t.node[t.entry[top.dir][Min(top.todo)]].type, Turned(t, s))
            ELSE IF Len(s.stack) > 1
                 THEN step("next", [s EXCEPT !.stack = Tail(@)])
                 ELSE step("retain", s)
      [] p = "dir" -> step("enter", Descended(s))
      [] p = "regular" ->
            IF known THEN step("hardlink", s)
            ELSE step("read", IF s.before.links > 1
                              THEN [s EXCEPT !.targets[ino] = PlaceIn(s)] ELSE s)
      [] p = "hardlink" -> step("next", More(s, "hardlink", None, s.targets[ino]))
      [] p = "read" -> step("hashed", [s EXCEPT !.read = t.node[ino].data])
      [] p = "hashed" -> step("next", More(s, "regular", s.read, <<>>))
      [] p = "symlink" -> step("target", [s EXCEPT !.read = t.node[ino].data])
      [] p = "target" -> step("next", More(s, "symlink", s.read, <<>>))
      [] p = "fifo" -> step("next", More(s, "fifo", s.read, <<>>))

\* h is an inspection from its beginning, n calls long.
Run(t, h, n) ==
    /\ h[0] = [pc |-> "enter", scan |-> FreshScan]
    /\ \A i \in 1 .. n : /\ h[i - 1].pc # "retain"
                         /\ h[i] = Onward(t, h[i - 1].pc, h[i - 1].scan)
Reached(t, p, s) ==
    \E n \in Nat : \E h : Run(t, h, n) /\ h[n] = [pc |-> p, scan |-> s]

\* What is known of a tree during an inspection is what it is.
Framed(t, stack, fresh) ==
    \A i \in 1 .. Len(stack) : LET f == stack[i] IN
        /\ At(t, f.path) = f.dir /\ t.node[f.dir].type = "dir"
        /\ f.opened \in {NoStat, StatIn(t, f.dir)}
        /\ f.before = StatIn(t, f.dir) \/ (i = 1 /\ fresh)
        /\ f.todo \subseteq NamesIn(t, f.dir)

Begun(t, p, s) ==
    s.entries = <<>> =>
        /\ Len(s.stack) = 1 /\ s.stack[1].dir = Root
        /\ p = "next" => s.stack[1].todo = NamesIn(t, Root)

Bound(t, p, s) ==
    p \in AtEntry =>
        /\ t.entry[s.stack[1].dir][s.name] = s.before.ino
        /\ s.before = StatIn(t, s.before.ino)
        /\ p \in Type => t.node[s.before.ino].type = p
        /\ p = "hashed" => s.read = t.node[s.before.ino].data

Exact(t, entries, stamps) ==
    /\ Len(stamps) = Len(entries)
    /\ \A k \in 1 .. Len(entries) : entries[k].type = "regular" =>
        /\ stamps[k].ino \in Node /\ stamps[k] = StatIn(t, stamps[k].ino)
        /\ At(t, entries[k].path) = stamps[k].ino
        /\ entries[k].data = t.node[stamps[k].ino].data

Walking(t, p, s) ==
    p \in Inspects =>
        /\ Framed(t, s.stack, p = "enter") /\ Begun(t, p, s)
        /\ Bound(t, p, s) /\ Exact(t, s.entries, s.stamps)

Writing(t, p, kept, e) ==
    p \in {"beneath", "copy", "copied"} =>
        LET k == Len(e.archive) + 1
            path == kept.entries[k].path
        IN
        /\ kept.entries[k].type = "regular"
        /\ p = "beneath" => \E i \in 0 .. Len(path) - 1 :
            /\ e.ino = At(t, SubSeq(path, 1, i))
            /\ Len(e.rest) = Len(path) - i
            /\ \A j \in 1 .. Len(e.rest) : e.rest[j] = path[i + j]
        /\ p \in {"copy", "copied"} => e.ino = kept.stamps[k].ino
        /\ p = "copied" => e.read = t.node[e.ino].data

Retained(t, kept) ==
    kept.entries # <<>> =>
        /\ Exact(t, kept.entries, kept.stamps)
        /\ kept.root = StatIn(t, Root)
        /\ \E s : Reached(t, "retain", s) /\ s.entries = kept.entries

Quiet == /\ Walking(Now, pc, scan)
         /\ pc \in Inspects => Reached(Now, pc, scan)
         /\ Retained(Now, payload)
         /\ Writing(Now, pc, payload, enc)
Excuse == \/ \A m \in EntryName : entry[Root][m] = None
          \/ \E n \in Attached : node[n].type = "socket"

Calm == /\ IsFiniteSet(views)
        /\ views = {Now} => IF pc = "failed" THEN Excuse ELSE Quiet

\* One inspection of a tree is like another.
LEMMA RunsAgree ==
  ASSUME NEW t, NEW n \in Nat, NEW h, Run(t, h, n), h[n].pc = "retain",
         NEW m \in Nat, NEW g, Run(t, g, m), g[m].pc = "retain"
  PROVE  h[n] = g[m]
<1> DEFINE T == {i \in Nat : i <= n /\ i <= m => h[i] = g[i]}
<1>1. 0 \in T
  BY DEF Run
<1>2. ASSUME NEW i \in Nat, i \in T
      PROVE  i + 1 \in T
  <2> SUFFICES ASSUME i + 1 <= n, i + 1 <= m
               PROVE  h[i + 1] = g[i + 1]
    OBVIOUS
  <2>1. i + 1 \in 1 .. n /\ i + 1 \in 1 .. m /\ (i + 1) - 1 = i /\ h[i] = g[i]
    BY <1>2
  <2>2. /\ h[i + 1] = Onward(t, h[i].pc, h[i].scan)
        /\ g[i + 1] = Onward(t, g[i].pc, g[i].scan)
    BY <2>1 DEF Run
  <2> QED BY <2>1, <2>2
<1>3. Nat \subseteq T
  <2> HIDE DEF T
  <2> QED BY <1>1, <1>2, InductionOverNat
<1>4. CASE n = m
  BY <1>3, <1>4
<1>5. CASE n < m
  <2>1. n + 1 \in 1 .. m /\ (n + 1) - 1 = n
    BY <1>5
  <2>2. g[n].pc # "retain"
    BY <2>1 DEF Run
  <2>3. h[n] = g[n]
    BY <1>3, <1>5
  <2> QED BY <2>2, <2>3
<1>6. CASE m < n
  <2>1. m + 1 \in 1 .. n /\ (m + 1) - 1 = m
    BY <1>6
  <2>2. h[m].pc # "retain"
    BY <2>1 DEF Run
  <2>3. h[m] = g[m]
    BY <1>3, <1>6
  <2> QED BY <2>2, <2>3
<1>7. QED
  BY <1>4, <1>5, <1>6

LEMMA InspectionsAgree ==
  ASSUME NEW t, NEW r, Reached(t, "retain", r), NEW s, Reached(t, "retain", s)
  PROVE  r = s
<1>1. PICK n \in Nat : \E h : Run(t, h, n) /\ h[n] = [pc |-> "retain", scan |-> r]
  BY DEF Reached
<1>2. PICK h : Run(t, h, n) /\ h[n] = [pc |-> "retain", scan |-> r]
  BY <1>1
<1>3. PICK m \in Nat : \E g : Run(t, g, m) /\ g[m] = [pc |-> "retain", scan |-> s]
  BY DEF Reached
<1>4. PICK g : Run(t, g, m) /\ g[m] = [pc |-> "retain", scan |-> s]
  BY <1>3
<1>5. h[n].pc = "retain" /\ g[m].pc = "retain"
  BY <1>2, <1>4
<1>6. h[n] = g[m]
  BY <1>2, <1>4, <1>5, RunsAgree
<1>7. QED
  BY <1>2, <1>4, <1>6

LEMMA ReachedFirst ==
  ASSUME NEW t
  PROVE  Reached(t, "enter", FreshScan)
<1> DEFINE h == [i \in 0 .. 0 |-> [pc |-> "enter", scan |-> FreshScan]]
<1>1. h[0] = [pc |-> "enter", scan |-> FreshScan]
  OBVIOUS
<1> HIDE DEF h
<1>2. Run(t, h, 0)
  BY <1>1 DEF Run
<1>3. QED
  BY <1>1, <1>2 DEF Reached

LEMMA ReachedOn ==
  ASSUME NEW t, NEW p, NEW s, Reached(t, p, s), p # "retain",
         NEW q, NEW r, Onward(t, p, s) = [pc |-> q, scan |-> r]
  PROVE  Reached(t, q, r)
<1>1. PICK n \in Nat : \E h : Run(t, h, n) /\ h[n] = [pc |-> p, scan |-> s]
  BY DEF Reached
<1>2. PICK h : Run(t, h, n) /\ h[n] = [pc |-> p, scan |-> s]
  BY <1>1
<1> DEFINE c == [pc |-> q, scan |-> r]
           g == [i \in 0 .. n + 1 |-> IF i = n + 1 THEN c ELSE h[i]]
<1>3. g[n + 1] = c /\ \A i \in 0 .. n : g[i] = h[i]
  OBVIOUS
<1> HIDE DEF g
<1>4. g[0] = [pc |-> "enter", scan |-> FreshScan]
  BY <1>2, <1>3 DEF Run
<1>5. ASSUME NEW i \in 1 .. n + 1
      PROVE  g[i - 1].pc # "retain" /\ g[i] = Onward(t, g[i - 1].pc, g[i - 1].scan)
  <2>1. CASE i = n + 1
    <3>1. i - 1 = n /\ n \in 0 .. n
      BY <2>1
    <3>2. g[i - 1].pc = p /\ g[i - 1].scan = s
      BY <1>2, <1>3, <3>1
    <3> QED BY <1>3, <2>1, <3>2
  <2>2. CASE i # n + 1
    <3>1. i \in 1 .. n /\ i \in 0 .. n /\ i - 1 \in 0 .. n
      BY <2>2
    <3>2. g[i] = h[i] /\ g[i - 1] = h[i - 1]
      BY <1>3, <3>1
    <3> QED BY <1>2, <3>1, <3>2 DEF Run
  <2> QED BY <2>1, <2>2
<1>6. Run(t, g, n + 1)
  BY <1>4, <1>5 DEF Run
<1>7. QED
  BY <1>3, <1>6 DEF Reached
-----------------------------------------------------------------------------
(* Each call of the inspection and of the encoding in a tree nobody has       *)
(* touched, and what makes refusals justified.                                *)
LEMMA StatNow ==
  ASSUME NEW n
  PROVE  Stat(n) = StatIn(Now, n)
BY DEF Stat, StatIn, LinksTo, Now

LEMMA NowShape ==
  ASSUME TypeOK
  PROVE  /\ Now.node = node /\ Now.entry = entry /\ None \notin Node
         /\ node \in [Node -> [type : Type, data : Data, stamp : Nat]]
         /\ entry \in [Node -> [EntryName -> Node \cup {None}]]
         /\ Root \in Node
BY PayloadAssumption DEF Now, TypeOK, TreeOK

\* The frame on top learns more of its directory.
LEMMA FramedOnTop ==
  ASSUME NEW t, NEW s \in Seq(Frames), NEW b, Framed(t, s, b), Len(s) >= 1,
         NEW u, Len(u) = Len(s), \A i \in 2 .. Len(s) : u[i] = s[i],
         u[1].dir = s[1].dir, u[1].path = s[1].path, u[1].opened = s[1].opened,
         u[1].before = StatIn(t, u[1].dir), u[1].todo \subseteq NamesIn(t, u[1].dir)
  PROVE  \A c : Framed(t, u, c)
<1>1. Len(s) \in Nat /\ \A i \in 1 .. Len(s) : i = 1 \/ i \in 2 .. Len(s)
  BY LenProperties
<1>2. QED
  BY <1>1 DEF Framed

\* One more entry, read as it is.
LEMMA ExactMore ==
  ASSUME NEW t, NEW entries \in Seq(ManifestEntry), NEW stamps \in Seq(Stamps),
         Exact(t, entries, stamps), NEW e \in ManifestEntry, NEW s \in Stamps,
         e.type = "regular" => /\ s.ino \in Node /\ s = StatIn(t, s.ino)
                               /\ At(t, e.path) = s.ino
                               /\ e.data = t.node[s.ino].data
  PROVE  Exact(t, Append(entries, e), Append(stamps, s))
<1> DEFINE u == Append(entries, e)
           v == Append(stamps, s)
<1>1. /\ Len(entries) \in Nat /\ Len(u) = Len(entries) + 1 /\ u[Len(entries) + 1] = e
      /\ \A i \in 1 .. Len(entries) : u[i] = entries[i]
  BY Appended
<1>2. /\ Len(stamps) \in Nat /\ Len(v) = Len(stamps) + 1 /\ v[Len(stamps) + 1] = s
      /\ \A i \in 1 .. Len(stamps) : v[i] = stamps[i]
  BY Appended
<1> HIDE DEF u, v
<1>3. Len(stamps) = Len(entries)
  BY DEF Exact
<1>4. \A k \in 1 .. Len(u) : k = Len(entries) + 1 \/ k \in 1 .. Len(entries)
  BY <1>1
<1>5. Exact(t, u, v)
  BY <1>1, <1>2, <1>3, <1>4 DEF Exact
<1>6. QED
  BY <1>5 DEF u, v

\* The inspection goes on as it must, and finds what there is.
Goes == /\ Onward(Now, pc, scan) = [pc |-> pc', scan |-> scan']
        /\ pc' # "failed" /\ Walking(Now, pc', scan')

LEMMA TopNow ==
  ASSUME TypeOK, Walking(Now, pc, scan), pc \in Inspects
  PROVE  /\ Framed(Now, scan.stack, pc = "enter") /\ Begun(Now, pc, scan)
         /\ Bound(Now, pc, scan) /\ Exact(Now, scan.entries, scan.stamps)
         /\ Head(scan.stack) = Top /\ scan.stack[1] = Top
         /\ At(Now, Top.path) = Top.dir /\ node[Top.dir].type = "dir"
         /\ Top.todo \subseteq NamesIn(Now, Top.dir)
         /\ Top.opened \in {NoStat, StatIn(Now, Top.dir)}
         /\ pc # "enter" => Top.before = StatIn(Now, Top.dir)
<1>1. /\ Framed(Now, scan.stack, pc = "enter") /\ Begun(Now, pc, scan)
      /\ Bound(Now, pc, scan) /\ Exact(Now, scan.entries, scan.stamps)
  BY DEF Walking
<1>2. 1 \in 1 .. Len(scan.stack) /\ scan.stack[1] = Top /\ Now.node = node
  BY TopShape, NowShape
<1>3. Head(scan.stack) = Top
  BY DEF Top
<1>4. QED
  BY <1>1, <1>2, <1>3 DEF Framed

LEMMA EnterGoes ==
  ASSUME TypeOK, Walking(Now, pc, scan), Enter
  PROVE  Goes
<1> DEFINE f == [Top EXCEPT !.before = Stat(Top.dir)]
<1>1. /\ pc = "enter" /\ pc' = "list" /\ pc \in Inspects
      /\ scan' = [scan EXCEPT !.stack = OnTop(f)]
  BY DEF Enter, Inspects
<1>2. /\ f \in Frames /\ f.dir = Top.dir /\ f.path = Top.path
      /\ f.opened = Top.opened /\ f.todo = Top.todo
      /\ f.before = StatIn(Now, Top.dir)
  BY TopShape, StatShape, StatNow DEF TypeOK, Frames
<1>3. f = [Top EXCEPT !.before = StatIn(Now, Top.dir)]
  BY StatNow
<1> HIDE DEF f
<1>4. /\ scan'.stack = OnTop(f) /\ scan'.entries = scan.entries
      /\ scan'.stamps = scan.stamps
  BY <1>1, TopShape DEF Scans
<1>5. /\ Len(OnTop(f)) = Len(scan.stack) /\ OnTop(f)[1] = f
      /\ \A i \in 2 .. Len(scan.stack) : OnTop(f)[i] = scan.stack[i]
  BY <1>2, OnTopShape
<1>6. \A c : Framed(Now, OnTop(f), c)
  BY <1>1, <1>2, <1>5, TopShape, TopNow, FramedOnTop
<1>7. Begun(Now, "list", scan')
  BY <1>1, <1>2, <1>4, <1>5, TopNow, TopShape DEF Begun
<1>8. Bound(Now, "list", scan')
  BY DEF Bound, AtEntry
<1>9. Walking(Now, pc', scan')
  BY <1>1, <1>4, <1>6, <1>7, <1>8, TopNow DEF Walking
<1>10. scan' = OnTopOf(scan, f)
  BY <1>1 DEF OnTopOf, OnTop
<1>11. Onward(Now, pc, scan) = [pc |-> "list", scan |-> OnTopOf(scan, f)]
  BY <1>1, <1>3, TopNow DEF Onward
<1>12. QED
  BY <1>1, <1>9, <1>10, <1>11 DEF Goes

LEMMA ListGoes ==
  ASSUME TypeOK, Walking(Now, pc, scan), List
  PROVE  Goes
<1> DEFINE f == [Top EXCEPT !.todo = {m \in EntryName : entry[Top.dir][m] # None}]
<1>1. /\ pc = "list" /\ pc' = "next" /\ pc \in Inspects
      /\ scan' = [scan EXCEPT !.stack = OnTop(f)]
  BY DEF List, Inspects
<1>2. NamesIn(Now, Top.dir) = {m \in EntryName : entry[Top.dir][m] # None}
  BY NowShape DEF NamesIn
<1>3. /\ f \in Frames /\ f.dir = Top.dir /\ f.path = Top.path
      /\ f.opened = Top.opened /\ f.todo = NamesIn(Now, Top.dir)
      /\ f.before = Top.before
  BY <1>2, TopShape DEF Frames
<1>4. f = [Top EXCEPT !.todo = NamesIn(Now, Top.dir)]
  BY <1>2
<1> HIDE DEF f
<1>5. /\ scan'.stack = OnTop(f) /\ scan'.entries = scan.entries
      /\ scan'.stamps = scan.stamps
  BY <1>1, TopShape DEF Scans
<1>6. /\ Len(OnTop(f)) = Len(scan.stack) /\ OnTop(f)[1] = f
      /\ \A i \in 2 .. Len(scan.stack) : OnTop(f)[i] = scan.stack[i]
  BY <1>3, OnTopShape
<1>7. \A c : Framed(Now, OnTop(f), c)
  BY <1>1, <1>3, <1>6, TopShape, TopNow, FramedOnTop
<1>8. Begun(Now, "next", scan')
  BY <1>1, <1>3, <1>5, <1>6, TopNow, TopShape DEF Begun
<1>9. Bound(Now, "next", scan')
  BY DEF Bound, AtEntry
<1>10. Walking(Now, pc', scan')
  BY <1>1, <1>5, <1>7, <1>8, <1>9, TopNow DEF Walking
<1>11. scan' = OnTopOf(scan, f)
  BY <1>1 DEF OnTopOf, OnTop
<1>12. Onward(Now, pc, scan) = [pc |-> "next", scan |-> OnTopOf(scan, f)]
  BY <1>1, <1>4, TopNow DEF Onward
<1>13. QED
  BY <1>1, <1>10, <1>11, <1>12 DEF Goes

LEMMA VisitGoes ==
  ASSUME TypeOK, Walking(Now, pc, scan), Visit
  PROVE  Goes
<1> DEFINE name == Min(Top.todo)
           n == entry[Top.dir][name]
           f == [Top EXCEPT !.todo = @ \ {name}]
<1>1. pc = "next" /\ Top.todo # {} /\ pc \in Inspects
  BY DEF Visit, Inspects
<1>2. name \in Top.todo /\ name \in EntryName /\ Top.dir \in Node
  BY <1>1, TopShape, MinIsLeast, PayloadAssumption
<1>3. n \in Node /\ n # None
  BY <1>1, <1>2, TopNow, NowShape DEF NamesIn
<1>4. /\ pc' = node[n].type
      /\ scan' = [scan EXCEPT !.name = name, !.before = Stat(n),
                              !.read = node[n].data, !.stack = OnTop(f)]
  BY <1>3 DEF Visit
<1>5. /\ f \in Frames /\ f.dir = Top.dir /\ f.path = Top.path
      /\ f.opened = Top.opened /\ f.todo \subseteq Top.todo
      /\ f.before = Top.before
  BY <1>2, TopShape DEF Frames
<1>6. Stat(n) = StatIn(Now, n) /\ Stat(n).ino = n /\ node[n].type \in Type
  BY <1>3, StatNow, StatShape, NowShape DEF TypeOK
<1>7. Now.node = node /\ Now.entry = entry /\ Top = Head(scan.stack)
  BY NowShape DEF Top
<1>8. Onward(Now, pc, scan) = [pc |-> pc', scan |-> scan']
  <2>1. scan' = Turned(Now, scan)
    BY <1>4, <1>6, <1>7, TopShape DEF Turned, OnTopOf, OnTop, Scans
  <2>2. Onward(Now, pc, scan) = [pc |-> node[n].type, scan |-> Turned(Now, scan)]
    BY <1>1, <1>7 DEF Onward
  <2> QED BY <1>4, <2>1, <2>2
<1> HIDE DEF f, name, n
<1>9. /\ scan'.stack = OnTop(f) /\ scan'.entries = scan.entries
      /\ scan'.stamps = scan.stamps /\ scan'.name = name
      /\ scan'.before = StatIn(Now, n)
  BY <1>4, <1>6, TopShape DEF Scans
<1>10. /\ Len(OnTop(f)) = Len(scan.stack) /\ OnTop(f)[1] = f
       /\ \A i \in 2 .. Len(scan.stack) : OnTop(f)[i] = scan.stack[i]
  BY <1>5, OnTopShape
<1>11. \A c : Framed(Now, OnTop(f), c)
  BY <1>1, <1>5, <1>10, TopShape, TopNow, FramedOnTop
<1>12. pc' \in Type /\ pc' # "failed" /\ pc' # "next" /\ pc' # "hashed"
  BY <1>4, <1>6 DEF Type
<1>13. Begun(Now, pc', scan')
  BY <1>1, <1>5, <1>9, <1>10, <1>12, TopNow, TopShape DEF Begun
<1>14. Bound(Now, pc', scan')
  <2>1. entry[f.dir][name] = n
    BY <1>5 DEF n
  <2> QED BY <1>4, <1>6, <1>7, <1>9, <1>10, <1>12, <2>1 DEF Bound
<1>15. Walking(Now, pc', scan')
  BY <1>1, <1>9, <1>11, <1>13, <1>14, TopNow DEF Walking
<1>16. QED
  BY <1>8, <1>12, <1>15 DEF Goes

\* The name at hand leads to what was found there.
LEMMA BoundNow ==
  ASSUME TypeOK, Walking(Now, pc, scan), pc \in AtEntry
  PROVE  /\ Rebound /\ scan.before.ino \in Node /\ Here = scan.before.ino
         /\ scan.before = StatIn(Now, scan.before.ino)
         /\ PlaceIn(scan) = Append(Top.path, scan.name)
         /\ PlaceIn(scan) \in Paths
         /\ At(Now, PlaceIn(scan)) = scan.before.ino
         /\ pc \in Type => node[scan.before.ino].type = pc
         /\ pc = "hashed" => scan.read = node[scan.before.ino].data
<1>1. pc \in Inspects /\ scan.name \in EntryName /\ scan.before.ino \in Node
  BY DEF Inspects, TypeOK
<1>2. /\ entry[Top.dir][scan.name] = scan.before.ino
      /\ scan.before = StatIn(Now, scan.before.ino)
      /\ pc \in Type => node[scan.before.ino].type = pc
      /\ pc = "hashed" => scan.read = node[scan.before.ino].data
  BY <1>1, TopNow, NowShape DEF Bound
<1>3. Rebound /\ Here = scan.before.ino
  BY <1>2, StatNow DEF Rebound, Here
<1>4. PlaceIn(scan) = Append(Top.path, scan.name) /\ Top.path \in Paths
  BY TopShape DEF PlaceIn, Top, Paths
<1>5. PlaceIn(scan) \in Paths
  BY <1>1, <1>4, LeadingPaths
<1>6. At(Now, PlaceIn(scan)) = Below(Now, Top.dir, scan.name)
  BY <1>1, <1>4, TopNow, AtStep
<1>7. Below(Now, Top.dir, scan.name) = scan.before.ino
  BY <1>1, <1>2, TopShape, TopNow, NowShape DEF Below
<1>8. QED
  BY <1>1, <1>2, <1>3, <1>4, <1>5, <1>6, <1>7

LEMMA FinishGoes ==
  ASSUME TypeOK, Walking(Now, pc, scan), pc \in AtEntry,
         NEW type \in Type \cup {"hardlink"}, NEW data \in Data \cup {None},
         NEW target \in Seq(EntryName), Finish(type, data, target),
         type = "regular" => data = node[scan.before.ino].data
  PROVE  /\ pc' = "next" /\ scan' = More(scan, type, data, target)
         /\ Walking(Now, pc', scan')
<1>1. pc' = "next" /\ scan' = With(type, data, target) /\ pc \in Inspects
  BY BoundNow DEF Finish, Inspects
<1>2. With(type, data, target) = More(scan, type, data, target)
  BY BoundNow DEF With, More
<1> DEFINE e == [path |-> Append(Top.path, scan.name), type |-> type,
                 data |-> data, target |-> target]
<1>3. /\ e \in ManifestEntry
      /\ scan'.entries = Append(scan.entries, e)
      /\ scan'.stamps = Append(scan.stamps, scan.before)
      /\ scan'.entries # <<>> /\ scan'.stack = scan.stack
  BY <1>1, WithShape
<1>4. e.type = type /\ e.data = data /\ e.path = PlaceIn(scan)
  BY BoundNow
<1> HIDE DEF e
<1>5. Exact(Now, scan'.entries, scan'.stamps)
  <2>1. e.type = "regular" => /\ scan.before.ino \in Node
                              /\ scan.before = StatIn(Now, scan.before.ino)
                              /\ At(Now, e.path) = scan.before.ino
                              /\ e.data = Now.node[scan.before.ino].data
    BY <1>4, BoundNow, NowShape
  <2>2. /\ scan.entries \in Seq(ManifestEntry) /\ scan.stamps \in Seq(Stamps)
        /\ scan.before \in Stamps
    BY TopShape
  <2>3. Exact(Now, scan.entries, scan.stamps)
    BY <1>1, TopNow
  <2> QED BY <1>3, <2>1, <2>2, <2>3, ExactMore
<1>6. Framed(Now, scan'.stack, FALSE)
  BY <1>1, <1>3, TopNow DEF Framed, AtEntry
<1>7. Walking(Now, "next", scan')
  BY <1>3, <1>5, <1>6 DEF Walking, Begun, Bound, AtEntry, Framed
<1>8. QED
  BY <1>1, <1>2, <1>7

LEMMA OpenDirGoes ==
  ASSUME TypeOK, Walking(Now, pc, scan), OpenDir
  PROVE  Goes
<1> DEFINE f == Frame(scan.before.ino, Append(Top.path, scan.name), scan.before)
           w == With("dir", scan.read, <<>>)
           e == [path |-> Append(Top.path, scan.name), type |-> "dir",
                 data |-> scan.read, target |-> <<>>]
<1>1. /\ pc = "dir" /\ pc \in AtEntry /\ pc \in Inspects /\ pc \in Type
      /\ "dir" \in Type \cup {"hardlink"} /\ <<>> \in Seq(EntryName)
  BY EmptySeq DEF OpenDir, AtEntry, Inspects, Type
<1>2. pc' = "enter" /\ scan' = [w EXCEPT !.stack = <<f>> \o @]
  BY <1>1, BoundNow DEF OpenDir
<1>3. w = More(scan, "dir", scan.read, <<>>)
  BY <1>1, BoundNow DEF With, More
<1>4. Onward(Now, pc, scan) = [pc |-> pc', scan |-> scan']
  <2>1. f = Frame(scan.before.ino, PlaceIn(scan), scan.before)
    BY <1>1, BoundNow
  <2> HIDE DEF f, w
  <2>2. scan' = Descended(scan)
    BY <1>2, <1>3, <2>1 DEF Descended
  <2>3. Onward(Now, pc, scan) = [pc |-> "enter", scan |-> Descended(scan)]
    BY <1>1 DEF Onward
  <2> QED BY <1>2, <2>2, <2>3
<1>5. /\ e \in ManifestEntry /\ w \in Scans
      /\ w.entries = Append(scan.entries, e)
      /\ w.stamps = Append(scan.stamps, scan.before)
      /\ w.entries # <<>> /\ w.stack = scan.stack
  BY <1>1, TopShape, WithShape
<1>6. scan.before \in Stamps /\ scan.before.ino \in Node
      /\ Append(Top.path, scan.name) \in Seq(EntryName)
  BY <1>1, TopShape, BoundNow DEF Paths
<1>7. /\ f \in Frames /\ f.dir = scan.before.ino /\ f.path = PlaceIn(scan)
      /\ f.opened = scan.before /\ f.todo = {}
  <2>1. f.opened = scan.before /\ f.todo = {}
    BY DEF Frame
  <2>2. PlaceIn(scan) = Append(Top.path, scan.name)
    BY <1>1, BoundNow
  <2>3. PICK q \in Seq(EntryName) : q = Append(Top.path, scan.name)
    BY <1>6
  <2>4. PICK n \in Node : n = scan.before.ino
    BY <1>6
  <2>5. f = Frame(n, q, scan.before)
    BY <2>3, <2>4
  <2>6. f \in Frames /\ f.dir = n /\ f.path = q
    BY <1>6, <2>5, FrameShape
  <2> QED BY <2>1, <2>2, <2>3, <2>4, <2>6
<1>8. e.type = "dir"
  OBVIOUS
<1> DEFINE u == <<f>> \o scan.stack
<1>9. /\ scan'.stack = u /\ scan'.entries = w.entries /\ scan'.stamps = w.stamps
  <2> HIDE DEF w, f
  <2>1. u \in Seq(Frames)
    BY <1>7, TopShape, Pushed
  <2> QED BY <1>2, <1>5, <2>1 DEF Scans
<1> HIDE DEF f, w, e
<1>10. /\ Len(u) = Len(scan.stack) + 1 /\ u[1] = f
       /\ \A i \in 1 .. Len(scan.stack) : u[i + 1] = scan.stack[i]
  BY <1>7, TopShape, Pushed
<1> HIDE DEF u
<1>11. Framed(Now, u, TRUE)
  <2>1. ASSUME NEW i \in 1 .. Len(u), i # 1
        PROVE  i - 1 \in 1 .. Len(scan.stack) /\ u[i] = scan.stack[i - 1]
    <3>1. i - 1 \in 1 .. Len(scan.stack) /\ (i - 1) + 1 = i
      BY <1>10, <2>1, TopShape
    <3> QED BY <1>10, <3>1
  <2>2. /\ At(Now, f.path) = f.dir /\ Now.node[f.dir].type = "dir"
        /\ f.opened = StatIn(Now, f.dir)
    BY <1>1, <1>7, BoundNow, NowShape
  <2>3. \A i \in 1 .. Len(scan.stack) : LET g == scan.stack[i] IN
            /\ At(Now, g.path) = g.dir /\ Now.node[g.dir].type = "dir"
            /\ g.opened \in {NoStat, StatIn(Now, g.dir)}
            /\ g.before = StatIn(Now, g.dir)
            /\ g.todo \subseteq NamesIn(Now, g.dir)
    BY <1>1, TopNow DEF Framed
  <2>4. SUFFICES ASSUME NEW i \in 1 .. Len(u)
                 PROVE  LET g == u[i] IN
                        /\ At(Now, g.path) = g.dir /\ Now.node[g.dir].type = "dir"
                        /\ g.opened \in {NoStat, StatIn(Now, g.dir)}
                        /\ g.before = StatIn(Now, g.dir) \/ (i = 1 /\ TRUE)
                        /\ g.todo \subseteq NamesIn(Now, g.dir)
    BY DEF Framed
  <2>5. CASE i = 1
    BY <1>7, <1>10, <2>2, <2>5
  <2>6. CASE i # 1
    BY <2>1, <2>3, <2>6
  <2> QED BY <2>5, <2>6
<1>12. Exact(Now, scan'.entries, scan'.stamps)
  <2>1. /\ scan.entries \in Seq(ManifestEntry) /\ scan.stamps \in Seq(Stamps)
    BY TopShape
  <2>2. Exact(Now, scan.entries, scan.stamps)
    BY <1>1, TopNow
  <2>3. e.type # "regular"
    BY <1>8
  <2>4. Exact(Now, Append(scan.entries, e), Append(scan.stamps, scan.before))
    BY <1>5, <1>6, <2>1, <2>2, <2>3, ExactMore
  <2> QED BY <1>5, <1>9, <2>4
<1>13. Walking(Now, "enter", scan')
  BY <1>5, <1>9, <1>11, <1>12 DEF Walking, Begun, Bound, AtEntry, Framed
<1>14. QED
  BY <1>2, <1>4, <1>13 DEF Goes

LEMMA LeaveDirGoes ==
  ASSUME TypeOK, Walking(Now, pc, scan), LeaveDir
  PROVE  Goes \/ (pc' = "failed" /\ Excuse)
<1>1. pc = "next" /\ Top.todo = {} /\ pc \in Inspects /\ pc \notin AtEntry
  BY DEF LeaveDir, Inspects, AtEntry
<1>2. Unaltered
  <2>1. Stat(Top.dir) = Top.before /\ Top.opened \in {NoStat, Top.before}
    BY <1>1, TopNow, StatNow
  <2> QED BY <2>1 DEF Unaltered
<1>3. CASE scan.entries = <<>>
  <2>1. NamesIn(Now, Root) = {}
    BY <1>1, <1>3, TopNow DEF Begun
  <2>2. \A m \in EntryName : entry[Root][m] = None
    BY <2>1, NowShape DEF NamesIn
  <2>3. Len(scan.stack) = 1
    BY <1>1, <1>3, TopNow DEF Begun
  <2>4. pc' = "failed"
    BY <1>3, <2>3 DEF LeaveDir, Throw
  <2> QED BY <2>2, <2>4 DEF Excuse
<1>4. CASE scan.entries # <<>> /\ Len(scan.stack) > 1
  <2> DEFINE u == Tail(scan.stack)
  <2>1. pc' = "next" /\ scan' = [scan EXCEPT !.stack = u]
    <3>1. \A k : k = 1 => ~(k > 1)
      OBVIOUS
    <3> QED BY <1>1, <1>2, <1>4, <3>1 DEF LeaveDir, Throw
  <2>2. /\ scan'.stack = u /\ scan'.entries = scan.entries
        /\ scan'.stamps = scan.stamps
    BY <2>1, TopShape DEF Scans
  <2>3. /\ Len(u) = Len(scan.stack) - 1
        /\ \A i \in 1 .. Len(scan.stack) - 1 : u[i] = scan.stack[i + 1]
    BY TopShape, Popped
  <2>4. Onward(Now, pc, scan) = [pc |-> "next", scan |-> [scan EXCEPT !.stack = u]]
    BY <1>1, <1>4, TopNow DEF Onward
  <2> HIDE DEF u
  <2>5. Framed(Now, u, FALSE)
    <3>1. \A i \in 1 .. Len(u) : /\ i + 1 \in 1 .. Len(scan.stack) /\ i + 1 # 1
                                 /\ u[i] = scan.stack[i + 1]
      <4>1. Len(scan.stack) \in Nat
        BY TopShape
      <4> QED BY <2>3, <4>1
    <3> QED BY <1>1, <3>1, TopNow DEF Framed
  <2>6. Walking(Now, "next", scan')
    BY <1>1, <1>4, <2>2, <2>5, TopNow DEF Walking, Begun, Bound, AtEntry, Framed
  <2> QED BY <2>1, <2>4, <2>6 DEF Goes
<1>5. CASE scan.entries # <<>> /\ ~(Len(scan.stack) > 1)
  <2>1. Len(scan.stack) = 1
    <3>1. \A k \in Nat : k >= 1 /\ ~(k > 1) => k = 1
      OBVIOUS
    <3> QED BY <1>5, <3>1, TopShape
  <2>2. pc' = "retain" /\ scan' = scan
    BY <1>1, <1>2, <1>5, <2>1 DEF LeaveDir, Throw
  <2>3. Onward(Now, pc, scan) = [pc |-> "retain", scan |-> scan]
    BY <1>1, <1>5, TopNow DEF Onward
  <2>4. Walking(Now, "retain", scan)
    BY <1>1, <1>5, TopNow DEF Walking, Begun, Bound, AtEntry, Framed
  <2> QED BY <2>2, <2>3, <2>4 DEF Goes
<1>6. QED
  BY <1>3, <1>4, <1>5

LEMMA OpenRegularGoes ==
  ASSUME TypeOK, Walking(Now, pc, scan), OpenRegular
  PROVE  Goes
<1> DEFINE ino == scan.before.ino
           shared == scan.before.links > 1
<1>1. pc = "regular" /\ pc \in AtEntry /\ pc \in Inspects
  BY DEF OpenRegular, AtEntry, Inspects
<1>2. Rebound /\ ino \in Node /\ PlaceIn(scan) = Append(Top.path, scan.name)
      /\ PlaceIn(scan) \in Paths
  BY <1>1, BoundNow
<1>3. IF shared /\ scan.targets[ino] # <<>>
      THEN pc' = "hardlink" /\ scan' = scan
      ELSE /\ pc' = "read"
           /\ scan' = IF shared THEN [scan EXCEPT !.targets[ino] = PlaceIn(scan)]
                      ELSE scan
  BY <1>1, <1>2 DEF OpenRegular
<1>4. Onward(Now, pc, scan) = [pc |-> pc', scan |-> scan']
  <2>1. CASE shared /\ scan.targets[ino] # <<>>
    BY <1>1, <1>3, <2>1 DEF Onward
  <2>2. CASE ~(shared /\ scan.targets[ino] # <<>>)
    BY <1>1, <1>3, <2>2 DEF Onward
  <2> QED BY <2>1, <2>2
<1>5. /\ scan'.stack = scan.stack /\ scan'.entries = scan.entries
      /\ scan'.stamps = scan.stamps /\ scan'.name = scan.name
      /\ scan'.before = scan.before
  <2>1. CASE scan' = scan
    BY <2>1
  <2>2. CASE scan' # scan
    <3>1. scan' = [scan EXCEPT !.targets[ino] = PlaceIn(scan)]
      BY <1>3, <2>2
    <3> QED BY <3>1, TopShape DEF Scans
  <2> QED BY <2>1, <2>2
<1>6. /\ pc' \in {"hardlink", "read"} /\ pc' \in Inspects /\ pc' \notin Type
      /\ pc' # "failed" /\ pc' # "next" /\ pc' # "hashed" /\ pc' # "enter"
  BY <1>3 DEF Inspects, AtEntry, Type
<1>7. Framed(Now, scan'.stack, pc' = "enter") /\ Begun(Now, pc', scan')
      /\ Exact(Now, scan'.entries, scan'.stamps)
  BY <1>1, <1>5, <1>6, TopNow DEF Framed, Begun
<1>8. Bound(Now, pc', scan')
  BY <1>1, <1>5, <1>6, TopNow DEF Bound
<1>9. QED
  BY <1>4, <1>6, <1>7, <1>8 DEF Goes, Walking

\* The content of a file, or the target of a link, is read.
LEMMA ReadGoes ==
  ASSUME TypeOK, Walking(Now, pc, scan), ReadRegular \/ ReadLink
  PROVE  Goes
<1> DEFINE ino == scan.before.ino
           r == [scan EXCEPT !.read = node[ino].data]
<1>1. pc \in {"read", "symlink"} /\ pc \in AtEntry /\ pc \in Inspects
  BY DEF ReadRegular, ReadLink, AtEntry, Inspects
<1>2. Here = ino /\ ino \in Node /\ ino # None
      /\ (pc = "symlink" => node[ino].type = "symlink")
  BY <1>1, BoundNow, NowShape DEF Type
<1>3. /\ scan' = r
      /\ pc = "read" => pc' = "hashed"
      /\ pc = "symlink" => pc' = "target"
  BY <1>1, <1>2 DEF ReadRegular, ReadLink
<1>4. Now.node = node
  BY NowShape
<1>5. Onward(Now, pc, scan) = [pc |-> pc', scan |-> scan']
  <2>1. CASE pc = "read"
    BY <1>3, <1>4, <2>1 DEF Onward
  <2>2. CASE pc = "symlink"
    BY <1>3, <1>4, <2>2 DEF Onward
  <2> QED BY <1>1, <2>1, <2>2
<1>6. /\ scan'.stack = scan.stack /\ scan'.entries = scan.entries
      /\ scan'.stamps = scan.stamps /\ scan'.name = scan.name
      /\ scan'.before = scan.before /\ scan'.read = node[ino].data
  BY <1>3, TopShape DEF Scans
<1>7. /\ pc' \in {"hashed", "target"} /\ pc' \in Inspects /\ pc' \notin Type
      /\ pc' # "failed" /\ pc' # "next" /\ pc' # "enter"
  BY <1>1, <1>3 DEF Inspects, AtEntry, Type
<1>8. Framed(Now, scan'.stack, pc' = "enter") /\ Begun(Now, pc', scan')
      /\ Exact(Now, scan'.entries, scan'.stamps)
  BY <1>1, <1>6, <1>7, TopNow DEF Framed, Begun
<1>9. Bound(Now, pc', scan')
  BY <1>1, <1>4, <1>6, <1>7, TopNow DEF Bound
<1>10. QED
  BY <1>5, <1>7, <1>8, <1>9 DEF Goes, Walking

LEMMA InspectingGoes ==
  ASSUME TypeOK, Walking(Now, pc, scan), Inspecting, ~Retain
  PROVE  Goes \/ (pc' = "failed" /\ Excuse)
<1>1. CASE Enter
  BY <1>1, EnterGoes
<1>2. CASE List
  BY <1>2, ListGoes
<1>3. CASE Visit
  BY <1>3, VisitGoes
<1>4. CASE OpenDir
  BY <1>4, OpenDirGoes
<1>5. CASE LeaveDir
  BY <1>5, LeaveDirGoes
<1>6. CASE OpenRegular
  BY <1>6, OpenRegularGoes
<1>7. CASE ReadRegular \/ ReadLink
  BY <1>7, ReadGoes
<1>a. /\ <<>> \in Seq(EntryName) /\ None \in Data \cup {None}
      /\ scan.read \in Data \cup {None}
      /\ {"regular", "symlink", "fifo", "hardlink"} \subseteq Type \cup {"hardlink"}
      /\ "hardlink" # "regular" /\ "symlink" # "regular" /\ "fifo" # "regular"
  BY EmptySeq, TopShape DEF Type
<1>8. CASE HardLink
  <2>1. pc = "hardlink" /\ pc \in AtEntry
    BY <1>8 DEF HardLink, AtEntry
  <2> DEFINE target == scan.targets[scan.before.ino]
  <2>2. target \in Seq(EntryName)
    BY <2>1, BoundNow, TopShape
  <2>3. Finish("hardlink", None, target)
    BY <1>8 DEF HardLink
  <2>4. /\ pc' = "next" /\ scan' = More(scan, "hardlink", None, target)
        /\ Walking(Now, pc', scan')
    BY <1>a, <2>1, <2>2, <2>3, FinishGoes
  <2>5. Onward(Now, pc, scan)
            = [pc |-> "next", scan |-> More(scan, "hardlink", None, target)]
    BY <2>1 DEF Onward
  <2> QED BY <2>4, <2>5 DEF Goes
<1>9. CASE HashRegular
  <2>1. pc = "hashed" /\ pc \in AtEntry /\ Finish("regular", scan.read, <<>>)
    BY <1>9 DEF HashRegular, AtEntry
  <2>2. scan.read = node[scan.before.ino].data
    BY <2>1, BoundNow
  <2>3. /\ pc' = "next" /\ scan' = More(scan, "regular", scan.read, <<>>)
        /\ Walking(Now, pc', scan')
    BY <1>a, <2>1, <2>2, FinishGoes
  <2>4. Onward(Now, pc, scan)
            = [pc |-> "next", scan |-> More(scan, "regular", scan.read, <<>>)]
    BY <2>1 DEF Onward
  <2> QED BY <2>3, <2>4 DEF Goes
<1>10. CASE CheckLink
  <2>1. pc = "target" /\ pc \in AtEntry /\ Finish("symlink", scan.read, <<>>)
    BY <1>10 DEF CheckLink, AtEntry
  <2>2. /\ pc' = "next" /\ scan' = More(scan, "symlink", scan.read, <<>>)
        /\ Walking(Now, pc', scan')
    BY <1>a, <2>1, FinishGoes
  <2>3. Onward(Now, pc, scan)
            = [pc |-> "next", scan |-> More(scan, "symlink", scan.read, <<>>)]
    BY <2>1 DEF Onward
  <2> QED BY <2>2, <2>3 DEF Goes
<1>11. CASE Special
  <2>1. pc \in {"fifo", "socket"} /\ pc \in AtEntry /\ pc \in Type
    BY <1>11 DEF Special, AtEntry, Type
  <2>2. CASE pc = "fifo"
    <3>1. Finish("fifo", scan.read, <<>>)
      BY <1>11, <2>2 DEF Special
    <3>2. /\ pc' = "next" /\ scan' = More(scan, "fifo", scan.read, <<>>)
          /\ Walking(Now, pc', scan')
      BY <1>a, <2>1, <3>1, FinishGoes
    <3>3. Onward(Now, pc, scan)
              = [pc |-> "next", scan |-> More(scan, "fifo", scan.read, <<>>)]
      BY <2>2 DEF Onward
    <3> QED BY <3>2, <3>3 DEF Goes
  <2>3. CASE pc = "socket"
    <3>1. pc' = "failed"
      BY <1>11, <2>3 DEF Special, Throw
    <3>2. Here = scan.before.ino /\ node[Here].type = "socket" /\ Here # None
      BY <2>1, <2>3, BoundNow, NowShape
    <3>3. Here \in Attached
      <4>1. Top.dir \in Node /\ scan.name \in EntryName
        BY <2>1, TopShape DEF TypeOK
      <4> QED BY <3>2, <4>1 DEF Here, Attached
    <3> QED BY <3>1, <3>2, <3>3 DEF Excuse
  <2> QED BY <2>1, <2>2, <2>3
<1>12. QED
  BY <1>1, <1>2, <1>3, <1>4, <1>5, <1>6, <1>7, <1>8, <1>9, <1>10, <1>11
     DEF Inspecting

\* The second inspection finds what the first one did.
LEMMA RetainQuiet ==
  ASSUME TypeOK, Archived, Quiet, Retain
  PROVE  /\ pc' # "failed" /\ Walking(Now, pc', scan') /\ Retained(Now, payload')
         /\ Writing(Now, pc', payload', enc') /\ pc' \notin Inspects
<1>1. /\ pc = "retain" /\ pc \in Inspects /\ scan' = scan
      /\ Walking(Now, pc, scan) /\ Reached(Now, "retain", scan)
  BY DEF Retain, Inspects, Quiet
<1>2. Stat(Root) = StatIn(Now, Root)
  BY StatNow
<1>3. CASE payload.entries = <<>>
  <2>1. /\ pc' = "reopen"
        /\ payload' = [entries |-> scan.entries, stamps |-> scan.stamps,
                       root |-> Stat(Root)]
    BY <1>3 DEF Retain
  <2>2. /\ payload'.entries = scan.entries /\ payload'.stamps = scan.stamps
        /\ payload'.root = StatIn(Now, Root)
    BY <1>2, <2>1
  <2>3. Retained(Now, payload')
    BY <1>1, <2>2, TopNow DEF Retained
  <2> QED BY <2>1, <2>3 DEF Walking, Writing, Inspects, AtEntry
<1>4. CASE payload.entries # <<>>
  <2>1. /\ payload.root = StatIn(Now, Root)
        /\ \E s : Reached(Now, "retain", s) /\ s.entries = payload.entries
    BY <1>4 DEF Quiet, Retained
  <2>2. SamePayload
    BY <1>1, <1>2, <2>1, InspectionsAgree DEF SamePayload, SameRoot
  <2>3. pc' = "sealed" /\ payload' = payload
    BY <1>4, <2>2 DEF Retain
  <2> QED BY <2>3 DEF Quiet, Walking, Writing, Inspects, AtEntry
<1>5. QED
  BY <1>3, <1>4

\* From the root to what a path leads to.
LEMMA Descends ==
  ASSUME NEW t, NEW p \in Paths, At(t, p) # None
  PROVE  /\ Len(p) \in Nat /\ At(t, SubSeq(p, 1, 0)) = Root
         /\ At(t, SubSeq(p, 1, Len(p))) = At(t, p)
         /\ \A k \in 0 .. Len(p) - 1 :
                LET d == At(t, SubSeq(p, 1, k)) IN
                /\ t.entry[d][p[k + 1]] = At(t, SubSeq(p, 1, k + 1))
                /\ At(t, SubSeq(p, 1, k)) # None
                /\ At(t, SubSeq(p, 1, k + 1)) # None
                /\ t.node[d].type = "dir"
<1>1. PICK w : Route(t, p, w) /\ At(t, p) = w[Len(p)]
  BY RouteExists
<1>2. Len(p) \in Nat
  BY LeadingPaths
<1>3. ASSUME NEW k \in 0 .. Len(p)
      PROVE  /\ At(t, SubSeq(p, 1, k)) = w[k] /\ w[k] # None
             /\ k < Len(p) => t.node[w[k]].type = "dir"
  <2>1. PICK q \in Paths : Leading(q, p) /\ Len(q) = k /\ q = SubSeq(p, 1, k)
    BY LeadingOfLength
  <2>2. At(t, q) = w[k]
    BY <1>1, <2>1, RoutePrefix
  <2>3. At(t, q) # None /\ (k < Len(p) => t.node[At(t, q)].type = "dir")
    BY <2>1, AtWay
  <2> QED BY <2>1, <2>2, <2>3
<1>4. w[0] = Root /\ 0 \in 0 .. Len(p) /\ Len(p) \in 0 .. Len(p)
  BY <1>1, <1>2 DEF Route
<1>5. ASSUME NEW k \in 0 .. Len(p) - 1
      PROVE  /\ t.entry[w[k]][p[k + 1]] = w[k + 1]
             /\ w[k] # None /\ w[k + 1] # None /\ t.node[w[k]].type = "dir"
             /\ At(t, SubSeq(p, 1, k)) = w[k]
             /\ At(t, SubSeq(p, 1, k + 1)) = w[k + 1]
  <2>1. PICK i \in 1 .. Len(p) : i = k + 1
    BY <1>2
  <2>2. /\ i - 1 = k /\ k \in 0 .. Len(p) /\ i \in 0 .. Len(p) /\ k < Len(p)
    BY <1>2, <2>1
  <2>3. w[i] = Below(t, w[i - 1], p[i])
    BY <1>1 DEF Route
  <2>4. w[k] # None /\ t.node[w[k]].type = "dir" /\ w[i] # None
        /\ At(t, SubSeq(p, 1, k)) = w[k] /\ At(t, SubSeq(p, 1, i)) = w[i]
    BY <1>3, <2>2
  <2> QED BY <2>1, <2>2, <2>3, <2>4 DEF Below
<1>6. QED
  BY <1>1, <1>2, <1>3, <1>4, <1>5

\* Every file is where it was, and what it was.
LEMMA EncodingQuiet ==
  ASSUME TypeOK, Archived, Quiet, Encoding
  PROVE  /\ pc' # "failed" /\ pc' \notin Inspects /\ payload' = payload
         /\ Writing(Now, pc', payload, enc')
<1>1. pc \in Encodes /\ payload.entries # <<>> /\ pc' \notin Inspects
      /\ payload' = payload
  <2>1. pc \in Encodes /\ pc' \in Encodes \cup {"failed"} /\ payload' = payload
    BY DEF Encoding, Reopen, Encode, Beneath, Copy, CopyCheck, Throw, Encodes
  <2> QED BY <2>1 DEF Archived, Encodes, Inspects, AtEntry
<1>2. /\ Exact(Now, payload.entries, payload.stamps)
      /\ payload.root = StatIn(Now, Root) /\ Writing(Now, pc, payload, enc)
  BY <1>1 DEF Quiet, Retained
<1>3. SameRoot
  BY <1>2, StatNow DEF SameRoot
<1>4. /\ payload.entries \in Seq(ManifestEntry) /\ enc \in Encodings
      /\ enc.archive \in Seq(ManifestEntry)
  BY DEF TypeOK, Payloads, Encodings
<1>5. Len(payload.entries) \in Nat /\ Len(enc.archive) \in Nat
  BY <1>4, LenProperties
<1>6. CASE Reopen
  BY <1>1, <1>3, <1>6 DEF Reopen, Throw, Writing
<1>7. CASE Encode
  <2> DEFINE e == payload.entries[Index]
  <2>1. /\ pc = "encode" /\ Index <= Len(payload.entries)
        /\ IF HasContent(e)
           THEN /\ pc' = "beneath"
                /\ enc' = [enc EXCEPT !.ino = Root, !.rest = e.path]
           ELSE /\ enc' = [enc EXCEPT !.archive = Append(@, e)]
                /\ pc' = pc
    BY <1>7 DEF Encode
  <2>2. CASE ~HasContent(e)
    BY <1>1, <2>1, <2>2 DEF Writing
  <2>3. CASE HasContent(e)
    <3>1. pc' = "beneath" /\ enc' = [enc EXCEPT !.ino = Root, !.rest = e.path]
      BY <2>1, <2>3
    <3>2. Index \in 1 .. Len(payload.entries) /\ Index = Len(enc.archive) + 1
      BY <1>5, <2>1 DEF Index
    <3>3. e \in ManifestEntry /\ e.type = "regular"
      BY <1>4, <2>3, <3>2, ElementOfSeq DEF HasContent
    <3>4. e.path \in Paths /\ e.path # <<>>
      BY <3>3 DEF ManifestEntry, Paths
    <3>5. At(Now, e.path) # None
      BY <1>2, <3>2, <3>3, NowShape DEF Exact
    <3>6. Len(e.path) \in Nat /\ At(Now, SubSeq(e.path, 1, 0)) = Root
      BY <3>4, <3>5, Descends
    <3>7. Len(e.path) >= 1
      BY <3>4, <3>6, EmptySeq DEF Paths
    <3>8. /\ enc'.ino = Root /\ enc'.rest = e.path /\ enc'.archive = enc.archive
      BY <1>4, <3>1 DEF Encodings
    <3> DEFINE path == e.path
    <3>9. \E i \in 0 .. Len(path) - 1 :
            /\ enc'.ino = At(Now, SubSeq(path, 1, i))
            /\ Len(enc'.rest) = Len(path) - i
            /\ \A j \in 1 .. Len(enc'.rest) : enc'.rest[j] = path[i + j]
      <4>1. 0 \in 0 .. Len(path) - 1 /\ Len(path) - 0 = Len(path)
            /\ \A j \in 1 .. Len(path) : 0 + j = j
        BY <3>6, <3>7
      <4> QED BY <3>6, <3>8, <4>1
    <3>10. Writing(Now, "beneath", payload, enc')
      <4> HIDE DEF path
      <4>1. path = payload.entries[Len(enc'.archive) + 1].path
        BY <3>2, <3>8 DEF path
      <4>2. payload.entries[Len(enc'.archive) + 1].type = "regular"
        BY <3>2, <3>3, <3>8
      <4> QED BY <3>9, <4>1, <4>2 DEF Writing
    <3> QED BY <1>1, <3>1, <3>10
  <2> QED BY <2>2, <2>3
<1>8. CASE pc \in {"beneath", "copy", "copied"}
  <2> DEFINE e == payload.entries[Index]
             path == e.path
             s == payload.stamps[Index]
  <2>1. Index \in 1 .. Len(payload.entries) /\ Index = Len(enc.archive) + 1
    BY <1>5, <1>8 DEF Archived, Index
  <2>2. /\ e.type = "regular"
        /\ pc = "beneath" => \E i \in 0 .. Len(path) - 1 :
            /\ enc.ino = At(Now, SubSeq(path, 1, i))
            /\ Len(enc.rest) = Len(path) - i
            /\ \A j \in 1 .. Len(enc.rest) : enc.rest[j] = path[i + j]
        /\ pc \in {"copy", "copied"} => enc.ino = s.ino
        /\ pc = "copied" => enc.read = node[enc.ino].data
    BY <1>2, <1>8, <2>1, NowShape DEF Writing
  <2>3. /\ s.ino \in Node /\ s = StatIn(Now, s.ino) /\ At(Now, path) = s.ino
        /\ e.data = node[s.ino].data
    <3>1. PICK k \in 1 .. Len(payload.entries) : k = Index
      BY <2>1
    <3>2. payload.entries[k].type = "regular"
      BY <2>2, <3>1
    <3>3. /\ payload.stamps[k].ino \in Node
          /\ payload.stamps[k] = StatIn(Now, payload.stamps[k].ino)
          /\ At(Now, payload.entries[k].path) = payload.stamps[k].ino
          /\ payload.entries[k].data = Now.node[payload.stamps[k].ino].data
      BY <1>2, <3>2 DEF Exact
    <3> QED BY <3>1, <3>3, NowShape
  <2>4. SameStamp(s.ino)
    BY <2>3, StatNow DEF SameStamp
  <2>5. path \in Paths
    <3>1. e \in ManifestEntry
      BY <1>4, <2>1, ElementOfSeq
    <3> QED BY <3>1 DEF ManifestEntry, Paths
  <2>d. /\ Len(path) \in Nat /\ At(Now, SubSeq(path, 1, Len(path))) = s.ino
        /\ \A k \in 0 .. Len(path) - 1 :
            LET d == At(Now, SubSeq(path, 1, k)) IN
            /\ entry[d][path[k + 1]] = At(Now, SubSeq(path, 1, k + 1))
            /\ At(Now, SubSeq(path, 1, k + 1)) # None
            /\ node[d].type = "dir"
    <3>1. PICK p \in Paths : p = path
      BY <2>5
    <3>2. At(Now, p) # None /\ At(Now, p) = s.ino
      BY <2>3, <3>1, NowShape
    <3>3. /\ Len(p) \in Nat /\ At(Now, SubSeq(p, 1, Len(p))) = s.ino
          /\ \A k \in 0 .. Len(p) - 1 :
            LET d == At(Now, SubSeq(p, 1, k)) IN
            /\ Now.entry[d][p[k + 1]] = At(Now, SubSeq(p, 1, k + 1))
            /\ At(Now, SubSeq(p, 1, k + 1)) # None
            /\ Now.node[d].type = "dir"
      BY <3>2, Descends
    <3>4. Now.node = node /\ Now.entry = entry
      BY NowShape
    <3> QED BY <3>1, <3>3, <3>4
  <2>6. CASE Beneath
    <3>1. PICK i \in 0 .. Len(path) - 1 :
            /\ enc.ino = At(Now, SubSeq(path, 1, i))
            /\ Len(enc.rest) = Len(path) - i
            /\ \A j \in 1 .. Len(enc.rest) : enc.rest[j] = path[i + j]
      <4>1. pc = "beneath"
        BY <2>6 DEF Beneath
      <4> QED BY <2>2, <4>1
    <3>2. /\ Len(path) \in Nat /\ enc.rest \in Seq(EntryName)
      BY <1>4, <2>d DEF Encodings
    <3>3. Len(enc.rest) >= 1 /\ Len(enc.rest) \in Nat
      BY <3>1, <3>2
    <3>4. Head(enc.rest) = enc.rest[1] /\ enc.rest[1] = path[i + 1]
          /\ Len(Tail(enc.rest)) = Len(enc.rest) - 1
          /\ \A j \in 1 .. Len(enc.rest) - 1 : Tail(enc.rest)[j] = enc.rest[j + 1]
      <4>1. 1 \in 1 .. Len(enc.rest)
        BY <3>3
      <4>2. enc.rest[1] = path[i + 1]
        BY <3>1, <4>1
      <4>3. /\ Head(enc.rest) = enc.rest[1]
            /\ Len(Tail(enc.rest)) = Len(enc.rest) - 1
            /\ \A j \in 1 .. Len(enc.rest) - 1 :
                    Tail(enc.rest)[j] = enc.rest[j + 1]
        BY <3>2, <3>3, Popped
      <4> QED BY <4>2, <4>3
    <3> DEFINE n == entry[enc.ino][Head(enc.rest)]
    <3>5. n = At(Now, SubSeq(path, 1, i + 1)) /\ n # None
      <4>1. n = entry[At(Now, SubSeq(path, 1, i))][path[i + 1]]
        BY <3>1, <3>4
      <4> QED BY <2>d, <4>1
    <3> HIDE DEF n
    <3>6. CASE Len(enc.rest) = 1
      <4>1. i + 1 = Len(path)
        BY <3>1, <3>2, <3>6
      <4>2. n = s.ino
        BY <2>d, <3>5, <4>1
      <4>3. pc' = "copy" /\ enc' = [enc EXCEPT !.ino = n, !.rest = Tail(@)]
        BY <2>4, <2>6, <3>5, <3>6, <4>2 DEF Beneath, n
      <4>4. enc'.ino = n /\ enc'.archive = enc.archive
        BY <1>4, <4>3 DEF Encodings
      <4> QED BY <1>1, <2>1, <2>2, <4>2, <4>3, <4>4 DEF Writing
    <3>7. CASE Len(enc.rest) # 1
      <4>1. i + 1 \in 0 .. Len(path) - 1
        BY <3>1, <3>2, <3>3, <3>7
      <4>2. node[n].type = "dir"
        BY <2>d, <3>5, <4>1
      <4>3. pc' = "beneath" /\ enc' = [enc EXCEPT !.ino = n, !.rest = Tail(@)]
        BY <2>6, <3>5, <3>7, <4>2 DEF Beneath, n
      <4>4. enc'.ino = n /\ enc'.archive = enc.archive
            /\ enc'.rest = Tail(enc.rest)
        BY <1>4, <4>3 DEF Encodings
      <4>5. Len(Tail(enc.rest)) = Len(path) - (i + 1)
        BY <3>1, <3>2, <3>4
      <4>6. ASSUME NEW j \in 1 .. Len(Tail(enc.rest))
            PROVE  Tail(enc.rest)[j] = path[(i + 1) + j]
        <5>1. /\ j \in 1 .. Len(enc.rest) - 1 /\ j + 1 \in 1 .. Len(enc.rest)
              /\ i + (j + 1) = (i + 1) + j
          BY <3>1, <3>3, <3>4, <3>2
        <5>2. Tail(enc.rest)[j] = enc.rest[j + 1]
          BY <3>4, <5>1
        <5>3. enc.rest[j + 1] = path[i + (j + 1)]
          BY <3>1, <5>1
        <5> QED BY <5>1, <5>2, <5>3
      <4>7. \E k \in 0 .. Len(path) - 1 :
            /\ enc'.ino = At(Now, SubSeq(path, 1, k))
            /\ Len(enc'.rest) = Len(path) - k
            /\ \A j \in 1 .. Len(enc'.rest) : enc'.rest[j] = path[k + j]
        BY <3>5, <4>1, <4>4, <4>5, <4>6
      <4> QED BY <1>1, <2>1, <2>2, <4>3, <4>4, <4>7, SMTT(30) DEF Writing
    <3> QED BY <3>6, <3>7
  <2>7. CASE Copy
    <3>1. /\ pc = "copy" /\ pc' = "copied"
          /\ enc' = [enc EXCEPT !.read = node[enc.ino].data]
      BY <2>7 DEF Copy
    <3>2. enc'.read = node[enc.ino].data /\ enc'.ino = enc.ino
          /\ enc'.archive = enc.archive
      BY <1>4, <3>1 DEF Encodings
    <3>3. Writing(Now, "copied", payload, enc')
      BY <2>1, <2>2, <3>1, <3>2, NowShape DEF Writing
    <3> QED BY <1>1, <3>1, <3>3
  <2>8. CASE CopyCheck
    <3>1. SameStamp(enc.ino) /\ SameDigest
      BY <2>2, <2>3, <2>4, <2>8 DEF CopyCheck, SameDigest
    <3>2. pc' = "encode"
      BY <2>8, <3>1 DEF CopyCheck
    <3> QED BY <1>1, <3>2 DEF Writing
  <2> QED BY <1>8, <2>6, <2>7, <2>8 DEF Encoding, Reopen, Encode
<1>9. QED
  BY <1>1, <1>6, <1>7, <1>8 DEF Encoding, Beneath, Copy, CopyCheck

\* A change makes another tree.
LEMMA TreeIsChanged ==
  ASSUME TreeOK, Alter \/ Put \/ Detach \/ Join \/ Move
  PROVE  /\ views' = views \cup {Now'} /\ Now' # Now
<1>1. /\ node \in [Node -> [type : Type, data : Data, stamp : Nat]]
      /\ entry \in [Node -> [EntryName -> Node \cup {None}]]
      /\ Root \in Node /\ None \notin Node /\ changes \in Nat
      /\ \A n \in Node : node[n].stamp <= changes
      /\ Attached \subseteq Node /\ Dirs \subseteq Node
  <2>1. entry \in [Node -> [EntryName -> Node \cup {None}]]
    BY DEF TreeOK
  <2>2. Attached \subseteq Node
    BY <2>1 DEF Attached
  <2> QED BY <2>2, PayloadAssumption DEF TreeOK, Dirs
<1>2. ASSUME NEW kind, NEW new, NEW S, NEW e, Change(kind, new, S, e)
      PROVE  /\ views' = views \cup {Now'}
             /\ node' = [n \in Node |-> IF n \in S
                            THEN [new[n] EXCEPT !.stamp = changes + 1] ELSE new[n]]
  BY <1>2 DEF Change, Now
<1>3. ASSUME node' # node
      PROVE  Now' # Now
  BY <1>3 DEF Now
\* A node of S gets a stamp there has not been.
<1>4. ASSUME NEW kind, NEW new, NEW S, NEW e, Change(kind, new, S, e),
             NEW n \in Node, n \in S,
             new[n] \in [type : Type, data : Data, stamp : Nat]
      PROVE  node' # node
  <2>1. node'[n] = [new[n] EXCEPT !.stamp = changes + 1]
    BY <1>2, <1>4
  <2>2. node'[n].stamp = changes + 1
    BY <1>4, <2>1
  <2> QED BY <1>1, <2>2
<1>5. CASE Alter
  <2>1. PICK n \in Attached \cup {Root}, v \in Data :
            /\ v # node[n].data
            /\ \E S \in IF coarse /\ node[n].type = "regular"
                     THEN {{}, {n}} ELSE {{n}} :
                Change("alter", [node EXCEPT ![n].data = v], S, entry)
    BY <1>5 DEF Alter
  <2> DEFINE new == [node EXCEPT ![n].data = v]
  <2>2. PICK S \in IF coarse /\ node[n].type = "regular"
                   THEN {{}, {n}} ELSE {{n}} : Change("alter", new, S, entry)
    BY <2>1
  <2>3. n \in Node /\ new[n] = [node[n] EXCEPT !.data = v]
    BY <1>1
  <2>4. new[n] \in [type : Type, data : Data, stamp : Nat] /\ new[n].data = v
    BY <1>1, <2>3
  <2> HIDE DEF new
  <2>5. node'[n] = IF n \in S THEN [new[n] EXCEPT !.stamp = changes + 1] ELSE new[n]
    <3>1. node' = [x \in Node |-> IF x \in S
                    THEN [new[x] EXCEPT !.stamp = changes + 1] ELSE new[x]]
      BY <2>2 DEF Change
    <3> QED BY <2>3, <3>1
  <2>6. node'[n].data = v
    <3>1. PICK x \in [type : Type, data : Data, stamp : Nat] : x = new[n]
      BY <2>4
    <3>2. [x EXCEPT !.stamp = changes + 1].data = v /\ x.data = v
      BY <2>4, <3>1
    <3> QED BY <2>5, <3>1, <3>2
  <2> QED BY <1>2, <1>3, <2>1, <2>2, <2>6
<1>6. CASE Put
  <2> DEFINE n == Min(Node \ (Attached \cup InUse \cup {Root}))
  <2>1. PICK d \in Dirs, m \in EntryName, t \in NewTypes, v \in Data :
            Change("put", [node EXCEPT ![n].type = t, ![n].data = v],
                   {d, n, entry[d][m]} \ {None}, [entry EXCEPT ![d][m] = n])
    BY <1>6 DEF Put
  <2> DEFINE new == [node EXCEPT ![n].type = t, ![n].data = v]
             S == {d, n, entry[d][m]} \ {None}
             e == [entry EXCEPT ![d][m] = n]
  <2>2. t \in Type /\ d \in Node /\ d \in S
    BY <1>1, PayloadAssumption DEF Type
  <2> HIDE DEF n
  <2>3. new[d] \in [type : Type, data : Data, stamp : Nat]
    BY <1>1, <2>2
  <2> HIDE DEF new, S, e
  <2>4. Change("put", new, S, e)
    BY <2>1 DEF new, S, e
  <2> QED BY <1>2, <1>3, <1>4, <2>2, <2>3, <2>4
<1>7. ASSUME NEW kind, NEW d \in Dirs, NEW S, d \in S, NEW e,
             Change(kind, node, S, e)
      PROVE  views' = views \cup {Now'} /\ Now' # Now
  <2>1. d \in Node /\ node[d] \in [type : Type, data : Data, stamp : Nat]
    BY <1>1
  <2> QED BY <1>2, <1>3, <1>4, <1>7, <2>1
<1>8. CASE Detach
  BY <1>7, <1>8 DEF Detach
<1>9. CASE Join
  BY <1>7, <1>9 DEF Join
<1>10. CASE Move
  BY <1>7, <1>10 DEF Move
<1>11. QED
  BY <1>5, <1>6, <1>8, <1>9, <1>10

LEMMA FreshWalks ==
  ASSUME NEW t, t.node[Root].type = "dir"
  PROVE  Walking(t, "enter", FreshScan)
<1>1. /\ Len(FreshScan.stack) = 1 /\ FreshScan.stack[1].dir = Root
      /\ FreshScan.stack[1].path = <<>> /\ FreshScan.entries = <<>>
      /\ FreshScan.stack[1].todo = {} /\ FreshScan.stack[1].opened = NoStat
      /\ FreshScan.stamps = <<>> /\ Len(<<>>) = 0
  BY DEF FreshScan, Frame
<1>2. Framed(t, FreshScan.stack, TRUE)
  <2>1. \A i \in 1 .. Len(FreshScan.stack) : i = 1
    BY <1>1
  <2> QED BY <1>1, <2>1, AtRoot DEF Framed
<1>3. Exact(t, FreshScan.entries, FreshScan.stamps)
  BY <1>1 DEF Exact
<1>4. QED
  BY <1>1, <1>2, <1>3 DEF Walking, Begun, Bound, AtEntry, Framed

LEMMA StepIsCalm ==
  ASSUME Inv, Calm, [Next]_vars
  PROVE  Calm'
<1>1. TypeOK /\ Archived /\ TreeOK
  BY DEF Inv, TypeOK
<1>2. CASE Sealer
  <2>1. /\ UNCHANGED <<treeVars, since>> /\ Now' = Now /\ views' = views
        /\ entry' = entry /\ node' = node /\ pc # "failed"
    <3>1. UNCHANGED <<treeVars, since>> /\ pc # "failed"
      BY <1>2 DEF Sealer, Inspecting, Encoding, Enter, List, Visit, OpenDir,
                  LeaveDir, OpenRegular, HardLink, ReadRegular, HashRegular,
                  ReadLink, CheckLink, Special, Retain, Reopen, Encode, Beneath,
                  Copy, CopyCheck
    <3> QED BY <1>1, <3>1, TreeSame DEF treeVars
  <2>2. SUFFICES ASSUME views = {Now}
                 PROVE  IF pc' = "failed" THEN Excuse' ELSE Quiet'
    BY <2>1 DEF Calm
  <2>3. Quiet
    BY <2>1, <2>2 DEF Calm
  <2>4. Excuse' <=> Excuse
    BY <2>1 DEF Excuse, Attached
  <2>5. Quiet' <=> /\ Walking(Now, pc', scan')
                   /\ pc' \in Inspects => Reached(Now, pc', scan')
                   /\ Retained(Now, payload')
                   /\ Writing(Now, pc', payload', enc')
    BY <2>1 DEF Quiet
  <2>6. CASE Inspecting /\ ~Retain
    <3>1. /\ payload' = payload /\ pc \in Inspects /\ pc # "retain"
          /\ pc' \in Inspects \cup {"failed"}
      <4>1. Inspection
        BY <1>1, <2>1, <2>6, InspectingTyped
      <4>2. pc # "retain"
        BY <2>6 DEF Inspecting, Enter, List, Visit, OpenDir,
                  LeaveDir, OpenRegular, HardLink, ReadRegular, HashRegular,
                  ReadLink, CheckLink, Special
      <4> QED BY <4>1, <4>2 DEF Inspection
    <3>2. Goes \/ (pc' = "failed" /\ Excuse)
      BY <1>1, <2>3, <2>6, InspectingGoes DEF Quiet
    <3>3. CASE Goes
      <4>1. Reached(Now, pc', scan')
        BY <2>3, <3>1, <3>3, ReachedOn DEF Goes, Quiet
      <4>2. Retained(Now, payload')
        BY <2>3, <3>1 DEF Quiet
      <4>3. pc' \in Inspects /\ pc' # "failed" /\ Walking(Now, pc', scan')
        BY <3>1, <3>3 DEF Goes
      <4>4. Writing(Now, pc', payload', enc')
        BY <4>3 DEF Writing, Inspects, AtEntry
      <4> QED BY <2>5, <4>1, <4>2, <4>3, <4>4
    <3> QED BY <2>4, <3>2, <3>3
  <2>7. CASE Retain
    BY <1>1, <2>3, <2>5, <2>7, RetainQuiet
  <2>8. CASE Encoding
    <3>1. /\ pc' # "failed" /\ pc' \notin Inspects /\ payload' = payload
          /\ Writing(Now, pc', payload, enc')
      BY <1>1, <2>3, <2>8, EncodingQuiet
    <3> QED BY <2>3, <2>5, <3>1 DEF Quiet, Walking
  <2> QED BY <1>2, <2>6, <2>7, <2>8 DEF Sealer
<1>3. CASE EncodeEnd
  <2>1. /\ UNCHANGED treeVars /\ Now' = Now /\ views' = views /\ pc = "encode"
    BY <1>1, <1>3, TreeSame DEF EncodeEnd, treeVars
  <2>2. SUFFICES ASSUME views = {Now}
                 PROVE  pc' # "failed" /\ Quiet'
    BY <2>1 DEF Calm
  <2>3. Quiet /\ payload.entries # <<>>
    BY <1>1, <2>1, <2>2 DEF Calm, Archived, Encodes
  <2>4. SameRoot
    BY <2>3, StatNow DEF SameRoot, Quiet, Retained
  <2>5. pc' = "enter" /\ scan' = FreshScan /\ payload' = payload
    BY <1>3, <2>4 DEF EncodeEnd
  <2>6. Walking(Now, "enter", FreshScan) /\ Reached(Now, "enter", FreshScan)
    BY <1>1, FreshWalks, ReachedFirst DEF TreeOK, Now
  <2>7. Retained(Now, payload')
    BY <2>3, <2>5 DEF Quiet
  <2> QED BY <2>1, <2>5, <2>6, <2>7 DEF Quiet, Writing
<1>4. CASE Alter \/ Put \/ Detach \/ Join \/ Move
  <2>1. views' = views \cup {Now'} /\ Now' # Now /\ Now \in views
    BY <1>1, <1>4, TreeIsChanged DEF TreeOK
  <2>2. IsFiniteSet(views')
    BY <2>1, FS_AddElement DEF Calm
  <2> QED BY <2>1, <2>2 DEF Calm
<1>5. CASE UNCHANGED vars
  BY <1>5 DEF vars, treeVars, Calm, Now, Excuse, Attached, Quiet
<1>6. QED
  BY <1>2, <1>3, <1>4, <1>5 DEF Next, Done

(***************************************************************************)
(* A tree that nobody touches, with an entry and no socket, is never       *)
(* refused: inspect_directory() and encode_artifact() find every stamp as  *)
(* it was, and the second inspection goes the way of the first, call by    *)
(* call, so that it chooses the same one of several hard links.            *)
(***************************************************************************)
THEOREM RefusalsHaveCause == Spec => []RefusalHasCause
<1>1. Init => Inv /\ Calm
  <2> SUFFICES ASSUME Init
               PROVE  Inv /\ Calm
    OBVIOUS
  <2>1. Inv
    BY InitTyped, InitFiles DEF Inv
  <2>2. /\ scan = FreshScan /\ pc = "enter" /\ views = {Now}
        /\ payload.entries = <<>> /\ node[Root].type = "dir"
    BY <2>1 DEF Init, Inv, TypeOK, TreeOK, Now
  <2>3. Walking(Now, pc, scan) /\ Reached(Now, pc, scan)
    BY <2>2, FreshWalks, ReachedFirst DEF Now
  <2>4. Quiet
    BY <2>2, <2>3 DEF Quiet, Retained, Writing
  <2>5. IsFiniteSet(views)
    BY <2>2, FS_Singleton
  <2> QED BY <2>1, <2>2, <2>4, <2>5 DEF Calm
<1>2. Inv /\ Calm /\ [Next]_vars => Inv' /\ Calm'
  BY StepKeepsInv, StepIsCalm
<1>3. Inv /\ Calm => RefusalHasCause
  <2> SUFFICES ASSUME Inv, Calm, pc = "failed", ~(Cardinality(views) > 1)
               PROVE  Excuse
    BY DEF RefusalHasCause, Excuse
  <2>1. Now \in views /\ IsFiniteSet(views)
    BY DEF Inv, TypeOK, TreeOK, Calm
  <2>2. views = {Now}
    <3>1. views \ {Now} = {}
      <4> SUFFICES ASSUME NEW t \in views, t # Now
                   PROVE  FALSE
        OBVIOUS
      <4>1. {Now, t} \subseteq views /\ IsFiniteSet({Now, t})
            /\ Cardinality({Now, t}) = 2
        <5>1. IsFiniteSet({Now}) /\ Cardinality({Now}) = 1
          BY FS_Singleton
        <5>2. t \notin {Now} /\ {Now} \cup {t} = {Now, t}
          OBVIOUS
        <5>3. /\ IsFiniteSet({Now} \cup {t})
              /\ Cardinality({Now} \cup {t}) = Cardinality({Now}) + 1
          BY <5>1, <5>2, FS_AddElement
        <5> QED BY <2>1, <5>1, <5>2, <5>3
      <4>2. Cardinality({Now, t}) <= Cardinality(views)
        BY <2>1, <4>1, FS_Subset
      <4>3. Cardinality(views) \in Nat
        BY <2>1, FS_CardinalityType
      <4> QED BY <4>1, <4>2, <4>3
    <3> QED BY <2>1, <3>1
  <2> QED BY <2>2 DEF Calm
<1>4. QED
  BY <1>1, <1>2, <1>3, PTL DEF Spec
=============================================================================
