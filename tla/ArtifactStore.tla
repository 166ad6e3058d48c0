---------------------------- MODULE ArtifactStore ----------------------------
(***************************************************************************)
(* The part of the host file system that result sealing and publication    *)
(* touch, as src/src/executor.cpp uses it.                                 *)
(*                                                                         *)
(* A file is an inode.  A session s owns one durable name, the private     *)
(* <session_root>/sealed-artifact.tar, written here simply as s; all       *)
(* sessions share one durable name, the caller's artifact path Public.     *)
(* `dir' is what running processes see under those names, `disk' what      *)
(* survives a power loss: a name reaches `disk' only when its parent       *)
(* directory is fsync'ed.  tmp[s] is the unpredictable mkstemp name of     *)
(* session s's current temporary; litter[n] holds the files that still     *)
(* carry a temporary name, in the directory of n, that nobody remembers.   *)
(***************************************************************************)
EXTENDS Naturals

CONSTANTS
    Session,    \* admitted sessions, each with a session root of its own
    Public,     \* the caller-visible artifact path they all publish to
    Inode,      \* file identities (st_dev, st_ino)
    Content,    \* complete package_tar byte strings; equal iff digests are
    None,       \* no file, no session, no value
    Alloc(_)    \* the inodes a new file may get, out of a set of free ones

Name == Session \cup {Public}

\* The bytes of a file whose writing was interrupted, or torn by a power loss.
Partial == "partial"

ASSUME StoreAssumption ==
    /\ Public \notin Session
    /\ None \notin Session \cup {Public} \cup Inode \cup Content
    /\ Partial \notin Content \cup {None}
    /\ \A free \in SUBSET Inode : Alloc(free) \subseteq free

VARIABLES
    file,       \* [Inode -> File]: bytes, read-only mode, data fsync'ed, maker
    dir,        \* [Name -> Inode or None]: names as processes see them
    disk,       \* [Name -> Inode or None]: names as they survive power loss
    tmp,        \* [Session -> Inode or None]: temporary_artifact's path_
    litter      \* [Name -> SUBSET Inode]: temporaries left beside a name

storeVars == <<file, dir, disk, tmp, litter>>

File == [bytes  : Content \cup {Partial},
         ro     : BOOLEAN,
         synced : BOOLEAN,
         by     : Session \cup {None}]

StoreTypeOK ==
    /\ file \in [Inode -> File]
    /\ dir \in [Name -> Inode \cup {None}]
    /\ disk \in [Name -> Inode \cup {None}]
    /\ tmp \in [Session -> Inode \cup {None}]
    /\ litter \in [Name -> SUBSET Inode]

StoreInit ==
    /\ file = [i \in Inode |-> [bytes |-> Partial, ro |-> FALSE,
                                synced |-> FALSE, by |-> None]]
    /\ dir = [n \in Name |-> None]
    /\ disk = [n \in Name |-> None]
    /\ tmp = [s \in Session |-> None]
    /\ litter = [n \in Name |-> {}]

\* No name of any kind, visible or persisted, refers to inode i.
Unnamed(i) ==
    /\ \A n \in Name : dir[n] # i /\ disk[n] # i /\ i \notin litter[n]
    /\ \A s \in Session : tmp[s] # i

(***************************************************************************)
(* file_stamp of an inode.  Its bytes never change once it has a durable   *)
(* name, so what can change under an observer is st_nlink and st_ctim,     *)
(* that is, the set of names: link() and unlink() both alter the stamp.    *)
(***************************************************************************)
Stamp(i) == [ino   |-> i,
             names |-> {n \in Name : dir[n] = i},
             temp  |-> \/ \E n \in Name : i \in litter[n]
                       \/ \E s \in Session : tmp[s] = i]

StampType == [ino : Inode, names : SUBSET Name, temp : BOOLEAN]

NoStamp == [ino |-> None, names |-> {}, temp |-> FALSE]

\* Name n shows the complete read-only bytes b.
Exact(n, b) == /\ dir[n] # None
               /\ file[dir[n]].bytes = b
               /\ file[dir[n]].ro

\* A file freshly created by mkstemp for session s, or by somebody else.
Created(s) == [bytes |-> Partial, ro |-> FALSE, synced |-> FALSE, by |-> s]
Dropped(b, mode) == [bytes |-> b, ro |-> mode, synced |-> TRUE, by |-> None]

\* write() of all the bytes b.
Filled(f, b) == [bytes |-> b, ro |-> f.ro, synced |-> f.synced, by |-> f.by]

\* fchmod(fd, 0444) followed by fsync(fd).
UnsyncedSeal(f) == [bytes |-> f.bytes, ro |-> TRUE, synced |-> FALSE,
                    by |-> f.by]
Sealed(f) == [bytes |-> f.bytes, ro |-> TRUE, synced |-> TRUE, by |-> f.by]

\* What a power loss leaves of a file's data.
Survivor(f) == IF f.synced THEN f ELSE Filled(f, Partial)

\* link(): fails with EEXIST when the name is taken.
AlwaysFree(n) == TRUE
NameFree(n) == dir[n] = None

Bind(n, i) == dir' = [dir EXCEPT ![n] = i]
Unlink(n) == dir' = [dir EXCEPT ![n] = None]
UnlinkTemp(s) == tmp' = [tmp EXCEPT ![s] = None]

\* fsync of the directory that holds name n; d is the directory's content.
NoSync(n, d) == UNCHANGED disk
SyncParent(n, d) == disk' = [disk EXCEPT ![n] = d[n]]
=============================================================================
