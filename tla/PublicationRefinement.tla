------------------------ MODULE PublicationRefinement ------------------------
(***************************************************************************)
(* SealedPublication keeps ArtifactPromise: what is seen under a durable   *)
(* name is what its inode holds, once that is complete and read-only.      *)
(***************************************************************************)
EXTENDS SealedPublication

Shown(n) ==
    IF dir[n] = None THEN None
    ELSE IF file[dir[n]].ro THEN file[dir[n]].bytes ELSE Partial

Promise == INSTANCE ArtifactPromise WITH
    shown <- Shown(Public),
    retained <- [s \in Session |-> Shown(s)],
    Other <- Partial

(***************************************************************************)
(* Every step of every system call, failure and death of the processes is  *)
(* a step of the promise or leaves it alone.                               *)
(***************************************************************************)
PromiseKept == Promise!Spec
=============================================================================
