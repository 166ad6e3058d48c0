-------------------------- MODULE SealedPublication --------------------------
(***************************************************************************)
(* execute_sealed(), publish_sealed_artifact() and execute() of            *)
(* src/src/executor.cpp, one action per system call that another process,  *)
(* a fault or a crash can come between.                                    *)
(*                                                                         *)
(* Each session is driven by a durable controller: it calls execute or     *)
(* execute_sealed while it holds no terminal evidence, persists the result *)
(* (result_codec.cpp), and calls publish_sealed_artifact on a successful   *)
(* one as often as it takes.  Sessions have session roots of their own and *)
(* publish to the same artifact path; one process works on a session at a  *)
(* time.  Other programs may use the artifact path too.                    *)
(***************************************************************************)
EXTENDS ArtifactStore

CONSTANTS
    Calls,          \* entry points the controllers use
    ForeignMay,     \* what other programs do to the artifact path
    MaxFaults,      \* system calls that fail
    MaxKills,       \* processes that die
    MaxLosses,      \* power losses
    MaxForeign      \* interventions of other programs

\* result_sealing_failure_kind, and the execution failure that precedes it.
SealingFailure == {"payload_inspection", "artifact_encoding",
                   "artifact_publication", "artifact_verification",
                   "artifact_cleanup"}
Failure == SealingFailure \cup {"execution"}

ASSUME PublicationAssumption ==
    /\ Calls \subseteq {"execute_sealed", "execute"}
    /\ ForeignMay \subseteq {"create", "remove"}
    /\ {MaxFaults, MaxKills, MaxLosses, MaxForeign} \subseteq Nat
    /\ Content \cap Failure = {}
    /\ None \notin Failure

VARIABLES
    pc,         \* the next system call of each session's process
    call,       \* the entry point it is in
    dest,       \* temporary_artifact's destination: the private name or Public
    fd,         \* temporary_artifact's descriptor_
    binding,    \* published_ and owns_publication_: none, owned or adopted
    exam,       \* whose exact bytes are examined: public, private or adopt
    seen,       \* the stamp taken first of the two that are compared
    want,       \* the expected digest and byte count
    err,        \* the error being thrown
    evidence,   \* the durable terminal result: bytes, a failure, or None
    complete,   \* publish_sealed_artifact returned normally on that result
    faults, kills, losses, foreign      \* what is left of each bound

callVars == <<call, dest, want>>
examVars == <<exam, seen>>
procVars == <<pc, callVars, fd, binding, examVars, err>>
resultVars == <<evidence, complete>>
crashVars == <<kills, losses, foreign>>
vars == <<storeVars, procVars, resultVars, faults, crashVars>>

Label == {"idle", "capabilities", "prepare", "invoke", "inspect", "mktemp",
          "write", "seal", "reinspect", "digest", "link", "confirm",
          "sync_link", "untemp", "sync_untemp", "withdraw", "withdraw_sync",
          "open", "hash", "restat", "redundant", "sync_redundant", "image",
          "verify_fstat", "verify_lstat", "rollback", "undo", "unwind",
          "drop", "rm_private", "sync_private", "persist"}

\* Labels at which the temporary holds an open descriptor.
Holding == {"write", "seal", "reinspect", "digest", "link", "confirm",
            "sync_link", "untemp", "sync_untemp", "withdraw",
            "withdraw_sync", "redundant", "sync_redundant", "image",
            "verify_fstat", "verify_lstat"}

\* Labels at which a file has been opened and its stamp taken.
Examining == {"hash", "restat", "redundant", "sync_redundant",
              "verify_lstat"}

\* Labels before the first temporary.
Building == {"idle", "capabilities", "prepare", "invoke", "inspect"}

\* A descriptor wherever the code uses one, and an opened file wherever it
\* compares stamps.
DescriptorsOK ==
    \A s \in Session :
        /\ \/ pc[s] \in Holding
           \/ binding[s] # "none"
           \/ pc[s] \in {"open", "hash", "restat"} /\ exam[s] = "adopt"
           => fd[s] \in Inode
        /\ \/ pc[s] \in Examining
           \/ pc[s] \in {"mktemp", "write"} /\ dest[s] # s
           => seen[s].ino \in Inode
        /\ pc[s] \in Building => dest[s] = s /\ exam[s] = "public"

ProcessTypeOK ==
    /\ pc \in [Session -> Label]
    /\ call \in [Session -> {"none", "execute_sealed", "execute", "publish"}]
    /\ dest \in [Session -> Name] /\ \A s \in Session : dest[s] \in {s, Public}
    /\ fd \in [Session -> Inode \cup {None}]
    /\ binding \in [Session -> {"none", "owned", "adopted"}]
    /\ exam \in [Session -> {"public", "private", "adopt"}]
    /\ seen \in [Session -> StampType \cup {NoStamp}]
    /\ want \in [Session -> Content \cup {None}]
    /\ err \in [Session -> Failure \cup {None}]

ResultTypeOK ==
    /\ evidence \in [Session -> Content \cup Failure \cup {None}]
    /\ complete \in [Session -> BOOLEAN]
    /\ faults \in 0 .. MaxFaults
    /\ kills \in 0 .. MaxKills
    /\ losses \in 0 .. MaxLosses
    /\ foreign \in 0 .. MaxForeign

(***************************************************************************)
(* Type invariant.  Its last part is more than typing: no call reaches a   *)
(* system call on a descriptor it does not hold, or compares a file with a *)
(* stamp it never took.                                                    *)
(***************************************************************************)
TypeOK == StoreTypeOK /\ ProcessTypeOK /\ ResultTypeOK /\ DescriptorsOK

Init ==
    /\ StoreInit
    /\ pc = [s \in Session |-> "idle"]
    /\ call = [s \in Session |-> "none"]
    /\ dest = [s \in Session |-> s]
    /\ fd = [s \in Session |-> None]
    /\ binding = [s \in Session |-> "none"]
    /\ exam = [s \in Session |-> "public"]
    /\ seen = [s \in Session |-> NoStamp]
    /\ want = [s \in Session |-> None]
    /\ err = [s \in Session |-> None]
    /\ evidence = [s \in Session |-> None]
    /\ complete = [s \in Session |-> FALSE]
    /\ faults = MaxFaults
    /\ kills = MaxKills
    /\ losses = MaxLosses
    /\ foreign = MaxForeign
-----------------------------------------------------------------------------
\* Control flow of one process.

Goto(s, l) == pc' = [pc EXCEPT ![s] = l]

Fault == faults > 0 /\ faults' = faults - 1

\* A call fails because of what it meets, or for reasons outside the model.
Fails(cond) == (cond /\ UNCHANGED faults) \/ Fault

\* throw error(code, ...): the destructor of the temporary runs next.
Raise(s, code) == /\ Goto(s, "unwind")
                  /\ err' = [err EXCEPT ![s] = code]

\* A system call, or a check of what it returned, that throws unless ok.
Attempt(s, ok, next, code) ==
    \/ ok /\ Goto(s, next) /\ UNCHANGED <<err, faults>>
    \/ Fails(~ok) /\ Raise(s, code)

\* The process holds no state of a call any more.
Forget(s) ==
    /\ call' = [call EXCEPT ![s] = "none"]
    /\ dest' = [dest EXCEPT ![s] = s]
    /\ fd' = [fd EXCEPT ![s] = None]
    /\ binding' = [binding EXCEPT ![s] = "none"]
    /\ exam' = [exam EXCEPT ![s] = "public"]
    /\ seen' = [seen EXCEPT ![s] = NoStamp]
    /\ want' = [want EXCEPT ![s] = None]
    /\ err' = [err EXCEPT ![s] = None]

\* The call is over: it returned, or an exception left the library.
Escape(s) == Goto(s, "idle") /\ Forget(s)

\* The temporary is destined to the private name while the result is sealed.
Sealing(s) == dest[s] = s

\* The inodes no name and no descriptor refers to.
Free == {i \in Inode : /\ Unnamed(i)
                       /\ \A s \in Session : fd[s] # i /\ seen[s].ino # i}
-----------------------------------------------------------------------------
\* execute_sealed() up to a successful execution.

\* The controller calls execute_sealed or execute: it has no evidence yet.
StartExecute(s, c) ==
    /\ pc[s] = "idle"
    /\ evidence[s] = None
    /\ Goto(s, "capabilities")
    /\ call' = [call EXCEPT ![s] = c]
    /\ UNCHANGED <<storeVars, dest, want, fd, binding, examVars, err,
                   resultVars, faults, crashVars>>

\* backend_capabilities(): a backend that throws stops the call before effects.
Capabilities(s) ==
    /\ pc[s] = "capabilities"
    /\ \/ /\ Goto(s, "prepare")
          /\ UNCHANGED <<callVars, fd, binding, examVars, err>>
       \/ Escape(s)
    /\ UNCHANGED <<storeVars, resultVars, faults, crashVars>>

(***************************************************************************)
(* prepare(): the request is sealed first, without effects.  Then          *)
(* reset_directory() empties the session root, the private sealed name and *)
(* old temporaries with it, and nothing of that is fsync'ed.  It may stop  *)
(* halfway.  Staging, which follows, may throw as well.                    *)
(***************************************************************************)
ResetSession(s) == /\ Unlink(s)
                   /\ litter' = [litter EXCEPT ![s] = {}]
Prepare(s) ==
    /\ pc[s] = "prepare"
    /\ \/ /\ Escape(s)
          /\ UNCHANGED <<dir, litter, faults>>
       \/ /\ ResetSession(s)
          /\ Escape(s) \/ (Goto(s, "invoke") /\
                           UNCHANGED <<callVars, fd, binding, examVars, err>>)
          /\ UNCHANGED faults
       \/ /\ Fault
          /\ Unlink(s) \/ UNCHANGED dir
          /\ \E left \in SUBSET litter[s] :
                litter' = [litter EXCEPT ![s] = left]
          /\ Escape(s)
    /\ UNCHANGED <<file, disk, tmp, resultVars, crashVars>>

(***************************************************************************)
(* invoke_backend() and the checks on what it returned: an exception, or   *)
(* evidence for another request or backend profile, leaves the library; a  *)
(* failed execution is a result; a successful one goes on to sealing.      *)
(***************************************************************************)
Invoke(s) ==
    /\ pc[s] = "invoke"
    /\ \/ Escape(s)
       \/ /\ Goto(s, "persist")
          /\ err' = [err EXCEPT ![s] = "execution"]
          /\ UNCHANGED <<callVars, fd, binding, examVars>>
       \/ /\ Goto(s, "inspect")
          /\ UNCHANGED <<callVars, fd, binding, examVars, err>>
    /\ UNCHANGED <<storeVars, resultVars, faults, crashVars>>

\* inspect_payload(): the package output may hold what cannot be sealed.  An
\* exception of another library counts as a failed verification.
Inspect(s) ==
    /\ pc[s] = "inspect"
    /\ \/ Goto(s, "mktemp") /\ UNCHANGED err
       \/ \E code \in {"payload_inspection", "artifact_verification"} :
            Raise(s, code)
    /\ UNCHANGED <<storeVars, callVars, fd, binding, examVars, resultVars,
                   faults, crashVars>>
-----------------------------------------------------------------------------
(***************************************************************************)
(* class temporary_artifact, used twice: for the private sealed name by    *)
(* execute_sealed, for the artifact path by publish_sealed_artifact.       *)
(***************************************************************************)

\* The constructor: mkstemp beside the destination.
MkTemp(s) ==
    /\ pc[s] = "mktemp"
    /\ \/ \E i \in Alloc(Free) :
            /\ file' = [file EXCEPT ![i] = Created(s)]
            /\ tmp' = [tmp EXCEPT ![s] = i]
            /\ fd' = [fd EXCEPT ![s] = i]
            /\ Goto(s, "write")
            /\ UNCHANGED <<err, faults>>
       \/ /\ Fault
          /\ Raise(s, "artifact_publication")
          /\ UNCHANGED <<file, tmp, fd>>
    /\ UNCHANGED <<dir, disk, litter, callVars, binding, examVars,
                   resultVars, crashVars>>

\* encode_artifact() archives whatever the build produced;
\* copy_exact_artifact() copies the retained private file.
Product(s) == IF Sealing(s) THEN Content ELSE {file[seen[s].ino].bytes}
WriteError(s) == IF Sealing(s) THEN "artifact_encoding"
                               ELSE "artifact_publication"

\* The bytes are written; the payload may change meanwhile.
Write(s) ==
    /\ pc[s] = "write"
    /\ \/ /\ \E b \in Product(s) :
                file' = [file EXCEPT ![fd[s]] = Filled(file[fd[s]], b)]
          /\ Goto(s, "seal")
          /\ UNCHANGED <<err, faults>>
       \/ /\ Fails(Sealing(s))
          /\ Raise(s, WriteError(s))
          /\ UNCHANGED file
    /\ UNCHANGED <<dir, disk, tmp, litter, callVars, fd, binding, examVars,
                   resultVars, crashVars>>

\* fchmod(0444) and fsync of the temporary.
Seal(s) ==
    /\ pc[s] = "seal"
    /\ \/ /\ file' = [file EXCEPT ![fd[s]] = Sealed(file[fd[s]])]
          /\ Goto(s, IF Sealing(s) THEN "reinspect" ELSE "digest")
          /\ UNCHANGED <<err, faults>>
       \/ Fault /\ Raise(s, WriteError(s)) /\ UNCHANGED file
    /\ UNCHANGED <<dir, disk, tmp, litter, callVars, fd, binding, examVars,
                   resultVars, crashVars>>

\* execute_sealed inspects the payload again and compares.
Reinspect(s) ==
    /\ pc[s] = "reinspect"
    /\ \/ Goto(s, "digest") /\ UNCHANGED err
       \/ \E code \in {"payload_inspection", "artifact_verification",
                       "artifact_encoding"} : Raise(s, code)
    /\ UNCHANGED <<storeVars, callVars, fd, binding, examVars, resultVars,
                   faults, crashVars>>

(***************************************************************************)
(* hash_artifact() fixes the digest the rest of execute_sealed works with; *)
(* copy_exact_artifact() requires the digest that evidence names.          *)
(***************************************************************************)
Digest(s) ==
    LET bytes == file[fd[s]].bytes IN
    /\ pc[s] = "digest"
    /\ IF Sealing(s)
       THEN /\ Attempt(s, TRUE, "link", "artifact_verification")
            /\ want' = [want EXCEPT ![s] = bytes]
       ELSE /\ Attempt(s, bytes = want[s], "link", "artifact_publication")
            /\ UNCHANGED want
    /\ UNCHANGED <<storeVars, call, dest, fd, binding, examVars, resultVars,
                   crashVars>>
\* publish(): link() without replacement; EEXIST turns to the existing file.
Link(s) ==
    /\ pc[s] = "link"
    /\ \/ /\ NameFree(dest[s])
          /\ Bind(dest[s], fd[s])
          /\ Goto(s, "confirm")
          /\ UNCHANGED <<exam, err, faults>>
       \/ /\ ~NameFree(dest[s])
          /\ exam' = [exam EXCEPT ![s] = "adopt"]
          /\ Goto(s, "open")
          /\ UNCHANGED <<dir, err, faults>>
       \/ /\ Fault
          /\ Raise(s, "artifact_publication")
          /\ UNCHANGED <<dir, exam>>
    /\ UNCHANGED <<file, disk, tmp, litter, callVars, fd, binding, seen,
                   resultVars, crashVars>>

\* fstat of the descriptor and lstat of the name just linked.
Confirm(s) ==
    /\ pc[s] = "confirm"
    /\ \/ /\ dir[dest[s]] = fd[s]
          /\ Goto(s, "sync_link")
          /\ UNCHANGED faults
       \/ /\ Fails(dir[dest[s]] # fd[s])
          /\ Goto(s, "withdraw")
    /\ UNCHANGED <<storeVars, callVars, fd, binding, examVars, err,
                   resultVars, crashVars>>

\* fsync of the parent directory: the new name is durable.
SyncLink(s) ==
    /\ pc[s] = "sync_link"
    /\ \/ /\ SyncParent(dest[s], dir)
          /\ Goto(s, "untemp")
          /\ UNCHANGED faults
       \/ Fault /\ Goto(s, "withdraw") /\ UNCHANGED disk
    /\ UNCHANGED <<file, dir, tmp, litter, callVars, fd, binding, examVars,
                   err, resultVars, crashVars>>

\* unlink of the temporary name.
Untemp(s) ==
    /\ pc[s] = "untemp"
    /\ \/ /\ UnlinkTemp(s)
          /\ Goto(s, "sync_untemp")
          /\ UNCHANGED faults
       \/ Fault /\ Goto(s, "withdraw") /\ UNCHANGED tmp
    /\ UNCHANGED <<file, dir, disk, litter, callVars, fd, binding, examVars,
                   err, resultVars, crashVars>>

\* Second fsync of the parent; the publication is now owned.
SyncUntemp(s) ==
    /\ pc[s] = "sync_untemp"
    /\ \/ /\ SyncParent(dest[s], dir)
          /\ binding' = [binding EXCEPT ![s] = "owned"]
          /\ Goto(s, IF Sealing(s) THEN "image" ELSE "verify_fstat")
          /\ UNCHANGED faults
       \/ Fault /\ Goto(s, "withdraw_sync") /\ UNCHANGED <<disk, binding>>
    /\ UNCHANGED <<file, dir, tmp, litter, callVars, fd, examVars, err,
                   resultVars, crashVars>>

(***************************************************************************)
(* Every failure after link() unlinks the destination, whatever it names   *)
(* by then, and ignores the outcome; the last one also fsyncs the parent.  *)
(***************************************************************************)
NoWithdrawal(s) == UNCHANGED dir
Withdrawal(s) == Unlink(dest[s])
Withdraw(s) ==
    LET Flush == IF pc[s] = "withdraw_sync" THEN SyncParent(dest[s], dir')
                                            ELSE UNCHANGED disk
    IN
    /\ pc[s] \in {"withdraw", "withdraw_sync"}
    /\ Raise(s, "artifact_publication")
    /\ \/ Withdrawal(s) /\ Flush /\ UNCHANGED faults
       \/ Fault /\ UNCHANGED dir /\ Flush
       \/ Fault /\ Withdrawal(s) /\ UNCHANGED disk
    /\ UNCHANGED <<file, tmp, litter, callVars, fd, binding, examVars,
                   resultVars, crashVars>>
-----------------------------------------------------------------------------
(***************************************************************************)
(* The examination of an existing file that open_exact_read_only_artifact  *)
(* (artifact path first, then the private name) and adopt_exact_existing   *)
(* share: open and fstat; hash and fstat again; lstat of the path.         *)
(***************************************************************************)
ExamName(s) == IF exam[s] = "private" THEN s ELSE dest[s]

\* open() of n fails with ENOENT.
Absent(n) == dir[n] = None

\* absent_is_empty: publication goes on to the retained private file.
AbsentIsError(s) == FALSE
AbsentIsEmpty(s) == exam[s] = "public"

Open(s) ==
    LET n == ExamName(s) IN
    /\ pc[s] = "open"
    /\ \/ /\ Absent(n) /\ AbsentIsEmpty(s)
          /\ exam' = [exam EXCEPT ![s] = "private"]
          /\ UNCHANGED <<pc, seen, err, faults>>
       \/ /\ ~Absent(n)
          /\ Attempt(s, file[dir[n]].ro, "hash", "artifact_publication")
          /\ seen' = [seen EXCEPT ![s] = Stamp(dir[n])]
          /\ UNCHANGED exam
       \/ /\ Fails(Absent(n) /\ ~AbsentIsEmpty(s))
          /\ Raise(s, "artifact_publication")
          /\ UNCHANGED examVars
    /\ UNCHANGED <<storeVars, callVars, fd, binding, resultVars, crashVars>>

\* hash_regular(): the expected bytes, and the stamp still the same.
AnyBytes(s) == TRUE
ExactBytes(s) == file[seen[s].ino].bytes = want[s]
Hash(s) ==
    /\ pc[s] = "hash"
    /\ Attempt(s, ExactBytes(s) /\ Stamp(seen[s].ino) = seen[s], "restat",
               "artifact_publication")
    /\ UNCHANGED <<storeVars, callVars, fd, binding, examVars, resultVars,
                   crashVars>>

\* The path still leads to the file examined, unchanged.
StillBound(s, n) == /\ dir[n] = seen[s].ino
                    /\ Stamp(seen[s].ino) = seen[s]
DropsEitherCopy(s) == IF exam[s] = "adopt" THEN "redundant" ELSE "rm_private"
AfterExam(s) == IF exam[s] = "public" THEN "rm_private"
                ELSE IF exam[s] = "private" THEN "mktemp" ELSE "redundant"
Restat(s) ==
    /\ pc[s] = "restat"
    /\ Attempt(s, StillBound(s, ExamName(s)), AfterExam(s),
               "artifact_publication")
    /\ UNCHANGED <<storeVars, callVars, fd, binding, examVars, resultVars,
                   crashVars>>
\* adopt_exact_existing(): the temporary is redundant.
Redundant(s) ==
    /\ pc[s] = "redundant"
    /\ \/ /\ UnlinkTemp(s)
          /\ Goto(s, "sync_redundant")
          /\ UNCHANGED <<err, faults>>
       \/ Fault /\ Raise(s, "artifact_cleanup") /\ UNCHANGED tmp
    /\ UNCHANGED <<file, dir, disk, litter, callVars, fd, binding, examVars,
                   resultVars, crashVars>>

\* fsync of the parent; then the existing file replaces the descriptor, and
\* the publication is not owned.
AdoptedAsOwned(s) == "owned"
AdoptedBinding(s) == "adopted"
SyncRedundant(s) ==
    /\ pc[s] = "sync_redundant"
    /\ \/ /\ SyncParent(dest[s], dir)
          /\ fd' = [fd EXCEPT ![s] = seen[s].ino]
          /\ binding' = [binding EXCEPT ![s] = AdoptedBinding(s)]
          /\ Goto(s, IF Sealing(s) THEN "image" ELSE "verify_fstat")
          /\ UNCHANGED <<err, faults>>
       \/ /\ Fault
          /\ Raise(s, "artifact_cleanup")
          /\ UNCHANGED <<disk, fd, binding>>
    /\ UNCHANGED <<file, dir, tmp, litter, callVars, examVars, resultVars,
                   crashVars>>
-----------------------------------------------------------------------------
\* Verification of a publication, and its withdrawal.

\* execute_sealed rolls the private name back; publication just throws.
Doubt(s) == /\ Goto(s, IF Sealing(s) THEN "rollback" ELSE "unwind")
            /\ err' = [err EXCEPT ![s] = "artifact_verification"]

\* libpkgimage reads the private name with the expected digest; it may refuse.
Image(s) ==
    /\ pc[s] = "image"
    /\ \/ /\ Exact(dest[s], want[s])
          /\ Goto(s, "verify_fstat")
          /\ UNCHANGED err
       \/ Doubt(s)
    /\ UNCHANGED <<storeVars, callVars, fd, binding, examVars, resultVars,
                   faults, crashVars>>

\* verify_published_binding(): the stamp of the descriptor ...
VerifyFstat(s) ==
    /\ pc[s] = "verify_fstat"
    /\ \/ /\ seen' = [seen EXCEPT ![s] = Stamp(fd[s])]
          /\ Goto(s, "verify_lstat")
          /\ UNCHANGED <<err, faults>>
       \/ Fault /\ Doubt(s) /\ UNCHANGED seen
    /\ UNCHANGED <<storeVars, callVars, fd, binding, exam, resultVars,
                   crashVars>>

(***************************************************************************)
(* ... and the stamp of the path.  If they agree (and, while sealing,      *)
(* build_image_authority::admit accepts) the publication is retained:      *)
(* execute_sealed returns, execute goes on to publish, and publication     *)
(* goes on to the private name.                                            *)
(***************************************************************************)
KeptBinding(s) == binding[s]
RetainedBinding(s) == "none"
AlwaysPublishes(s) == Sealing(s)
PublishesNext(s) == Sealing(s) /\ call[s] = "execute"
Retain(s) ==
    /\ fd' = [fd EXCEPT ![s] = None]
    /\ binding' = [binding EXCEPT ![s] = RetainedBinding(s)]
    /\ seen' = [seen EXCEPT ![s] = NoStamp]
    /\ exam' = [exam EXCEPT ![s] = "public"]
    /\ dest' = [dest EXCEPT ![s] = IF PublishesNext(s) THEN Public ELSE @]
    /\ Goto(s, IF PublishesNext(s) THEN "open"
               ELSE IF Sealing(s) THEN "persist" ELSE "rm_private")
VerifyLstat(s) ==
    LET same == StillBound(s, dest[s]) /\ file[seen[s].ino].ro IN
    /\ pc[s] = "verify_lstat"
    /\ \/ /\ same
          /\ Retain(s)
          /\ UNCHANGED <<err, faults>>
       \/ /\ ~same \/ Sealing(s)
          /\ Doubt(s)
          /\ UNCHANGED <<faults, dest, fd, binding, examVars>>
       \/ /\ Fault
          /\ Doubt(s)
          /\ UNCHANGED <<dest, fd, binding, examVars>>
    /\ UNCHANGED <<storeVars, call, want, resultVars, crashVars>>

\* The name is provably the temporary's own.
Owned(s) == binding[s] = "owned" /\ dir[dest[s]] = fd[s]

\* rollback(): an adopted name is left alone; ownership is proved first.
Rollback(s) ==
    /\ pc[s] = "rollback"
    /\ \/ /\ Owned(s) \/ binding[s] = "adopted"
          /\ Goto(s, IF Owned(s) THEN "undo" ELSE "unwind")
          /\ UNCHANGED <<err, faults>>
       \/ /\ Fails(~Owned(s) /\ binding[s] = "owned")
          /\ Raise(s, "artifact_cleanup")
    /\ UNCHANGED <<storeVars, callVars, fd, binding, examVars, resultVars,
                   crashVars>>

\* rollback(): unlink and fsync of the parent, each of which may fail.
Undo(s) ==
    /\ pc[s] = "undo"
    /\ \/ /\ Unlink(dest[s])
          /\ SyncParent(dest[s], dir')
          /\ binding' = [binding EXCEPT ![s] = "none"]
          /\ Goto(s, "unwind")
          /\ UNCHANGED <<err, faults>>
       \/ /\ Fault
          /\ Unlink(dest[s]) \/ UNCHANGED dir
          /\ Raise(s, "artifact_cleanup")
          /\ UNCHANGED <<disk, binding>>
    /\ UNCHANGED <<file, tmp, litter, callVars, fd, examVars, resultVars,
                   crashVars>>

\* An error reaches the entry point: execute and execute_sealed turn it into
\* a failed result, publish_sealed_artifact lets it escape.
Leave(s) ==
    IF call[s] = "publish"
    THEN Escape(s)
    ELSE /\ Goto(s, "persist")
         /\ UNCHANGED <<callVars, fd, binding, examVars, err>>

\* ~temporary_artifact(): unlink the temporary name, or look whether the
\* published name is still its own; failures are ignored.
KeepTemp(s) == UNCHANGED tmp
DropTemp(s) == UnlinkTemp(s)
Abandon(s) == /\ UnlinkTemp(s)
              /\ litter' = [litter EXCEPT ![dest[s]] = @ \cup {tmp[s]}]
Unwind(s) ==
    /\ pc[s] = "unwind"
    /\ \/ /\ tmp[s] # None
          /\ \/ DropTemp(s) /\ UNCHANGED <<litter, faults>>
             \/ Fault /\ Abandon(s)
          /\ Leave(s)
       \/ /\ tmp[s] = None /\ Owned(s)
          /\ Goto(s, "drop")
          /\ UNCHANGED <<tmp, litter, callVars, fd, binding, examVars, err,
                         faults>>
       \/ /\ tmp[s] = None /\ ~Owned(s)
          /\ Leave(s)
          /\ UNCHANGED <<tmp, litter, faults>>
    /\ UNCHANGED <<file, dir, disk, resultVars, crashVars>>

\* ~temporary_artifact(): unlink the published name.
Drop(s) ==
    /\ pc[s] = "drop"
    /\ \/ Unlink(dest[s]) /\ UNCHANGED faults
       \/ Fault /\ UNCHANGED dir
    /\ Leave(s)
    /\ UNCHANGED <<file, disk, tmp, litter, resultVars, crashVars>>
-----------------------------------------------------------------------------
\* The end of publish_sealed_artifact(), and the controller.

\* Publication succeeded.
Published(s) ==
    IF call[s] = "publish"
    THEN /\ Escape(s)
         /\ complete' = [complete EXCEPT ![s] = TRUE]
    ELSE /\ Goto(s, "persist")
         /\ UNCHANGED <<callVars, fd, binding, examVars, err, complete>>

\* remove_private_sealed_artifact(): lstat, and unlink if it is there ...
RmPrivate(s) ==
    /\ pc[s] = "rm_private"
    /\ \/ /\ dir[s] = None
          /\ Published(s)
          /\ UNCHANGED <<dir, faults>>
       \/ /\ dir[s] # None
          /\ Unlink(s)
          /\ Goto(s, "sync_private")
          /\ UNCHANGED <<callVars, fd, binding, examVars, err, complete,
                         faults>>
       \/ /\ Fault
          /\ Raise(s, "artifact_cleanup")
          /\ UNCHANGED <<dir, callVars, fd, binding, examVars, complete>>
    /\ UNCHANGED <<file, disk, tmp, litter, evidence, crashVars>>

\* ... then fsync of the session root.
SyncPrivate(s) ==
    /\ pc[s] = "sync_private"
    /\ \/ /\ SyncParent(s, dir)
          /\ Published(s)
          /\ UNCHANGED faults
       \/ /\ Fault
          /\ Raise(s, "artifact_cleanup")
          /\ UNCHANGED <<disk, callVars, fd, binding, examVars, complete>>
    /\ UNCHANGED <<file, dir, tmp, litter, evidence, crashVars>>

(***************************************************************************)
(* The controller encodes the result and makes it durable; it decodes to   *)
(* the same result (result_codec.cpp).  A result of execute that succeeded *)
(* has been published already.                                             *)
(***************************************************************************)
Persist(s) ==
    /\ pc[s] = "persist"
    /\ evidence' = [evidence EXCEPT
                        ![s] = IF err[s] = None THEN want[s] ELSE err[s]]
    /\ complete' = [complete EXCEPT
                        ![s] = err[s] = None /\ call[s] = "execute"]
    /\ Escape(s)
    /\ UNCHANGED <<storeVars, faults, crashVars>>

\* publish_sealed_artifact() on decoded evidence; it refuses a failed result.
\* It may be called again after it succeeded.
StartPublish(s) ==
    /\ pc[s] = "idle"
    /\ evidence[s] \in Content
    /\ Goto(s, "open")
    /\ call' = [call EXCEPT ![s] = "publish"]
    /\ dest' = [dest EXCEPT ![s] = Public]
    /\ want' = [want EXCEPT ![s] = evidence[s]]
    /\ UNCHANGED <<storeVars, fd, binding, examVars, err, resultVars, faults,
                   crashVars>>
-----------------------------------------------------------------------------
\* The environment.

\* The process of session s dies: no destructor runs.
Kill(s) ==
    /\ kills > 0
    /\ kills' = kills - 1
    /\ pc[s] # "idle"
    /\ IF tmp[s] = None THEN UNCHANGED <<tmp, litter>> ELSE Abandon(s)
    /\ Escape(s)
    /\ UNCHANGED <<file, dir, disk, resultVars, faults, losses, foreign>>

(***************************************************************************)
(* Power loss: every process dies.  Each name is found as it was last seen *)
(* or as it was last synced; unsynced data is torn.  Temporary names are   *)
(* kept, the worst case.  Durable evidence stays.                          *)
(***************************************************************************)
PowerLoss ==
    /\ losses > 0
    /\ losses' = losses - 1
    /\ \E lost \in SUBSET Name :
            dir' = [n \in Name |-> IF n \in lost THEN disk[n] ELSE dir[n]]
    /\ disk' = dir'
    /\ file' = [i \in Inode |-> Survivor(file[i])]
    /\ tmp' = [s \in Session |-> None]
    /\ litter' = [n \in Name |->
                    litter[n] \cup ({tmp[s] : s \in {t \in Session : dest[t] = n}}
                                    \ {None})]
    /\ pc' = [s \in Session |-> "idle"]
    /\ call' = [s \in Session |-> "none"]
    /\ dest' = [s \in Session |-> s]
    /\ fd' = [s \in Session |-> None]
    /\ binding' = [s \in Session |-> "none"]
    /\ exam' = [s \in Session |-> "public"]
    /\ seen' = [s \in Session |-> NoStamp]
    /\ want' = [s \in Session |-> None]
    /\ err' = [s \in Session |-> None]
    /\ UNCHANGED <<resultVars, faults, kills, foreign>>

\* Another program puts a file at the artifact path, or removes what is there.
ForeignCreate ==
    /\ "create" \in ForeignMay
    /\ foreign > 0
    /\ foreign' = foreign - 1
    /\ dir[Public] = None
    /\ \E i \in Alloc(Free), b \in Content \cup {Partial}, mode \in BOOLEAN :
            /\ file' = [file EXCEPT ![i] = Dropped(b, mode)]
            /\ Bind(Public, i)
    /\ UNCHANGED <<disk, tmp, litter, procVars, resultVars, faults, kills,
                   losses>>

ForeignRemove ==
    /\ "remove" \in ForeignMay
    /\ foreign > 0
    /\ foreign' = foreign - 1
    /\ dir[Public] # None
    /\ Unlink(Public)
    /\ UNCHANGED <<file, disk, tmp, litter, procVars, resultVars, faults,
                   kills, losses>>

\* Every session ended with a failed result: there is nothing left to call.
Settled ==
    /\ \A s \in Session : pc[s] = "idle" /\ evidence[s] \in Failure
    /\ UNCHANGED vars

\* A step of the process that runs a call of session s.
Running(s) ==
    \/ Capabilities(s) \/ Prepare(s) \/ Invoke(s) \/ Inspect(s)
    \/ MkTemp(s) \/ Write(s) \/ Seal(s) \/ Reinspect(s) \/ Digest(s)
    \/ Link(s) \/ Confirm(s) \/ SyncLink(s) \/ Untemp(s) \/ SyncUntemp(s)
    \/ Withdraw(s)
    \/ Open(s) \/ Hash(s) \/ Restat(s) \/ Redundant(s) \/ SyncRedundant(s)
    \/ Image(s) \/ VerifyFstat(s) \/ VerifyLstat(s)
    \/ Rollback(s) \/ Undo(s) \/ Unwind(s) \/ Drop(s)
    \/ RmPrivate(s) \/ SyncPrivate(s) \/ Persist(s)

Next ==
    \/ \E s \in Session :
        \/ \E c \in Calls : StartExecute(s, c)
        \/ Running(s)
        \/ StartPublish(s)
        \/ Kill(s)
    \/ PowerLoss
    \/ ForeignCreate
    \/ ForeignRemove
    \/ Settled

Spec == Init /\ [][Next]_vars

(***************************************************************************)
(* Every process is scheduled, and a controller that holds successful      *)
(* evidence retries publication until it returns.                          *)
(***************************************************************************)
Retry(s) == ~complete[s] /\ StartPublish(s)
Fairness == \A s \in Session : WF_vars(Running(s)) /\ WF_vars(Retry(s))
FairSpec == Spec /\ Fairness
-----------------------------------------------------------------------------
(***************************************************************************)
(* publish() links a temporary only after encode_artifact or               *)
(* copy_exact_artifact made it read-only and fsync'ed it: whatever the     *)
(* library puts under a durable name is complete, read-only and on disk,   *)
(* for every process that looks and after every crash.                     *)
(***************************************************************************)
NoTornPublication ==
    \A n \in Name : \A i \in {dir[n], disk[n]} \ {None} :
        file[i].by # None => /\ file[i].bytes \in Content
                             /\ file[i].ro
                             /\ file[i].synced

(***************************************************************************)
(* Why it holds: until link() a temporary has no durable name and no other *)
(* process has it open, so nobody sees it being written; when link() is    *)
(* reached its bytes are complete, read-only and fsync'ed.                 *)
(***************************************************************************)
Unlinked == {"write", "seal", "reinspect", "digest", "link"}
TemporaryIsPrivate ==
    \A s \in Session : pc[s] \in Unlinked =>
        /\ \A n \in Name : fd[s] \notin {dir[n], disk[n]}
        /\ \A t \in Session \ {s} : fd[s] \notin {fd[t], seen[t].ino}
        /\ pc[s] \in {"reinspect", "digest", "link"} =>
                file[fd[s]].ro /\ file[fd[s]].synced
        /\ pc[s] # "write" /\ (Sealing(s) \/ pc[s] = "link") =>
                file[fd[s]].bytes \in Content

(***************************************************************************)
(* Durable terminal evidence can always be published without another       *)
(* build: the bytes it names are at the private name or at the artifact    *)
(* path (publish_sealed_artifact's whole purpose), unless another program  *)
(* may have removed the artifact.                                          *)
(***************************************************************************)
Robbed == "remove" \in ForeignMay /\ foreign < MaxForeign
EvidenceIsPublishable ==
    \A s \in Session : evidence[s] \in Content =>
        Exact(Public, evidence[s]) \/ Exact(s, evidence[s]) \/ Robbed

(***************************************************************************)
(* Once publish_sealed_artifact, or execute, has returned success, the     *)
(* artifact path holds exactly the bytes of the evidence, until another    *)
(* program removes it, and no private copy is left behind.  (A power loss  *)
(* may bring a private copy back: its removal is fsync'ed once, and a      *)
(* retry after that fsync failed finds the name absent and does not repeat *)
(* it.)                                                                    *)
(***************************************************************************)
CompletionIsExact ==
    \A s \in Session : complete[s] =>
        /\ Exact(Public, evidence[s]) \/ Robbed
        /\ losses = MaxLosses => dir[s] = None

(***************************************************************************)
(* "Publication never replaces existing bytes" (executor.h): link() and    *)
(* the adoption of an existing file never make the artifact path lead from *)
(* one file to another.                                                    *)
(***************************************************************************)
NeverReplaced ==
    [][losses' = losses /\ dir[Public] # None
        => dir'[Public] \in {dir[Public], None}]_vars

(***************************************************************************)
(* A call removes from the artifact path only a file that it created       *)
(* itself: withdrawal, rollback and destructor never touch a name that     *)
(* another session or another program put there.                           *)
(***************************************************************************)
OwnRemovalOnly ==
    [][\A s \in Session :
        /\ pc'[s] # pc[s]
        /\ losses' = losses
        /\ dir[Public] # None
        /\ dir'[Public] = None
        => file[dir[Public]].by = s]_vars

(***************************************************************************)
(* A controller that uses execute_sealed exposes nothing at the artifact   *)
(* path before the evidence for exactly those bytes is durable.            *)
(***************************************************************************)
EvidenceBeforeExposure ==
    \A s \in Session :
        dir[Public] # None /\ file[dir[Public]].by = s
        => evidence[s] = file[dir[Public]].bytes

(***************************************************************************)
(* Whatever exception, refusal or conflict ends a call, no temporary name  *)
(* outlives it unless a system call failed or the process died.            *)
(***************************************************************************)
Undisturbed == faults = MaxFaults /\ kills = MaxKills /\ losses = MaxLosses
ResidueOnlyAfterFailure ==
    Undisturbed =>
        /\ \A n \in Name : litter[n] = {}
        /\ \A s \in Session : pc[s] \in {"idle", "persist"} => tmp[s] = None

(***************************************************************************)
(* A failed result other than a cleanup failure leaves no artifact of that *)
(* session at the artifact path, whichever single system call failed.      *)
(***************************************************************************)
FailureIsNotPublished ==
    kills = MaxKills /\ losses = MaxLosses /\ faults >= MaxFaults - 1 =>
        \A s \in Session :
            /\ evidence[s] \in Failure \ {"artifact_cleanup"}
            /\ dir[Public] # None
            => file[dir[Public]].by # s

(***************************************************************************)
(* Successful evidence is eventually published, unless different bytes     *)
(* stay at the artifact path for good: no finite number of failures,       *)
(* deaths or lost races makes retrying publish_sealed_artifact futile.     *)
(***************************************************************************)
Conflict(s) == dir[Public] # None /\ ~Exact(Public, evidence[s])
PublicationSettles ==
    \A s \in Session :
        evidence[s] \in Content ~> (complete[s] \/ []Conflict(s))
=============================================================================
