--------------------- MODULE PublicationRefinementProofs ---------------------
(***************************************************************************)
(* SealedPublication implements ArtifactPromise: every system call,        *)
(* failure and death is a step of the promise or leaves it alone.          *)
(*                                                                         *)
(* The promise does not hold without conditions.  It is broken when        *)
(* another program removes the artifact, when power is lost, and when a    *)
(* session adopts what a rival, some of whose system calls fail, withdraws *)
(* later; Gentle excludes just these.  The last part is about power        *)
(* losses, where what is persisted counts and not only what is seen.       *)
(***************************************************************************)
EXTENDS PublicationRefinement, SealedPublicationProofs

USE DEF callVars, examVars, procVars, resultVars, crashVars, storeVars

(***************************************************************************)
(* Examination, for all values of the constants: what open, hash and the   *)
(* verification found out about a file stays true while the call relies on *)
(* it.                                                                     *)
(***************************************************************************)
Examined(s) ==
    /\ pc[s] \in {"hash", "restat", "redundant", "sync_redundant"} =>
            file[seen[s].ino].ro
    /\ pc[s] \in {"restat", "redundant", "sync_redundant"} =>
            file[seen[s].ino].bytes = want[s]
    /\ pc[s] \in {"image", "verify_fstat", "verify_lstat"} =>
            binding[s] # "none"
    /\ binding[s] = "adopted" => fd[s] \in Inode /\ file[fd[s]].bytes = want[s]
    /\ pc[s] = "verify_lstat" => seen[s].ino = fd[s]

Examinations == \A s \in Session : Examined(s)

LEMMA RunningKeepsExamined ==
    ASSUME Inv, NEW s \in Session, Running(s), Examined(s)
    PROVE  Examined(s)'
  <1>a. CallOK(s)
    BY DEF Inv, Bookkeeping
  <1> USE <1>a, StoreAssumption
      DEF Inv, TypeOK, StoreTypeOK, ProcessTypeOK, DescriptorsOK, Examining,
          Name, Goto, Fails, Raise, Attempt, Escape, Forget, Leave, Published,
          Doubt, Sealing, CallOK, Raised, Examined
  <1>1. CASE Capabilities(s)
    BY <1>1 DEF Capabilities
  <1>2. CASE Prepare(s)
    BY <1>2 DEF Prepare
  <1>3. CASE Invoke(s)
    BY <1>3 DEF Invoke
  <1>4. CASE Inspect(s)
    BY <1>4 DEF Inspect
  <1>5. CASE MkTemp(s)
    BY <1>5, MkTempOutcome
  <1>6. CASE Write(s)
    BY <1>6 DEF Write
  <1>7. CASE Seal(s)
    BY <1>7 DEF Seal
  <1>8. CASE Reinspect(s)
    BY <1>8 DEF Reinspect
  <1>9. CASE Digest(s)
    BY <1>9 DEF Digest
  <1>10. CASE Link(s)
    BY <1>10 DEF Link
  <1>11. CASE Confirm(s)
    BY <1>11 DEF Confirm
  <1>12. CASE SyncLink(s)
    BY <1>12 DEF SyncLink
  <1>13. CASE Untemp(s)
    BY <1>13 DEF Untemp
  <1>14. CASE SyncUntemp(s)
    BY <1>14 DEF SyncUntemp
  <1>15. CASE Withdraw(s)
    BY <1>15 DEF Withdraw
  <1>16. CASE Open(s)
    <2>1. ExamName(s) \in Name
      BY DEF ExamName
    <2>2. ~Absent(ExamName(s)) => /\ dir[ExamName(s)] \in Inode
                                  /\ Stamp(dir[ExamName(s)]).ino = dir[ExamName(s)]
      BY <2>1, StampIsStamp DEF Absent
    <2>3. QED
      BY <1>16, <2>2 DEF Open
  <1>17. CASE Hash(s)
    BY <1>17 DEF Hash, ExactBytes
  <1>18. CASE Restat(s)
    BY <1>18 DEF Restat, AfterExam
  <1>19. CASE Redundant(s)
    BY <1>19 DEF Redundant
  <1>20. CASE SyncRedundant(s)
    BY <1>20 DEF SyncRedundant, AdoptedBinding
  <1>21. CASE Image(s)
    BY <1>21 DEF Image
  <1>22. CASE VerifyFstat(s)
    <2>1. fd[s] \in Inode
      BY <1>22 DEF VerifyFstat, Holding
    <2>2. QED
      BY <1>22, <2>1, StampIsStamp DEF VerifyFstat
  <1>23. CASE VerifyLstat(s)
    BY <1>23 DEF VerifyLstat, Retain, RetainedBinding
  <1>24. CASE Rollback(s)
    BY <1>24 DEF Rollback
  <1>25. CASE Undo(s)
    BY <1>25 DEF Undo
  <1>26. CASE Unwind(s)
    BY <1>26 DEF Unwind
  <1>27. CASE Drop(s)
    BY <1>27 DEF Drop
  <1>28. CASE RmPrivate(s)
    BY <1>28 DEF RmPrivate
  <1>29. CASE SyncPrivate(s)
    BY <1>29 DEF SyncPrivate
  <1>30. CASE Persist(s)
    BY <1>30 DEF Persist
  <1>31. QED
    BY <1>1, <1>2, <1>3, <1>4, <1>5, <1>6, <1>7, <1>8, <1>9, <1>10, <1>11,
       <1>12, <1>13, <1>14, <1>15, <1>16, <1>17, <1>18, <1>19, <1>20, <1>21,
       <1>22, <1>23, <1>24, <1>25, <1>26, <1>27, <1>28, <1>29, <1>30
    DEF Running

\* The files others rely on are not written by a step of session s.
LEMMA NextKeepsExamined ==
    ASSUME Inv, Examinations, [Next]_vars
    PROVE  Examinations'
  <1> USE StoreAssumption
      DEF Inv, TypeOK, StoreTypeOK, ProcessTypeOK, DescriptorsOK, Examining,
          Name
  <1>1. ASSUME NEW s \in Session, Frame(s), Examined(s)'
        PROVE  Examinations'
    <2>1. SUFFICES ASSUME NEW t \in Session, t # s
                   PROVE  Examined(t)'
      BY <1>1 DEF Examinations
    <2>2. /\ fd[t] \in Inode => file'[fd[t]] = file[fd[t]]
          /\ seen[t].ino \in Inode => file'[seen[t].ino] = file[seen[t].ino]
      BY <1>1, <2>1, FrameFiles
    <2>3. /\ pc'[t] = pc[t] /\ fd'[t] = fd[t] /\ binding'[t] = binding[t]
          /\ seen'[t] = seen[t] /\ want'[t] = want[t]
      BY <1>1, <2>1 DEF Frame, ProcessFrame
    <2>4. Examined(t)
      BY DEF Examinations
    <2>5. pc[t] \in {"hash", "restat", "redundant", "sync_redundant"} =>
                seen[t].ino \in Inode
      BY DEF DescriptorsOK
    <2>6. QED
      BY <2>2, <2>3, <2>4, <2>5 DEF Examined
  <1>2. ASSUME NEW s \in Session, Running(s)
        PROVE  Examinations'
    BY <1>1, <1>2, RunningFrame, RunningKeepsExamined DEF Examinations
  <1>3. ASSUME NEW s \in Session,
               (\E c \in Calls : StartExecute(s, c)) \/ StartPublish(s) \/ Kill(s)
        PROVE  Examinations'
    <2>1. Examined(s) /\ CallOK(s)
      BY DEF Examinations, Bookkeeping
    <2>2. Examined(s)'
      BY <1>3, <2>1
      DEF StartExecute, StartPublish, Kill, Goto, Escape, Forget, Examined,
          CallOK, Raised
    <2>3. QED
      BY <1>1, <1>3, <2>2, OutsideFrame
  <1>4. CASE PowerLoss
    BY <1>4 DEF PowerLoss, Examinations, Examined
  <1>5. CASE ForeignCreate
    <2>1. PICK i \in Alloc(Free), b \in Content \cup {Partial}, m \in BOOLEAN :
                file' = [file EXCEPT ![i] = Dropped(b, m)]
      BY <1>5 DEF ForeignCreate
    <2>2. i \in Inode /\ \A s \in Session : fd[s] # i /\ seen[s].ino # i
      BY <2>1, AllocIsFree DEF Free
    <2>3. \A s \in Session :
            /\ file'[fd[s]] = file[fd[s]]
            /\ file'[seen[s].ino] = file[seen[s].ino]
      BY <2>1, <2>2
    <2>4. QED
      BY <1>5, <2>3 DEF ForeignCreate, Examinations, Examined
  <1>6. CASE ForeignRemove
    BY <1>6 DEF ForeignRemove, Examinations, Examined
  <1>7. CASE UNCHANGED vars
    BY <1>7 DEF vars, Examinations, Examined
  <1>8. QED
    BY <1>2, <1>3, <1>4, <1>5, <1>6, <1>7 DEF Next, Settled
-----------------------------------------------------------------------------
(***************************************************************************)
(* Custody.  Where the bytes are that a call works for: while it works on  *)
(* the artifact path they are retained at the private name, until they     *)
(* have been seen at the artifact path.  Only a file under the artifact    *)
(* path that the session owns is ever withdrawn from it.                   *)
(***************************************************************************)
Kept(s) == Shown(s) = want[s]
Out(s) == Shown(Public) = want[s]

Custody(s) ==
    /\ /\ dest[s] = Public /\ pc[s] \in {"open", "hash", "restat"}
       /\ exam[s] = "public"
       => Kept(s) \/ Out(s)
    /\ /\ dest[s] = Public
       /\ \/ pc[s] \in Unlinked \cup Linked \cup
                        {"mktemp", "redundant", "sync_redundant",
                         "verify_fstat", "verify_lstat"}
          \/ pc[s] \in {"open", "hash", "restat"} /\ exam[s] # "public"
          \/ binding[s] = "owned"
       => Kept(s)
    /\ pc[s] \in {"rm_private", "sync_private"} => Out(s)
    /\ pc[s] = "sync_private" => Shown(s) = None
    /\ pc[s] = "persist" /\ err[s] = None =>
            IF call[s] = "execute" THEN Out(s) /\ Shown(s) = None
                                   ELSE Kept(s)

\* An owned publication is still bound when its verification starts.
Bound(s) ==
    pc[s] \in {"image", "verify_fstat", "verify_lstat"} /\ binding[s] = "owned"
        => dir[dest[s]] = fd[s]

\* Without faults nothing is withdrawn from the artifact path.
Faultless(s) ==
    MaxFaults = 0 =>
        /\ pc[s] \notin {"withdraw", "withdraw_sync"}
        /\ dest[s] = Public /\ binding[s] = "owned" =>
                pc[s] \in {"verify_fstat", "verify_lstat"}

Gentle == /\ "remove" \notin ForeignMay
          /\ MaxLosses = 0
          /\ MaxFaults = 0 \/ \A s, t \in Session : s = t

\* What a step of session s does to what is shown.
LEMMA ShownFrame ==
    ASSUME Inv, NEW s \in Session, Frame(s), NEW n \in Name
    PROVE  /\ dir'[n] = dir[n] => Shown(n)' = Shown(n)
           /\ dir'[n] = None => Shown(n)' = None
           /\ n = dest[s] /\ Binds(s) =>
                Shown(n)' = want[s] /\ Shown(n) = None /\ want[s] \in Content
           /\ n \notin {s, dest[s]} => Shown(n)' = Shown(n)
  <1> USE StoreAssumption DEF Inv, TypeOK, StoreTypeOK, Name
  <1>1. dir[n] # None => file'[dir[n]] = file[dir[n]]
    BY FrameFiles
  <1>2. dir'[n] = dir[n] => Shown(n)' = Shown(n)
    BY <1>1 DEF Shown
  <1>3. n \notin {s, dest[s]} => dir'[n] = dir[n]
    BY DEF Frame, NameFrame, Removes
  <1>4. ASSUME n = dest[s], Binds(s)
        PROVE  Shown(n)' = want[s] /\ Shown(n) = None /\ want[s] \in Content
    <2>1. /\ fd[s] \in Inode /\ file[fd[s]].ro /\ file[fd[s]].bytes = want[s]
          /\ want[s] \in Content
      BY <1>4
      DEF Binds, Bookkeeping, OwnFile, CallOK, Determined, Unlinked, Linked,
          Safe, TemporaryIsPrivate
    <2>2. file'[fd[s]] = file[fd[s]]
      BY <1>4, <2>1 DEF Binds, Frame, FileFrame, Creates
    <2>3. QED
      BY <1>4, <2>1, <2>2 DEF Binds, Shown
  <1>5. dir'[n] = None => Shown(n)' = None
    BY DEF Shown
  <1>6. QED
    BY <1>2, <1>3, <1>4, <1>5

\* A running call knows where its bytes are.
LEMMA RunningKeepsCustody ==
    ASSUME Inv, NEW s \in Session, Running(s), Sole(s), Examined(s), Bound(s),
           Custody(s)
    PROVE  Custody(s)'
  <1>a. ControllerOK(s) /\ CallOK(s) /\ OwnFile(s)
    BY DEF Inv, Bookkeeping
  <1>b. /\ dir'[s] = dir[s] => Shown(s)' = Shown(s)
        /\ dir'[Public] = dir[Public] => Shown(Public)' = Shown(Public)
        /\ dir'[s] = None => Shown(s)' = None
    BY RunningFrame, ShownFrame DEF Inv, Name
  <1>c. \A n \in Name :
            /\ dir[n] = None => Shown(n) = None
            /\ dir[n] # None /\ file[dir[n]].ro =>
                    Shown(n) = file[dir[n]].bytes
    BY DEF Shown
  <1> USE <1>a, <1>b, StoreAssumption
      DEF Inv, TypeOK, StoreTypeOK, ProcessTypeOK, DescriptorsOK, Building,
          Name, Goto, Fails, Raise, Attempt, Escape, Forget, Leave, Published,
          Doubt, Sealing, ControllerOK, CallOK, Determined, Raised, Unlinked,
          Linked, Custody, Kept, Out
  <1>1. CASE Capabilities(s)
    BY <1>1 DEF Capabilities
  <1>2. CASE Prepare(s)
    BY <1>2 DEF Prepare, ResetSession, Unlink
  <1>3. CASE Invoke(s)
    BY <1>3, PublicationAssumption DEF Invoke, Failure
  <1>4. CASE Inspect(s)
    BY <1>4 DEF Inspect
  <1>5. CASE MkTemp(s)
    BY <1>5, MkTempOutcome
  <1>6. CASE Write(s)
    BY <1>6 DEF Write
  <1>7. CASE Seal(s)
    BY <1>7 DEF Seal
  <1>8. CASE Reinspect(s)
    BY <1>8 DEF Reinspect
  <1>9. CASE Digest(s)
    BY <1>9 DEF Digest
  <1>10. CASE Link(s)
    BY <1>10 DEF Link, Bind
  <1>11. CASE Confirm(s)
    BY <1>11 DEF Confirm
  <1>12. CASE SyncLink(s)
    BY <1>12 DEF SyncLink
  <1>13. CASE Untemp(s)
    BY <1>13 DEF Untemp
  <1>14. CASE SyncUntemp(s)
    BY <1>14 DEF SyncUntemp
  <1>15. CASE Withdraw(s)
    BY <1>15 DEF Withdraw, Withdrawal, Unlink
  <1>16. CASE Open(s)
    BY <1>16, <1>c DEF Open, Absent, AbsentIsEmpty, ExamName
  <1>17. CASE Hash(s)
    BY <1>17 DEF Hash
  <1>18. CASE Restat(s)
    <2>1. exam[s] = "public" /\ StillBound(s, ExamName(s)) => Out(s)
      <3>1. pc[s] = "restat" /\ file[seen[s].ino].bytes = want[s]
            /\ file[seen[s].ino].ro /\ seen[s].ino \in Inode
        BY <1>18 DEF Restat, Examined, Examining
      <3>2. exam[s] = "public" => ExamName(s) = Public
        BY <3>1 DEF ExamName
      <3>3. QED
        BY <1>c, <3>1, <3>2 DEF StillBound
    <2>2. UNCHANGED <<dir, want, call, dest, exam, binding>>
      BY <1>18 DEF Restat
    <2>3. \/ pc'[s] = "unwind"
          \/ StillBound(s, ExamName(s)) /\ pc'[s] = AfterExam(s)
      BY <1>18 DEF Restat
    <2>4. pc[s] = "restat"
      BY <1>18 DEF Restat
    <2>5. QED
      BY <2>1, <2>2, <2>3, <2>4 DEF AfterExam
  <1>19. CASE Redundant(s)
    BY <1>19 DEF Redundant
  <1>20. CASE SyncRedundant(s)
    BY <1>20 DEF SyncRedundant, AdoptedBinding
  <1>21. CASE Image(s)
    BY <1>21 DEF Image
  <1>22. CASE VerifyFstat(s)
    BY <1>22 DEF VerifyFstat
  <1>23. CASE VerifyLstat(s)
    BY <1>23, <1>c
    DEF VerifyLstat, Retain, RetainedBinding, PublishesNext, StillBound,
        Examined, OwnFile
  <1>24. CASE Rollback(s)
    BY <1>24 DEF Rollback
  <1>25. CASE Undo(s)
    BY <1>25 DEF Undo, Unlink
  <1>26. CASE Unwind(s)
    BY <1>26 DEF Unwind, Owned
  <1>27. CASE Drop(s)
    BY <1>27 DEF Drop, Unlink
  <1>28. CASE RmPrivate(s)
    BY <1>28, <1>c DEF RmPrivate, Unlink
  <1>29. CASE SyncPrivate(s)
    BY <1>29 DEF SyncPrivate
  <1>30. CASE Persist(s)
    BY <1>30 DEF Persist
  <1>31. QED
    BY <1>1, <1>2, <1>3, <1>4, <1>5, <1>6, <1>7, <1>8, <1>9, <1>10, <1>11,
       <1>12, <1>13, <1>14, <1>15, <1>16, <1>17, <1>18, <1>19, <1>20, <1>21,
       <1>22, <1>23, <1>24, <1>25, <1>26, <1>27, <1>28, <1>29, <1>30
    DEF Running

\* A running call owns what it verifies at the artifact path; without faults
\* it never gets to a withdrawal.
LEMMA RunningKeepsBound ==
    ASSUME Inv, NEW s \in Session, Running(s), Sole(s), Own(s), Bound(s),
           Faultless(s)
    PROVE  Bound(s)' /\ Faultless(s)'
  <1>a. CallOK(s)
    BY DEF Inv, Bookkeeping
  <1>b. MaxFaults = 0 => ~Fault
    BY DEF Fault, Inv, TypeOK, ResultTypeOK
  <1> USE <1>a, <1>b, StoreAssumption
      DEF Inv, TypeOK, StoreTypeOK, ProcessTypeOK, DescriptorsOK, Name, Goto,
          Fails, Raise, Attempt, Escape, Forget, Leave, Published, Doubt,
          Sealing, CallOK, Raised, Own, Linked, Bound, Faultless
  <1>1. CASE Capabilities(s)
    BY <1>1 DEF Capabilities
  <1>2. CASE Prepare(s)
    BY <1>2 DEF Prepare, ResetSession, Unlink
  <1>3. CASE Invoke(s)
    BY <1>3 DEF Invoke
  <1>4. CASE Inspect(s)
    BY <1>4 DEF Inspect
  <1>5. CASE MkTemp(s)
    BY <1>5, MkTempOutcome
  <1>6. CASE Write(s)
    BY <1>6 DEF Write
  <1>7. CASE Seal(s)
    BY <1>7 DEF Seal
  <1>8. CASE Reinspect(s)
    BY <1>8 DEF Reinspect
  <1>9. CASE Digest(s)
    BY <1>9 DEF Digest
  <1>10. CASE Link(s)
    BY <1>10 DEF Link
  <1>11. CASE Confirm(s)
    BY <1>11 DEF Confirm
  <1>12. CASE SyncLink(s)
    BY <1>12 DEF SyncLink
  <1>13. CASE Untemp(s)
    BY <1>13 DEF Untemp
  <1>14. CASE SyncUntemp(s)
    BY <1>14 DEF SyncUntemp
  <1>15. CASE Withdraw(s)
    BY <1>15 DEF Withdraw
  <1>16. CASE Open(s)
    BY <1>16 DEF Open
  <1>17. CASE Hash(s)
    BY <1>17 DEF Hash
  <1>18. CASE Restat(s)
    BY <1>18 DEF Restat, AfterExam
  <1>19. CASE Redundant(s)
    BY <1>19 DEF Redundant
  <1>20. CASE SyncRedundant(s)
    BY <1>20 DEF SyncRedundant, AdoptedBinding
  <1>21. CASE Image(s)
    BY <1>21 DEF Image
  <1>22. CASE VerifyFstat(s)
    BY <1>22 DEF VerifyFstat
  <1>23. CASE VerifyLstat(s)
    <2>1. CASE Retain(s)
      BY <1>23, <2>1 DEF VerifyLstat, Retain, RetainedBinding
    <2>2. CASE Doubt(s) /\ UNCHANGED <<dest, fd, binding, examVars>>
      <3>1. pc'[s] \in {"rollback", "unwind"}
        BY <1>23, <2>2
      <3>2. MaxFaults = 0 /\ binding[s] = "owned" => dest[s] = s
        <4>1. SUFFICES ASSUME MaxFaults = 0, binding[s] = "owned",
                              ~Sealing(s)
                       PROVE  FALSE
          OBVIOUS
        <4>2. StillBound(s, dest[s]) /\ file[seen[s].ino].ro
          BY <1>23, <4>1, BoundVerifies DEF VerifyLstat
        <4>3. Retain(s)
          BY <1>23, <4>1, <4>2 DEF VerifyLstat
        <4>4. QED
          BY <3>1, <4>3 DEF Retain
      <3>3. QED
        BY <2>2, <3>1, <3>2
    <2>3. QED
      BY <1>23, <2>1, <2>2 DEF VerifyLstat
  <1>24. CASE Rollback(s)
    BY <1>24 DEF Rollback, Owned
  <1>25. CASE Undo(s)
    BY <1>25 DEF Undo
  <1>26. CASE Unwind(s)
    BY <1>26 DEF Unwind
  <1>27. CASE Drop(s)
    BY <1>27 DEF Drop
  <1>28. CASE RmPrivate(s)
    BY <1>28 DEF RmPrivate
  <1>29. CASE SyncPrivate(s)
    BY <1>29 DEF SyncPrivate
  <1>30. CASE Persist(s)
    BY <1>30 DEF Persist
  <1>31. QED
    BY <1>1, <1>2, <1>3, <1>4, <1>5, <1>6, <1>7, <1>8, <1>9, <1>10, <1>11,
       <1>12, <1>13, <1>14, <1>15, <1>16, <1>17, <1>18, <1>19, <1>20, <1>21,
       <1>22, <1>23, <1>24, <1>25, <1>26, <1>27, <1>28, <1>29, <1>30
    DEF Running

-----------------------------------------------------------------------------
\* Every step of a session other than s leaves alone what s owns.
LEMMA CourtesyKeepsBound ==
    ASSUME TypeOK, Ownership, NEW s \in Session, NEW t \in Session, s # t,
           Frame(t), Courteous(t), Bound(s), Faultless(s), OwnFile(s)
    PROVE  Bound(s)' /\ Faultless(s)'
  <1>1. /\ pc'[s] = pc[s] /\ dest'[s] = dest[s] /\ fd'[s] = fd[s]
        /\ binding'[s] = binding[s]
    BY DEF Frame, ProcessFrame
  <1>2. dest[s] \in Name /\ dest[s] # t
    BY StoreAssumption DEF TypeOK, ProcessTypeOK
  <1>3. binding[s] = "owned" /\ dir[dest[s]] = fd[s]
            => dir'[dest[s]] = dir[dest[s]]
    BY <1>2, StoreAssumption DEF Courteous, OwnFile
  <1>4. QED
    BY <1>1, <1>3 DEF Bound, Faultless

(***************************************************************************)
(* What is shown at the artifact path stays, for every other session: in a *)
(* gentle environment only the session itself could withdraw it.           *)
(***************************************************************************)
LEMMA OthersKeepPublic ==
    ASSUME Gentle, Inv, NEW t \in Session, Frame(t), Own(t), Faultless(t),
           CallOK(t), dir[Public] # None, NEW s \in Session, s # t
    PROVE  dir'[Public] = dir[Public]
  <1>1. MaxFaults = 0
    BY DEF Gentle
  <1>2. Public # t
    BY StoreAssumption
  <1>3. ~Removes(t, Public)
    BY <1>1, <1>2 DEF Removes, Faultless, Own, CallOK
  <1>4. ~(Public = dest[t] /\ Binds(t))
    BY DEF Binds
  <1>5. QED
    BY <1>3, <1>4 DEF Frame, NameFrame, Name

LEMMA OthersKeepCustody ==
    ASSUME Gentle, Inv, NEW t \in Session, Frame(t), Own(t), Faultless(t),
           NEW s \in Session, s # t, Custody(s)
    PROVE  Custody(s)'
  <1>a. CallOK(s) /\ CallOK(t)
    BY DEF Inv, Bookkeeping
  <1>1. /\ pc'[s] = pc[s] /\ dest'[s] = dest[s] /\ exam'[s] = exam[s]
        /\ binding'[s] = binding[s] /\ err'[s] = err[s] /\ call'[s] = call[s]
        /\ want'[s] = want[s]
    BY DEF Frame, ProcessFrame
  <1>2. Shown(s)' = Shown(s)
    BY ShownFrame, StoreAssumption DEF Inv, TypeOK, ProcessTypeOK, Name
  <1>3. want[s] \in Content /\ Out(s) => Shown(Public)' = Shown(Public)
    <2>1. SUFFICES ASSUME want[s] \in Content, Out(s)
                   PROVE  Shown(Public)' = Shown(Public)
      OBVIOUS
    <2>2. dir[Public] # None
      BY <2>1, StoreAssumption DEF Out, Shown
    <2>3. dir'[Public] = dir[Public]
      BY <1>a, <2>2, OthersKeepPublic
    <2>4. QED
      BY <2>3, ShownFrame DEF Name
  <1>4. \/ dest[s] = Public
        \/ pc[s] \in {"rm_private", "sync_private"}
        \/ pc[s] = "persist" /\ err[s] = None
        => want[s] \in Content
    BY <1>a DEF CallOK, Determined
  <1>5. QED
    BY <1>1, <1>2, <1>3, <1>4 DEF Custody, Kept, Out
-----------------------------------------------------------------------------
(***************************************************************************)
(* The mapping.  The proofs about ArtifactPromise are used at the values   *)
(* that PublicationRefinement gives to its variables.                      *)
(***************************************************************************)
PromiseProofs == INSTANCE ArtifactPromiseProofs WITH
    shown <- Shown(Public),
    retained <- [s \in Session |-> Shown(s)],
    Other <- Partial

LEMMA PromiseDistinct == PromiseProofs!Distinct
  BY StoreAssumption, PublicationAssumption DEF PromiseProofs!Distinct

LEMMA ShownType ==
    ASSUME TypeOK, NEW n \in Name
    PROVE  Shown(n) \in Content \cup {Partial, None}
  BY DEF TypeOK, StoreTypeOK, File, Shown

LEMMA PromiseTypes ==
    ASSUME TypeOK
    PROVE  PromiseProofs!TypeOK
  <1>1. Shown(Public) \in Content \cup {Partial, None}
    BY ShownType DEF Name
  <1>2. \A s \in Session : Shown(s) \in Content \cup {Partial, None}
    BY ShownType DEF Name
  <1>3. QED
    BY <1>1, <1>2 DEF PromiseProofs!TypeOK, TypeOK, ResultTypeOK

\* Both instances state the same steps.
LEMMA SamePromise ==
    /\ Promise!Init <=> PromiseProofs!Init
    /\ [Promise!Next]_(Promise!vars) <=> [PromiseProofs!Next]_(PromiseProofs!vars)
  BY DEF Promise!Init, PromiseProofs!Init, Promise!vars, PromiseProofs!vars,
         Promise!Next, Promise!Seal, Promise!Publish, Promise!Record,
         Promise!Release, Promise!RecordPublished, Promise!Complete,
         Promise!Withdraw, Promise!Occupy, PromiseProofs!Next,
         PromiseProofs!Seal, PromiseProofs!Publish, PromiseProofs!Record,
         PromiseProofs!Release, PromiseProofs!RecordPublished,
         PromiseProofs!Complete, PromiseProofs!Withdraw, PromiseProofs!Occupy

\* What a session retains changes for that session alone.
LEMMA RetainedFrame ==
    ASSUME Inv, NEW s \in Session, Frame(s)
    PROVE  [t \in Session |-> Shown(t)]' =
                [[t \in Session |-> Shown(t)] EXCEPT ![s] = Shown(s)']
  <1>1. \A t \in Session \ {s} : Shown(t)' = Shown(t)
    BY ShownFrame, StoreAssumption DEF Inv, TypeOK, ProcessTypeOK, Name
  <1>2. QED
    BY <1>1

\* A step that changes no name and no result leaves the promise alone.
LEMMA Stutters ==
    ASSUME Inv, NEW s \in Session, Frame(s), dir' = dir,
           UNCHANGED resultVars
    PROVE  UNCHANGED Promise!vars
  <1>1. \A n \in Name : Shown(n)' = Shown(n)
    BY ShownFrame
  <1>2. QED
    BY <1>1 DEF Promise!vars, Name

\* Sealing and clearing the private name of a session without evidence.
LEMMA Seals ==
    ASSUME Inv, NEW s \in Session, Frame(s), dir'[Public] = dir[Public],
           UNCHANGED resultVars, evidence[s] = None,
           Shown(s)' \in Content \cup {None}
    PROVE  Promise!Seal(s)
  <1>1. Shown(Public)' = Shown(Public)
    BY ShownFrame DEF Name
  <1>2. QED
    BY <1>1, RetainedFrame DEF Promise!Seal

\* Taking the artifact back from the artifact path.
LEMMA Withdraws ==
    ASSUME Inv, NEW s \in Session, Frame(s), \A t \in Session : t = s,
           dest[s] = Public, Kept(s), Promise!Available,
           fd[s] \in Inode, file[fd[s]].by = s, file[fd[s]].bytes = want[s],
           dir[Public] = fd[s], dir'[Public] = None, dir'[s] = dir[s],
           UNCHANGED resultVars, want[s] \in Content
    PROVE  Promise!Withdraw
  <1>1. Shown(Public) = want[s]
    BY StoreAssumption DEF Inv, Safe, NoTornPublication, Shown, Name
  <1>2. Shown(Public)' = None
    BY ShownFrame DEF Name
  <1>3. Shown(s)' = Shown(s)
    BY ShownFrame DEF Name
  <1>4. [t \in Session |-> Shown(t)]' = [t \in Session |-> Shown(t)]
    BY <1>3, RetainedFrame
  <1>5. ~complete[s]
    BY StoreAssumption DEF Promise!Available, Kept
  <1>6. QED
    BY <1>1, <1>2, <1>4, <1>5 DEF Promise!Withdraw, Kept

(***************************************************************************)
(* Every system call of a running call is a step of the promise, or shows  *)
(* nothing.                                                                *)
(***************************************************************************)
LEMMA RunningKeepsPromise ==
    ASSUME Gentle, Inv, NEW s \in Session, Running(s), Own(s), Custody(s),
           Faultless(s), Promise!Available
    PROVE  [Promise!Next]_(Promise!vars)
  <1>a. ControllerOK(s) /\ CallOK(s) /\ OwnFile(s) /\ Frame(s)
    BY RunningFrame DEF Inv, Bookkeeping
  <1>b. call[s] # "publish" /\ pc[s] # "idle" => evidence[s] = None
    BY <1>a DEF ControllerOK, Inv, TypeOK, ProcessTypeOK
  <1>c. dest[s] \in {s, Public} /\ s # Public
    BY StoreAssumption DEF Inv, TypeOK, ProcessTypeOK
  <1>d. dir' = dir /\ UNCHANGED resultVars => UNCHANGED Promise!vars
    BY <1>a, Stutters
  <1>e. /\ dir'[s] = None \/ (dest[s] = s /\ Binds(s))
        /\ dir'[Public] = dir[Public]
        /\ UNCHANGED resultVars
        /\ evidence[s] = None
        => Promise!Next
    <2>1. SUFFICES ASSUME dir'[s] = None \/ (dest[s] = s /\ Binds(s)),
                          dir'[Public] = dir[Public], UNCHANGED resultVars,
                          evidence[s] = None
                   PROVE  Promise!Next
      OBVIOUS
    <2>2. Shown(s)' \in Content \cup {None}
      BY <1>a, <2>1, ShownFrame DEF Name
    <2>3. Promise!Seal(s)
      BY <1>a, <2>1, <2>2, Seals
    <2>4. QED
      BY <2>3 DEF Promise!Next
  <1>f. /\ dest[s] = Public
        /\ pc[s] \in {"withdraw", "withdraw_sync", "drop"}
        /\ dir' = [dir EXCEPT ![Public] = None]
        /\ UNCHANGED resultVars
        => Promise!Next
    <2>1. SUFFICES ASSUME dest[s] = Public,
                          pc[s] \in {"withdraw", "withdraw_sync", "drop"},
                          dir' = [dir EXCEPT ![Public] = None],
                          UNCHANGED resultVars
                   PROVE  Promise!Next
      OBVIOUS
    <2>2. \A t \in Session : t = s
      BY <2>1 DEF Gentle, Faultless, Own
    <2>3. Kept(s)
      BY <2>1 DEF Custody, Own, Linked
    <2>4. want[s] \in Content
      BY <1>a, <2>1 DEF CallOK, Determined
    <2>5. /\ fd[s] \in Inode /\ file[fd[s]].by = s
          /\ file[fd[s]].bytes = want[s] /\ dir[Public] = fd[s]
      BY <1>a, <2>1 DEF Own, OwnFile, Linked
    <2>6. dir'[Public] = None /\ dir'[s] = dir[s]
      BY <1>c, <2>1 DEF Inv, TypeOK, StoreTypeOK, Name
    <2>7. Promise!Withdraw
      BY <1>a, <2>1, <2>2, <2>3, <2>4, <2>5, <2>6, Withdraws
    <2>8. QED
      BY <2>7 DEF Promise!Next
  <1> USE <1>a, <1>b, <1>c, <1>d
  <1>1. CASE Capabilities(s)
    BY <1>1 DEF Capabilities
  <1>2. CASE Prepare(s)
    <2>1. pc[s] = "prepare" /\ UNCHANGED resultVars /\ evidence[s] = None
      BY <1>2 DEF Prepare, Building, ControllerOK
    <2>2. dir' = dir \/ dir' = [dir EXCEPT ![s] = None]
      BY <1>2 DEF Prepare, ResetSession, Unlink
    <2>3. QED
      BY <1>e, <2>1, <2>2 DEF Inv, TypeOK, StoreTypeOK, Name
  <1>3. CASE Invoke(s)
    BY <1>3 DEF Invoke
  <1>4. CASE Inspect(s)
    BY <1>4 DEF Inspect
  <1>5. CASE MkTemp(s)
    BY <1>5, MkTempOutcome DEF Inv
  <1>6. CASE Write(s)
    BY <1>6 DEF Write
  <1>7. CASE Seal(s)
    BY <1>7 DEF Seal
  <1>8. CASE Reinspect(s)
    BY <1>8 DEF Reinspect
  <1>9. CASE Digest(s)
    BY <1>9 DEF Digest
  <1>10. CASE Link(s)
    <2>1. UNCHANGED resultVars
      BY <1>10 DEF Link
    <2>2. CASE dir' = dir
      BY <2>1, <2>2
    <2>3. CASE /\ dir[dest[s]] = None
               /\ dir' = [dir EXCEPT ![dest[s]] = fd[s]]
               /\ pc' = [pc EXCEPT ![s] = "confirm"]
      <3>1. Binds(s)
        BY <1>10, <2>3
        DEF Link, Binds, Inv, TypeOK, StoreTypeOK, ProcessTypeOK
      <3>2. CASE dest[s] = s
        <4>1. evidence[s] = None
          BY <3>1, <3>2 DEF Binds, ControllerOK
        <4>2. dir'[Public] = dir[Public]
          BY <2>3, <3>2 DEF Inv, TypeOK, StoreTypeOK, Name
        <4>3. QED
          BY <1>e, <2>1, <3>1, <3>2, <4>1, <4>2
      <3>3. CASE dest[s] = Public
        <4>1. /\ Shown(Public) = None /\ Shown(Public)' = want[s]
              /\ want[s] \in Content
          BY <3>1, <3>3, ShownFrame DEF Name
        <4>2. Shown(s) = want[s]
          BY <3>1, <3>3 DEF Binds, Custody, Kept, Unlinked
        <4>3. Shown(s)' = Shown(s)
          BY <2>3, <3>3, ShownFrame DEF Inv, TypeOK, StoreTypeOK, Name
        <4>4. [t \in Session |-> Shown(t)]' = [t \in Session |-> Shown(t)]
          BY <4>3, RetainedFrame
        <4>5. evidence[s] \in {None, want[s]}
          BY <3>1 DEF Binds, ControllerOK
        <4>6. Promise!Publish(s)
          BY <2>1, <4>1, <4>2, <4>4, <4>5 DEF Promise!Publish
        <4>7. QED
          BY <4>6 DEF Promise!Next
      <3>4. QED
        BY <3>2, <3>3
    <2>4. QED
      BY <1>10, <2>2, <2>3 DEF Link, Bind, NameFree, Goto
  <1>11. CASE Confirm(s)
    BY <1>11 DEF Confirm
  <1>12. CASE SyncLink(s)
    BY <1>12 DEF SyncLink
  <1>13. CASE Untemp(s)
    BY <1>13 DEF Untemp
  <1>14. CASE SyncUntemp(s)
    BY <1>14 DEF SyncUntemp
  <1>15. CASE Withdraw(s)
    <2>1. /\ UNCHANGED resultVars
          /\ dir' = dir \/ dir' = [dir EXCEPT ![dest[s]] = None]
      BY <1>15 DEF Withdraw, Withdrawal, Unlink
    <2>2. CASE dest[s] = s
      <3>1. evidence[s] = None
        BY <1>15, <2>2 DEF Withdraw, ControllerOK
      <3>2. dir' = dir \/ (dir'[s] = None /\ dir'[Public] = dir[Public])
        BY <2>1, <2>2 DEF Inv, TypeOK, StoreTypeOK, Name
      <3>3. QED
        BY <1>e, <2>1, <3>1, <3>2
    <2>3. CASE dest[s] = Public
      BY <1>15, <1>f, <2>1, <2>3 DEF Withdraw, CallOK
    <2>4. QED
      BY <2>2, <2>3
  <1>16. CASE Open(s)
    BY <1>16 DEF Open
  <1>17. CASE Hash(s)
    BY <1>17 DEF Hash
  <1>18. CASE Restat(s)
    BY <1>18 DEF Restat
  <1>19. CASE Redundant(s)
    BY <1>19 DEF Redundant
  <1>20. CASE SyncRedundant(s)
    BY <1>20 DEF SyncRedundant
  <1>21. CASE Image(s)
    BY <1>21 DEF Image
  <1>22. CASE VerifyFstat(s)
    BY <1>22 DEF VerifyFstat
  <1>23. CASE VerifyLstat(s)
    BY <1>23 DEF VerifyLstat
  <1>24. CASE Rollback(s)
    BY <1>24 DEF Rollback
  <1>25. CASE Undo(s)
    <2>1. /\ UNCHANGED resultVars
          /\ dir' = dir \/ dir' = [dir EXCEPT ![dest[s]] = None]
      BY <1>25 DEF Undo, Unlink
    <2>2. CASE dest[s] = s
      <3>1. evidence[s] = None
        BY <1>25, <2>2 DEF Undo, ControllerOK
      <3>2. dir' = dir \/ (dir'[s] = None /\ dir'[Public] = dir[Public])
        BY <2>1, <2>2 DEF Inv, TypeOK, StoreTypeOK, Name
      <3>3. QED
        BY <1>e, <2>1, <3>1, <3>2
    <2>3. CASE dest[s] = Public
      BY <1>25, <1>f, <2>1, <2>3 DEF Undo, CallOK
    <2>4. QED
      BY <2>2, <2>3
  <1>26. CASE Unwind(s)
    BY <1>26 DEF Unwind
  <1>27. CASE Drop(s)
    <2>1. /\ UNCHANGED resultVars
          /\ dir' = dir \/ dir' = [dir EXCEPT ![dest[s]] = None]
      BY <1>27 DEF Drop, Unlink
    <2>2. CASE dest[s] = s
      <3>1. evidence[s] = None
        BY <1>27, <2>2 DEF Drop, ControllerOK
      <3>2. dir' = dir \/ (dir'[s] = None /\ dir'[Public] = dir[Public])
        BY <2>1, <2>2 DEF Inv, TypeOK, StoreTypeOK, Name
      <3>3. QED
        BY <1>e, <2>1, <3>1, <3>2
    <2>3. CASE dest[s] = Public
      BY <1>27, <1>f, <2>1, <2>3 DEF Drop, CallOK
    <2>4. QED
      BY <2>2, <2>3
  <1>28. CASE RmPrivate(s)
    <2>1. /\ pc[s] = "rm_private" /\ dest[s] = Public /\ want[s] \in Content
          /\ Shown(Public) = want[s] /\ UNCHANGED evidence
      BY <1>28 DEF RmPrivate, CallOK, Determined, Custody, Out
    <2>2. CASE dir' = dir /\ complete' = complete
      BY <2>1, <2>2
    <2>3. CASE /\ dir[s] = None /\ dir' = dir /\ call[s] = "publish"
               /\ complete' = [complete EXCEPT ![s] = TRUE]
      <3>1. UNCHANGED <<Shown(Public), [t \in Session |-> Shown(t)]>>
        BY <2>3, RetainedFrame, ShownFrame DEF Name
      <3>2. Promise!Complete(s)
        BY <2>1, <2>3, <3>1 DEF Promise!Complete, ControllerOK, Shown
      <3>3. QED
        BY <3>2 DEF Promise!Next
    <2>4. CASE dir' = [dir EXCEPT ![s] = None] /\ complete' = complete
      <3>1. dir'[s] = None /\ dir'[Public] = dir[Public]
        BY <2>4 DEF Inv, TypeOK, StoreTypeOK, Name
      <3>2. Shown(Public)' = Shown(Public) /\ Shown(s)' = None
        BY <3>1, ShownFrame DEF Name
      <3>3. CASE call[s] = "publish"
        <4>1. Promise!Release(s)
          BY <2>1, <2>4, <3>2, <3>3, RetainedFrame
          DEF Promise!Release, ControllerOK
        <4>2. QED
          BY <4>1 DEF Promise!Next
      <3>4. QED
        BY <1>e, <2>1, <2>4, <3>1, <3>3
    <2>5. QED
      BY <1>28, <2>2, <2>3, <2>4 DEF RmPrivate, Published, Unlink
  <1>29. CASE SyncPrivate(s)
    <2>1. /\ pc[s] = "sync_private" /\ dest[s] = Public /\ want[s] \in Content
          /\ Shown(Public) = want[s] /\ Shown(s) = None
          /\ UNCHANGED <<dir, evidence>>
      BY <1>29 DEF SyncPrivate, CallOK, Determined, Custody, Out
    <2>2. CASE complete' = complete
      BY <2>1, <2>2
    <2>3. CASE call[s] = "publish" /\ complete' = [complete EXCEPT ![s] = TRUE]
      <3>1. UNCHANGED <<Shown(Public), [t \in Session |-> Shown(t)]>>
        BY <2>1, RetainedFrame, ShownFrame DEF Name
      <3>2. Promise!Complete(s)
        BY <2>1, <2>3, <3>1 DEF Promise!Complete, ControllerOK
      <3>3. QED
        BY <3>2 DEF Promise!Next
    <2>4. QED
      BY <1>29, <2>2, <2>3 DEF SyncPrivate, Published
  <1>30. CASE Persist(s)
    <2>1. /\ pc[s] = "persist" /\ evidence[s] = None /\ dir' = dir
          /\ call[s] \in {"execute", "execute_sealed"}
      BY <1>30 DEF Persist, ControllerOK, Inv, TypeOK, ProcessTypeOK
    <2>2. complete[s] = FALSE
      BY <2>1, StoreAssumption
      DEF ControllerOK, Inv, TypeOK, ResultTypeOK
    <2>3. UNCHANGED <<Shown(Public), [t \in Session |-> Shown(t)]>>
      BY <2>1, RetainedFrame, ShownFrame DEF Name
    <2>4. CASE err[s] # None
      <3>1. err[s] \in Failure
        BY <2>4 DEF Inv, TypeOK, ProcessTypeOK
      <3>2. complete' = complete
        BY <1>30, <2>2, <2>4 DEF Persist, Inv, TypeOK, ResultTypeOK
      <3>3. Promise!Record(s)
        BY <1>30, <2>1, <2>3, <2>4, <3>1, <3>2 DEF Persist, Promise!Record
      <3>4. QED
        BY <3>3 DEF Promise!Next
    <2>5. CASE err[s] = None /\ call[s] = "execute_sealed"
      <3>1. Shown(s) = want[s] /\ want[s] \in Content
        BY <2>1, <2>5 DEF Custody, Kept, CallOK, Determined
      <3>2. complete' = complete
        BY <1>30, <2>2, <2>5 DEF Persist, Inv, TypeOK, ResultTypeOK
      <3>3. evidence' = [evidence EXCEPT ![s] = want[s]]
        BY <1>30, <2>5 DEF Persist
      <3>4. Promise!Record(s)
        BY <2>1, <2>3, <3>1, <3>2, <3>3 DEF Promise!Record
      <3>5. QED
        BY <3>4 DEF Promise!Next
    <2>6. CASE err[s] = None /\ call[s] = "execute"
      <3>1. /\ Shown(Public) = want[s] /\ want[s] \in Content
            /\ Shown(s) = None
        BY <2>1, <2>6 DEF Custody, Out, CallOK, Determined
      <3>2. /\ evidence' = [evidence EXCEPT ![s] = want[s]]
            /\ complete' = [complete EXCEPT ![s] = TRUE]
        BY <1>30, <2>6 DEF Persist
      <3>3. Promise!RecordPublished(s)
        BY <2>1, <2>3, <3>1, <3>2 DEF Promise!RecordPublished
      <3>4. QED
        BY <3>3 DEF Promise!Next
    <2>7. QED
      BY <2>1, <2>4, <2>5, <2>6
  <1>31. QED
    BY <1>1, <1>2, <1>3, <1>4, <1>5, <1>6, <1>7, <1>8, <1>9, <1>10, <1>11,
       <1>12, <1>13, <1>14, <1>15, <1>16, <1>17, <1>18, <1>19, <1>20, <1>21,
       <1>22, <1>23, <1>24, <1>25, <1>26, <1>27, <1>28, <1>29, <1>30
    DEF Running

-----------------------------------------------------------------------------
(***************************************************************************)
(* All steps, and the theorems.                                            *)
(***************************************************************************)
Custodies == \A s \in Session : Custody(s) /\ Bound(s) /\ Faultless(s)

RInv == /\ Inv /\ SoleNames /\ Ownership /\ Examinations /\ Custodies
        /\ Promise!Available

\* What is wanted is an archive wherever a call relies on its being shown.
LEMMA CustodyIsOfArchives ==
    ASSUME Inv, NEW s \in Session,
           \/ dest[s] = Public
           \/ pc[s] \in {"rm_private", "sync_private"}
           \/ pc[s] = "persist" /\ err[s] = None
    PROVE  want[s] \in Content
  BY DEF Inv, Bookkeeping, CallOK, Determined

\* Another program that occupies the artifact path changes nothing else.
LEMMA ForeignCreateShows ==
    ASSUME Inv, ForeignCreate
    PROVE  /\ dir[Public] = None
           /\ Shown(Public)' \in Content \cup {Partial}
           /\ \A s \in Session : dir'[s] = dir[s] /\ Shown(s)' = Shown(s)
  <1> USE StoreAssumption DEF Inv, TypeOK, StoreTypeOK, Name
  <1>1. PICK i \in Alloc(Free), b \in Content \cup {Partial}, m \in BOOLEAN :
            /\ file' = [file EXCEPT ![i] = Dropped(b, m)]
            /\ Bind(Public, i)
    BY DEF ForeignCreate
  <1>2. i \in Inode /\ Unnamed(i)
    BY AllocIsFree DEF Free
  <1>3. dir[Public] = None /\ dir'[Public] = i
        /\ \A s \in Session : dir'[s] = dir[s]
    BY <1>1 DEF ForeignCreate, Bind
  <1>4. file'[i] = Dropped(b, m) /\ \A j \in Inode \ {i} : file'[j] = file[j]
    BY <1>1, <1>2
  <1>5. Shown(Public)' \in Content \cup {Partial}
    BY <1>2, <1>3, <1>4 DEF Shown, Dropped
  <1>6. ASSUME NEW s \in Session
        PROVE  Shown(s)' = Shown(s)
    <2>1. dir[s] # i
      BY <1>2 DEF Unnamed
    <2>2. QED
      BY <1>3, <1>4, <2>1 DEF Shown
  <1>7. QED
    BY <1>3, <1>5, <1>6

\* Every step keeps the promise, or shows nothing.
LEMMA NextKeepsPromise ==
    ASSUME Gentle, RInv, [Next]_vars
    PROVE  [Promise!Next]_(Promise!vars)
  <1> USE DEF RInv
  <1>1. ASSUME NEW s \in Session, Running(s)
        PROVE  [Promise!Next]_(Promise!vars)
    BY <1>1, RunningKeepsPromise DEF Ownership, Custodies
  <1>2. ASSUME NEW s \in Session,
               (\E c \in Calls : StartExecute(s, c)) \/ StartPublish(s) \/ Kill(s)
        PROVE  UNCHANGED Promise!vars
    <2>1. Frame(s)
      BY <1>2, OutsideFrame DEF Inv
    <2>2. dir' = dir /\ UNCHANGED resultVars
      BY <1>2 DEF StartExecute, StartPublish, Kill
    <2>3. QED
      BY <2>1, <2>2, Stutters
  <1>3. ~PowerLoss /\ ~ForeignRemove
    BY DEF PowerLoss, ForeignRemove, Gentle, Inv, TypeOK, ResultTypeOK
  <1>4. CASE ForeignCreate
    <2>1. Shown(Public) = None
      BY <1>4, ForeignCreateShows DEF Shown
    <2>2. [s \in Session |-> Shown(s)]' = [s \in Session |-> Shown(s)]
      BY <1>4, ForeignCreateShows
    <2>3. Promise!Occupy
      BY <1>4, <2>1, <2>2, ForeignCreateShows DEF ForeignCreate, Promise!Occupy
    <2>4. QED
      BY <2>3 DEF Promise!Next
  <1>5. CASE UNCHANGED vars
    BY <1>5 DEF vars, Promise!vars, Shown
  <1>6. QED
    BY <1>1, <1>2, <1>3, <1>4, <1>5 DEF Next, Settled

\* Starting a call and the death of its process keep custody.
LEMMA OutsideKeepsCustody ==
    ASSUME Inv, Promise!Available, NEW s \in Session, Custody(s), Bound(s), Faultless(s),
           (\E c \in Calls : StartExecute(s, c)) \/ StartPublish(s) \/ Kill(s)
    PROVE  Custody(s)' /\ Bound(s)' /\ Faultless(s)'
  <1>a. CallOK(s)
    BY DEF Inv, Bookkeeping
  <1>b. s # Public
    BY StoreAssumption
  <1>c. \A n \in Name : Shown(n)' = Shown(n)
    BY DEF StartExecute, StartPublish, Kill, Shown
  <1> USE <1>a, <1>b, <1>c
      DEF Inv, TypeOK, ProcessTypeOK, DescriptorsOK, Building, Name, Goto,
          Escape, Forget, CallOK, Raised, Unlinked, Linked, Custody, Kept,
          Out, Bound, Faultless
  <1>1. CASE \E c \in Calls : StartExecute(s, c)
    BY <1>1 DEF StartExecute
  <1>2. CASE StartPublish(s)
    <2>1. evidence[s] \in Content /\ want'[s] = evidence[s]
      BY <1>2 DEF StartPublish
    <2>2. Shown(s) = evidence[s] \/ Shown(Public) = evidence[s]
      BY <2>1 DEF Promise!Available
    <2>3. /\ pc'[s] = "open" /\ dest'[s] = Public /\ exam'[s] = "public"
          /\ binding'[s] = "none"
      BY <1>2 DEF StartPublish
    <2>4. QED
      BY <2>1, <2>2, <2>3
  <1>3. CASE Kill(s)
    BY <1>3 DEF Kill
  <1>4. QED
    BY <1>1, <1>2, <1>3

\* No step of anybody takes the bytes away that a call relies on.
LEMMA NextKeepsCustody ==
    ASSUME Gentle, RInv, TypeOK', [Next]_vars
    PROVE  Custodies'
  <1> USE DEF RInv
  <1>1. ASSUME NEW t \in Session, Frame(t), Courteous(t), 
               Custody(t)' /\ Bound(t)' /\ Faultless(t)'
        PROVE  Custodies'
    <2>1. SUFFICES ASSUME NEW s \in Session, s # t
                   PROVE  Custody(s)' /\ Bound(s)' /\ Faultless(s)'
      BY <1>1 DEF Custodies
    <2>2. Custody(s) /\ Bound(s) /\ Faultless(s) /\ Faultless(t) /\ Own(t)
      BY DEF Custodies, Ownership
    <2>3. OwnFile(s)
      BY DEF Inv, Bookkeeping
    <2>4. Custody(s)'
      BY <1>1, <2>1, <2>2, OthersKeepCustody
    <2>5. Bound(s)' /\ Faultless(s)'
      BY <1>1, <2>1, <2>2, <2>3, CourtesyKeepsBound DEF Inv
    <2>6. QED
      BY <2>4, <2>5
  <1>2. ASSUME NEW s \in Session, Running(s)
        PROVE  Custodies'
    <2>1. /\ Own(s) /\ Sole(s) /\ Examined(s)
          /\ Custody(s) /\ Bound(s) /\ Faultless(s)
      BY DEF Custodies, Ownership, SoleNames, Examinations
    <2>2. Frame(s) /\ Courteous(s)
      BY <1>2, <2>1, RunningFrame, RunningIsCourteous DEF Inv
    <2>3. Custody(s)'
      BY <1>2, <2>1, RunningKeepsCustody
    <2>4. Bound(s)' /\ Faultless(s)'
      BY <1>2, <2>1, RunningKeepsBound
    <2>5. QED
      BY <1>1, <2>2, <2>3, <2>4
  <1>3. ASSUME NEW s \in Session,
               (\E c \in Calls : StartExecute(s, c)) \/ StartPublish(s) \/ Kill(s)
        PROVE  Custodies'
    <2>1. Custody(s)' /\ Bound(s)' /\ Faultless(s)'
      BY <1>3, OutsideKeepsCustody DEF Custodies
    <2>2. Frame(s)
      BY <1>3, OutsideFrame DEF Inv
    <2>3. Courteous(s)
      BY <1>3 DEF StartExecute, StartPublish, Kill, Goto, Escape, Forget,
                  Courteous, Inv, TypeOK, ProcessTypeOK
    <2>4. QED
      BY <1>1, <2>1, <2>2, <2>3
  <1>4. ~PowerLoss /\ ~ForeignRemove
    BY DEF PowerLoss, ForeignRemove, Gentle, Inv, TypeOK, ResultTypeOK
  <1>5. CASE ForeignCreate
    <2>1. SUFFICES ASSUME NEW s \in Session
                   PROVE  Custody(s)' /\ Bound(s)' /\ Faultless(s)'
      BY DEF Custodies
    <2>2. Custody(s) /\ Bound(s) /\ Faultless(s) /\ OwnFile(s)
      BY DEF Custodies, Inv, Bookkeeping
    <2>3. UNCHANGED procVars
      BY <1>5 DEF ForeignCreate
    <2>4. Shown(Public) = None /\ Shown(s)' = Shown(s) /\ dir'[s] = dir[s]
          /\ dir[Public] = None
      BY <1>5, ForeignCreateShows DEF Shown
    <2>5. Custody(s)'
      BY <2>2, <2>3, <2>4, CustodyIsOfArchives, StoreAssumption
      DEF Custody, Kept, Out
    <2>6. dest[s] \in {s, Public}
      BY DEF Inv, TypeOK, ProcessTypeOK
    <2>7. QED
      BY <2>2, <2>3, <2>4, <2>5, <2>6, StoreAssumption
      DEF Bound, Faultless, OwnFile
  <1>6. CASE UNCHANGED vars
    BY <1>6 DEF vars, Custodies, Custody, Bound, Faultless, Kept, Out, Shown
  <1>7. QED
    BY <1>2, <1>3, <1>4, <1>5, <1>6 DEF Next, Settled

LEMMA NextKeepsAvailable ==
    ASSUME Gentle, RInv, [Next]_vars
    PROVE  Promise!Available'
  <1>1. PromiseProofs!IInv
    BY PromiseTypes DEF RInv, Inv, PromiseProofs!IInv, PromiseProofs!Available,
                        Promise!Available
  <1>2. [PromiseProofs!Next]_(PromiseProofs!vars)
    BY NextKeepsPromise, SamePromise
  <1>3. PromiseProofs!Available'
    BY <1>1, <1>2, PromiseDistinct, PromiseProofs!NextAvailable
  <1>4. QED
    BY <1>3 DEF PromiseProofs!Available, Promise!Available

LEMMA InitRInv ==
    ASSUME Init
    PROVE  /\ SoleNames /\ Ownership /\ Examinations /\ Custodies
           /\ Promise!Available /\ Promise!Init
  <1> USE StoreAssumption DEF Init, StoreInit, Unlinked, Linked, Name
  <1>1. SoleNames
    BY DEF SoleNames, Sole
  <1>2. Ownership
    BY DEF Ownership, Own
  <1>3. Examinations
    BY DEF Examinations, Examined
  <1>4. Custodies
    BY DEF Custodies, Custody, Bound, Faultless
  <1>5. Promise!Available
    BY DEF Promise!Available
  <1>6. Promise!Init
    BY DEF Promise!Init, Shown
  <1>7. QED
    BY <1>1, <1>2, <1>3, <1>4, <1>5, <1>6

LEMMA RInvIsInvariant ==
    ASSUME Gentle
    PROVE  Spec => []RInv
  <1>1. TypeOK' /\ Inv' /\ RInv /\ [Next]_vars => RInv'
    BY NextKeepsSole, NextOwnership, NextKeepsExamined, NextKeepsCustody,
       NextKeepsAvailable
    DEF RInv, Gentle, Inv
  <1>2. Init /\ Inv => RInv
    BY InitRInv DEF RInv
  <1>3. QED
    BY InvIsInvariant, TypeCorrect, <1>1, <1>2, PTL DEF Spec

(***************************************************************************)
(* The refinement.  For any number of sessions, any contents, any number   *)
(* of deaths of processes and of files that other programs put at the      *)
(* artifact path, and for any number of failing system calls when one      *)
(* session uses the path: every system call of execute, execute_sealed and *)
(* publish_sealed_artifact is a step of what they promise, or changes      *)
(* nothing that is promised.                                               *)
(***************************************************************************)
THEOREM SealedPublicationKeepsPromise ==
    ASSUME Gentle
    PROVE  Spec => PromiseKept
  <1>1. RInv /\ [Next]_vars => [Promise!Next]_(Promise!vars)
    BY NextKeepsPromise
  <1>2. Init => Promise!Init
    BY InitRInv
  <1>3. QED
    BY RInvIsInvariant, <1>1, <1>2, PTL
    DEF Spec, PromiseKept, Promise!Spec

\* A name that shows an archive holds it exactly.
LEMMA ShownIsExact ==
    ASSUME NEW n \in Name, NEW b \in Content, Shown(n) = b
    PROVE  Exact(n, b)
  BY StoreAssumption DEF Shown, Exact

(***************************************************************************)
(* In the same environments, the bytes that durable successful evidence    *)
(* names are at the artifact path or at the private name of the session:   *)
(* publish_sealed_artifact never needs another build.                      *)
(***************************************************************************)
THEOREM EvidenceNeverLost ==
    ASSUME Gentle
    PROVE  Spec => []EvidenceIsPublishable
  <1>1. RInv => EvidenceIsPublishable
    BY ShownIsExact DEF RInv, Promise!Available, EvidenceIsPublishable, Name
  <1>2. QED
    BY RInvIsInvariant, <1>1, PTL

(***************************************************************************)
(* And once publish_sealed_artifact or execute has returned success, the   *)
(* artifact path holds exactly those bytes for good, and no private copy   *)
(* is left.                                                                *)
(***************************************************************************)
THEOREM ReportedPublicationStays ==
    ASSUME Gentle
    PROVE  Spec => []CompletionIsExact
  <1>1. RInv => CompletionIsExact
    <2>1. SUFFICES ASSUME RInv, NEW s \in Session, complete[s]
                   PROVE  Exact(Public, evidence[s]) /\ dir[s] = None
      BY DEF CompletionIsExact
    <2>2. /\ evidence[s] \in Content /\ Shown(Public) = evidence[s]
          /\ Shown(s) = None
      BY <2>1 DEF RInv, Promise!Available
    <2>3. dir[s] = None
      BY <2>1, <2>2, StoreAssumption
      DEF RInv, Inv, TypeOK, StoreTypeOK, File, Shown, Name
    <2>4. QED
      BY <2>2, <2>3, ShownIsExact DEF Name
  <1>2. QED
    BY RInvIsInvariant, <1>1, PTL
-----------------------------------------------------------------------------
(***************************************************************************)
(* Power losses.  One session, whose process only power losses interrupt,  *)
(* and at most one failing system call.  Other programs put nothing at the *)
(* artifact path where they cannot remove it too: what they put there is   *)
(* adopted without an fsync of its name, and the properties do not hold    *)
(* the library to an artifact path from which others remove things.        *)
(***************************************************************************)
Solitary == /\ \A s, t \in Session : s = t
            /\ MaxKills = 0
            /\ MaxFaults \in {0, 1}
            /\ "create" \in ForeignMay => "remove" \in ForeignMay

\* Name n shows b, and a power loss does not change that.
Lasting(n, b) == Shown(n) = b /\ disk[n] = dir[n]

\* The artifact path may lead to a file that its parent has not been synced for.
Pending(s) == /\ dest[s] = Public
              /\ pc[s] \in {"confirm", "sync_link", "withdraw"}

\* What is under a durable name has been fsync'ed.
OnDisk == \A n \in Name : \A i \in {dir[n], disk[n]} \ {None} : file[i].synced

\* How what is seen and what is persisted differ.
Behind(s) ==
    /\ pc[s] \in {"withdraw", "withdraw_sync"} => faults = 0
    /\ ~Pending(s) => dir[Public] \in {None, disk[Public]}
    /\ pc[s] \in {"untemp", "sync_untemp", "image", "verify_fstat", "verify_lstat"} =>
            disk[dest[s]] = dir[dest[s]]

\* Custody of what is persisted.
Persisted(s) ==
    /\ /\ dest[s] = Public /\ pc[s] \in {"open", "hash", "restat"}
       /\ exam[s] = "public"
       => Lasting(s, want[s]) \/ Lasting(Public, want[s])
    /\ /\ dest[s] = Public
       /\ \/ pc[s] \in Unlinked \cup Linked \cup
                        {"mktemp", "redundant", "sync_redundant",
                         "verify_fstat", "verify_lstat"}
          \/ pc[s] \in {"open", "hash", "restat"} /\ exam[s] # "public"
          \/ binding[s] = "owned"
       => Lasting(s, want[s])
    /\ pc[s] \in {"rm_private", "sync_private"} => Lasting(Public, want[s])
    /\ pc[s] = "sync_private" => dir[s] = None
    /\ pc[s] = "persist" /\ err[s] = None =>
            IF call[s] = "execute"
            THEN Lasting(Public, want[s]) /\ dir[s] = None
            ELSE Lasting(s, want[s])

\* The bytes of evidence, and of a reported publication, are persisted; a
\* session that has been told so does not get beyond the artifact path again.
Vouched(s) ==
    /\ evidence[s] \in Content =>
            Lasting(s, evidence[s]) \/ Lasting(Public, evidence[s])
    /\ complete[s] =>
        /\ Lasting(Public, evidence[s])
        /\ losses = MaxLosses => dir[s] = None
        /\ exam[s] = "public" /\ binding[s] = "none"
        /\ pc[s] \in {"idle", "open", "hash", "restat", "rm_private",
                      "sync_private", "unwind"}

\* All of it, until another program intervenes at the artifact path.
Persistence ==
    IF foreign = MaxForeign
    THEN OnDisk /\ \A s \in Session : /\ Own(s) /\ Behind(s)
                                      /\ Persisted(s) /\ Vouched(s)
    ELSE "remove" \in ForeignMay

\* A name that a step leaves alone goes on showing what it shows for good.
LEMMA LastingStays ==
    ASSUME Inv, NEW s \in Session, Frame(s), NEW n \in Name, NEW b,
           dir'[n] = dir[n], disk'[n] \in {disk[n], dir[n]}, Lasting(n, b)
    PROVE  Lasting(n, b)'
  BY ShownFrame DEF Lasting

\* fsync makes persistent what is there.
LEMMA RunningDisk ==
    ASSUME TypeOK, NEW s \in Session, Running(s)
    PROVE  \/ disk' = disk
           \/ \E n \in Name : disk' = [disk EXCEPT ![n] = dir'[n]]
  <1> USE DEF TypeOK, ProcessTypeOK, Name
  <1>1. CASE SyncLink(s)
    BY <1>1 DEF SyncLink, SyncParent
  <1>2. CASE SyncUntemp(s)
    BY <1>2 DEF SyncUntemp, SyncParent
  <1>3. CASE Withdraw(s)
    BY <1>3 DEF Withdraw, SyncParent
  <1>4. CASE SyncRedundant(s)
    BY <1>4 DEF SyncRedundant, SyncParent
  <1>5. CASE Undo(s)
    BY <1>5 DEF Undo, SyncParent
  <1>6. CASE SyncPrivate(s)
    BY <1>6 DEF SyncPrivate, SyncParent
  <1>7. CASE \/ Capabilities(s) \/ Prepare(s) \/ Invoke(s) \/ Inspect(s)
             \/ MkTemp(s) \/ Write(s) \/ Seal(s) \/ Reinspect(s) \/ Digest(s)
             \/ Link(s) \/ Confirm(s) \/ Untemp(s)
    BY <1>7 DEF Capabilities, Prepare, Invoke, Inspect, MkTemp, Write, Seal,
                Reinspect, Digest, Link, Confirm, Untemp
  <1>8. CASE \/ Open(s) \/ Hash(s) \/ Restat(s) \/ Redundant(s) \/ Image(s)
             \/ VerifyFstat(s) \/ VerifyLstat(s) \/ Rollback(s) \/ Unwind(s)
             \/ Drop(s) \/ RmPrivate(s) \/ Persist(s)
    BY <1>8 DEF Open, Hash, Restat, Redundant, Image, VerifyFstat,
                VerifyLstat, Rollback, Unwind, Drop, RmPrivate, Persist
  <1>9. QED
    BY <1>1, <1>2, <1>3, <1>4, <1>5, <1>6, <1>7, <1>8 DEF Running

\* Only what is fsync'ed gets a durable name.
LEMMA RunningKeepsOnDisk ==
    ASSUME Inv, NEW s \in Session, Running(s), OnDisk
    PROVE  OnDisk'
  <1>1. Frame(s) /\ TypeOK /\ Safe
    BY RunningFrame DEF Inv
  <1>2. SUFFICES ASSUME NEW n \in Name, NEW i \in {dir'[n], disk'[n]} \ {None}
                 PROVE  file'[i].synced
    BY DEF OnDisk
  <1>3. \A m \in Name : \A j \in {dir[m], disk[m]} \ {None} : file'[j].synced
    BY <1>1, FrameFiles DEF OnDisk
  <1>4. Binds(s) => file'[fd[s]].synced
    <2>1. SUFFICES ASSUME Binds(s)
                   PROVE  file'[fd[s]].synced
      OBVIOUS
    <2>2. fd[s] \in Inode /\ file[fd[s]].synced
      BY <1>1, <2>1
      DEF Binds, Safe, TemporaryIsPrivate, Unlinked, Inv, Bookkeeping, OwnFile
    <2>3. file'[fd[s]] = file[fd[s]]
      BY <1>1, <2>1, <2>2 DEF Binds, Frame, FileFrame, Creates
    <2>4. QED
      BY <2>2, <2>3
  <1>5. \A m \in Name : dir'[m] # None => file'[dir'[m]].synced
    <2>1. SUFFICES ASSUME NEW m \in Name, dir'[m] # None
                   PROVE  file'[dir'[m]].synced
      OBVIOUS
    <2>2. dir'[m] = dir[m] \/ (Binds(s) /\ dir'[m] = fd[s])
      BY <1>1, <2>1 DEF Frame, NameFrame, Binds
    <2>3. QED
      BY <1>3, <1>4, <2>1, <2>2
  <1>6. i = dir'[n] \/ i = disk[n]
    BY <1>1, <1>2, RunningDisk DEF TypeOK, StoreTypeOK
  <1>7. QED
    BY <1>2, <1>3, <1>5, <1>6

\* The one failure that leads to a withdrawal is the last.
LEMMA RunningKeepsBehind ==
    ASSUME Inv, Inv', NEW s \in Session, Running(s), Own(s), Behind(s),
           MaxFaults \in {0, 1}
    PROVE  Behind(s)'
  <1>a. CallOK(s) /\ faults \in {0, 1}
    BY DEF Inv, Bookkeeping, TypeOK, ResultTypeOK
  <1>b. s # Public
    BY StoreAssumption
  <1> USE <1>a, <1>b
      DEF Inv, TypeOK, StoreTypeOK, ProcessTypeOK, Name, Goto, Fault, Fails,
          Raise, Attempt, Escape, Forget, Leave, Published, Doubt, Sealing, CallOK,
          Raised, Linked, Own, Behind, Pending
  <1>1. CASE Capabilities(s)
    BY <1>1 DEF Capabilities
  <1>2. CASE Prepare(s)
    BY <1>2 DEF Prepare, ResetSession, Unlink
  <1>3. CASE Invoke(s)
    BY <1>3 DEF Invoke
  <1>4. CASE Inspect(s)
    BY <1>4 DEF Inspect
  <1>5. CASE MkTemp(s)
    BY <1>5 DEF MkTemp
  <1>6. CASE Write(s)
    BY <1>6 DEF Write
  <1>7. CASE Seal(s)
    BY <1>7 DEF Seal
  <1>8. CASE Reinspect(s)
    BY <1>8 DEF Reinspect
  <1>9. CASE Digest(s)
    BY <1>9 DEF Digest
  <1>10. CASE Link(s)
    BY <1>10 DEF Link, Bind
  <1>11. CASE Confirm(s)
    BY <1>11 DEF Confirm
  <1>12. CASE SyncLink(s)
    BY <1>12 DEF SyncLink, SyncParent
  <1>13. CASE Untemp(s)
    BY <1>13 DEF Untemp
  <1>14. CASE SyncUntemp(s)
    BY <1>14 DEF SyncUntemp, SyncParent
  <1>15. CASE Withdraw(s)
    BY <1>15 DEF Withdraw, Withdrawal, Unlink, SyncParent
  <1>16. CASE Open(s)
    BY <1>16 DEF Open
  <1>17. CASE Hash(s)
    BY <1>17 DEF Hash
  <1>18. CASE Restat(s)
    BY <1>18 DEF Restat, AfterExam
  <1>19. CASE Redundant(s)
    BY <1>19 DEF Redundant
  <1>20. CASE SyncRedundant(s)
    BY <1>20 DEF SyncRedundant, SyncParent
  <1>21. CASE Image(s)
    BY <1>21 DEF Image
  <1>22. CASE VerifyFstat(s)
    BY <1>22 DEF VerifyFstat
  <1>23. CASE VerifyLstat(s)
    BY <1>23 DEF VerifyLstat, Retain, PublishesNext
  <1>24. CASE Rollback(s)
    BY <1>24 DEF Rollback, Owned
  <1>25. CASE Undo(s)
    BY <1>25 DEF Undo, Unlink, SyncParent
  <1>26. CASE Unwind(s)
    BY <1>26 DEF Unwind, Owned
  <1>27. CASE Drop(s)
    BY <1>27 DEF Drop, Unlink
  <1>28. CASE RmPrivate(s)
    BY <1>28 DEF RmPrivate, Unlink
  <1>29. CASE SyncPrivate(s)
    BY <1>29 DEF SyncPrivate, SyncParent
  <1>30. CASE Persist(s)
    BY <1>30 DEF Persist
  <1>31. QED
    BY <1>1, <1>2, <1>3, <1>4, <1>5, <1>6, <1>7, <1>8, <1>9, <1>10, <1>11,
       <1>12, <1>13, <1>14, <1>15, <1>16, <1>17, <1>18, <1>19, <1>20, <1>21,
       <1>22, <1>23, <1>24, <1>25, <1>26, <1>27, <1>28, <1>29, <1>30
    DEF Running

\* A running call is no power loss, and no other program.
LEMMA RunningIsDomestic ==
    ASSUME NEW s \in Session, Running(s)
    PROVE  UNCHANGED <<kills, losses, foreign>>
  <1>1. CASE \/ Capabilities(s) \/ Prepare(s) \/ Invoke(s) \/ Inspect(s)
             \/ MkTemp(s) \/ Write(s) \/ Seal(s) \/ Reinspect(s) \/ Digest(s)
             \/ Link(s) \/ Confirm(s) \/ SyncLink(s) \/ Untemp(s)
             \/ SyncUntemp(s) \/ Withdraw(s)
    BY <1>1 DEF Capabilities, Prepare, Invoke, Inspect, MkTemp, Write, Seal,
                Reinspect, Digest, Link, Confirm, SyncLink, Untemp,
                SyncUntemp, Withdraw
  <1>2. CASE \/ Open(s) \/ Hash(s) \/ Restat(s) \/ Redundant(s)
             \/ SyncRedundant(s) \/ Image(s) \/ VerifyFstat(s)
             \/ VerifyLstat(s) \/ Rollback(s) \/ Undo(s) \/ Unwind(s)
             \/ Drop(s) \/ RmPrivate(s) \/ SyncPrivate(s) \/ Persist(s)
    BY <1>2 DEF Open, Hash, Restat, Redundant, SyncRedundant, Image,
                VerifyFstat, VerifyLstat, Rollback, Undo, Unwind, Drop,
                RmPrivate, SyncPrivate, Persist
  <1>3. QED
    BY <1>1, <1>2 DEF Running

\* A running call knows where its bytes are persisted.
LEMMA RunningKeepsPersisted ==
    ASSUME Inv, Inv', NEW s \in Session, Running(s), Own(s), Examined(s),
           Behind(s), Persisted(s)
    PROVE  Persisted(s)'
  <1>a. ControllerOK(s) /\ CallOK(s) /\ OwnFile(s) /\ s # Public
    BY StoreAssumption DEF Inv, Bookkeeping
  <1>b. \A n \in Name : disk'[n] \in {disk[n], dir'[n]}
    BY RunningDisk DEF Inv, TypeOK, StoreTypeOK
  <1>c. \A b : /\ dir'[s] = dir[s] /\ Lasting(s, b) => Lasting(s, b)'
               /\ dir'[Public] = dir[Public] /\ Lasting(Public, b) =>
                        Lasting(Public, b)'
    BY <1>b, RunningFrame, LastingStays DEF Inv, Name
  <1>d. ASSUME NEW n \in Name, NEW b, UNCHANGED <<dir, disk>>, dir[n] # None,
               disk[n] = dir[n], file[dir[n]].ro, file[dir[n]].bytes = b
        PROVE  Lasting(n, b)'
    <2>1. Lasting(n, b)
      BY <1>d DEF Lasting, Shown
    <2>2. QED
      BY <1>d, <2>1, RunningFrame, LastingStays DEF Inv
  <1>e. \A n \in Name : want[s] \in Content /\ Lasting(n, want[s]) =>
            dir[n] # None
    BY StoreAssumption DEF Lasting, Shown
  <1> USE <1>a, <1>c
      DEF Inv, TypeOK, StoreTypeOK, ProcessTypeOK, DescriptorsOK, Building,
          Name, Goto, Fails, Raise, Attempt, Escape, Forget, Leave, Published,
          Doubt, Sealing, ControllerOK, CallOK, Determined, Raised, Unlinked,
          Linked, Persisted
  <1>1. CASE Capabilities(s)
    BY <1>1 DEF Capabilities
  <1>2. CASE Prepare(s)
    BY <1>2 DEF Prepare, ResetSession, Unlink
  <1>3. CASE Invoke(s)
    BY <1>3, PublicationAssumption DEF Invoke, Failure
  <1>4. CASE Inspect(s)
    BY <1>4 DEF Inspect
  <1>5. CASE MkTemp(s)
    BY <1>5, MkTempOutcome
  <1>6. CASE Write(s)
    BY <1>6 DEF Write
  <1>7. CASE Seal(s)
    BY <1>7 DEF Seal
  <1>8. CASE Reinspect(s)
    BY <1>8 DEF Reinspect
  <1>9. CASE Digest(s)
    BY <1>9 DEF Digest
  <1>10. CASE Link(s)
    BY <1>10 DEF Link, Bind
  <1>11. CASE Confirm(s)
    BY <1>11 DEF Confirm
  <1>12. CASE SyncLink(s)
    BY <1>12 DEF SyncLink
  <1>13. CASE Untemp(s)
    BY <1>13 DEF Untemp
  <1>14. CASE SyncUntemp(s)
    BY <1>14 DEF SyncUntemp
  <1>15. CASE Withdraw(s)
    BY <1>15 DEF Withdraw, Withdrawal, Unlink
  <1>16. CASE Open(s)
    BY <1>16, <1>e DEF Open, Absent, AbsentIsEmpty, ExamName
  <1>17. CASE Hash(s)
    BY <1>17 DEF Hash
  <1>18. CASE Restat(s)
    <2>1. exam[s] = "public" /\ StillBound(s, ExamName(s)) =>
                Lasting(Public, want[s])'
      <3>1. pc[s] = "restat" /\ file[seen[s].ino].bytes = want[s]
            /\ file[seen[s].ino].ro /\ seen[s].ino \in Inode
        BY <1>18 DEF Restat, Examined, Examining
      <3>2. exam[s] = "public" => ExamName(s) = Public
        BY <3>1 DEF ExamName
      <3>3. UNCHANGED <<dir, disk, want>> /\ want'[s] = want[s]
        BY <1>18 DEF Restat
      <3>4. dir[Public] \in {None, disk[Public]}
        BY <3>1 DEF Behind, Pending
      <3>5. ASSUME exam[s] = "public", StillBound(s, ExamName(s))
            PROVE  Lasting(Public, want[s])'
        <4>1. dir[Public] = seen[s].ino /\ dir[Public] # None
          BY <3>1, <3>2, <3>5, StoreAssumption DEF StillBound
        <4>2. ASSUME NEW b, b = want[s]
              PROVE  Lasting(Public, b)'
          <5>1. /\ disk[Public] = dir[Public]
                /\ file[dir[Public]].ro /\ file[dir[Public]].bytes = b
            BY <3>1, <3>4, <4>1, <4>2
          <5>2. QED
            BY <1>d, <3>3, <4>1, <5>1
        <4>3. QED
          BY <3>3, <4>2
      <3>6. QED
        BY <3>5
    <2>2. UNCHANGED <<dir, want, call, dest, exam, binding>>
      BY <1>18 DEF Restat
    <2>3. \/ pc'[s] = "unwind"
          \/ StillBound(s, ExamName(s)) /\ pc'[s] = AfterExam(s)
      BY <1>18 DEF Restat
    <2>4. pc[s] = "restat"
      BY <1>18 DEF Restat
    <2>5. QED
      BY <2>1, <2>2, <2>3, <2>4 DEF AfterExam
  <1>19. CASE Redundant(s)
    BY <1>19 DEF Redundant
  <1>20. CASE SyncRedundant(s)
    BY <1>20 DEF SyncRedundant, AdoptedBinding
  <1>21. CASE Image(s)
    BY <1>21 DEF Image
  <1>22. CASE VerifyFstat(s)
    BY <1>22 DEF VerifyFstat
  <1>23. CASE VerifyLstat(s)
    <2>1. StillBound(s, dest[s]) /\ file[seen[s].ino].ro =>
            \A n \in Name : n = dest[s] => Lasting(n, want[s])'
      <3>1. /\ pc[s] = "verify_lstat" /\ seen[s].ino = fd[s]
            /\ fd[s] \in Inode /\ file[fd[s]].bytes = want[s]
            /\ disk[dest[s]] = dir[dest[s]]
        BY <1>23 DEF VerifyLstat, Examined, OwnFile, Behind
      <3>2. UNCHANGED <<dir, disk>> /\ want'[s] = want[s]
        BY <1>23 DEF VerifyLstat
      <3>3. ASSUME NEW n \in Name, n = dest[s], StillBound(s, dest[s]),
                   file[seen[s].ino].ro
            PROVE  Lasting(n, want[s])'
        <4>1. dir[n] = fd[s] /\ dir[n] # None
          BY <3>1, <3>3, StoreAssumption DEF StillBound
        <4>2. ASSUME NEW b, b = want[s]
              PROVE  Lasting(n, b)'
          <5>1. /\ disk[n] = dir[n]
                /\ file[dir[n]].ro /\ file[dir[n]].bytes = b
            BY <3>1, <3>3, <4>1, <4>2 DEF StillBound
          <5>2. QED
            BY <1>d, <3>2, <4>1, <5>1
        <4>3. QED
          BY <3>2, <4>2
      <3>4. QED
        BY <3>3
    <2>2. QED
      BY <1>23, <2>1 DEF VerifyLstat, Retain, RetainedBinding, PublishesNext
  <1>24. CASE Rollback(s)
    BY <1>24 DEF Rollback
  <1>25. CASE Undo(s)
    BY <1>25 DEF Undo, Unlink
  <1>26. CASE Unwind(s)
    BY <1>26 DEF Unwind, Owned
  <1>27. CASE Drop(s)
    BY <1>27 DEF Drop, Unlink
  <1>28. CASE RmPrivate(s)
    BY <1>28 DEF RmPrivate, Unlink
  <1>29. CASE SyncPrivate(s)
    BY <1>29 DEF SyncPrivate
  <1>30. CASE Persist(s)
    BY <1>30 DEF Persist
  <1>31. QED
    BY <1>1, <1>2, <1>3, <1>4, <1>5, <1>6, <1>7, <1>8, <1>9, <1>10, <1>11,
       <1>12, <1>13, <1>14, <1>15, <1>16, <1>17, <1>18, <1>19, <1>20, <1>21,
       <1>22, <1>23, <1>24, <1>25, <1>26, <1>27, <1>28, <1>29, <1>30
    DEF Running

\* A running call takes away nothing that evidence relies on.
LEMMA RunningKeepsVouched ==
    ASSUME Inv, Inv', NEW s \in Session, Running(s), Own(s), Persisted(s),
           Vouched(s)
    PROVE  Vouched(s)'
  <1>a. ControllerOK(s) /\ CallOK(s) /\ s # Public
    BY StoreAssumption DEF Inv, Bookkeeping
  <1>b. \A n \in Name : disk'[n] \in {disk[n], dir'[n]}
    BY RunningDisk DEF Inv, TypeOK, StoreTypeOK
  <1>c. \A b : /\ dir'[s] = dir[s] /\ Lasting(s, b) => Lasting(s, b)'
               /\ dir'[Public] = dir[Public] /\ Lasting(Public, b) =>
                        Lasting(Public, b)'
    BY <1>b, RunningFrame, LastingStays DEF Inv, Name
  <1>d. \A n \in Name : evidence[s] \in Content /\ Lasting(n, evidence[s]) =>
            dir[n] # None
    BY StoreAssumption DEF Lasting, Shown
  <1>e. losses' = losses
    BY RunningIsDomestic
  <1>f. UNCHANGED resultVars /\ evidence[s] = None => Vouched(s)'
    BY <1>a, StoreAssumption DEF ControllerOK, Vouched
  <1>g. pc[s] # "idle" /\ evidence[s] # None =>
            /\ call[s] = "publish" /\ evidence[s] \in Content
            /\ want[s] = evidence[s] /\ dest[s] = Public
    BY <1>a DEF ControllerOK, Inv, TypeOK, ProcessTypeOK
  <1>h. /\ pc[s] \in {"link", "withdraw", "withdraw_sync", "undo", "drop"}
        /\ UNCHANGED resultVars
        /\ \A n \in Name \ {dest[s]} : dir'[n] = dir[n]
        => Vouched(s)'
    <2>1. SUFFICES ASSUME pc[s] \in {"link", "withdraw", "withdraw_sync",
                                     "undo", "drop"},
                          UNCHANGED resultVars, evidence[s] # None,
                          \A n \in Name \ {dest[s]} : dir'[n] = dir[n]
                   PROVE  Vouched(s)'
      BY <1>f
    <2>2. call[s] = "publish" /\ want[s] = evidence[s] /\ dest[s] = Public
      BY <1>g, <2>1
    <2>3. Lasting(s, want[s])
      BY <1>a, <2>1, <2>2 DEF CallOK, Persisted, Own, Unlinked, Linked
    <2>4. ~complete[s]
      BY <2>1 DEF Vouched
    <2>5. \A b : Lasting(s, b) => Lasting(s, b)'
      BY <1>a, <1>c, <2>1, <2>2 DEF Name
    <2>6. Lasting(s, evidence[s])'
      BY <2>1, <2>2, <2>3, <2>5
    <2>7. QED
      BY <2>1, <2>4, <2>6 DEF Vouched
  <1> USE <1>a, <1>c, <1>e
      DEF Inv, TypeOK, StoreTypeOK, ProcessTypeOK, ResultTypeOK, Building,
          Name, Goto, Fails, Raise, Attempt, Escape, Forget, Leave, Published,
          Doubt, Sealing, ControllerOK, CallOK, Determined, Raised, Unlinked,
          Linked, Own, Persisted, Vouched
  <1>1. CASE Capabilities(s)
    BY <1>1 DEF Capabilities
  <1>2. CASE Prepare(s)
    <2>1. pc[s] = "prepare" /\ UNCHANGED resultVars
      BY <1>2 DEF Prepare
    <2>2. evidence[s] = None
      BY <1>g, <2>1
    <2>3. QED
      BY <1>f, <2>1, <2>2
  <1>3. CASE Invoke(s)
    BY <1>3 DEF Invoke
  <1>4. CASE Inspect(s)
    BY <1>4 DEF Inspect
  <1>5. CASE MkTemp(s)
    BY <1>5 DEF MkTemp
  <1>6. CASE Write(s)
    BY <1>6 DEF Write
  <1>7. CASE Seal(s)
    BY <1>7 DEF Seal
  <1>8. CASE Reinspect(s)
    BY <1>8 DEF Reinspect
  <1>9. CASE Digest(s)
    BY <1>9 DEF Digest
  <1>10. CASE Link(s)
    BY <1>10, <1>h DEF Link, Bind
  <1>11. CASE Confirm(s)
    BY <1>11 DEF Confirm
  <1>12. CASE SyncLink(s)
    BY <1>12 DEF SyncLink
  <1>13. CASE Untemp(s)
    BY <1>13 DEF Untemp
  <1>14. CASE SyncUntemp(s)
    BY <1>14 DEF SyncUntemp
  <1>15. CASE Withdraw(s)
    BY <1>15, <1>h DEF Withdraw, Withdrawal, Unlink
  <1>16. CASE Open(s)
    BY <1>16, <1>d DEF Open, Absent, AbsentIsEmpty, ExamName
  <1>17. CASE Hash(s)
    BY <1>17 DEF Hash
  <1>18. CASE Restat(s)
    BY <1>18 DEF Restat, AfterExam
  <1>19. CASE Redundant(s)
    BY <1>19 DEF Redundant
  <1>20. CASE SyncRedundant(s)
    BY <1>20 DEF SyncRedundant
  <1>21. CASE Image(s)
    BY <1>21 DEF Image
  <1>22. CASE VerifyFstat(s)
    BY <1>22 DEF VerifyFstat
  <1>23. CASE VerifyLstat(s)
    BY <1>23 DEF VerifyLstat, Retain
  <1>24. CASE Rollback(s)
    BY <1>24 DEF Rollback
  <1>25. CASE Undo(s)
    BY <1>25, <1>h DEF Undo, Unlink
  <1>26. CASE Unwind(s)
    BY <1>26, <1>f, <1>g DEF Unwind, Owned
  <1>27. CASE Drop(s)
    BY <1>27, <1>h DEF Drop, Unlink
  <1>28. CASE RmPrivate(s)
    <2>1. /\ pc[s] = "rm_private" /\ Lasting(Public, want[s])
          /\ dir'[Public] = dir[Public] /\ dir'[s] \in {dir[s], None}
          /\ evidence' = evidence
      BY <1>28 DEF RmPrivate, Unlink
    <2>2. CASE evidence[s] = None
      BY <1>28, <1>g, <2>1, <2>2, StoreAssumption DEF RmPrivate
    <2>3. CASE evidence[s] # None
      <3>1. Lasting(Public, evidence[s])'
        BY <1>g, <2>1, <2>3
      <3>2. QED
        BY <1>28, <1>g, <2>1, <2>3, <3>1 DEF RmPrivate
    <2>4. QED
      BY <2>2, <2>3
  <1>29. CASE SyncPrivate(s)
    <2>1. /\ pc[s] = "sync_private" /\ Lasting(Public, want[s])
          /\ UNCHANGED <<dir, evidence>> /\ dir[s] = None
      BY <1>29 DEF SyncPrivate
    <2>2. CASE evidence[s] = None
      BY <1>29, <1>g, <2>1, <2>2, StoreAssumption DEF SyncPrivate
    <2>3. CASE evidence[s] # None
      <3>1. Lasting(Public, evidence[s])'
        BY <1>g, <2>1, <2>3
      <3>2. QED
        BY <1>29, <1>g, <2>1, <2>3, <3>1 DEF SyncPrivate
    <2>4. QED
      BY <2>2, <2>3
  <1>30. CASE Persist(s)
    BY <1>30, PublicationAssumption DEF Persist, Failure
  <1>31. QED
    BY <1>1, <1>2, <1>3, <1>4, <1>5, <1>6, <1>7, <1>8, <1>9, <1>10, <1>11,
       <1>12, <1>13, <1>14, <1>15, <1>16, <1>17, <1>18, <1>19, <1>20, <1>21,
       <1>22, <1>23, <1>24, <1>25, <1>26, <1>27, <1>28, <1>29, <1>30
    DEF Running

\* A call that starts works for bytes that are persisted.
LEMMA StartKeepsPersisted ==
    ASSUME Inv, NEW s \in Session,
           (\E c \in Calls : StartExecute(s, c)) \/ StartPublish(s),
           Own(s), Behind(s), Persisted(s), Vouched(s)
    PROVE  Own(s)' /\ Behind(s)' /\ Persisted(s)' /\ Vouched(s)'
  <1>a. CallOK(s) /\ s # Public
    BY StoreAssumption DEF Inv, Bookkeeping
  <1>b. \A n \in Name : \A b : Lasting(n, b)' <=> Lasting(n, b)
    BY DEF StartExecute, StartPublish, Lasting, Shown
  <1>c. \A b : /\ Lasting(s, b)' <=> Lasting(s, b)
               /\ Lasting(Public, b)' <=> Lasting(Public, b)
    BY <1>b DEF Name
  <1> USE <1>a, <1>c
      DEF Inv, TypeOK, StoreTypeOK, ProcessTypeOK, ResultTypeOK,
          DescriptorsOK, Building, Name, Goto, CallOK, Raised, Unlinked,
          Linked, Own, Behind, Pending, Persisted, Vouched
  <1>1. CASE \E c \in Calls : StartExecute(s, c)
    <2>1. /\ pc'[s] = "capabilities" /\ pc[s] = "idle" /\ evidence[s] = None
          /\ UNCHANGED <<dir, disk, file, dest, want, fd, binding, exam,
                         evidence, complete, losses, faults>>
      BY <1>1 DEF StartExecute
    <2>2. ~complete[s]
      BY <2>1, StoreAssumption DEF Bookkeeping, ControllerOK
    <2>3. QED
      BY <2>1, <2>2
  <1>2. CASE StartPublish(s)
    BY <1>2 DEF StartPublish
  <1>3. QED
    BY <1>1, <1>2

\* A power loss takes away only what is not persisted.
LEMMA PowerLossKeepsPersistence ==
    ASSUME TypeOK, PowerLoss, Persistence, foreign = MaxForeign,
           \A s, t \in Session : s = t
    PROVE  OnDisk' /\ \A s \in Session : /\ Own(s)' /\ Behind(s)'
                                         /\ Persisted(s)' /\ Vouched(s)'
  <1> USE DEF TypeOK, StoreTypeOK
  <1>1. OnDisk /\ \A s \in Session : Vouched(s)
    BY DEF Persistence
  <1>2. /\ disk' = dir' /\ dir' \in [Name -> Inode \cup {None}]
        /\ \A n \in Name : dir'[n] \in {dir[n], disk[n]}
    BY DEF PowerLoss
  <1>3. \A n \in Name : \A i \in {dir[n], disk[n]} \ {None} : file'[i] = file[i]
    BY <1>1 DEF PowerLoss, OnDisk, Survivor
  <1>4. OnDisk'
    BY <1>1, <1>2, <1>3 DEF OnDisk
  <1>5. SUFFICES ASSUME NEW s \in Session
                 PROVE  Own(s)' /\ Behind(s)' /\ Persisted(s)' /\ Vouched(s)'
    BY <1>4
  <1>6. /\ pc'[s] = "idle" /\ binding'[s] = "none" /\ exam'[s] = "public"
        /\ evidence' = evidence /\ complete' = complete
    BY DEF PowerLoss
  <1>7. Own(s)' /\ Behind(s)' /\ Persisted(s)'
    BY <1>2, <1>6, StoreAssumption
    DEF Own, Behind, Pending, Persisted, Unlinked, Linked, Name
  <1>8. ASSUME NEW n \in Name, NEW b, Lasting(n, b)
        PROVE  Lasting(n, b)'
    <2>1. dir'[n] = dir[n] /\ disk'[n] = dir'[n]
      BY <1>2, <1>8 DEF Lasting
    <2>2. Shown(n)' = Shown(n)
      BY <1>3, <2>1 DEF Shown
    <2>3. QED
      BY <1>8, <2>1, <2>2 DEF Lasting
  <1>9. losses' # MaxLosses
    BY DEF PowerLoss, ResultTypeOK
  <1>10. \A b : /\ Lasting(s, b) => Lasting(s, b)'
                /\ Lasting(Public, b) => Lasting(Public, b)'
    BY <1>8 DEF Name
  <1>11. Vouched(s)'
    BY <1>1, <1>6, <1>9, <1>10 DEF Vouched
  <1>12. QED
    BY <1>7, <1>11

\* Every step keeps what evidence relies on persisted.
LEMMA NextKeepsPersistence ==
    ASSUME Solitary, Inv, Inv', Examinations, Persistence, [Next]_vars
    PROVE  Persistence'
  <1>1. foreign \in 0 .. MaxForeign /\ MaxForeign \in Nat
    BY PublicationAssumption DEF Inv, TypeOK, ResultTypeOK
  <1>2. CASE ForeignCreate \/ ForeignRemove
    BY <1>1, <1>2 DEF ForeignCreate, ForeignRemove, Solitary, Persistence
  <1>3. CASE ~(ForeignCreate \/ ForeignRemove) /\ foreign # MaxForeign
    <2>1. "remove" \in ForeignMay
      BY <1>3 DEF Persistence
    <2>2. foreign' = foreign
      BY <1>3, RunningIsDomestic
      DEF Next, StartExecute, StartPublish, Kill, PowerLoss, Settled, vars
    <2>3. QED
      BY <1>3, <2>1, <2>2 DEF Persistence
  <1>4. CASE ~(ForeignCreate \/ ForeignRemove) /\ foreign = MaxForeign
    <2>1. OnDisk /\ \A s \in Session : /\ Own(s) /\ Behind(s)
                                       /\ Persisted(s) /\ Vouched(s)
      BY <1>4 DEF Persistence
    <2>2. "remove" \in ForeignMay \/ foreign' = MaxForeign
      BY <1>4, RunningIsDomestic
      DEF Next, StartExecute, StartPublish, Kill, PowerLoss, Settled, vars
    <2>3. ASSUME NEW s \in Session, OnDisk', Own(s)', Behind(s)', Persisted(s)',
                 Vouched(s)'
          PROVE  Persistence'
      <3>1. \A t \in Session : t = s
        BY DEF Solitary
      <3>2. QED
        BY <2>2, <2>3, <3>1 DEF Persistence
    <2>4. ASSUME NEW s \in Session, Running(s)
          PROVE  Persistence'
      <3>1. Own(s) /\ Behind(s) /\ Persisted(s) /\ Vouched(s) /\ Examined(s)
        BY <2>1 DEF Examinations
      <3>2. Own(s)'
        BY <2>4, <3>1, RunningIsCourteous DEF Inv
      <3>3. OnDisk' /\ Behind(s)' /\ Persisted(s)' /\ Vouched(s)'
        BY <2>1, <2>4, <3>1, RunningKeepsOnDisk, RunningKeepsBehind,
           RunningKeepsPersisted, RunningKeepsVouched DEF Solitary
      <3>4. QED
        BY <2>3, <3>2, <3>3
    <2>5. ASSUME NEW s \in Session,
                 (\E c \in Calls : StartExecute(s, c)) \/ StartPublish(s)
          PROVE  Persistence'
      <3>1. Own(s)' /\ Behind(s)' /\ Persisted(s)' /\ Vouched(s)'
        BY <2>1, <2>5, StartKeepsPersisted
      <3>2. OnDisk'
        BY <2>1, <2>5 DEF StartExecute, StartPublish, OnDisk
      <3>3. QED
        BY <2>3, <3>1, <3>2
    <2>6. ~ \E s \in Session : Kill(s)
      BY DEF Kill, Solitary, Inv, TypeOK, ResultTypeOK
    <2>7. CASE PowerLoss
      BY <1>4, <2>2, <2>7, PowerLossKeepsPersistence
      DEF Inv, Solitary, Persistence
    <2>8. CASE UNCHANGED vars
      BY <1>4, <2>1, <2>8
      DEF vars, Persistence, OnDisk, Own, Behind, Pending, Persisted, Vouched,
          Lasting, Shown
    <2>9. QED
      BY <1>4, <2>4, <2>5, <2>6, <2>7, <2>8 DEF Next, Settled
  <1>5. QED
    BY <1>2, <1>3, <1>4

LEMMA PersistenceIsInvariant ==
    ASSUME Solitary
    PROVE  Spec => [](Inv /\ Persistence)
  <1>1. Init => Examinations /\ Persistence
    <2>1. SUFFICES ASSUME Init
                   PROVE  Persistence
      BY InitRInv
    <2>2. OnDisk
      BY <2>1 DEF Init, StoreInit, OnDisk
    <2>3. \A s \in Session : Own(s) /\ Behind(s) /\ Persisted(s) /\ Vouched(s)
      BY <2>1, StoreAssumption
      DEF Init, StoreInit, Own, Behind, Pending, Persisted, Vouched, Unlinked,
          Linked, Name
    <2>4. QED
      BY <2>1, <2>2, <2>3 DEF Init, Persistence
  <1>2. Inv /\ Inv' /\ Examinations /\ Persistence /\ [Next]_vars =>
            Examinations' /\ Persistence'
    BY NextKeepsExamined, NextKeepsPersistence
  <1>3. QED
    BY InvIsInvariant, <1>1, <1>2, PTL DEF Spec


\* While power lasts, a session that has reported its publication retains
\* nothing.
Cleared(s) ==
    /\ complete[s] /\ losses = MaxLosses => dir[s] = None
    /\ pc[s] = "sync_private" => dir[s] = None
    /\ pc[s] = "persist" /\ err[s] = None /\ call[s] = "execute" =>
            dir[s] = None

Clearance == \A s \in Session : Cleared(s)

LEMMA RunningKeepsCleared ==
    ASSUME Inv, NEW s \in Session, Running(s), Cleared(s)
    PROVE  Cleared(s)'
  <1>a. ControllerOK(s) /\ CallOK(s) /\ s # Public
    BY StoreAssumption DEF Inv, Bookkeeping
  <1>b. complete[s] => call[s] \notin {"execute", "execute_sealed"}
    BY <1>a, StoreAssumption DEF ControllerOK
  <1>c. losses' = losses
    BY RunningIsDomestic
  <1> USE <1>a, <1>b, <1>c
      DEF Inv, TypeOK, StoreTypeOK, ProcessTypeOK, ResultTypeOK, Building,
          Name, Goto, Fails, Raise, Attempt, Escape, Forget, Leave, Published,
          Doubt, Sealing, ControllerOK, CallOK, Raised, Cleared
  <1>1. CASE Capabilities(s)
    BY <1>1 DEF Capabilities
  <1>2. CASE Prepare(s)
    BY <1>2 DEF Prepare, ResetSession, Unlink
  <1>3. CASE Invoke(s)
    BY <1>3, PublicationAssumption DEF Invoke, Failure
  <1>4. CASE Inspect(s)
    BY <1>4 DEF Inspect
  <1>5. CASE MkTemp(s)
    BY <1>5 DEF MkTemp
  <1>6. CASE Write(s)
    BY <1>6 DEF Write
  <1>7. CASE Seal(s)
    BY <1>7 DEF Seal
  <1>8. CASE Reinspect(s)
    BY <1>8 DEF Reinspect
  <1>9. CASE Digest(s)
    BY <1>9 DEF Digest
  <1>10. CASE Link(s)
    BY <1>10 DEF Link, Bind
  <1>11. CASE Confirm(s)
    BY <1>11 DEF Confirm
  <1>12. CASE SyncLink(s)
    BY <1>12 DEF SyncLink
  <1>13. CASE Untemp(s)
    BY <1>13 DEF Untemp
  <1>14. CASE SyncUntemp(s)
    BY <1>14 DEF SyncUntemp
  <1>15. CASE Withdraw(s)
    BY <1>15 DEF Withdraw, Withdrawal, Unlink
  <1>16. CASE Open(s)
    BY <1>16 DEF Open
  <1>17. CASE Hash(s)
    BY <1>17 DEF Hash
  <1>18. CASE Restat(s)
    BY <1>18 DEF Restat, AfterExam
  <1>19. CASE Redundant(s)
    BY <1>19 DEF Redundant
  <1>20. CASE SyncRedundant(s)
    BY <1>20 DEF SyncRedundant
  <1>21. CASE Image(s)
    BY <1>21 DEF Image
  <1>22. CASE VerifyFstat(s)
    BY <1>22 DEF VerifyFstat
  <1>23. CASE VerifyLstat(s)
    BY <1>23 DEF VerifyLstat, Retain, PublishesNext
  <1>24. CASE Rollback(s)
    BY <1>24 DEF Rollback
  <1>25. CASE Undo(s)
    BY <1>25 DEF Undo, Unlink
  <1>26. CASE Unwind(s)
    BY <1>26 DEF Unwind, Owned
  <1>27. CASE Drop(s)
    BY <1>27 DEF Drop, Unlink
  <1>28. CASE RmPrivate(s)
    BY <1>28 DEF RmPrivate, Unlink
  <1>29. CASE SyncPrivate(s)
    BY <1>29 DEF SyncPrivate
  <1>30. CASE Persist(s)
    BY <1>30 DEF Persist
  <1>31. QED
    BY <1>1, <1>2, <1>3, <1>4, <1>5, <1>6, <1>7, <1>8, <1>9, <1>10, <1>11,
       <1>12, <1>13, <1>14, <1>15, <1>16, <1>17, <1>18, <1>19, <1>20, <1>21,
       <1>22, <1>23, <1>24, <1>25, <1>26, <1>27, <1>28, <1>29, <1>30
    DEF Running

LEMMA NextKeepsClearance ==
    ASSUME Inv, Clearance, [Next]_vars
    PROVE  Clearance'
  <1> USE StoreAssumption DEF Clearance
  <1>1. ASSUME NEW t \in Session, Frame(t), Cleared(t)', losses' = losses
        PROVE  Clearance'
    <2>1. SUFFICES ASSUME NEW s \in Session, s # t
                   PROVE  Cleared(s)'
      BY <1>1
    <2>2. dest[t] \in {t, Public}
      BY DEF Inv, TypeOK, ProcessTypeOK
    <2>3. dir'[s] = dir[s]
      BY <1>1, <2>1, <2>2 DEF Frame, NameFrame, Removes, Name
    <2>4. QED
      BY <1>1, <2>1, <2>3 DEF Frame, ProcessFrame, Cleared
  <1>2. ASSUME NEW s \in Session, Running(s)
        PROVE  Clearance'
    BY <1>1, <1>2, RunningFrame, RunningKeepsCleared, RunningIsDomestic
    DEF Inv
  <1>3. ASSUME NEW s \in Session,
               (\E c \in Calls : StartExecute(s, c)) \/ StartPublish(s) \/ Kill(s)
        PROVE  Clearance'
    <2>1. Cleared(s)' /\ losses' = losses
      BY <1>3
      DEF StartExecute, StartPublish, Kill, Goto, Escape, Forget, Cleared,
          Inv, TypeOK, ProcessTypeOK
    <2>2. QED
      BY <1>1, <1>3, <2>1, OutsideFrame DEF Inv
  <1>4. CASE PowerLoss
    BY <1>4 DEF PowerLoss, Cleared, Inv, TypeOK, ResultTypeOK
  <1>5. CASE ForeignCreate \/ ForeignRemove
    <2>1. \A s \in Session : dir'[s] = dir[s]
      BY <1>5
      DEF ForeignCreate, ForeignRemove, Bind, Unlink, Inv, TypeOK,
          StoreTypeOK, Name
    <2>2. QED
      BY <1>5, <2>1 DEF ForeignCreate, ForeignRemove, Cleared
  <1>6. CASE UNCHANGED vars
    BY <1>6 DEF vars, Cleared
  <1>7. QED
    BY <1>2, <1>3, <1>4, <1>5, <1>6 DEF Next, Settled

LEMMA ClearedIsInvariant == Spec => []Clearance
  <1>1. Init => Clearance
    BY DEF Init, Clearance, Cleared
  <1>2. QED
    BY InvIsInvariant, NextKeepsClearance, <1>1, PTL DEF Spec

\* A name that shows the bytes of evidence holds them exactly; if none does
\* then another program has intervened.
LEMMA PersistedIsExact ==
    ASSUME Inv, Persistence, NEW s \in Session
    PROVE  /\ evidence[s] \in Content =>
                Exact(Public, evidence[s]) \/ Exact(s, evidence[s]) \/ Robbed
           /\ complete[s] => Exact(Public, evidence[s]) \/ Robbed
  <1>1. complete[s] => evidence[s] \in Content
    BY DEF Inv, Bookkeeping, ControllerOK
  <1>2. \A n \in Name : evidence[s] \in Content /\ Lasting(n, evidence[s]) =>
            Exact(n, evidence[s])
    BY ShownIsExact DEF Lasting
  <1>3. foreign # MaxForeign => Robbed
    BY PublicationAssumption DEF Persistence, Robbed, Inv, TypeOK, ResultTypeOK
  <1>4. foreign = MaxForeign => Vouched(s)
    BY DEF Persistence
  <1>5. QED
    BY <1>1, <1>2, <1>3, <1>4 DEF Vouched, Name

(***************************************************************************)
(* Evidence survives power losses: for one session whose process only they *)
(* interrupt, any number of them at any system calls, at most one failing  *)
(* system call, and any contents, the bytes that durable evidence names    *)
(* can still be published.  An fsync of the parent precedes every step     *)
(* that relies on a name, and the removal of every other copy.             *)
(***************************************************************************)
THEOREM EvidenceSurvivesPowerLoss ==
    ASSUME Solitary
    PROVE  Spec => []EvidenceIsPublishable
  <1>1. Inv /\ Persistence => EvidenceIsPublishable
    BY PersistedIsExact DEF EvidenceIsPublishable
  <1>2. QED
    BY PersistenceIsInvariant, <1>1, PTL

(***************************************************************************)
(* In the same environments, a publication that was reported by            *)
(* publish_sealed_artifact or execute outlasts every later power loss.     *)
(***************************************************************************)
THEOREM ReportSurvivesPowerLoss ==
    ASSUME Solitary
    PROVE  Spec => []CompletionIsExact
  <1>1. Inv /\ Persistence /\ Clearance => CompletionIsExact
    BY PersistedIsExact DEF CompletionIsExact, Clearance, Cleared
  <1>2. QED
    BY PersistenceIsInvariant, ClearedIsInvariant, <1>1, PTL
=============================================================================
