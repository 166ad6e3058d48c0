----------------------- MODULE SealedPublicationProofs -----------------------
(***************************************************************************)
(* Proofs about SealedPublication for every number of sessions, inodes and *)
(* contents and every bound on faults, kills, power losses and foreign     *)
(* interventions.                                                          *)
(***************************************************************************)
EXTENDS SealedPublication, TLAPS

USE DEF callVars, examVars, procVars, resultVars, crashVars, storeVars

\* What stat returns of a file is a stamp.
LEMMA StampIsStamp ==
    ASSUME NEW i \in Inode
    PROVE  Stamp(i) \in StampType /\ Stamp(i).ino = i
  BY DEF Stamp, StampType, Name

\* Sealing a file, losing power and creating a file yield files.
LEMMA FileTypes ==
    /\ \A f \in File : Sealed(f) \in File /\ Survivor(f) \in File
    /\ \A f \in File, b \in Content \cup {Partial} : Filled(f, b) \in File
    /\ \A s \in Session : Created(s) \in File
    /\ \A b \in Content \cup {Partial}, m \in BOOLEAN : Dropped(b, m) \in File
  BY DEF File, Filled, Sealed, Survivor, Created, Dropped

\* New files get an inode that nothing refers to.
LEMMA AllocIsFree == Alloc(Free) \subseteq Free /\ Free \subseteq Inode
  <1>1. Free \subseteq Inode
    BY DEF Free
  <1>2. QED
    BY <1>1, StoreAssumption

LEMMA InitTypeOK == Init => TypeOK
  BY StoreAssumption, PublicationAssumption
  DEF Init, StoreInit, TypeOK, StoreTypeOK, ProcessTypeOK, ResultTypeOK,
      DescriptorsOK, File, Label, Name, NoStamp, Holding, Examining,
      Building

\* Leaving a temporary behind keeps the store well-formed.
LEMMA AbandonType ==
    ASSUME TypeOK, NEW s \in Session, tmp[s] # None, Abandon(s)
    PROVE  /\ tmp' \in [Session -> Inode \cup {None}]
           /\ litter' \in [Name -> SUBSET Inode]
  <1>1. tmp[s] \in Inode /\ dest[s] \in Name
    BY DEF TypeOK, StoreTypeOK, ProcessTypeOK
  <1>2. litter[dest[s]] \cup {tmp[s]} \in SUBSET Inode
    BY <1>1 DEF TypeOK, StoreTypeOK, ProcessTypeOK
  <1>3. litter' \in [Name -> SUBSET Inode]
    BY <1>1, <1>2 DEF TypeOK, StoreTypeOK, Abandon
  <1>4. QED
    BY <1>3 DEF TypeOK, StoreTypeOK, Abandon, UnlinkTemp


\* A call that ends, by return or by exception, leaves a typed process.
LEMMA EscapeType ==
    ASSUME TypeOK, NEW s \in Session, Escape(s)
    PROVE  ProcessTypeOK' /\ DescriptorsOK'
  BY StoreAssumption
  DEF TypeOK, ProcessTypeOK, DescriptorsOK, Escape, Forget, Goto, Label,
      Holding, Examining, Building, Name

\* Steps of a running process keep the variables in their types.
LEMMA RunningTypeOK ==
    ASSUME TypeOK, TemporaryIsPrivate, NEW s \in Session, Running(s)
    PROVE  TypeOK'
  <1> USE StoreAssumption, PublicationAssumption
      DEF TypeOK, Goto, Fault, Fails, Raise, Attempt,
          Published, Doubt, Sealing, Label, Holding, Examining, Building,
          Failure, SealingFailure, Name
  <1>1. CASE Capabilities(s)
    <2>1. StoreTypeOK'
      BY <1>1 DEF StoreTypeOK, Capabilities
    <2>2. ProcessTypeOK' /\ DescriptorsOK'
      BY <1>1, EscapeType DEF ProcessTypeOK, DescriptorsOK, Capabilities
    <2>3. ResultTypeOK'
      BY <1>1 DEF ResultTypeOK, Capabilities
    <2>4. QED
      BY <2>1, <2>2, <2>3
  <1>2. CASE Prepare(s)
    <2>1. StoreTypeOK'
      BY <1>2 DEF StoreTypeOK, Prepare, ResetSession, Unlink, ProcessTypeOK, DescriptorsOK
    <2>2. ProcessTypeOK' /\ DescriptorsOK'
      BY <1>2, EscapeType DEF ProcessTypeOK, DescriptorsOK, Prepare
    <2>3. ResultTypeOK'
      BY <1>2 DEF ResultTypeOK, Prepare
    <2>4. QED
      BY <2>1, <2>2, <2>3
  <1>3. CASE Invoke(s)
    <2>1. StoreTypeOK'
      BY <1>3 DEF StoreTypeOK, Invoke
    <2>2. ProcessTypeOK' /\ DescriptorsOK'
      BY <1>3, EscapeType DEF ProcessTypeOK, DescriptorsOK, Invoke
    <2>3. ResultTypeOK'
      BY <1>3 DEF ResultTypeOK, Invoke
    <2>4. QED
      BY <2>1, <2>2, <2>3
  <1>4. CASE Inspect(s)
    <2>1. StoreTypeOK'
      BY <1>4 DEF StoreTypeOK, ProcessTypeOK, DescriptorsOK, Inspect
    <2>2. ProcessTypeOK' /\ DescriptorsOK'
      BY <1>4 DEF ProcessTypeOK, DescriptorsOK, Inspect
    <2>3. ResultTypeOK'
      BY <1>4 DEF ResultTypeOK, Inspect
    <2>4. QED
      BY <2>1, <2>2, <2>3
  <1>5. CASE MkTemp(s)
    <2>1. StoreTypeOK'
      <3>1. ASSUME NEW i \in Alloc(Free),
                   file' = [file EXCEPT ![i] = Created(s)],
                   tmp' = [tmp EXCEPT ![s] = i]
            PROVE  file' \in [Inode -> File] /\ tmp' \in [Session -> Inode \cup {None}]
        BY <3>1, AllocIsFree, FileTypes DEF StoreTypeOK
      <3>2. QED
        BY <1>5, <3>1 DEF StoreTypeOK, MkTemp
    <2>2. ProcessTypeOK' /\ DescriptorsOK'
      BY <1>5, AllocIsFree DEF ProcessTypeOK, DescriptorsOK, MkTemp
    <2>3. ResultTypeOK'
      BY <1>5 DEF ResultTypeOK, MkTemp
    <2>4. QED
      BY <2>1, <2>2, <2>3
  <1>6. CASE Write(s)
    <2>1. StoreTypeOK'
      <3>1. fd[s] \in Inode /\ Product(s) \subseteq Content \cup {Partial}
        BY <1>6 DEF StoreTypeOK, DescriptorsOK, Write, Product, File
      <3>2. QED
        BY <1>6, <3>1, FileTypes DEF StoreTypeOK, Write
    <2>2. ProcessTypeOK' /\ DescriptorsOK'
      BY <1>6 DEF ProcessTypeOK, DescriptorsOK, Write, WriteError
    <2>3. ResultTypeOK'
      BY <1>6 DEF ResultTypeOK, Write
    <2>4. QED
      BY <2>1, <2>2, <2>3
  <1>7. CASE Seal(s)
    <2>1. StoreTypeOK'
      BY <1>7, FileTypes DEF StoreTypeOK, Seal, ProcessTypeOK, DescriptorsOK
    <2>2. ProcessTypeOK' /\ DescriptorsOK'
      BY <1>7 DEF ProcessTypeOK, DescriptorsOK, Seal, WriteError
    <2>3. ResultTypeOK'
      BY <1>7 DEF ResultTypeOK, Seal
    <2>4. QED
      BY <2>1, <2>2, <2>3
  <1>8. CASE Reinspect(s)
    <2>1. StoreTypeOK'
      BY <1>8 DEF StoreTypeOK, ProcessTypeOK, DescriptorsOK, Reinspect
    <2>2. ProcessTypeOK' /\ DescriptorsOK'
      BY <1>8 DEF ProcessTypeOK, DescriptorsOK, Reinspect
    <2>3. ResultTypeOK'
      BY <1>8 DEF ResultTypeOK, Reinspect
    <2>4. QED
      BY <2>1, <2>2, <2>3
  <1>9. CASE Digest(s)
    <2>1. StoreTypeOK'
      BY <1>9 DEF StoreTypeOK, Digest, ProcessTypeOK, DescriptorsOK
    <2>2. ProcessTypeOK' /\ DescriptorsOK'
      <3>1. Sealing(s) => file[fd[s]].bytes \in Content
        BY <1>9 DEF TemporaryIsPrivate, Unlinked, Digest
      <3>2. QED
        BY <1>9, <3>1 DEF ProcessTypeOK, DescriptorsOK, Digest
    <2>3. ResultTypeOK'
      BY <1>9 DEF ResultTypeOK, Digest
    <2>4. QED
      BY <2>1, <2>2, <2>3
  <1>10. CASE Link(s)
    <2>1. StoreTypeOK'
      BY <1>10 DEF StoreTypeOK, ProcessTypeOK, DescriptorsOK, Link, Bind
    <2>2. ProcessTypeOK' /\ DescriptorsOK'
      BY <1>10 DEF ProcessTypeOK, DescriptorsOK, Link
    <2>3. ResultTypeOK'
      BY <1>10 DEF ResultTypeOK, Link
    <2>4. QED
      BY <2>1, <2>2, <2>3
  <1>11. CASE Confirm(s)
    <2>1. StoreTypeOK'
      BY <1>11 DEF StoreTypeOK, ProcessTypeOK, DescriptorsOK, Confirm
    <2>2. ProcessTypeOK' /\ DescriptorsOK'
      BY <1>11 DEF ProcessTypeOK, DescriptorsOK, Confirm
    <2>3. ResultTypeOK'
      BY <1>11 DEF ResultTypeOK, Confirm
    <2>4. QED
      BY <2>1, <2>2, <2>3
  <1>12. CASE SyncLink(s)
    <2>1. StoreTypeOK'
      BY <1>12 DEF StoreTypeOK, SyncLink, SyncParent, ProcessTypeOK, DescriptorsOK
    <2>2. ProcessTypeOK' /\ DescriptorsOK'
      BY <1>12 DEF ProcessTypeOK, DescriptorsOK, SyncLink
    <2>3. ResultTypeOK'
      BY <1>12 DEF ResultTypeOK, SyncLink
    <2>4. QED
      BY <2>1, <2>2, <2>3
  <1>13. CASE Untemp(s)
    <2>1. StoreTypeOK'
      BY <1>13 DEF StoreTypeOK, ProcessTypeOK, DescriptorsOK, Untemp, UnlinkTemp
    <2>2. ProcessTypeOK' /\ DescriptorsOK'
      BY <1>13 DEF ProcessTypeOK, DescriptorsOK, Untemp
    <2>3. ResultTypeOK'
      BY <1>13 DEF ResultTypeOK, Untemp
    <2>4. QED
      BY <2>1, <2>2, <2>3
  <1>14. CASE SyncUntemp(s)
    <2>1. StoreTypeOK'
      BY <1>14 DEF StoreTypeOK, SyncUntemp, SyncParent, ProcessTypeOK, DescriptorsOK
    <2>2. ProcessTypeOK' /\ DescriptorsOK'
      BY <1>14 DEF ProcessTypeOK, DescriptorsOK, SyncUntemp
    <2>3. ResultTypeOK'
      BY <1>14 DEF ResultTypeOK, SyncUntemp
    <2>4. QED
      BY <2>1, <2>2, <2>3
  <1>15. CASE Withdraw(s)
    <2>1. StoreTypeOK'
      BY <1>15 DEF StoreTypeOK, ProcessTypeOK, DescriptorsOK, Withdraw, SyncParent, Withdrawal, Unlink
    <2>2. ProcessTypeOK' /\ DescriptorsOK'
      BY <1>15 DEF ProcessTypeOK, DescriptorsOK, Withdraw
    <2>3. ResultTypeOK'
      BY <1>15 DEF ResultTypeOK, Withdraw
    <2>4. QED
      BY <2>1, <2>2, <2>3
  <1>16. CASE Open(s)
    <2>1. StoreTypeOK'
      BY <1>16 DEF StoreTypeOK, ProcessTypeOK, Open
    <2>2. ProcessTypeOK' /\ DescriptorsOK'
      <3>1. ExamName(s) \in Name
        BY DEF ProcessTypeOK, ExamName
      <3>2. ~Absent(ExamName(s)) =>
                /\ Stamp(dir[ExamName(s)]) \in StampType
                /\ Stamp(dir[ExamName(s)]).ino \in Inode
        BY <3>1, StampIsStamp DEF StoreTypeOK, Absent
      <3>3. QED
        BY <1>16, <3>2 DEF ProcessTypeOK, DescriptorsOK, Open, AbsentIsEmpty
    <2>3. ResultTypeOK'
      BY <1>16 DEF ResultTypeOK, Open
    <2>4. QED
      BY <2>1, <2>2, <2>3
  <1>17. CASE Hash(s)
    <2>1. StoreTypeOK'
      BY <1>17 DEF StoreTypeOK, ProcessTypeOK, DescriptorsOK, Hash
    <2>2. ProcessTypeOK' /\ DescriptorsOK'
      BY <1>17 DEF ProcessTypeOK, DescriptorsOK, Hash
    <2>3. ResultTypeOK'
      BY <1>17 DEF ResultTypeOK, Hash
    <2>4. QED
      BY <2>1, <2>2, <2>3
  <1>18. CASE Restat(s)
    <2>1. StoreTypeOK'
      BY <1>18 DEF StoreTypeOK, Restat, ProcessTypeOK, DescriptorsOK
    <2>2. ProcessTypeOK' /\ DescriptorsOK'
      BY <1>18 DEF ProcessTypeOK, DescriptorsOK, Restat, AfterExam
    <2>3. ResultTypeOK'
      BY <1>18 DEF ResultTypeOK, Restat
    <2>4. QED
      BY <2>1, <2>2, <2>3
  <1>19. CASE Redundant(s)
    <2>1. StoreTypeOK'
      BY <1>19 DEF StoreTypeOK, Redundant, UnlinkTemp, ProcessTypeOK, DescriptorsOK
    <2>2. ProcessTypeOK' /\ DescriptorsOK'
      BY <1>19 DEF ProcessTypeOK, DescriptorsOK, Redundant
    <2>3. ResultTypeOK'
      BY <1>19 DEF ResultTypeOK, Redundant
    <2>4. QED
      BY <2>1, <2>2, <2>3
  <1>20. CASE SyncRedundant(s)
    <2>1. StoreTypeOK'
      BY <1>20 DEF StoreTypeOK, SyncRedundant, SyncParent, ProcessTypeOK, DescriptorsOK
    <2>2. ProcessTypeOK' /\ DescriptorsOK'
      BY <1>20 DEF ProcessTypeOK, DescriptorsOK, SyncRedundant, AdoptedBinding
    <2>3. ResultTypeOK'
      BY <1>20 DEF ResultTypeOK, SyncRedundant
    <2>4. QED
      BY <2>1, <2>2, <2>3
  <1>21. CASE Image(s)
    BY <1>21
    DEF StoreTypeOK, ProcessTypeOK, ResultTypeOK, DescriptorsOK, Image
  <1>22. CASE VerifyFstat(s)
    <2>1. StoreTypeOK'
      BY <1>22 DEF StoreTypeOK, ProcessTypeOK, DescriptorsOK, VerifyFstat
    <2>2. ProcessTypeOK' /\ DescriptorsOK'
      BY <1>22, StampIsStamp DEF ProcessTypeOK, DescriptorsOK, VerifyFstat
    <2>3. ResultTypeOK'
      BY <1>22 DEF ResultTypeOK, VerifyFstat
    <2>4. QED
      BY <2>1, <2>2, <2>3
  <1>23. CASE VerifyLstat(s)
    <2>1. StoreTypeOK'
      BY <1>23 DEF StoreTypeOK, VerifyLstat, ProcessTypeOK, DescriptorsOK
    <2>2. ProcessTypeOK' /\ DescriptorsOK'
      BY <1>23 DEF ProcessTypeOK, DescriptorsOK, VerifyLstat, Retain, RetainedBinding, PublishesNext
    <2>3. ResultTypeOK'
      BY <1>23 DEF ResultTypeOK, VerifyLstat
    <2>4. QED
      BY <2>1, <2>2, <2>3
  <1>24. CASE Rollback(s)
    BY <1>24
    DEF StoreTypeOK, ProcessTypeOK, ResultTypeOK, DescriptorsOK, Rollback
  <1>25. CASE Undo(s)
    <2>1. StoreTypeOK'
      BY <1>25 DEF StoreTypeOK, ProcessTypeOK, Undo, SyncParent, Unlink
    <2>2. ProcessTypeOK' /\ DescriptorsOK'
      BY <1>25 DEF ProcessTypeOK, DescriptorsOK, Undo
    <2>3. ResultTypeOK'
      BY <1>25 DEF ResultTypeOK, Undo
    <2>4. QED
      BY <2>1, <2>2, <2>3
  <1>26. CASE Unwind(s)
    <2>1. StoreTypeOK'
      BY <1>26, AbandonType DEF StoreTypeOK, Unwind, DropTemp, UnlinkTemp, ProcessTypeOK, DescriptorsOK
    <2>2. ProcessTypeOK' /\ DescriptorsOK'
      BY <1>26, EscapeType DEF ProcessTypeOK, DescriptorsOK, Unwind, Leave
    <2>3. ResultTypeOK'
      BY <1>26 DEF ResultTypeOK, Unwind, Leave
    <2>4. QED
      BY <2>1, <2>2, <2>3
  <1>27. CASE Drop(s)
    <2>1. StoreTypeOK'
      BY <1>27 DEF StoreTypeOK, Drop, Unlink, ProcessTypeOK, DescriptorsOK
    <2>2. ProcessTypeOK' /\ DescriptorsOK'
      BY <1>27, EscapeType DEF ProcessTypeOK, DescriptorsOK, Drop, Leave
    <2>3. ResultTypeOK'
      BY <1>27 DEF ResultTypeOK, Drop, Leave
    <2>4. QED
      BY <2>1, <2>2, <2>3
  <1>28. CASE RmPrivate(s)
    <2>1. StoreTypeOK'
      BY <1>28 DEF StoreTypeOK, RmPrivate, Unlink, ProcessTypeOK, DescriptorsOK
    <2>2. ProcessTypeOK' /\ DescriptorsOK'
      BY <1>28, EscapeType DEF ProcessTypeOK, DescriptorsOK, RmPrivate
    <2>3. ResultTypeOK'
      <3>1. complete' \in [Session -> BOOLEAN]
        <4>1. \/ complete' = complete
              \/ complete' = [complete EXCEPT ![s] = TRUE]
          BY <1>28 DEF RmPrivate
        <4>2. QED
          BY <4>1 DEF ResultTypeOK
      <3>2. QED
        BY <1>28, <3>1 DEF ResultTypeOK, RmPrivate
    <2>4. QED
      BY <2>1, <2>2, <2>3
  <1>29. CASE SyncPrivate(s)
    <2>1. StoreTypeOK'
      BY <1>29 DEF StoreTypeOK, SyncPrivate, SyncParent, ProcessTypeOK, DescriptorsOK
    <2>2. ProcessTypeOK' /\ DescriptorsOK'
      BY <1>29, EscapeType DEF ProcessTypeOK, DescriptorsOK, SyncPrivate
    <2>3. ResultTypeOK'
      <3>1. complete' \in [Session -> BOOLEAN]
        <4>1. \/ complete' = complete
              \/ complete' = [complete EXCEPT ![s] = TRUE]
          BY <1>29 DEF SyncPrivate, Published
        <4>2. QED
          BY <4>1 DEF ResultTypeOK
      <3>2. QED
        BY <1>29, <3>1 DEF ResultTypeOK, SyncPrivate
    <2>4. QED
      BY <2>1, <2>2, <2>3
  <1>30. CASE Persist(s)
    <2>1. StoreTypeOK'
      BY <1>30 DEF StoreTypeOK, Persist, ProcessTypeOK, DescriptorsOK
    <2>2. ProcessTypeOK' /\ DescriptorsOK'
      BY <1>30, EscapeType DEF ProcessTypeOK, DescriptorsOK, Persist
    <2>3. ResultTypeOK'
      BY <1>30 DEF ResultTypeOK, Persist, ProcessTypeOK
    <2>4. QED
      BY <2>1, <2>2, <2>3
  <1>31. QED
    BY <1>1, <1>2, <1>3, <1>4, <1>5, <1>6, <1>7, <1>8, <1>9, <1>10, <1>11, <1>12, <1>13, <1>14, <1>15, <1>16, <1>17, <1>18, <1>19, <1>20, <1>21, <1>22, <1>23, <1>24, <1>25, <1>26, <1>27, <1>28, <1>29, <1>30 DEF Running

\* Every step keeps the variables in their types.
LEMMA NextTypeOK ==
    ASSUME TypeOK, TemporaryIsPrivate, [Next]_vars
    PROVE  TypeOK'
  <1> USE StoreAssumption, PublicationAssumption
      DEF TypeOK, StoreTypeOK, ProcessTypeOK, ResultTypeOK, DescriptorsOK,
          Goto, Label, Holding, Examining, Building, Name
  <1>1. ASSUME NEW s \in Session, NEW c \in Calls, StartExecute(s, c)
        PROVE  TypeOK'
    BY <1>1 DEF StartExecute
  <1>2. ASSUME NEW s \in Session, StartPublish(s)
        PROVE  TypeOK'
    BY <1>2 DEF StartPublish
  <1>3. ASSUME NEW s \in Session, Kill(s)
        PROVE  TypeOK'
    <2>1. StoreTypeOK'
      BY <1>3, AbandonType DEF Kill
    <2>2. ProcessTypeOK' /\ DescriptorsOK'
      BY <1>3, EscapeType DEF Kill
    <2>3. ResultTypeOK'
      BY <1>3 DEF Kill
    <2>4. QED
      BY <2>1, <2>2, <2>3
  <1>4. CASE PowerLoss
    <2>1. dir' \in [Name -> Inode \cup {None}]
      BY <1>4 DEF PowerLoss
    <2>2. file' \in [Inode -> File]
      BY <1>4, FileTypes DEF PowerLoss
    <2>3. litter' \in [Name -> SUBSET Inode]
      BY <1>4 DEF PowerLoss
    <2>4. StoreTypeOK'
      BY <1>4, <2>1, <2>2, <2>3 DEF PowerLoss
    <2>5. ProcessTypeOK' /\ DescriptorsOK'
      BY <1>4 DEF PowerLoss
    <2>6. ResultTypeOK'
      BY <1>4 DEF PowerLoss
    <2>7. QED
      BY <2>4, <2>5, <2>6
  <1>5. CASE ForeignCreate
    <2>1. PICK i \in Alloc(Free), b \in Content \cup {Partial}, m \in BOOLEAN :
                /\ file' = [file EXCEPT ![i] = Dropped(b, m)]
                /\ Bind(Public, i)
      BY <1>5 DEF ForeignCreate
    <2>2. StoreTypeOK'
      BY <1>5, <2>1, AllocIsFree, FileTypes DEF ForeignCreate, Bind
    <2>3. QED
      BY <1>5, <2>2 DEF ForeignCreate
  <1>6. CASE ForeignRemove
    BY <1>6 DEF ForeignRemove, Unlink
  <1>7. CASE UNCHANGED vars
    BY <1>7 DEF vars
  <1>8. QED
    BY <1>1, <1>2, <1>3, <1>4, <1>5, <1>6, <1>7, RunningTypeOK
    DEF Next, Settled
-----------------------------------------------------------------------------
(***************************************************************************)
(* Most steps of a session are quiet: they write no file, only remove or   *)
(* persist names, end outside the labels of an unlinked temporary, and     *)
(* hold on only to files they already held or found under a name.          *)
(***************************************************************************)
Quiet(s) ==
    /\ file' = file
    /\ \A n \in Name : /\ dir'[n] \in {dir[n], None}
                       /\ disk'[n] \in {disk[n], dir[n], None}
    /\ \A t \in Session \ {s} : /\ pc'[t] = pc[t]
                                /\ fd'[t] = fd[t]
                                /\ seen'[t] = seen[t]
                                /\ dest'[t] = dest[t]
    /\ pc'[s] \notin Unlinked
    /\ fd'[s] \in {fd[s], seen[s].ino, None}
    /\ seen'[s].ino \in {seen[s].ino, fd[s], None} \cup {dir[n] : n \in Name}

Safe == NoTornPublication /\ TemporaryIsPrivate

\* Quiet steps keep published files whole and unlinked temporaries private.
LEMMA QuietIsSafe ==
    ASSUME TypeOK, Safe, NEW s \in Session, Quiet(s)
    PROVE  Safe'
  <1>1. NoTornPublication'
    BY DEF Safe, NoTornPublication, Quiet
  <1>2. ASSUME NEW t \in Session, pc'[t] \in Unlinked
        PROVE  /\ t # s /\ pc[t] \in Unlinked /\ fd[t] \in Inode
               /\ fd'[t] = fd[t] /\ pc'[t] = pc[t] /\ dest'[t] = dest[t]
    BY <1>2 DEF Quiet, TypeOK, DescriptorsOK, Holding, Unlinked
  <1>3. ASSUME NEW t \in Session, pc'[t] \in Unlinked, NEW n \in Name
        PROVE  fd'[t] \notin {dir'[n], disk'[n]}
    BY <1>2, <1>3, StoreAssumption DEF Safe, TemporaryIsPrivate, Quiet
  <1>4. ASSUME NEW t \in Session, pc'[t] \in Unlinked,
               NEW u \in Session \ {t}
        PROVE  fd'[t] \notin {fd'[u], seen'[u].ino}
    BY <1>2, <1>4, StoreAssumption DEF Safe, TemporaryIsPrivate, Quiet
  <1>5. TemporaryIsPrivate'
    BY <1>2, <1>3, <1>4 DEF Safe, TemporaryIsPrivate, Quiet, Sealing
  <1>6. QED
    BY <1>1, <1>5 DEF Safe

\* The steps of a process that are quiet.
QuietStep(s) ==
    \/ Capabilities(s) \/ Prepare(s) \/ Invoke(s) \/ Inspect(s)
    \/ Confirm(s) \/ SyncLink(s) \/ Untemp(s) \/ SyncUntemp(s) \/ Withdraw(s)
    \/ Open(s) \/ Hash(s) \/ Restat(s) \/ Redundant(s) \/ SyncRedundant(s)
    \/ Image(s) \/ VerifyFstat(s) \/ VerifyLstat(s)
    \/ Rollback(s) \/ Undo(s) \/ Unwind(s) \/ Drop(s)
    \/ RmPrivate(s) \/ SyncPrivate(s) \/ Persist(s)

LEMMA QuietSteps ==
    ASSUME TypeOK, TypeOK', NEW s \in Session, QuietStep(s)
    PROVE  Quiet(s)
  <1> USE DEF Quiet, Unlinked, TypeOK, StoreTypeOK, ProcessTypeOK, Goto,
          Fails, Raise, Attempt, Escape, Forget, Leave, Published, Doubt,
          NoStamp, Name
  <1>1. CASE Capabilities(s)
    BY <1>1 DEF Capabilities
  <1>2. CASE Prepare(s)
    BY <1>2 DEF Prepare, ResetSession, Unlink
  <1>3. CASE Invoke(s)
    BY <1>3 DEF Invoke
  <1>4. CASE Inspect(s)
    BY <1>4 DEF Inspect
  <1>5. CASE Confirm(s)
    BY <1>5 DEF Confirm
  <1>6. CASE SyncLink(s)
    BY <1>6 DEF SyncLink, SyncParent
  <1>7. CASE Untemp(s)
    BY <1>7 DEF Untemp
  <1>8. CASE SyncUntemp(s)
    BY <1>8 DEF SyncUntemp, SyncParent
  <1>9. CASE Withdraw(s)
    BY <1>9 DEF Withdraw, Withdrawal, Unlink, SyncParent
  <1>10. CASE Open(s)
    BY <1>10, StampIsStamp DEF Open, ExamName, Absent
  <1>11. CASE Hash(s)
    BY <1>11 DEF Hash
  <1>12. CASE Restat(s)
    BY <1>12 DEF Restat, AfterExam
  <1>13. CASE Redundant(s)
    BY <1>13 DEF Redundant
  <1>14. CASE SyncRedundant(s)
    BY <1>14 DEF SyncRedundant, SyncParent
  <1>15. CASE Image(s)
    BY <1>15 DEF Image
  <1>16. CASE VerifyFstat(s)
    BY <1>16, StampIsStamp DEF VerifyFstat, DescriptorsOK, Holding
  <1>17. CASE VerifyLstat(s)
    BY <1>17 DEF VerifyLstat, Retain, PublishesNext
  <1>18. CASE Rollback(s)
    BY <1>18 DEF Rollback
  <1>19. CASE Undo(s)
    BY <1>19 DEF Undo, Unlink, SyncParent
  <1>20. CASE Unwind(s)
    BY <1>20 DEF Unwind
  <1>21. CASE Drop(s)
    BY <1>21 DEF Drop, Unlink
  <1>22. CASE RmPrivate(s)
    BY <1>22 DEF RmPrivate, Unlink
  <1>23. CASE SyncPrivate(s)
    BY <1>23 DEF SyncPrivate, SyncParent
  <1>24. CASE Persist(s)
    BY <1>24 DEF Persist
  <1>25. QED
    BY <1>1, <1>2, <1>3, <1>4, <1>5, <1>6, <1>7, <1>8, <1>9, <1>10, <1>11, <1>12, <1>13, <1>14, <1>15, <1>16, <1>17, <1>18, <1>19, <1>20, <1>21, <1>22, <1>23, <1>24
    DEF QuietStep

\* The steps that create, write, seal, check and link a temporary.
LEMMA TemporarySteps ==
    ASSUME TypeOK, TypeOK', Safe, NEW s \in Session,
           \/ MkTemp(s) \/ Write(s) \/ Seal(s) \/ Reinspect(s)
           \/ Digest(s) \/ Link(s)
    PROVE  Safe'
  <1> USE StoreAssumption
      DEF Safe, Unlinked, Goto, Raise, TypeOK, StoreTypeOK, ProcessTypeOK,
          Sealing, Name
  <1>1. CASE MkTemp(s)
    <2>1. CASE Raise(s, "artifact_publication") /\ UNCHANGED <<file, tmp, fd>>
      <3>1. Quiet(s)
        BY <1>1, <2>1 DEF MkTemp, Quiet
      <3>2. QED
        BY <3>1, QuietIsSafe
    <2>2. ASSUME NEW i \in Alloc(Free),
                 file' = [file EXCEPT ![i] = Created(s)],
                 fd' = [fd EXCEPT ![s] = i],
                 Goto(s, "write")
          PROVE  Safe'
      <3>1. /\ i \in Inode
            /\ \A n \in Name : dir[n] # i /\ disk[n] # i
            /\ \A t \in Session : fd[t] # i /\ seen[t].ino # i
        BY <2>2, AllocIsFree DEF Free, Unnamed
      <3>2. NoTornPublication'
        BY <1>1, <2>2, <3>1 DEF NoTornPublication, MkTemp
      <3>3. TemporaryIsPrivate'
        BY <1>1, <2>2, <3>1 DEF TemporaryIsPrivate, MkTemp
      <3>4. QED
        BY <3>2, <3>3
    <2>3. QED
      BY <1>1, <2>1, <2>2 DEF MkTemp
  <1>2. CASE Write(s)
    <2>1. CASE Raise(s, WriteError(s)) /\ UNCHANGED file
      <3>1. Quiet(s)
        BY <1>2, <2>1 DEF Write, Quiet
      <3>2. QED
        BY <3>1, QuietIsSafe
    <2>2. ASSUME NEW b \in Product(s),
                 file' = [file EXCEPT ![fd[s]] = Filled(file[fd[s]], b)],
                 Goto(s, "seal")
          PROVE  Safe'
      <3>1. fd[s] \in Inode /\ \A n \in Name : fd[s] \notin {dir[n], disk[n]}
        BY <1>2 DEF Write, TemporaryIsPrivate, DescriptorsOK, Holding
      <3>2. NoTornPublication'
        BY <1>2, <2>2, <3>1 DEF NoTornPublication, Write
      <3>3. TemporaryIsPrivate'
        BY <1>2, <2>2, <3>1 DEF TemporaryIsPrivate, Write, Product, Filled
      <3>4. QED
        BY <3>2, <3>3
    <2>3. QED
      BY <1>2, <2>1, <2>2 DEF Write
  <1>3. CASE Seal(s)
    <2>1. CASE Raise(s, WriteError(s)) /\ UNCHANGED file
      <3>1. Quiet(s)
        BY <1>3, <2>1 DEF Seal, Quiet
      <3>2. QED
        BY <3>1, QuietIsSafe
    <2>2. CASE /\ file' = [file EXCEPT ![fd[s]] = Sealed(file[fd[s]])]
               /\ Goto(s, IF Sealing(s) THEN "reinspect" ELSE "digest")
      <3>1. fd[s] \in Inode /\ \A n \in Name : fd[s] \notin {dir[n], disk[n]}
        BY <1>3 DEF Seal, TemporaryIsPrivate, DescriptorsOK, Holding
      <3>2. NoTornPublication'
        BY <1>3, <2>2, <3>1 DEF NoTornPublication, Seal
      <3>3. TemporaryIsPrivate'
        BY <1>3, <2>2, <3>1 DEF TemporaryIsPrivate, Seal, Sealed
      <3>4. QED
        BY <3>2, <3>3
    <2>3. QED
      BY <1>3, <2>1, <2>2 DEF Seal
  <1>4. CASE Reinspect(s)
    BY <1>4 DEF Reinspect, NoTornPublication, TemporaryIsPrivate
  <1>5. CASE Digest(s)
    <2>1. NoTornPublication'
      BY <1>5 DEF Digest, NoTornPublication
    <2>2. pc'[s] = "link" => file[fd[s]].bytes \in Content
      BY <1>5 DEF Digest, Attempt, TemporaryIsPrivate, DescriptorsOK, Holding, File
    <2>3. TemporaryIsPrivate'
      BY <1>5, <2>2 DEF Digest, Attempt, TemporaryIsPrivate
    <2>4. QED
      BY <2>1, <2>3
  <1>6. CASE Link(s)
    <2>1. CASE UNCHANGED dir
      <3>1. Quiet(s)
        BY <1>6, <2>1 DEF Link, Quiet
      <3>2. QED
        BY <3>1, QuietIsSafe
    <2>2. CASE Bind(dest[s], fd[s]) /\ Goto(s, "confirm")
      <3>1. NoTornPublication'
        BY <1>6, <2>2 DEF NoTornPublication, TemporaryIsPrivate, Link, Bind
      <3>2. TemporaryIsPrivate'
        BY <1>6, <2>2 DEF TemporaryIsPrivate, Link, Bind
      <3>3. QED
        BY <3>1, <3>2
    <2>3. QED
      BY <1>6, <2>1, <2>2 DEF Link
  <1>7. QED
    BY <1>1, <1>2, <1>3, <1>4, <1>5, <1>6

\* Every step keeps published files whole and unlinked temporaries private.
LEMMA NextSafe ==
    ASSUME TypeOK, TypeOK', Safe, [Next]_vars
    PROVE  Safe'
  <1> USE StoreAssumption DEF TypeOK, StoreTypeOK, ProcessTypeOK, Name
  <1>1. ASSUME NEW s \in Session, Running(s)
        PROVE  Safe'
    BY <1>1, TemporarySteps, QuietSteps, QuietIsSafe DEF Running, QuietStep
  <1>2. ASSUME NEW s \in Session,
               (\E c \in Calls : StartExecute(s, c)) \/ StartPublish(s) \/ Kill(s)
        PROVE  Safe'
    <2>1. Quiet(s)
      BY <1>2
      DEF Quiet, StartExecute, StartPublish, Kill, Goto, Escape, Forget,
          Unlinked, NoStamp
    <2>2. QED
      BY <2>1, QuietIsSafe
  <1>3. CASE PowerLoss
    <2>1. TemporaryIsPrivate'
      BY <1>3 DEF PowerLoss, TemporaryIsPrivate, Unlinked
    <2>2. \A n \in Name : dir'[n] \in {dir[n], disk[n]} /\ disk'[n] = dir'[n]
      BY <1>3 DEF PowerLoss
    <2>3. \A i \in Inode : file[i].synced => file'[i] = file[i]
      BY <1>3 DEF PowerLoss, Survivor
    <2>4. NoTornPublication'
      BY <1>3, <2>2, <2>3 DEF Safe, NoTornPublication, PowerLoss, Survivor,
         Filled
    <2>5. QED
      BY <2>1, <2>4 DEF Safe
  <1>4. CASE ForeignCreate
    <2>1. PICK i \in Alloc(Free), b \in Content \cup {Partial}, m \in BOOLEAN :
                /\ file' = [file EXCEPT ![i] = Dropped(b, m)]
                /\ Bind(Public, i)
      BY <1>4 DEF ForeignCreate
    <2>2. /\ i \in Inode
          /\ \A n \in Name : dir[n] # i /\ disk[n] # i
          /\ \A t \in Session : fd[t] # i /\ seen[t].ino # i
      BY <2>1, AllocIsFree DEF Free, Unnamed
    <2>3. NoTornPublication'
      BY <1>4, <2>1, <2>2
      DEF Safe, NoTornPublication, ForeignCreate, Bind, Dropped
    <2>4. TemporaryIsPrivate'
      BY <1>4, <2>1, <2>2
      DEF Safe, TemporaryIsPrivate, ForeignCreate, Bind, Sealing
    <2>5. QED
      BY <2>3, <2>4 DEF Safe
  <1>5. CASE ForeignRemove
    BY <1>5
    DEF ForeignRemove, Unlink, Safe, NoTornPublication, TemporaryIsPrivate,
        Sealing, DescriptorsOK, Unlinked, Holding
  <1>6. CASE UNCHANGED vars
    BY <1>6 DEF vars, Safe, NoTornPublication, TemporaryIsPrivate, Sealing
  <1>7. QED
    BY <1>1, <1>2, <1>3, <1>4, <1>5, <1>6 DEF Next, Settled
-----------------------------------------------------------------------------
LEMMA InitSafe == Init => Safe
  BY DEF Init, StoreInit, Safe, NoTornPublication, TemporaryIsPrivate,
         Unlinked

LEMMA Invariance == Spec => [](TypeOK /\ Safe)
  <1>1. TypeOK /\ Safe /\ [Next]_vars => (TypeOK /\ Safe)'
    BY NextTypeOK, NextSafe DEF Safe
  <1>2. QED
    BY InitTypeOK, InitSafe, <1>1, PTL DEF Spec

(***************************************************************************)
(* For any number of sessions and any bounds, every call only uses         *)
(* descriptors it holds and stamps it took.                                *)
(***************************************************************************)
THEOREM TypeCorrect == Spec => []TypeOK
  BY Invariance, PTL

(***************************************************************************)
(* For any number of sessions, faults, deaths, power losses and foreign    *)
(* interventions, no file that the library put under a durable name, as    *)
(* seen now or as it will be found after a crash, is ever incomplete,      *)
(* writable or unsynced.                                                   *)
(***************************************************************************)
THEOREM PublishedFilesAreWhole == Spec => []NoTornPublication
  <1>1. Safe => NoTornPublication
    BY DEF Safe
  <1>2. QED
    BY Invariance, <1>1, PTL

(***************************************************************************)
(* For any number of sessions, nobody but its maker can reach a temporary  *)
(* before link(), and link() is reached only with complete, read-only,     *)
(* fsync'ed bytes.                                                         *)
(***************************************************************************)
THEOREM TemporariesArePrivate == Spec => []TemporaryIsPrivate
  <1>1. Safe => TemporaryIsPrivate
    BY DEF Safe
  <1>2. QED
    BY Invariance, <1>1, PTL
-----------------------------------------------------------------------------
\* A step rebinds a name only from nothing, and removes it only to nothing.
LEMMA NextNeverReplaces ==
    ASSUME TypeOK, TypeOK', [Next]_vars, losses' = losses, dir[Public] # None
    PROVE  dir'[Public] \in {dir[Public], None}
  <1> USE StoreAssumption DEF TypeOK, StoreTypeOK, ProcessTypeOK, Name
  <1>1. ASSUME NEW s \in Session, Running(s)
        PROVE  dir'[Public] \in {dir[Public], None}
    <2>1. CASE QuietStep(s)
      BY <2>1, QuietSteps DEF Quiet
    <2>2. CASE \/ MkTemp(s) \/ Write(s) \/ Seal(s) \/ Reinspect(s) \/ Digest(s)
      BY <2>2 DEF MkTemp, Write, Seal, Reinspect, Digest
    <2>3. CASE Link(s)
      BY <2>3 DEF Link, NameFree, Bind
    <2>4. QED
      BY <1>1, <2>1, <2>2, <2>3 DEF Running, QuietStep
  <1>2. ASSUME NEW s \in Session,
               (\E c \in Calls : StartExecute(s, c)) \/ StartPublish(s) \/ Kill(s)
        PROVE  dir'[Public] = dir[Public]
    BY <1>2 DEF StartExecute, StartPublish, Kill
  <1>3. ~PowerLoss
    BY DEF PowerLoss, ResultTypeOK
  <1>4. CASE ForeignCreate \/ ForeignRemove
    BY <1>4 DEF ForeignCreate, ForeignRemove, Unlink
  <1>5. CASE UNCHANGED vars
    BY <1>5 DEF vars
  <1>6. QED
    BY <1>1, <1>2, <1>3, <1>4, <1>5 DEF Next, Settled

(***************************************************************************)
(* "Publication never replaces existing bytes", for any number of          *)
(* sessions and whatever fails: no step other than a power loss makes the  *)
(* artifact path lead from one file to another.                            *)
(***************************************************************************)
THEOREM PublicationNeverReplaces == Spec => NeverReplaced
  <1>1. /\ TypeOK /\ TypeOK' /\ [Next]_vars
        => [losses' = losses /\ dir[Public] # None
                => dir'[Public] \in {dir[Public], None}]_vars
    BY NextNeverReplaces
  <1>2. QED
    BY TypeCorrect, <1>1, PTL DEF Spec, NeverReplaced
-----------------------------------------------------------------------------
(***************************************************************************)
(* Ownership.  From its creation until the call forgets it, a temporary's  *)
(* descriptor is the session's own file; while publish() works on a linked *)
(* name, and while rollback or the destructor is about to unlink one, that *)
(* name still leads to it.  It holds as long as no other program removes   *)
(* names under the library's feet.                                         *)
(***************************************************************************)
Linked == {"confirm", "sync_link", "untemp", "sync_untemp", "withdraw",
           "withdraw_sync"}

Own(s) ==
    /\ pc[s] \in Unlinked \cup Linked \/ binding[s] = "owned" =>
            fd[s] \in Inode /\ file[fd[s]].by = s
    /\ pc[s] \in Linked \cup {"undo", "drop"} => dir[dest[s]] = fd[s]
    /\ pc[s] \in {"undo", "drop"} => binding[s] = "owned"

Ownership == \A s \in Session : Own(s)

\* What a step of session t may do to files and names.
Courteous(t) ==
    /\ \A s \in Session \ {t} : /\ pc'[s] = pc[s]
                                /\ fd'[s] = fd[s]
                                /\ binding'[s] = binding[s]
                                /\ dest'[s] = dest[s]
    /\ \A i \in Inode : file'[i].by = file[i].by \/ i \in Free
    /\ \A n \in Name : \/ dir'[n] = dir[n]
                       \/ dir[n] = None
                       \/ n = t
                       \/ dir[n] = fd[t] /\ file[fd[t]].by = t

\* Courtesy preserves what the other sessions own.
LEMMA CourtesyKeepsOwnership ==
    ASSUME TypeOK, Ownership, NEW t \in Session, Courteous(t), Own(t)'
    PROVE  Ownership'
  <1>1. SUFFICES ASSUME NEW s \in Session, s # t
                 PROVE  Own(s)'
    BY DEF Ownership
  <1>2. Own(s) /\ dest[s] \in {s, Public} /\ dest[s] \in Name
    BY DEF Ownership, TypeOK, ProcessTypeOK
  <1>3. \A i \in Inode : i = fd[s] => file'[i].by = file[i].by
    BY DEF Courteous, Free
  <1>4. pc'[s] = pc[s] /\ fd'[s] = fd[s] /\ binding'[s] = binding[s]
        /\ dest'[s] = dest[s]
    BY <1>1 DEF Courteous
  <1>5. dest[s] # t
    BY <1>1, <1>2, StoreAssumption
  <1>6. ASSUME pc[s] \in Linked \cup {"undo", "drop"}
        PROVE  dir'[dest[s]] = dir[dest[s]]
    BY <1>1, <1>2, <1>5, <1>6, StoreAssumption DEF Own, Courteous, Unlinked, Linked
  <1>7. QED
    BY <1>2, <1>3, <1>4, <1>6 DEF Own

\* Every step of a running call is courteous and keeps its own files its own.
LEMMA RunningIsCourteous ==
    ASSUME TypeOK, TypeOK', NEW s \in Session, Own(s), Running(s)
    PROVE  Courteous(s) /\ Own(s)'
  <1> USE StoreAssumption
      DEF TypeOK, StoreTypeOK, ProcessTypeOK, DescriptorsOK, Holding, Name,
          Goto, Fails, Raise, Attempt, Escape, Forget, Leave, Published,
          Doubt, Sealing, Own, Courteous, Unlinked, Linked
  <1>1. CASE Capabilities(s)
    BY <1>1 DEF Capabilities
  <1>2. CASE Prepare(s)
    BY <1>2 DEF Prepare, ResetSession, Unlink
  <1>3. CASE Invoke(s)
    BY <1>3 DEF Invoke
  <1>4. CASE Inspect(s)
    BY <1>4 DEF Inspect
  <1>5. CASE MkTemp(s)
    <2>1. CASE UNCHANGED <<file, tmp, fd>> /\ Raise(s, "artifact_publication")
      BY <1>5, <2>1 DEF MkTemp
    <2>2. ASSUME NEW i \in Alloc(Free),
                 file' = [file EXCEPT ![i] = Created(s)],
                 fd' = [fd EXCEPT ![s] = i],
                 Goto(s, "write")
          PROVE  Courteous(s) /\ Own(s)'
      <3>1. i \in Free /\ i \in Inode
        BY <2>2, AllocIsFree
      <3>2. file'[i].by = s
        BY <2>2, <3>1 DEF Created
      <3>3. \A j \in Inode : file'[j].by = file[j].by \/ j \in Free
        BY <2>2, <3>1
      <3>4. QED
        BY <1>5, <2>2, <3>1, <3>2, <3>3 DEF MkTemp
    <2>3. QED
      BY <1>5, <2>1, <2>2 DEF MkTemp
  <1>6. CASE Write(s)
    <2>1. \A i \in Inode : file'[i].by = file[i].by
      BY <1>6 DEF Write, Filled
    <2>2. QED
      BY <1>6, <2>1 DEF Write
  <1>7. CASE Seal(s)
    <2>1. \A i \in Inode : file'[i].by = file[i].by
      BY <1>7 DEF Seal, Sealed
    <2>2. QED
      BY <1>7, <2>1 DEF Seal
  <1>8. CASE Reinspect(s)
    BY <1>8 DEF Reinspect
  <1>9. CASE Digest(s)
    BY <1>9 DEF Digest
  <1>10. CASE Link(s)
    BY <1>10 DEF Link, Bind, NameFree
  <1>11. CASE Confirm(s)
    BY <1>11 DEF Confirm
  <1>12. CASE SyncLink(s)
    BY <1>12 DEF SyncLink
  <1>13. CASE Untemp(s)
    BY <1>13 DEF Untemp
  <1>14. CASE SyncUntemp(s)
    BY <1>14 DEF SyncUntemp
  <1>15. CASE Withdraw(s)
    BY <1>15 DEF Withdraw, Withdrawal, Unlink
  <1>16. CASE Open(s)
    BY <1>16 DEF Open
  <1>17. CASE Hash(s)
    BY <1>17 DEF Hash
  <1>18. CASE Restat(s)
    BY <1>18 DEF Restat, AfterExam
  <1>19. CASE Redundant(s)
    BY <1>19 DEF Redundant
  <1>20. CASE SyncRedundant(s)
    BY <1>20 DEF SyncRedundant, AdoptedBinding
  <1>21. CASE Image(s)
    BY <1>21 DEF Image
  <1>22. CASE VerifyFstat(s)
    BY <1>22 DEF VerifyFstat
  <1>23. CASE VerifyLstat(s)
    BY <1>23 DEF VerifyLstat, Retain, RetainedBinding, PublishesNext
  <1>24. CASE Rollback(s)
    BY <1>24 DEF Rollback, Owned
  <1>25. CASE Undo(s)
    BY <1>25 DEF Undo, Unlink
  <1>26. CASE Unwind(s)
    BY <1>26 DEF Unwind, Owned
  <1>27. CASE Drop(s)
    BY <1>27 DEF Drop, Unlink
  <1>28. CASE RmPrivate(s)
    BY <1>28 DEF RmPrivate, Unlink
  <1>29. CASE SyncPrivate(s)
    BY <1>29 DEF SyncPrivate
  <1>30. CASE Persist(s)
    BY <1>30 DEF Persist
  <1>31. QED
    BY <1>1, <1>2, <1>3, <1>4, <1>5, <1>6, <1>7, <1>8, <1>9, <1>10, <1>11, <1>12, <1>13, <1>14, <1>15, <1>16, <1>17, <1>18, <1>19, <1>20, <1>21, <1>22, <1>23, <1>24, <1>25, <1>26, <1>27, <1>28, <1>29, <1>30 DEF Running

\* Every step keeps ownership, and removes from the artifact path only what
\* the acting session made itself.
LEMMA NextOwnership ==
    ASSUME "remove" \notin ForeignMay, TypeOK, TypeOK', Ownership,
           [Next]_vars
    PROVE  /\ Ownership'
           /\ \A s \in Session :
                /\ pc'[s] # pc[s]
                /\ losses' = losses
                /\ dir[Public] # None
                /\ dir'[Public] = None
                => file[dir[Public]].by = s
  <1> USE StoreAssumption DEF TypeOK, StoreTypeOK, ProcessTypeOK, Name
  <1>1. ASSUME NEW t \in Session, Courteous(t), Own(t)'
        PROVE  /\ Ownership'
               /\ \A s \in Session :
                    /\ pc'[s] # pc[s]
                    /\ dir[Public] # None
                    /\ dir'[Public] = None
                    => file[dir[Public]].by = s
    <2>1. Ownership'
      BY <1>1, CourtesyKeepsOwnership
    <2>2. \A s \in Session : pc'[s] # pc[s] => s = t
      BY <1>1 DEF Courteous
    <2>3. dir[Public] # None /\ dir'[Public] = None
            => file[dir[Public]].by = t
      BY <1>1 DEF Courteous
    <2>4. QED
      BY <2>1, <2>2, <2>3
  <1>2. ASSUME NEW t \in Session, Running(t)
        PROVE  Courteous(t) /\ Own(t)'
    BY <1>2, RunningIsCourteous DEF Ownership
  <1>3. ASSUME NEW t \in Session,
               (\E c \in Calls : StartExecute(t, c)) \/ StartPublish(t) \/ Kill(t)
        PROVE  Courteous(t) /\ Own(t)'
    <2>1. Own(t)
      BY DEF Ownership
    <2>2. QED
      BY <1>3, <2>1
      DEF StartExecute, StartPublish, Kill, Goto, Escape, Forget, Courteous,
          Own, Unlinked, Linked
  <1>4. CASE PowerLoss
    <2>1. losses' # losses
      BY <1>4 DEF PowerLoss, ResultTypeOK
    <2>2. Ownership'
      BY <1>4 DEF PowerLoss, Ownership, Own, Unlinked, Linked
    <2>3. QED
      BY <2>1, <2>2
  <1>5. CASE ForeignCreate
    <2>1. PICK i \in Alloc(Free), b \in Content \cup {Partial}, m \in BOOLEAN :
                /\ file' = [file EXCEPT ![i] = Dropped(b, m)]
                /\ Bind(Public, i)
      BY <1>5 DEF ForeignCreate
    <2>2. i \in Inode /\ \A s \in Session : fd[s] # i
      BY <2>1, AllocIsFree DEF Free
    <2>3. \A s \in Session : pc'[s] = pc[s] /\ Own(s) => Own(s)'
      BY <1>5, <2>1, <2>2 DEF ForeignCreate, Bind, Own, Unlinked, Linked
    <2>4. QED
      BY <1>5, <2>3 DEF ForeignCreate, Ownership
  <1>6. ~ForeignRemove
    BY DEF ForeignRemove
  <1>7. CASE UNCHANGED vars
    BY <1>7 DEF vars, Ownership, Own
  <1>8. CASE \E t \in Session : \/ \E c \in Calls : StartExecute(t, c)
                                \/ Running(t) \/ StartPublish(t) \/ Kill(t)
    <2>1. PICK t \in Session : Courteous(t) /\ Own(t)'
      BY <1>2, <1>3, <1>8
    <2>2. QED
      BY <1>1, <2>1
  <1>9. QED
    BY <1>4, <1>5, <1>6, <1>7, <1>8 DEF Next, Settled

(***************************************************************************)
(* Where no other program removes the artifact, and for any number of      *)
(* sessions, faults and crashes: withdrawal, rollback and destructor       *)
(* remove from the artifact path only files of the calling session.        *)
(***************************************************************************)
THEOREM RemovesOnlyItsOwn ==
    ASSUME "remove" \notin ForeignMay
    PROVE  Spec => OwnRemovalOnly
  <1>1. Init => Ownership
    <2>1. ASSUME Init, NEW s \in Session
          PROVE  Own(s)
      <3>1. pc = [t \in Session |-> "idle"] /\ binding = [t \in Session |-> "none"]
        BY <2>1 DEF Init
      <3>2. pc[s] = "idle" /\ binding[s] = "none"
        BY <3>1
      <3>3. QED
        BY <3>2 DEF Own, Unlinked, Linked
    <2>2. QED
      BY <2>1 DEF Ownership
  <1>2. TypeOK /\ TypeOK' /\ Ownership /\ [Next]_vars => Ownership'
    BY NextOwnership
  <1>3. TypeOK /\ TypeOK' /\ Ownership /\ [Next]_vars =>
            [\A s \in Session :
                /\ pc'[s] # pc[s]
                /\ losses' = losses
                /\ dir[Public] # None
                /\ dir'[Public] = None
                => file[dir[Public]].by = s]_vars
    BY NextOwnership
  <1>4. QED
    BY TypeCorrect, <1>1, <1>2, <1>3, PTL DEF Spec, OwnRemovalOnly
-----------------------------------------------------------------------------
(***************************************************************************)
(* What a call leaves behind and what it exposes, and when: temporaries,   *)
(* artifacts without evidence, artifacts of failed results.                *)
(***************************************************************************)

(***************************************************************************)
(* The frame of a step of session s: it leaves the other sessions alone;   *)
(* it binds a name only in link(), its destination to its own descriptor,  *)
(* and otherwise removes or persists only its destination or its private   *)
(* name; it writes a file only through the descriptor of a temporary that  *)
(* it has not linked.                                                      *)
(***************************************************************************)
Binds(s) == /\ pc[s] = "link" /\ pc'[s] = "confirm"
            /\ dir[dest[s]] = None /\ dir'[dest[s]] = fd[s]
Creates(s, i) == /\ pc[s] = "mktemp" /\ pc'[s] = "write"
                 /\ i \in Free
                 /\ fd'[s] = i /\ tmp'[s] = i /\ file'[i] = Created(s)

Removes(s, n) ==
    \/ n = s
    \/ /\ n = dest[s]
       /\ pc[s] \in {"withdraw", "withdraw_sync", "undo", "drop"}

ProcessFrame(s) ==
    \A t \in Session \ {s} :
        /\ pc'[t] = pc[t] /\ call'[t] = call[t] /\ dest'[t] = dest[t]
        /\ fd'[t] = fd[t] /\ binding'[t] = binding[t]
        /\ exam'[t] = exam[t] /\ seen'[t] = seen[t]
        /\ want'[t] = want[t] /\ err'[t] = err[t] /\ tmp'[t] = tmp[t]
        /\ evidence'[t] = evidence[t] /\ complete'[t] = complete[t]

NameFrame(s) ==
    \A n \in Name :
        /\ \/ dir'[n] = dir[n]
           \/ dir'[n] = None /\ Removes(s, n)
           \/ n = dest[s] /\ Binds(s)
        /\ disk'[n] \in {disk[n], dir[n], None}
        /\ litter'[n] \subseteq litter[n] \cup ({tmp[s]} \ {None})

FileFrame(s) ==
    /\ tmp'[s] \in {tmp[s], None} \/ \E i \in Inode : Creates(s, i)
    /\ \A i \in Inode : \/ file'[i] = file[i]
                        \/ Creates(s, i)
                        \/ /\ pc[s] \in {"write", "seal"} /\ i = fd[s]
                           /\ file'[i].by = file[i].by

Frame(s) == ProcessFrame(s) /\ NameFrame(s) /\ FileFrame(s)

\* What mkstemp does.
LEMMA MkTempOutcome ==
    ASSUME TypeOK, NEW s \in Session, MkTemp(s)
    PROVE  /\ pc[s] = "mktemp"
           /\ UNCHANGED <<dir, disk, litter, callVars, binding, examVars,
                          resultVars, crashVars>>
           /\ \/ /\ UNCHANGED <<file, tmp, fd>>
                 /\ Fault /\ Raise(s, "artifact_publication")
              \/ /\ \E i \in Inode :
                        /\ Creates(s, i)
                        /\ file' = [file EXCEPT ![i] = Created(s)]
                        /\ tmp' = [tmp EXCEPT ![s] = i]
                        /\ fd' = [fd EXCEPT ![s] = i]
                 /\ Goto(s, "write") /\ UNCHANGED <<err, faults>>
  <1> USE DEF TypeOK, StoreTypeOK, ProcessTypeOK, Goto
  <1>1. pc[s] = "mktemp"
    BY DEF MkTemp
  <1>2. UNCHANGED <<dir, disk, litter, callVars, binding, examVars,
                    resultVars, crashVars>>
    BY DEF MkTemp
  <1>3. CASE /\ UNCHANGED <<file, tmp, fd>>
             /\ Fault /\ Raise(s, "artifact_publication")
    BY <1>1, <1>2, <1>3
  <1>4. ASSUME NEW i \in Alloc(Free),
               file' = [file EXCEPT ![i] = Created(s)],
               tmp' = [tmp EXCEPT ![s] = i],
               fd' = [fd EXCEPT ![s] = i],
               Goto(s, "write")
        PROVE  i \in Inode /\ Creates(s, i)
    <2>1. i \in Free /\ i \in Inode
      BY <1>4, AllocIsFree
    <2>2. QED
      BY <1>1, <1>4, <2>1 DEF Creates
  <1>5. QED
    BY <1>1, <1>2, <1>3, <1>4 DEF MkTemp

\* A step of a running call keeps within its frame; only persist makes
\* evidence.
LEMMA RunningFrame ==
    ASSUME TypeOK, NEW s \in Session, Running(s)
    PROVE  /\ Frame(s)
           /\ evidence' = evidence \/ Persist(s)
           /\ call'[s] \in {call[s], "none"}
           /\ faults' \in {faults, faults - 1} /\ UNCHANGED crashVars
  <1> USE StoreAssumption
      DEF TypeOK, StoreTypeOK, ProcessTypeOK, ResultTypeOK, Name, Goto,
          Fault, Fails, Raise, Attempt, Escape, Forget, Leave, Published,
          Doubt, Frame, ProcessFrame, NameFrame, FileFrame, Binds, Removes
  <1>1. CASE Capabilities(s)
    BY <1>1 DEF Capabilities
  <1>2. CASE Prepare(s)
    BY <1>2 DEF Prepare, ResetSession, Unlink
  <1>3. CASE Invoke(s)
    BY <1>3 DEF Invoke
  <1>4. CASE Inspect(s)
    BY <1>4 DEF Inspect
  <1>5. CASE MkTemp(s)
    BY <1>5, MkTempOutcome
  <1>6. CASE Write(s)
    BY <1>6 DEF Write, Filled
  <1>7. CASE Seal(s)
    BY <1>7 DEF Seal, Sealed
  <1>8. CASE Reinspect(s)
    BY <1>8 DEF Reinspect
  <1>9. CASE Digest(s)
    BY <1>9 DEF Digest
  <1>10. CASE Link(s)
    BY <1>10 DEF Link, Bind, NameFree
  <1>11. CASE Confirm(s)
    BY <1>11 DEF Confirm
  <1>12. CASE SyncLink(s)
    BY <1>12 DEF SyncLink, SyncParent
  <1>13. CASE Untemp(s)
    BY <1>13 DEF Untemp, UnlinkTemp
  <1>14. CASE SyncUntemp(s)
    BY <1>14 DEF SyncUntemp, SyncParent
  <1>15. CASE Withdraw(s)
    BY <1>15 DEF Withdraw, Withdrawal, Unlink, SyncParent
  <1>16. CASE Open(s)
    BY <1>16 DEF Open
  <1>17. CASE Hash(s)
    BY <1>17 DEF Hash
  <1>18. CASE Restat(s)
    BY <1>18 DEF Restat
  <1>19. CASE Redundant(s)
    BY <1>19 DEF Redundant, UnlinkTemp
  <1>20. CASE SyncRedundant(s)
    BY <1>20 DEF SyncRedundant, SyncParent
  <1>21. CASE Image(s)
    BY <1>21 DEF Image
  <1>22. CASE VerifyFstat(s)
    BY <1>22 DEF VerifyFstat
  <1>23. CASE VerifyLstat(s)
    BY <1>23 DEF VerifyLstat, Retain
  <1>24. CASE Rollback(s)
    BY <1>24 DEF Rollback
  <1>25. CASE Undo(s)
    BY <1>25 DEF Undo, Unlink, SyncParent
  <1>26. CASE Unwind(s)
    BY <1>26 DEF Unwind, DropTemp, UnlinkTemp, Abandon
  <1>27. CASE Drop(s)
    BY <1>27 DEF Drop, Unlink
  <1>28. CASE RmPrivate(s)
    BY <1>28 DEF RmPrivate, Unlink
  <1>29. CASE SyncPrivate(s)
    BY <1>29 DEF SyncPrivate, SyncParent
  <1>30. CASE Persist(s)
    BY <1>30 DEF Persist
  <1>31. QED
    BY <1>1, <1>2, <1>3, <1>4, <1>5, <1>6, <1>7, <1>8, <1>9, <1>10, <1>11,
       <1>12, <1>13, <1>14, <1>15, <1>16, <1>17, <1>18, <1>19, <1>20, <1>21,
       <1>22, <1>23, <1>24, <1>25, <1>26, <1>27, <1>28, <1>29, <1>30
    DEF Running

\* So does the start of a call, and the death of its process.
LEMMA OutsideFrame ==
    ASSUME TypeOK, NEW s \in Session,
           (\E c \in Calls : StartExecute(s, c)) \/ StartPublish(s) \/ Kill(s)
    PROVE  Frame(s)
  BY StoreAssumption
  DEF TypeOK, StoreTypeOK, ProcessTypeOK, ResultTypeOK, Name, Goto, Escape,
      Forget, StartExecute, StartPublish, Kill, Abandon, UnlinkTemp, Frame,
      ProcessFrame, NameFrame, FileFrame, Binds, Removes
-----------------------------------------------------------------------------
(***************************************************************************)
(* Residue.  While nothing has failed, a call carries a temporary name     *)
(* only from mkstemp until it unlinks it, and each way out of those labels *)
(* leads through ~temporary_artifact() at "unwind".                        *)
(***************************************************************************)
Carrying == Unlinked \cup {"confirm", "sync_link", "untemp", "withdraw",
                           "redundant", "unwind"}
Carries(s) == \/ pc[s] \in Carrying
              \/ pc[s] \in {"open", "hash", "restat"} /\ exam[s] = "adopt"

Tidy == /\ \A n \in Name : litter[n] = {}
        /\ \A s \in Session : tmp[s] # None => Carries(s)

\* A step that leaves nothing failed adds no litter, and carries a temporary
\* on only to where it is still looked after.
LEMMA RunningIsNeat ==
    ASSUME TypeOK, NEW s \in Session, Running(s), Undisturbed',
           Undisturbed /\ tmp[s] # None => Carries(s)
    PROVE  /\ Undisturbed
           /\ \A n \in Name : litter'[n] \subseteq litter[n]
           /\ tmp'[s] # None => Carries(s)'
  <1> USE PublicationAssumption
      DEF TypeOK, StoreTypeOK, ProcessTypeOK, ResultTypeOK, Name, Goto, Fault,
          Fails, Raise, Attempt, Escape, Forget, Leave, Published, Doubt,
          Undisturbed, Carries, Carrying, Unlinked
  <1>1. CASE Capabilities(s)
    BY <1>1 DEF Capabilities
  <1>2. CASE Prepare(s)
    BY <1>2 DEF Prepare, ResetSession
  <1>3. CASE Invoke(s)
    BY <1>3 DEF Invoke
  <1>4. CASE Inspect(s)
    BY <1>4 DEF Inspect
  <1>5. CASE MkTemp(s)
    BY <1>5 DEF MkTemp
  <1>6. CASE Write(s)
    BY <1>6 DEF Write
  <1>7. CASE Seal(s)
    BY <1>7 DEF Seal
  <1>8. CASE Reinspect(s)
    BY <1>8 DEF Reinspect
  <1>9. CASE Digest(s)
    BY <1>9 DEF Digest
  <1>10. CASE Link(s)
    BY <1>10 DEF Link
  <1>11. CASE Confirm(s)
    BY <1>11 DEF Confirm
  <1>12. CASE SyncLink(s)
    BY <1>12 DEF SyncLink
  <1>13. CASE Untemp(s)
    BY <1>13 DEF Untemp, UnlinkTemp
  <1>14. CASE SyncUntemp(s)
    BY <1>14 DEF SyncUntemp
  <1>15. CASE Withdraw(s)
    BY <1>15 DEF Withdraw
  <1>16. CASE Open(s)
    BY <1>16 DEF Open, AbsentIsEmpty
  <1>17. CASE Hash(s)
    BY <1>17 DEF Hash
  <1>18. CASE Restat(s)
    BY <1>18 DEF Restat, AfterExam
  <1>19. CASE Redundant(s)
    BY <1>19 DEF Redundant, UnlinkTemp
  <1>20. CASE SyncRedundant(s)
    BY <1>20 DEF SyncRedundant
  <1>21. CASE Image(s)
    BY <1>21 DEF Image
  <1>22. CASE VerifyFstat(s)
    BY <1>22 DEF VerifyFstat
  <1>23. CASE VerifyLstat(s)
    BY <1>23 DEF VerifyLstat, Retain
  <1>24. CASE Rollback(s)
    BY <1>24 DEF Rollback
  <1>25. CASE Undo(s)
    BY <1>25 DEF Undo
  <1>26. CASE Unwind(s)
    BY <1>26 DEF Unwind, DropTemp, UnlinkTemp
  <1>27. CASE Drop(s)
    BY <1>27 DEF Drop
  <1>28. CASE RmPrivate(s)
    BY <1>28 DEF RmPrivate
  <1>29. CASE SyncPrivate(s)
    BY <1>29 DEF SyncPrivate
  <1>30. CASE Persist(s)
    BY <1>30 DEF Persist
  <1>31. QED
    BY <1>1, <1>2, <1>3, <1>4, <1>5, <1>6, <1>7, <1>8, <1>9, <1>10, <1>11,
       <1>12, <1>13, <1>14, <1>15, <1>16, <1>17, <1>18, <1>19, <1>20, <1>21,
       <1>22, <1>23, <1>24, <1>25, <1>26, <1>27, <1>28, <1>29, <1>30
    DEF Running

LEMMA NextTidy ==
    ASSUME TypeOK, Undisturbed => Tidy, [Next]_vars, Undisturbed'
    PROVE  Tidy'
  <1> USE PublicationAssumption DEF Undisturbed, TypeOK, ResultTypeOK
  <1>1. ASSUME NEW s \in Session, Running(s)
        PROVE  Tidy'
    BY <1>1, RunningIsNeat, RunningFrame
    DEF Tidy, Carries, Frame, ProcessFrame
  <1>2. ASSUME NEW s \in Session,
               (\E c \in Calls : StartExecute(s, c)) \/ StartPublish(s)
        PROVE  Tidy'
    BY <1>2 DEF StartExecute, StartPublish, Goto, Tidy, Carries, Carrying,
                Unlinked, ProcessTypeOK
  <1>3. ASSUME NEW s \in Session
        PROVE  ~Kill(s)
    BY DEF Kill
  <1>4. ~PowerLoss
    BY DEF PowerLoss
  <1>5. CASE ForeignCreate \/ ForeignRemove
    BY <1>5 DEF ForeignCreate, ForeignRemove, Tidy, Carries
  <1>6. CASE UNCHANGED vars
    BY <1>6 DEF vars, Tidy, Carries
  <1>7. QED
    BY <1>1, <1>2, <1>3, <1>4, <1>5, <1>6 DEF Next, Settled

(***************************************************************************)
(* For any number of sessions: whatever exception, refusal or conflict     *)
(* ends a call, no temporary name outlives it as long as no system call    *)
(* has failed and no process has died.                                     *)
(***************************************************************************)
THEOREM NoResidueWithoutFailure == Spec => []ResidueOnlyAfterFailure
  <1>1. Init => (Undisturbed => Tidy)
    BY DEF Init, StoreInit, Tidy
  <1>2. TypeOK /\ (Undisturbed => Tidy) /\ [Next]_vars
            => (Undisturbed => Tidy)'
    BY NextTidy
  <1>3. TypeOK /\ (Undisturbed => Tidy) => ResidueOnlyAfterFailure
    BY DEF ResidueOnlyAfterFailure, Tidy, Carries, Carrying, Unlinked
  <1>4. QED
    BY TypeCorrect, <1>1, <1>2, <1>3, PTL DEF Spec
-----------------------------------------------------------------------------
(***************************************************************************)
(* Bookkeeping, for all values of the constants: which entry point is      *)
(* running with which evidence, which error is on its way where, and what  *)
(* the expected digest stands for.                                         *)
(***************************************************************************)
ControllerOK(s) ==
    /\ call[s] = "none" <=> pc[s] = "idle"
    /\ call[s] \in {"execute", "execute_sealed"} => evidence[s] = None
    /\ call[s] = "publish" => /\ evidence[s] \in Content
                              /\ want[s] = evidence[s]
                              /\ dest[s] = Public
    /\ call[s] = "execute_sealed" => dest[s] = s
    /\ pc[s] \in Building \cup {"persist"} => call[s] # "publish"
    /\ complete[s] => evidence[s] \in Content

\* Labels on the way of an error out of the library.
Raised == {"unwind", "rollback", "undo", "drop"}

\* The digest is decided: by the evidence, or by hashing what was built.
Determined(s) ==
    \/ dest[s] = Public
    \/ pc[s] \in Linked \cup {"link", "open", "hash", "restat", "redundant",
                              "sync_redundant", "image", "verify_fstat",
                              "verify_lstat"}
    \/ pc[s] = "persist" /\ err[s] = None

CallOK(s) ==
    /\ pc[s] \in Raised => err[s] # None
    /\ pc[s] \notin Raised \cup {"persist"} => err[s] = None
    /\ Determined(s) => want[s] \in Content
    /\ \/ pc[s] \in {"rm_private", "sync_private"}
       \/ exam[s] = "private"
       \/ pc[s] \in {"open", "hash", "restat"} /\ exam[s] # "adopt"
       \/ pc[s] = "persist" /\ err[s] = None /\ call[s] = "execute"
       => dest[s] = Public
    /\ pc[s] \in Unlinked \cup {"mktemp"} =>
            exam[s] = IF dest[s] = s THEN "public" ELSE "private"
    /\ pc[s] \in {"image", "rollback", "undo", "reinspect"} => dest[s] = s
    /\ binding[s] # "none" =>
            pc[s] \in Raised \cup {"image", "verify_fstat", "verify_lstat",
                                 "persist"}

\* The temporary is the session's own; once hashed it holds what is wanted.
OwnFile(s) ==
    /\ pc[s] \in Unlinked \cup Linked \/ binding[s] = "owned" =>
            fd[s] \in Inode /\ file[fd[s]].by = s
    /\ pc[s] \in Linked \cup {"link"} \/ binding[s] = "owned" =>
            file[fd[s]].bytes = want[s]

Bookkeeping ==
    \A s \in Session : ControllerOK(s) /\ CallOK(s) /\ OwnFile(s)

\* A running call keeps its books.
LEMMA RunningKeepsBooks ==
    ASSUME TypeOK, Safe, NEW s \in Session, Running(s),
           ControllerOK(s), CallOK(s), OwnFile(s)
    PROVE  (ControllerOK(s) /\ CallOK(s) /\ OwnFile(s))'
  <1> USE StoreAssumption, PublicationAssumption
      DEF TypeOK, StoreTypeOK, ProcessTypeOK, ResultTypeOK, DescriptorsOK,
          Holding, Building, Label, Name, Failure, SealingFailure, Goto,
          Fails, Raise, Attempt, Escape, Forget, Leave, Published, Doubt,
          Sealing, ControllerOK, CallOK, OwnFile, Determined, Raised, Linked,
          Unlinked
  <1>1. CASE Capabilities(s)
    BY <1>1 DEF Capabilities
  <1>2. CASE Prepare(s)
    BY <1>2 DEF Prepare
  <1>3. CASE Invoke(s)
    BY <1>3 DEF Invoke
  <1>4. CASE Inspect(s)
    BY <1>4 DEF Inspect
  <1>5. CASE MkTemp(s)
    <2>1. OwnFile(s)'
      <3>1. \/ pc'[s] = "unwind"
            \/ /\ pc'[s] = "write"
               /\ \E i \in Inode : fd'[s] = i /\ file'[i] = Created(s)
        BY <1>5, MkTempOutcome DEF Creates
      <3>2. binding'[s] = "none"
        BY <1>5, MkTempOutcome
      <3>3. QED
        BY <3>1, <3>2 DEF Created
    <2>2. ControllerOK(s)' /\ CallOK(s)'
      BY <1>5, MkTempOutcome
    <2>3. QED
      BY <2>1, <2>2
  <1>6. CASE Write(s)
    <2>1. file'[fd[s]].by = file[fd[s]].by
      BY <1>6 DEF Write, Filled
    <2>2. OwnFile(s)'
      BY <1>6, <2>1 DEF Write
    <2>3. ControllerOK(s)' /\ CallOK(s)'
      BY <1>6 DEF Write, WriteError
    <2>4. QED
      BY <2>2, <2>3
  <1>7. CASE Seal(s)
    BY <1>7 DEF Seal, Sealed, WriteError
  <1>8. CASE Reinspect(s)
    BY <1>8 DEF Reinspect
  <1>9. CASE Digest(s)
    BY <1>9 DEF Digest, Safe, TemporaryIsPrivate
  <1>10. CASE Link(s)
    BY <1>10 DEF Link
  <1>11. CASE Confirm(s)
    BY <1>11 DEF Confirm
  <1>12. CASE SyncLink(s)
    BY <1>12 DEF SyncLink
  <1>13. CASE Untemp(s)
    BY <1>13 DEF Untemp
  <1>14. CASE SyncUntemp(s)
    BY <1>14 DEF SyncUntemp
  <1>15. CASE Withdraw(s)
    BY <1>15 DEF Withdraw
  <1>16. CASE Open(s)
    BY <1>16 DEF Open, AbsentIsEmpty
  <1>17. CASE Hash(s)
    BY <1>17 DEF Hash
  <1>18. CASE Restat(s)
    BY <1>18 DEF Restat, AfterExam
  <1>19. CASE Redundant(s)
    BY <1>19 DEF Redundant
  <1>20. CASE SyncRedundant(s)
    BY <1>20 DEF SyncRedundant, AdoptedBinding
  <1>21. CASE Image(s)
    BY <1>21 DEF Image
  <1>22. CASE VerifyFstat(s)
    BY <1>22 DEF VerifyFstat
  <1>23. CASE VerifyLstat(s)
    BY <1>23 DEF VerifyLstat, Retain, RetainedBinding, PublishesNext
  <1>24. CASE Rollback(s)
    BY <1>24 DEF Rollback
  <1>25. CASE Undo(s)
    BY <1>25 DEF Undo
  <1>26. CASE Unwind(s)
    BY <1>26 DEF Unwind
  <1>27. CASE Drop(s)
    BY <1>27 DEF Drop
  <1>28. CASE RmPrivate(s)
    BY <1>28 DEF RmPrivate
  <1>29. CASE SyncPrivate(s)
    BY <1>29 DEF SyncPrivate
  <1>30. CASE Persist(s)
    BY <1>30 DEF Persist
  <1>31. QED
    BY <1>1, <1>2, <1>3, <1>4, <1>5, <1>6, <1>7, <1>8, <1>9, <1>10, <1>11,
       <1>12, <1>13, <1>14, <1>15, <1>16, <1>17, <1>18, <1>19, <1>20, <1>21,
       <1>22, <1>23, <1>24, <1>25, <1>26, <1>27, <1>28, <1>29, <1>30
    DEF Running

\* What a step of session s writes is no file another session holds on to,
\* and no file with a durable name.
LEMMA FrameFiles ==
    ASSUME TypeOK, Safe, NEW s \in Session, Frame(s)
    PROVE  /\ \A t \in Session \ {s} :
                /\ fd[t] \in Inode => file'[fd[t]] = file[fd[t]]
                /\ seen[t].ino \in Inode =>
                        file'[seen[t].ino] = file[seen[t].ino]
           /\ \A n \in Name : \A i \in {dir[n], disk[n]} \ {None} :
                file'[i] = file[i]
  <1>1. pc[s] \in {"write", "seal"} =>
            /\ \A t \in Session \ {s} : fd[s] \notin {fd[t], seen[t].ino}
            /\ \A n \in Name : fd[s] \notin {dir[n], disk[n]}
    BY DEF Safe, TemporaryIsPrivate, Unlinked
  <1>2. \A i \in Free : /\ \A t \in Session : i \notin {fd[t], seen[t].ino}
                        /\ \A n \in Name : i \notin {dir[n], disk[n]}
    BY DEF Free, Unnamed
  <1>3. QED
    BY <1>1, <1>2 DEF Frame, FileFrame, Creates, TypeOK, StoreTypeOK

LEMMA NextKeepsBooks ==
    ASSUME TypeOK, Safe, Bookkeeping, [Next]_vars
    PROVE  Bookkeeping'
  <1> USE StoreAssumption, PublicationAssumption
      DEF TypeOK, StoreTypeOK, ProcessTypeOK, ResultTypeOK, Name
  <1> DEFINE Books(s) == ControllerOK(s) /\ CallOK(s) /\ OwnFile(s)
  <1>1. ASSUME NEW s \in Session, Frame(s), Books(s)'
        PROVE  Bookkeeping'
    <2>1. SUFFICES ASSUME NEW t \in Session, t # s
                   PROVE  Books(t)'
      BY <1>1 DEF Bookkeeping
    <2>2. Books(t) /\ (fd[t] \in Inode => file'[fd[t]] = file[fd[t]])
      BY <1>1, <2>1, FrameFiles DEF Bookkeeping
    <2>3. QED
      BY <1>1, <2>1, <2>2
      DEF Frame, ProcessFrame, ControllerOK, CallOK, OwnFile, Determined,
          Unlinked, Linked
  <1>2. ASSUME NEW s \in Session, Running(s)
        PROVE  Bookkeeping'
    BY <1>1, <1>2, RunningFrame, RunningKeepsBooks DEF Bookkeeping
  <1>3. ASSUME NEW s \in Session,
               (\E c \in Calls : StartExecute(s, c)) \/ StartPublish(s) \/ Kill(s)
        PROVE  Bookkeeping'
    <2>1. Books(s)
      BY DEF Bookkeeping
    <2>2. Books(s)'
      BY <1>3, <2>1
      DEF StartExecute, StartPublish, Kill, Goto, Escape, Forget,
          ControllerOK, CallOK, OwnFile, Determined, Unlinked, Linked,
          Raised, Building, DescriptorsOK, Failure, SealingFailure
    <2>3. QED
      BY <1>1, <1>3, <2>2, OutsideFrame
  <1>4. CASE PowerLoss
    BY <1>4
    DEF PowerLoss, Bookkeeping, ControllerOK, CallOK, OwnFile, Determined,
        Unlinked, Linked, Raised, Building
  <1>5. CASE ForeignCreate
    <2>1. PICK i \in Alloc(Free), b \in Content \cup {Partial}, m \in BOOLEAN :
                file' = [file EXCEPT ![i] = Dropped(b, m)]
      BY <1>5 DEF ForeignCreate
    <2>2. i \in Inode /\ \A s \in Session : fd[s] # i
      BY <2>1, AllocIsFree DEF Free
    <2>3. \A s \in Session :
            fd[s] \in Inode => file'[fd[s]] = file[fd[s]]
      BY <2>1, <2>2
    <2>4. QED
      BY <1>5, <2>3
      DEF ForeignCreate, Bookkeeping, ControllerOK, CallOK, OwnFile,
          Determined, Unlinked, Linked
  <1>6. CASE ForeignRemove
    BY <1>6
    DEF ForeignRemove, Bookkeeping, ControllerOK, CallOK, OwnFile, Determined
  <1>7. CASE UNCHANGED vars
    BY <1>7
    DEF vars, Bookkeeping, ControllerOK, CallOK, OwnFile, Determined
  <1>8. QED
    BY <1>2, <1>3, <1>4, <1>5, <1>6, <1>7 DEF Next, Settled

\* The types, the safety of published files and the books hold throughout.
Inv == TypeOK /\ Safe /\ Bookkeeping

LEMMA InvIsInvariant == Spec => []Inv
  <1>1. Init => Bookkeeping
    <2>1. SUFFICES ASSUME Init, NEW s \in Session
                   PROVE  ControllerOK(s) /\ CallOK(s) /\ OwnFile(s)
      BY DEF Bookkeeping
    <2>2. s # Public
      BY StoreAssumption
    <2>3. QED
      BY <2>1, <2>2
      DEF Init, ControllerOK, CallOK, OwnFile, Determined, Linked, Unlinked,
          Raised, Building
  <1>2. TypeOK /\ Safe /\ Bookkeeping /\ [Next]_vars => Bookkeeping'
    BY NextKeepsBooks
  <1>3. QED
    BY Invariance, <1>1, <1>2, PTL DEF Spec, Inv
-----------------------------------------------------------------------------
(***************************************************************************)
(* Evidence before exposure.  A controller of execute_sealed gets a file   *)
(* under the artifact path, visible or persisted, only by publishing       *)
(* durable evidence, and that evidence never changes again.                *)
(***************************************************************************)
Exposed(s) ==
    \A i \in {dir[Public], disk[Public]} \ {None} :
        file[i].by = s => evidence[s] = file[i].bytes

Exposure == \A s \in Session : call[s] # "execute" /\ Exposed(s)

LEMMA NextExposure ==
    ASSUME Calls \subseteq {"execute_sealed"}, Inv, Exposure, [Next]_vars
    PROVE  Exposure'
  <1> USE StoreAssumption
      DEF Inv, TypeOK, StoreTypeOK, ProcessTypeOK, ResultTypeOK, Name
  <1>1. ASSUME NEW s \in Session, Frame(s), evidence' = evidence,
               call'[s] # "execute"
        PROVE  Exposure'
    <2>1. SUFFICES ASSUME NEW t \in Session,
                          NEW i \in {dir'[Public], disk'[Public]} \ {None},
                          file'[i].by = t
                   PROVE  evidence[t] = file'[i].bytes
      BY <1>1 DEF Exposure, Exposed, Frame, ProcessFrame
    <2>2. CASE i \in {dir[Public], disk[Public]}
      BY <1>1, <2>1, <2>2, FrameFiles DEF Exposure, Exposed
    <2>3. CASE i \notin {dir[Public], disk[Public]}
      <3>1. dest[s] = Public /\ Binds(s) /\ i = fd[s]
        BY <1>1, <2>1, <2>3 DEF Frame, NameFrame, Binds
      <3>2. /\ fd[s] \in Inode /\ file[fd[s]].by = s
            /\ file[fd[s]].bytes = want[s]
        BY <3>1 DEF Bookkeeping, OwnFile, Binds, Unlinked
      <3>3. call[s] = "publish" /\ want[s] = evidence[s]
        BY <3>1
        DEF Bookkeeping, ControllerOK, Exposure, Binds
      <3>4. file'[fd[s]] = file[fd[s]]
        BY <1>1, <3>1, <3>2 DEF Frame, FileFrame, Creates, Binds
      <3>5. QED
        BY <2>1, <3>1, <3>2, <3>3, <3>4
    <2>4. QED
      BY <2>2, <2>3
  <1>2. ASSUME NEW s \in Session, Persist(s)
        PROVE  Exposure'
    <2>1. evidence[s] = None
      BY <1>2 DEF Persist, Bookkeeping, ControllerOK, Exposure
    <2>2. \A i \in {dir[Public], disk[Public]} \ {None} : file[i].by # s
      <3>1. SUFFICES ASSUME NEW i \in {dir[Public], disk[Public]} \ {None},
                            file[i].by = s
                     PROVE  FALSE
        OBVIOUS
      <3>2. file[i].bytes \in Content
        BY <3>1 DEF Safe, NoTornPublication
      <3>3. QED
        BY <2>1, <3>1, <3>2 DEF Exposure, Exposed
    <2>3. QED
      BY <1>2, <2>2 DEF Persist, Escape, Forget, Goto, Exposure, Exposed
  <1>3. ASSUME NEW s \in Session, Running(s)
        PROVE  Exposure'
    <2>1. call'[s] # "execute"
      BY <1>3, RunningFrame DEF Exposure
    <2>2. QED
      BY <1>1, <1>2, <1>3, <2>1, RunningFrame
  <1>4. ASSUME NEW s \in Session,
               (\E c \in Calls : StartExecute(s, c)) \/ StartPublish(s) \/ Kill(s)
        PROVE  Exposure'
    <2>1. evidence' = evidence /\ call'[s] # "execute"
      BY <1>4 DEF StartExecute, StartPublish, Kill, Escape, Forget
    <2>2. QED
      BY <1>1, <1>4, <2>1, OutsideFrame
  <1>5. CASE PowerLoss
    <2>1. dir'[Public] \in {dir[Public], disk[Public]} /\ disk' = dir'
      BY <1>5 DEF PowerLoss
    <2>2. \A i \in Inode : /\ file'[i].by = file[i].by
                           /\ file[i].synced => file'[i] = file[i]
      BY <1>5 DEF PowerLoss, Survivor, Filled
    <2>3. \A i \in {dir[Public], disk[Public]} \ {None} :
                file[i].by # None => file[i].synced
      BY DEF Safe, NoTornPublication
    <2>4. evidence' = evidence /\ \A s \in Session : call'[s] # "execute"
      BY <1>5 DEF PowerLoss
    <2>5. QED
      BY <2>1, <2>2, <2>3, <2>4 DEF Exposure, Exposed
  <1>6. CASE ForeignCreate
    <2>1. PICK i \in Alloc(Free), b \in Content \cup {Partial}, m \in BOOLEAN :
                /\ file' = [file EXCEPT ![i] = Dropped(b, m)]
                /\ Bind(Public, i)
      BY <1>6 DEF ForeignCreate
    <2>2. i \in Inode /\ i \notin {dir[Public], disk[Public]}
      BY <2>1, AllocIsFree DEF Free, Unnamed
    <2>3. QED
      BY <1>6, <2>1, <2>2
      DEF ForeignCreate, Bind, Dropped, Exposure, Exposed
  <1>7. CASE ForeignRemove
    BY <1>7 DEF ForeignRemove, Unlink, Exposure, Exposed
  <1>8. CASE UNCHANGED vars
    BY <1>8 DEF vars, Exposure, Exposed
  <1>9. QED
    BY <1>3, <1>4, <1>5, <1>6, <1>7, <1>8 DEF Next, Settled

(***************************************************************************)
(* Where controllers use execute_sealed, and whatever fails, dies, loses   *)
(* power or interferes: nothing a session made is at the artifact path     *)
(* unless the evidence for exactly those bytes is durable.                 *)
(***************************************************************************)
THEOREM NothingExposedWithoutEvidence ==
    ASSUME Calls \subseteq {"execute_sealed"}
    PROVE  Spec => []EvidenceBeforeExposure
  <1>1. Init => Exposure
    <2>1. Init => dir[Public] = None /\ disk[Public] = None
      BY DEF Init, StoreInit, Name
    <2>2. QED
      BY <2>1 DEF Init, Exposure, Exposed
  <1>2. Inv /\ Exposure /\ [Next]_vars => Exposure'
    BY NextExposure
  <1>3. Exposure => EvidenceBeforeExposure
    BY DEF Exposure, Exposed, EvidenceBeforeExposure
  <1>4. QED
    BY InvIsInvariant, <1>1, <1>2, <1>3, PTL DEF Spec
-----------------------------------------------------------------------------
(***************************************************************************)
(* The sole name.  A session's temporary, and what it publishes from it    *)
(* until the call is over, has no durable name but its destination, and no *)
(* temporary name but its own, which is gone when the publication is       *)
(* owned.  So nothing but an unlink of the destination alters its stamp.   *)
(***************************************************************************)
Sole(s) ==
    /\ pc[s] \in Unlinked \cup Linked \/ binding[s] = "owned" =>
        /\ \A n \in Name \ {dest[s]} : dir[n] # fd[s]
        /\ \A n \in Name : fd[s] \notin litter[n]
        /\ \A t \in Session \ {s} : tmp[t] # fd[s]
        /\ tmp[s] \in {fd[s], None}
    /\ \/ pc[s] \in {"sync_untemp", "withdraw_sync"}
       \/ binding[s] = "owned"
       => tmp[s] = None
    /\ pc[s] = "verify_lstat" /\ binding[s] = "owned" =>
        /\ seen[s].ino = fd[s] /\ seen[s].temp = FALSE
        /\ dir[dest[s]] = fd[s] => seen[s].names = {dest[s]}

SoleNames == \A s \in Session : Sole(s)

\* A running call keeps its own file under one name.
LEMMA RunningKeepsSole ==
    ASSUME Inv, NEW s \in Session, Running(s), Sole(s)
    PROVE  Sole(s)'
  <1>0. ControllerOK(s) /\ CallOK(s) /\ OwnFile(s)
    BY DEF Inv, Bookkeeping
  <1> USE <1>0, StoreAssumption
      DEF Inv, TypeOK, StoreTypeOK, ProcessTypeOK, DescriptorsOK, Holding,
          Name, Goto, Fails, Raise, Attempt, Escape, Forget, Leave, Published,
          Doubt, Sealing, OwnFile, Raised, Linked, Unlinked, Sole
  <1>1. CASE Capabilities(s)
    BY <1>1 DEF Capabilities
  <1>2. CASE Prepare(s)
    BY <1>2 DEF Prepare, ResetSession, Unlink, CallOK
  <1>3. CASE Invoke(s)
    BY <1>3 DEF Invoke
  <1>4. CASE Inspect(s)
    BY <1>4 DEF Inspect
  <1>5. CASE MkTemp(s)
    <2>1. binding'[s] = "none"
      BY <1>5, MkTempOutcome DEF CallOK
    <2>2. CASE pc'[s] = "unwind"
      BY <2>1, <2>2
    <2>3. ASSUME NEW i \in Inode, Creates(s, i),
                 tmp' = [tmp EXCEPT ![s] = i],
                 fd' = [fd EXCEPT ![s] = i]
          PROVE  Sole(s)'
      <3>1. Unnamed(i)
        BY <2>3 DEF Creates, Free
      <3>2. dir' = dir /\ litter' = litter /\ dest' = dest
        BY <1>5, MkTempOutcome
      <3>3. QED
        BY <2>1, <2>3, <3>1, <3>2 DEF Creates, Unnamed
    <2>4. \/ pc'[s] = "unwind"
          \/ \E i \in Inode : /\ Creates(s, i)
                              /\ tmp' = [tmp EXCEPT ![s] = i]
                              /\ fd' = [fd EXCEPT ![s] = i]
      BY <1>5, MkTempOutcome
    <2>5. QED
      BY <2>2, <2>3, <2>4
  <1>6. CASE Write(s)
    BY <1>6 DEF Write
  <1>7. CASE Seal(s)
    BY <1>7 DEF Seal
  <1>8. CASE Reinspect(s)
    BY <1>8 DEF Reinspect
  <1>9. CASE Digest(s)
    BY <1>9 DEF Digest
  <1>10. CASE Link(s)
    BY <1>10 DEF Link, Bind, NameFree
  <1>11. CASE Confirm(s)
    BY <1>11 DEF Confirm
  <1>12. CASE SyncLink(s)
    BY <1>12 DEF SyncLink
  <1>13. CASE Untemp(s)
    BY <1>13 DEF Untemp, UnlinkTemp
  <1>14. CASE SyncUntemp(s)
    BY <1>14 DEF SyncUntemp
  <1>15. CASE Withdraw(s)
    BY <1>15 DEF Withdraw, Withdrawal, Unlink
  <1>16. CASE Open(s)
    BY <1>16 DEF Open
  <1>17. CASE Hash(s)
    BY <1>17 DEF Hash
  <1>18. CASE Restat(s)
    BY <1>18 DEF Restat, AfterExam
  <1>19. CASE Redundant(s)
    BY <1>19 DEF Redundant, UnlinkTemp, CallOK
  <1>20. CASE SyncRedundant(s)
    BY <1>20 DEF SyncRedundant, AdoptedBinding
  <1>21. CASE Image(s)
    BY <1>21 DEF Image
  <1>22. CASE VerifyFstat(s)
    <2>1. binding[s] = "owned" =>
            /\ Stamp(fd[s]).ino = fd[s] /\ Stamp(fd[s]).temp = FALSE
            /\ dir[dest[s]] = fd[s] => Stamp(fd[s]).names = {dest[s]}
      BY DEF Stamp
    <2>2. /\ pc'[s] \in {"verify_lstat", "rollback", "unwind"}
          /\ UNCHANGED <<dir, litter, tmp, fd, binding, dest>>
      BY <1>22 DEF VerifyFstat
    <2>3. pc'[s] = "verify_lstat" => seen'[s] = Stamp(fd[s])
      BY <1>22 DEF VerifyFstat
    <2>4. QED
      BY <2>1, <2>2, <2>3
  <1>23. CASE VerifyLstat(s)
    BY <1>23 DEF VerifyLstat, Retain, RetainedBinding
  <1>24. CASE Rollback(s)
    BY <1>24 DEF Rollback
  <1>25. CASE Undo(s)
    BY <1>25 DEF Undo, Unlink
  <1>26. CASE Unwind(s)
    BY <1>26 DEF Unwind, DropTemp, UnlinkTemp, Abandon
  <1>27. CASE Drop(s)
    BY <1>27 DEF Drop, Unlink
  <1>28. CASE RmPrivate(s)
    BY <1>28 DEF RmPrivate, Unlink, CallOK
  <1>29. CASE SyncPrivate(s)
    BY <1>29 DEF SyncPrivate
  <1>30. CASE Persist(s)
    BY <1>30 DEF Persist
  <1>31. QED
    BY <1>1, <1>2, <1>3, <1>4, <1>5, <1>6, <1>7, <1>8, <1>9, <1>10, <1>11,
       <1>12, <1>13, <1>14, <1>15, <1>16, <1>17, <1>18, <1>19, <1>20, <1>21,
       <1>22, <1>23, <1>24, <1>25, <1>26, <1>27, <1>28, <1>29, <1>30
    DEF Running

LEMMA NextKeepsSole ==
    ASSUME Inv, SoleNames, [Next]_vars
    PROVE  SoleNames'
  <1> USE StoreAssumption
      DEF Inv, TypeOK, StoreTypeOK, ProcessTypeOK, ResultTypeOK, Name
  <1>1. \A t \in Session :
            pc[t] \in Unlinked \cup Linked \/ binding[t] = "owned" =>
                fd[t] \in Inode
    BY DEF Bookkeeping, OwnFile
  <1>2. ASSUME NEW s \in Session, Frame(s), Sole(s)'
        PROVE  SoleNames'
    <2>1. SUFFICES ASSUME NEW t \in Session, t # s
                   PROVE  Sole(t)'
      BY <1>2 DEF SoleNames
    <2>2. Sole(t)
      BY DEF SoleNames
    <2>3. ASSUME NEW n \in Name, fd[t] \in Inode, dir'[n] = fd[t]
          PROVE  dir[n] = fd[t]
      <3>1. Binds(s) => fd[s] # fd[t]
        BY <2>1 DEF Safe, TemporaryIsPrivate, Unlinked, Binds
      <3>2. QED
        BY <1>2, <2>3, <3>1 DEF Frame, NameFrame, Binds
    <2>4. fd[t] \in Inode /\ tmp'[s] = fd[t] => tmp[s] = fd[t]
      BY <1>2 DEF Frame, FileFrame, Creates, Free
    <2>5. \A n \in Name : litter'[n] \subseteq litter[n] \cup {tmp[s]}
      BY <1>2 DEF Frame, NameFrame
    <2>6. /\ pc'[t] = pc[t] /\ fd'[t] = fd[t] /\ binding'[t] = binding[t]
          /\ dest'[t] = dest[t] /\ seen'[t] = seen[t]
          /\ \A u \in Session \ {s} : tmp'[u] = tmp[u]
      BY <1>2, <2>1 DEF Frame, ProcessFrame
    <2>7. CASE pc[t] \in Unlinked \cup Linked \/ binding[t] = "owned"
      <3>1. fd[t] \in Inode
        BY <1>1, <2>7
      <3>2. /\ \A n \in Name \ {dest[t]} : dir'[n] # fd[t]
            /\ dir'[dest[t]] = fd[t] => dir[dest[t]] = fd[t]
        BY <2>2, <2>3, <2>7, <3>1 DEF Sole
      <3>3. \A n \in Name : fd[t] \notin litter'[n]
        BY <2>1, <2>2, <2>5, <2>7 DEF Sole
      <3>4. \A u \in Session \ {t} : tmp'[u] # fd[t]
        BY <2>1, <2>2, <2>4, <2>6, <2>7, <3>1 DEF Sole
      <3>5. QED
        BY <2>1, <2>2, <2>6, <2>7, <3>1, <3>2, <3>3, <3>4 DEF Sole
    <2>8. CASE ~(pc[t] \in Unlinked \cup Linked \/ binding[t] = "owned")
      BY <2>1, <2>2, <2>6, <2>8 DEF Sole, Linked
    <2>9. QED
      BY <2>7, <2>8
  <1>3. ASSUME NEW s \in Session, Running(s)
        PROVE  SoleNames'
    BY <1>2, <1>3, RunningFrame, RunningKeepsSole DEF SoleNames
  <1>4. ASSUME NEW s \in Session,
               (\E c \in Calls : StartExecute(s, c)) \/ StartPublish(s) \/ Kill(s)
        PROVE  SoleNames'
    <2>1. Sole(s) /\ CallOK(s)
      BY DEF SoleNames, Bookkeeping
    <2>2. Sole(s)'
      BY <1>4, <2>1
      DEF StartExecute, StartPublish, Kill, Goto, Escape, Forget, Sole,
          Unlinked, Linked, CallOK, Raised
    <2>3. QED
      BY <1>2, <1>4, <2>2, OutsideFrame
  <1>5. CASE PowerLoss
    BY <1>5 DEF PowerLoss, SoleNames, Sole, Unlinked, Linked
  <1>6. CASE ForeignCreate
    <2>1. PICK i \in Alloc(Free), b \in Content \cup {Partial}, m \in BOOLEAN :
                Bind(Public, i)
      BY <1>6 DEF ForeignCreate
    <2>2. i \in Inode /\ \A s \in Session : fd[s] # i
      BY <2>1, AllocIsFree DEF Free
    <2>3. \A n \in Name, s \in Session : dir'[n] = fd[s] => dir[n] = fd[s]
      BY <2>1, <2>2 DEF Bind
    <2>4. QED
      BY <1>6, <2>3 DEF ForeignCreate, SoleNames, Sole
  <1>7. CASE ForeignRemove
    BY <1>1, <1>7 DEF ForeignRemove, Unlink, SoleNames, Sole
  <1>8. CASE UNCHANGED vars
    BY <1>8 DEF vars, SoleNames, Sole
  <1>9. QED
    BY <1>3, <1>4, <1>5, <1>6, <1>7, <1>8 DEF Next, Settled

LEMMA SoleIsInvariant == Spec => []SoleNames
  <1>1. Init => SoleNames
    BY DEF Init, SoleNames, Sole, Unlinked, Linked
  <1>2. Inv /\ SoleNames /\ [Next]_vars => SoleNames'
    BY NextKeepsSole
  <1>3. QED
    BY InvIsInvariant, <1>1, <1>2, PTL DEF Spec
-----------------------------------------------------------------------------
(***************************************************************************)
(* Failed results.  While no process has died and at most one system call  *)
(* has failed, an artifact that a session without evidence put at the      *)
(* artifact path is either being published, or about to be taken back by   *)
(* an unlink that cannot fail any more, or accounted for by the result.    *)
(***************************************************************************)
SingleFault == kills = MaxKills /\ losses = MaxLosses /\ faults >= MaxFaults - 1
Spent == faults < MaxFaults

Mine(s) == dir[Public] # None /\ file[dir[Public]].by = s

Answers(s) ==
    \/ /\ dest[s] = Public /\ dir[Public] = fd[s]
       /\ \/ pc[s] \in Linked
          \/ /\ binding[s] = "owned"
             /\ pc[s] \in {"verify_fstat", "verify_lstat", "unwind", "drop"}
       /\ pc[s] \in {"withdraw", "withdraw_sync", "unwind", "drop"} => Spent
    \/ pc[s] \in {"rm_private", "sync_private"}
    \/ pc[s] = "unwind" /\ err[s] = "artifact_cleanup" /\ binding[s] = "none"
    \/ pc[s] = "persist" /\ err[s] \in {None, "artifact_cleanup"}

Accountable(s) ==
    /\ Mine(s) /\ evidence[s] = None => Answers(s)
    /\ evidence[s] \in Failure \ {"artifact_cleanup"} => ~Mine(s)

Accounts == SingleFault => \A s \in Session : Accountable(s)

\* The publication of a file that is still bound passes its verification.
LEMMA BoundVerifies ==
    ASSUME Inv, NEW s \in Session, Sole(s), pc[s] = "verify_lstat",
           binding[s] = "owned", dir[dest[s]] = fd[s]
    PROVE  StillBound(s, dest[s]) /\ file[seen[s].ino].ro
  <1> USE DEF Inv, TypeOK, StoreTypeOK, ProcessTypeOK, DescriptorsOK, Name
  <1>1. /\ fd[s] \in Inode /\ file[fd[s]].by = s
        /\ seen[s].ino = fd[s] /\ seen[s].temp = FALSE
        /\ seen[s].names = {dest[s]} /\ tmp[s] = None
        /\ seen[s] \in StampType
    BY StoreAssumption
    DEF Bookkeeping, OwnFile, Sole, Examining, NoStamp, StampType
  <1>2. {n \in Name : dir[n] = fd[s]} = {dest[s]}
    BY <1>1 DEF Sole
  <1>3. ~ \/ \E n \in Name : fd[s] \in litter[n]
          \/ \E t \in Session : tmp[t] = fd[s]
    BY <1>1, StoreAssumption DEF Sole
  <1>4. Stamp(fd[s]) = [ino |-> fd[s], names |-> {dest[s]}, temp |-> FALSE]
    BY <1>2, <1>3, Zenon DEF Stamp
  <1>5. seen[s] = [ino |-> fd[s], names |-> {dest[s]}, temp |-> FALSE]
    BY <1>1 DEF StampType
  <1>6. file[fd[s]].ro
    BY <1>1, StoreAssumption DEF Safe, NoTornPublication
  <1>7. QED
    BY <1>1, <1>4, <1>5, <1>6 DEF StillBound

\* A running call answers for what it has at the artifact path.
LEMMA RunningAnswers ==
    ASSUME Inv, NEW s \in Session, Sole(s), Running(s), SingleFault',
           Mine(s) => Answers(s), Mine(s)', evidence[s] = None,
           evidence'[s] = None
    PROVE  Answers(s)'
  <1>a. ControllerOK(s) /\ CallOK(s)
    BY DEF Inv, Bookkeeping
  <1>b. \/ Mine(s) /\ dir'[Public] = dir[Public]
        \/ dest[s] = Public /\ Binds(s)
    <2>1. Frame(s)
      BY RunningFrame DEF Inv
    <2>2. dir'[Public] = dir[Public] \/ (Public = dest[s] /\ Binds(s))
      BY <2>1 DEF Frame, NameFrame, Name, Mine
    <2>3. dir[Public] # None => file'[dir[Public]] = file[dir[Public]]
      BY <2>1, FrameFiles DEF Inv, Name
    <2>4. dir'[Public] = dir[Public] => Mine(s)
      BY <2>3 DEF Mine
    <2>5. QED
      BY <2>2, <2>4
  <1> USE <1>a, <1>b, StoreAssumption, PublicationAssumption
      DEF Inv, TypeOK, StoreTypeOK, ProcessTypeOK, ResultTypeOK,
          DescriptorsOK, Holding, Building, Name, Failure, SealingFailure,
          Goto, Fault, Fails, Raise, Attempt, Escape, Forget, Leave,
          Published, Doubt, Sealing, Binds, ControllerOK, CallOK, Raised,
          Linked, SingleFault, Spent, Mine, Answers
  <1>1. CASE Capabilities(s)
    BY <1>1 DEF Capabilities
  <1>2. CASE Prepare(s)
    BY <1>2 DEF Prepare, ResetSession, Unlink
  <1>3. CASE Invoke(s)
    BY <1>3 DEF Invoke
  <1>4. CASE Inspect(s)
    BY <1>4 DEF Inspect
  <1>5. CASE MkTemp(s)
    BY <1>5, MkTempOutcome
  <1>6. CASE Write(s)
    BY <1>6 DEF Write
  <1>7. CASE Seal(s)
    BY <1>7 DEF Seal
  <1>8. CASE Reinspect(s)
    BY <1>8 DEF Reinspect
  <1>9. CASE Digest(s)
    BY <1>9 DEF Digest
  <1>10. CASE Link(s)
    BY <1>10 DEF Link, Bind, NameFree
  <1>11. CASE Confirm(s)
    BY <1>11 DEF Confirm
  <1>12. CASE SyncLink(s)
    BY <1>12 DEF SyncLink
  <1>13. CASE Untemp(s)
    BY <1>13 DEF Untemp
  <1>14. CASE SyncUntemp(s)
    BY <1>14 DEF SyncUntemp
  <1>15. CASE Withdraw(s)
    BY <1>15 DEF Withdraw, Withdrawal, Unlink
  <1>16. CASE Open(s)
    BY <1>16 DEF Open
  <1>17. CASE Hash(s)
    BY <1>17 DEF Hash
  <1>18. CASE Restat(s)
    BY <1>18 DEF Restat, AfterExam
  <1>19. CASE Redundant(s)
    BY <1>19 DEF Redundant
  <1>20. CASE SyncRedundant(s)
    BY <1>20 DEF SyncRedundant, AdoptedBinding
  <1>21. CASE Image(s)
    BY <1>21 DEF Image
  <1>22. CASE VerifyFstat(s)
    BY <1>22 DEF VerifyFstat
  <1>23. CASE VerifyLstat(s)
    BY <1>23, BoundVerifies DEF VerifyLstat, Retain, RetainedBinding, PublishesNext
  <1>24. CASE Rollback(s)
    BY <1>24 DEF Rollback
  <1>25. CASE Undo(s)
    BY <1>25 DEF Undo, Unlink
  <1>26. CASE Unwind(s)
    BY <1>26 DEF Unwind, DropTemp, Owned, Sole
  <1>27. CASE Drop(s)
    BY <1>27 DEF Drop, Unlink
  <1>28. CASE RmPrivate(s)
    BY <1>28 DEF RmPrivate, Unlink
  <1>29. CASE SyncPrivate(s)
    BY <1>29 DEF SyncPrivate
  <1>30. CASE Persist(s)
    BY <1>30 DEF Persist, Determined
  <1>31. QED
    BY <1>1, <1>2, <1>3, <1>4, <1>5, <1>6, <1>7, <1>8, <1>9, <1>10, <1>11,
       <1>12, <1>13, <1>14, <1>15, <1>16, <1>17, <1>18, <1>19, <1>20, <1>21,
       <1>22, <1>23, <1>24, <1>25, <1>26, <1>27, <1>28, <1>29, <1>30
    DEF Running

LEMMA NextAccounts ==
    ASSUME Inv, SoleNames, Accounts, [Next]_vars
    PROVE  Accounts'
  <1> USE StoreAssumption, PublicationAssumption
      DEF Inv, TypeOK, StoreTypeOK, ProcessTypeOK, ResultTypeOK, Name
  <1>1. SUFFICES ASSUME SingleFault'
                 PROVE  \A s \in Session : Accountable(s)'
    BY DEF Accounts
  \* What other sessions, and other programs, do is not held against t.
  <1>2. ASSUME NEW t \in Session, SingleFault, faults' \in {faults, faults - 1},
               dir'[Public] = dir[Public],
               dir[Public] # None => file'[dir[Public]] = file[dir[Public]],
               pc'[t] = pc[t], dest'[t] = dest[t], fd'[t] = fd[t],
               binding'[t] = binding[t], err'[t] = err[t],
               evidence'[t] = evidence[t]
        PROVE  Accountable(t)'
    <2>1. Mine(t)' => Mine(t)
      BY <1>2 DEF Mine
    <2>2. Accountable(t)
      BY <1>2 DEF Accounts
    <2>3. Answers(t) => Answers(t)'
      BY <1>2 DEF Answers, Spent
    <2>4. QED
      BY <1>2, <2>1, <2>2, <2>3 DEF Accountable
  <1>3. ASSUME NEW t \in Session, evidence'[t] = evidence[t],
               SingleFault, ~Mine(t)'
        PROVE  Accountable(t)'
    BY <1>3 DEF Accountable
  <1>4. ASSUME NEW s \in Session, Running(s)
        PROVE  \A t \in Session : Accountable(t)'
    <2>1. Frame(s) /\ faults' \in {faults, faults - 1} /\ SingleFault
      BY <1>1, <1>4, RunningFrame DEF SingleFault
    <2>2. \/ dir'[Public] = dir[Public]
          \/ dir'[Public] = None
          \/ Public = dest[s] /\ Binds(s)
      BY <2>1 DEF Frame, NameFrame
    <2>3. dir[Public] # None => file'[dir[Public]] = file[dir[Public]]
      BY <2>1, FrameFiles
    <2>4. Public = dest[s] /\ Binds(s) =>
            /\ fd[s] \in Inode /\ dir'[Public] = fd[s] /\ file'[fd[s]].by = s
            /\ evidence[s] \notin Failure
      BY <2>1
      DEF Frame, FileFrame, Creates, Binds, Bookkeeping, OwnFile, Unlinked,
          ControllerOK
    <2>5. ASSUME NEW t \in Session, t # s
          PROVE  Accountable(t)'
      <3>1. /\ pc'[t] = pc[t] /\ dest'[t] = dest[t] /\ fd'[t] = fd[t]
            /\ binding'[t] = binding[t] /\ err'[t] = err[t]
            /\ evidence'[t] = evidence[t]
        BY <2>1, <2>5 DEF Frame, ProcessFrame
      <3>2. dir'[Public] # dir[Public] => ~Mine(t)'
        BY <2>2, <2>4, <2>5 DEF Mine
      <3>3. QED
        BY <1>2, <1>3, <2>1, <2>3, <3>1, <3>2
    <2>6. Accountable(s) /\ Sole(s) /\ ControllerOK(s) /\ CallOK(s)
      BY <2>1 DEF Accounts, SoleNames, Bookkeeping
    <2>7. ASSUME Persist(s)
          PROVE  Accountable(s)'
      <3>1. /\ evidence'[s] = IF err[s] = None THEN want[s] ELSE err[s]
            /\ err[s] = None => want[s] \in Content
            /\ dir' = dir /\ file' = file /\ evidence[s] = None
        BY <2>6, <2>7 DEF Persist, CallOK, Determined, ControllerOK
      <3>2. Mine(s)' => err[s] \in {None, "artifact_cleanup"}
        BY <2>6, <2>7, <3>1 DEF Persist, Accountable, Answers, Mine, Linked
      <3>3. evidence'[s] # None
        BY <3>1
      <3>4. Mine(s)' => evidence'[s] \notin Failure \ {"artifact_cleanup"}
        BY <3>1, <3>2
      <3>5. QED
        BY <3>3, <3>4 DEF Accountable
    <2>8. ASSUME evidence' = evidence
          PROVE  Accountable(s)'
      <3>1. evidence[s] \in Failure => ~Mine(s)' \/ Mine(s)
        BY <2>2, <2>3, <2>4 DEF Mine
      <3>2. Mine(s)' /\ evidence[s] = None => Answers(s)'
        BY <1>1, <1>4, <2>6, <2>8, RunningAnswers DEF Accountable
      <3>3. evidence'[s] = evidence[s]
        BY <2>8
      <3>4. evidence[s] \in Failure \ {"artifact_cleanup"} => ~Mine(s)'
        BY <2>6, <3>1 DEF Accountable
      <3>5. QED
        BY <3>2, <3>3, <3>4 DEF Accountable
    <2>9. QED
      BY <1>4, <2>5, <2>7, <2>8, RunningFrame
  <1>5. ASSUME NEW s \in Session,
               (\E c \in Calls : StartExecute(s, c)) \/ StartPublish(s)
        PROVE  \A t \in Session : Accountable(t)'
    <2>1. /\ SingleFault /\ UNCHANGED <<storeVars, resultVars>>
          /\ \A t \in Session \ {s} :
                pc'[t] = pc[t] /\ dest'[t] = dest[t] /\ fd'[t] = fd[t]
                /\ binding'[t] = binding[t] /\ err'[t] = err[t]
          /\ pc[s] = "idle" /\ faults' = faults
      BY <1>1, <1>5 DEF StartExecute, StartPublish, Goto, SingleFault
    <2>2. ~Answers(s) /\ Accountable(s)
      BY <2>1 DEF Answers, Linked, Accounts
    <2>3. Accountable(s)'
      BY <2>1, <2>2 DEF Accountable, Mine
    <2>4. ASSUME NEW t \in Session, t # s
          PROVE  Accountable(t)'
      BY <1>2, <2>1, <2>4
    <2>5. QED
      BY <2>3, <2>4
  <1>6. ASSUME NEW s \in Session
        PROVE  ~Kill(s)
    BY <1>1 DEF Kill, SingleFault
  <1>7. ~PowerLoss
    BY <1>1 DEF PowerLoss, SingleFault
  <1>8. CASE ForeignCreate \/ ForeignRemove
    <2>1. SingleFault /\ UNCHANGED <<procVars, resultVars>>
      BY <1>1, <1>8 DEF ForeignCreate, ForeignRemove, SingleFault
    <2>2. ASSUME NEW t \in Session
          PROVE  ~Mine(t)'
      <3>1. CASE ForeignCreate
        <4>1. PICK i \in Alloc(Free), b \in Content \cup {Partial},
                   m \in BOOLEAN : /\ file' = [file EXCEPT ![i] = Dropped(b, m)]
                                   /\ Bind(Public, i)
          BY <3>1 DEF ForeignCreate
        <4>2. i \in Inode
          BY <4>1, AllocIsFree
        <4>3. dir'[Public] = i /\ file'[i].by = None
          BY <4>1, <4>2 DEF Bind, Dropped
        <4>4. QED
          BY <4>3 DEF Mine
      <3>2. CASE ForeignRemove
        BY <3>2 DEF ForeignRemove, Unlink, Mine
      <3>3. QED
        BY <1>8, <3>1, <3>2
    <2>3. QED
      BY <1>3, <2>1, <2>2
  <1>9. CASE UNCHANGED vars
    BY <1>1, <1>2, <1>9 DEF vars, SingleFault
  <1>10. QED
    BY <1>4, <1>5, <1>6, <1>7, <1>8, <1>9 DEF Next, Settled

(***************************************************************************)
(* For any number of sessions, whatever other programs do at the artifact  *)
(* path and whichever single system call fails: a failed result other than *)
(* a cleanup failure leaves no artifact of that session there.             *)
(***************************************************************************)
THEOREM FailedResultsPublishNothing == Spec => []FailureIsNotPublished
  <1>1. Init => Accounts
    <2>1. Init => dir[Public] = None
      BY DEF Init, StoreInit, Name
    <2>2. Init => \A s \in Session : evidence[s] = None
      BY DEF Init
    <2>3. QED
      BY <2>1, <2>2, PublicationAssumption DEF Accounts, Accountable, Mine
  <1>2. Inv /\ SoleNames /\ Accounts /\ [Next]_vars => Accounts'
    BY NextAccounts
  <1>3. Accounts => FailureIsNotPublished
    BY DEF Accounts, Accountable, Mine, SingleFault, FailureIsNotPublished
  <1>4. QED
    BY InvIsInvariant, SoleIsInvariant, <1>1, <1>2, <1>3, PTL DEF Spec
=============================================================================
