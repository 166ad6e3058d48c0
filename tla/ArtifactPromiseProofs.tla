------------------------ MODULE ArtifactPromiseProofs ------------------------
(***************************************************************************)
(* ArtifactPromise is a promise worth keeping: under it, what durable      *)
(* evidence names is always available.                                     *)
(***************************************************************************)
EXTENDS ArtifactPromise, TLAPS

IInv == TypeOK /\ Available

LEMMA InitIInv ==
  ASSUME Distinct
  PROVE  Init => IInv
  BY DEF Distinct, Init, IInv, TypeOK, Available

LEMMA NextTypeOK == TypeOK /\ [Next]_vars => TypeOK'
<1> SUFFICES ASSUME TypeOK, [Next]_vars PROVE TypeOK'
  OBVIOUS
<1> USE DEF TypeOK
<1>1. ASSUME NEW s \in Session, Seal(s) PROVE TypeOK'
  BY <1>1 DEF Seal
<1>2. ASSUME NEW s \in Session, Publish(s) PROVE TypeOK'
  BY <1>2 DEF Publish
<1>3. ASSUME NEW s \in Session, Record(s) PROVE TypeOK'
  BY <1>3 DEF Record
<1>4. ASSUME NEW s \in Session, Release(s) PROVE TypeOK'
  BY <1>4 DEF Release
<1>5. ASSUME NEW s \in Session, RecordPublished(s) PROVE TypeOK'
  BY <1>5 DEF RecordPublished
<1>6. ASSUME NEW s \in Session, Complete(s) PROVE TypeOK'
  BY <1>6 DEF Complete
<1>7. CASE Withdraw
  BY <1>7 DEF Withdraw
<1>8. CASE Occupy
  BY <1>8 DEF Occupy
<1>9. CASE UNCHANGED vars
  BY <1>9 DEF vars
<1> QED
  BY <1>1, <1>2, <1>3, <1>4, <1>5, <1>6, <1>7, <1>8, <1>9 DEF Next

\* What is shown is replaced by nothing, and what is retained is released only
\* when it is shown: so each step keeps the bytes of every session t.
LEMMA NextAvailable ==
  ASSUME Distinct
  PROVE  IInv /\ [Next]_vars => Available'
<1> SUFFICES ASSUME IInv, [Next]_vars, NEW t \in Session
             PROVE  /\ evidence'[t] \in Content =>
                            evidence'[t] \in {shown', retained'[t]}
                    /\ complete'[t] => /\ evidence'[t] \in Content
                                       /\ shown' = evidence'[t]
                                       /\ retained'[t] = None
  BY DEF Available
<1> USE DEF Distinct, IInv, TypeOK, Available
<1> DEFINE Kept == /\ evidence'[t] \in Content =>
                            evidence'[t] \in {shown', retained'[t]}
                   /\ complete'[t] => /\ evidence'[t] \in Content
                                      /\ shown' = evidence'[t]
                                      /\ retained'[t] = None
<1>1. ASSUME NEW s \in Session, Seal(s) PROVE Kept
  BY <1>1 DEF Seal
<1>2. ASSUME NEW s \in Session, Publish(s) PROVE Kept
  BY <1>2 DEF Publish
<1>3. ASSUME NEW s \in Session, Record(s) PROVE Kept
  BY <1>3 DEF Record
<1>4. ASSUME NEW s \in Session, Release(s) PROVE Kept
  BY <1>4 DEF Release
<1>5. ASSUME NEW s \in Session, RecordPublished(s) PROVE Kept
  BY <1>5 DEF RecordPublished
<1>6. ASSUME NEW s \in Session, Complete(s) PROVE Kept
  BY <1>6 DEF Complete
<1>7. CASE Withdraw
  BY <1>7 DEF Withdraw
<1>8. CASE Occupy
  BY <1>8 DEF Occupy
<1>9. CASE UNCHANGED vars
  BY <1>9 DEF vars
<1> QED
  BY <1>1, <1>2, <1>3, <1>4, <1>5, <1>6, <1>7, <1>8, <1>9 DEF Next

(***************************************************************************)
(* Whoever keeps the promise of execute_sealed and publish_sealed_artifact *)
(* never loses the bytes that durable evidence names, and never reports a  *)
(* publication whose bytes are not shown.                                  *)
(***************************************************************************)
THEOREM EvidenceStaysAvailable ==
  ASSUME Distinct
  PROVE  Spec => []Available
<1>1. IInv /\ [Next]_vars => IInv'
  BY NextTypeOK, NextAvailable DEF IInv
<1>2. IInv => Available
  BY DEF IInv
<1> QED
  BY InitIInv, <1>1, <1>2, PTL DEF Spec
=============================================================================
