--------------------------- MODULE ArtifactPromise ---------------------------
(***************************************************************************)
(* What execute, execute_sealed and publish_sealed_artifact promise to     *)
(* their callers (src/include/libpkgbuild-exec/executor.h), in terms of    *)
(* what is seen under durable names: the bytes at the artifact path, the   *)
(* bytes each session retains in private, the durable evidence, and which  *)
(* sessions have been told that their artifact is published.  No           *)
(* temporaries, descriptors, stamps or system calls; a call that fails     *)
(* half way has simply not taken the rest of its steps.                    *)
(*                                                                         *)
(* The promise is for processes that fail and die and for other programs   *)
(* that occupy the artifact path; it says nothing of power losses.         *)
(***************************************************************************)
CONSTANTS
    Session,    \* sessions that share one artifact path
    Content,    \* complete archives
    Failure,    \* failed terminal results
    Other,      \* whatever is not a complete read-only archive
    None        \* nothing

\* What the constants are taken to be.
Distinct ==
    None \notin Content \cup Failure \cup {Other} /\ Content \cap Failure = {}

VARIABLES
    shown,      \* what the artifact path leads to
    retained,   \* what each session's private name leads to
    evidence,   \* the terminal result each controller holds
    complete    \* publication has been reported

vars == <<shown, retained, evidence, complete>>

TypeOK ==
    /\ shown \in Content \cup {Other, None}
    /\ retained \in [Session -> Content \cup {Other, None}]
    /\ evidence \in [Session -> Content \cup Failure \cup {None}]
    /\ complete \in [Session -> BOOLEAN]

Init ==
    /\ shown = None
    /\ retained = [s \in Session |-> None]
    /\ evidence = [s \in Session |-> None]
    /\ complete = [s \in Session |-> FALSE]

\* A session without evidence seals an archive, or clears its session root.
Seal(s) ==
    /\ evidence[s] = None
    /\ \E b \in Content \cup {None} : retained' = [retained EXCEPT ![s] = b]
    /\ UNCHANGED <<shown, evidence, complete>>

\* The archive a session retains, and its evidence names if it has any, is
\* put at the artifact path, where there is nothing.
Publish(s) ==
    /\ shown = None
    /\ retained[s] \in Content
    /\ evidence[s] \in {None, retained[s]}
    /\ shown' = retained[s]
    /\ UNCHANGED <<retained, evidence, complete>>

\* A publication that failed is taken back, when all who rely on it retain
\* the bytes and none has been told of it.
Withdraw ==
    /\ shown \in Content
    /\ \A s \in Session : evidence[s] = shown =>
            retained[s] = shown /\ ~complete[s]
    /\ shown' = None
    /\ UNCHANGED <<retained, evidence, complete>>

\* The evidence of execute_sealed is durable: a failure, or what it retains.
Record(s) ==
    /\ evidence[s] = None
    /\ \E e \in Failure \cup (Content \cap {retained[s]}) :
            evidence' = [evidence EXCEPT ![s] = e]
    /\ UNCHANGED <<shown, retained, complete>>

\* The evidence of execute is durable: what it has published.
RecordPublished(s) ==
    /\ evidence[s] = None
    /\ shown \in Content /\ retained[s] = None
    /\ evidence' = [evidence EXCEPT ![s] = shown]
    /\ complete' = [complete EXCEPT ![s] = TRUE]
    /\ UNCHANGED <<shown, retained>>

\* The private archive goes once the artifact path shows its bytes.
Release(s) ==
    /\ shown \in Content /\ evidence[s] = shown
    /\ retained' = [retained EXCEPT ![s] = None]
    /\ UNCHANGED <<shown, evidence, complete>>

\* Only then is publication reported.
Complete(s) ==
    /\ shown \in Content /\ evidence[s] = shown /\ retained[s] = None
    /\ complete' = [complete EXCEPT ![s] = TRUE]
    /\ UNCHANGED <<shown, retained, evidence>>

\* Another program occupies the free artifact path.
Occupy ==
    /\ shown = None
    /\ shown' \in Content \cup {Other}
    /\ UNCHANGED <<retained, evidence, complete>>

Next ==
    \/ \E s \in Session : Seal(s) \/ Publish(s) \/ Record(s) \/ Release(s)
                            \/ RecordPublished(s) \/ Complete(s)
    \/ Withdraw
    \/ Occupy

Spec == Init /\ [][Next]_vars
-----------------------------------------------------------------------------
(***************************************************************************)
(* "... remains usable during evidence-backed restart" (executor.h): the   *)
(* bytes that durable evidence names are at the artifact path or retained, *)
(* and those a session was told of are at the artifact path alone.         *)
(***************************************************************************)
Available ==
    \A s \in Session :
        /\ evidence[s] \in Content => evidence[s] \in {shown, retained[s]}
        /\ complete[s] => evidence[s] \in Content /\ shown = evidence[s]
                            /\ retained[s] = None
=============================================================================
