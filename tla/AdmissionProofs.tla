--------------------------- MODULE AdmissionProofs ---------------------------
(***************************************************************************)
(* What admission and the projection of an admitted session guarantee, for *)
(* every set of proposals.                                                 *)
(***************************************************************************)
EXTENDS Projection, SequenceLemmas

USE DEF ErrorCode, Coordinate

\* An error code, or none.
Code == ErrorCode \cup {NoError}

\* A sequence of checks passes if and only if each of its checks does.
LEMMA FirstErrorDecides ==
  ASSUME NEW codes \in Seq(Code)
  PROVE  /\ FirstError(codes) \in Code
         /\ FirstError(codes) = NoError <=> \A k \in 1 .. Len(codes) : codes[k] = NoError
<1> DEFINE I == {i \in 1 .. Len(codes) : codes[i] # NoError}
<1>1. FirstError(codes) =
        IF (IF I # {} THEN Min(I) ELSE 0) = 0 THEN NoError
        ELSE codes[IF I # {} THEN Min(I) ELSE 0]
  BY DEF FirstError, SelectInSeq
<1> Len(codes) \in Nat /\ \A i \in 1 .. Len(codes) : codes[i] \in Code
  BY LenProperties, ElementOfSeq
<1>2. \A i \in I : i \in Nat /\ i \in 1 .. Len(codes) /\ codes[i] # NoError
  OBVIOUS
<1>a. I \subseteq Nat
  BY <1>2
<1>3. CASE I = {}
  <2>1. FirstError(codes) = NoError
    BY <1>1, <1>3
  <2>2. \A k \in 1 .. Len(codes) : codes[k] = NoError
    BY <1>3
  <2> QED BY <2>1, <2>2 DEF Code
<1>4. CASE I # {}
  <2>1. Min(I) \in I
    <3> HIDE DEF I
    <3> QED BY <1>a, <1>4, MinIsLeast
  <2>2. Min(I) \in 1 .. Len(codes) /\ codes[Min(I)] # NoError /\ Min(I) # 0
    <3> HIDE DEF I
    <3> QED BY <1>2, <2>1
  <2>3. FirstError(codes) = codes[Min(I)]
    <3> HIDE DEF I
    <3> QED BY <1>1, <1>4, <2>2
  <2> HIDE DEF I
  <2> QED BY <2>2, <2>3
<1>5. QED
  BY <1>3, <1>4

LEMMA NoErrorIsNone == NoError \notin ErrorCode /\ NoError # "admitted"
                       /\ "admitted" \notin ErrorCode /\ "pending" \notin ErrorCode
BY DEF NoError

LEMMA RequireDecides ==
  ASSUME NEW ok \in BOOLEAN, NEW code \in ErrorCode
  PROVE  Require(ok, code) \in Code /\ (Require(ok, code) = NoError => ok)
BY NoErrorIsNone DEF Require, Code

LEMMA PathErrorIsCode == \A path : PathError(path) \in Code
BY DEF PathError, Code

\* A group of checks that has no error leads on, one that has ends the call.
LEMMA CheckSteps ==
  ASSUME NEW here, NEW code \in Code, NEW next, Check(here, code, next)
  PROVE  /\ proposal' = proposal /\ stage = here
         /\ code = NoError => /\ stage' = next
                              /\ verdict' = IF next = "done" THEN "admitted"
                                            ELSE verdict
         /\ code # NoError => /\ stage' = "done"
                              /\ verdict' \in ErrorCode
                              /\ verdict' # "admitted"
BY NoErrorIsNone DEF Check, Code
-----------------------------------------------------------------------------
(***************************************************************************)
(* The inductive invariant: what has been checked when a stage is reached. *)
(***************************************************************************)
Past(stages) == stage \in stages \/ verdict = "admitted"

Control ==
    /\ proposal \in Proposal
    /\ stage \in {"policy", "sources", "inputs", "paths", "layout",
                  "credentials", "done"}
    /\ verdict \in ErrorCode \cup {"pending", "admitted"}
    /\ stage # "done" => verdict = "pending"

MatchedInputs ==
    [k \in DOMAIN proposal.inputs |-> Normalized(proposal.supplied[MatchOf(k)])]
InputsAccepted ==
    Past({"paths", "layout", "credentials"}) =>
        /\ \A k \in DOMAIN proposal.inputs : UniqueMatch(k)
        /\ AllConsumed
        /\ inputs = MatchedInputs
        /\ DistinctResources(inputs)

NormalPaths == [c \in Coordinate |-> Normal(proposal.paths[c])]
PathsAccepted ==
    Past({"layout", "credentials"}) =>
        paths = NormalPaths /\ NamesFile(paths["artifact"])

LayoutAccepted == Past({"credentials"}) => LayoutIsDisjoint

CredentialsAccepted ==
    verdict = "admitted" =>
        LET c == proposal.credentials
            ordered == Sorted(c.groups)
        IN
        /\ groups = ordered
        /\ \A i \in {c.uid, c.gid} \cup ToSet(c.groups) : i < MaxId
        /\ \A k \in 1 .. Len(ordered) - 1 : ordered[k] # ordered[k + 1]
        /\ c.gid \notin ToSet(ordered)

Accepted == /\ Control /\ InputsAccepted /\ PathsAccepted /\ LayoutAccepted
            /\ CredentialsAccepted

LEMMA AcceptedInit == Init => Accepted
BY DEF Init, Accepted, Control, InputsAccepted, PathsAccepted, LayoutAccepted,
       CredentialsAccepted, Past

LEMMA AcceptedUnchanged ==
  ASSUME Accepted, UNCHANGED vars
  PROVE  Accepted'
<1> USE DEF vars
<1>1. Control'
  BY DEF Accepted, Control
<1>2. InputsAccepted'
  BY DEF Accepted, InputsAccepted, Past, UniqueMatch, Matches, AllConsumed,
         MatchedInputs, MatchOf
<1>3. PathsAccepted'
  BY DEF Accepted, PathsAccepted, Past, NormalPaths
<1>4. LayoutAccepted'
  BY DEF Accepted, LayoutAccepted, Past, LayoutIsDisjoint
<1>5. CredentialsAccepted'
  BY DEF Accepted, CredentialsAccepted
<1>6. QED
  BY <1>1, <1>2, <1>3, <1>4, <1>5 DEF Accepted

\* What is accepted before a stage does not depend on the stage.
LEMMA AcceptedPolicy ==
  ASSUME Accepted, CheckPolicy
  PROVE  Accepted'
<1> DEFINE code == FirstError(<<
                Require(proposal.package_root, "invalid_session"),
                Require(proposal.uncompressed, "invalid_session"),
                Require(proposal.same_source, "source_material_mismatch"),
                Require(Len(proposal.objects) = Len(proposal.sources),
                        "source_material_mismatch")>>)
<1>1. Check("policy", code, "sources") /\ UNCHANGED <<inputs, paths, groups>>
  BY DEF CheckPolicy
<1>2. code \in Code
  <2>1. <<Require(proposal.package_root, "invalid_session"),
          Require(proposal.uncompressed, "invalid_session"),
          Require(proposal.same_source, "source_material_mismatch"),
          Require(Len(proposal.objects) = Len(proposal.sources),
                  "source_material_mismatch")>> \in Seq(Code)
    BY DEF Require, Code
  <2>2. QED
    BY <2>1, FirstErrorDecides
<1> HIDE DEF code
<1>3. /\ proposal' = proposal
      /\ stage' \in {"sources", "done"}
      /\ stage' = "done" => verdict' \in ErrorCode
      /\ stage' # "done" => verdict' = verdict
      /\ verdict' # "admitted"
  BY <1>1, <1>2, CheckSteps, NoErrorIsNone DEF Accepted, Control
<1>4. Control'
  BY <1>1, <1>3, CheckSteps DEF Accepted, Control, Check
<1>5. QED
  BY <1>3, <1>4 DEF Accepted, InputsAccepted, PathsAccepted, LayoutAccepted,
                   CredentialsAccepted, Past

\* What a proposal is made of.
LEMMA Proposed ==
  ASSUME NEW p \in Proposal
  PROVE  /\ Len(p.objects) \in Nat /\ DOMAIN p.objects = 1 .. Len(p.objects)
         /\ Len(p.sources) \in Nat /\ DOMAIN p.sources = 1 .. Len(p.sources)
         /\ Len(p.inputs) \in Nat /\ DOMAIN p.inputs = 1 .. Len(p.inputs)
         /\ Len(p.supplied) \in Nat /\ DOMAIN p.supplied = 1 .. Len(p.supplied)
         /\ p.objects \in Seq(ToSet(p.objects))
         /\ p.supplied \in Seq(ToSet(p.supplied))
         /\ \A k \in DOMAIN p.objects : p.objects[k].path \in AnyPath
         /\ \A k \in DOMAIN p.supplied : p.supplied[k].path \in AnyPath
         /\ \A c \in Coordinate : p.paths[c] \in AnyPath
         /\ p.credentials.groups \in Seq(Nat)
         /\ p.credentials.uid \in Nat /\ p.credentials.gid \in Nat
<1>1. /\ IsSequence(p.sources) /\ IsSequence(p.objects)
      /\ IsSequence(p.inputs) /\ IsSequence(p.supplied)
  BY ProposalAssumption
<1>2. \A seq : IsSequence(seq) => /\ Len(seq) \in Nat
                                  /\ DOMAIN seq = 1 .. Len(seq)
                                  /\ seq \in Seq(ToSet(seq))
  BY LenProperties DEF IsSequence
<1>3. \A seq : \A k \in DOMAIN seq : seq[k] \in ToSet(seq)
  BY DEF ToSet
<1>4. QED
  BY <1>1, <1>2, <1>3, ProposalAssumption

LEMMA AcceptedSources ==
  ASSUME Accepted, CheckSources
  PROVE  Accepted'
<1> DEFINE first == [k \in DOMAIN proposal.objects |-> ObjectError(k)]
           second == [k \in DOMAIN proposal.sources |-> DeclaredError(k)]
           code == FirstError(first \o second)
<1>1. Check("sources", code, "inputs") /\ UNCHANGED <<inputs, paths, groups>>
  BY DEF CheckSources
<1>2. code \in Code
  <2>1. \A k : ObjectError(k) \in Code
    <3> TAKE k
    <3> DEFINE o == proposal.objects[k]
               unique == \A j \in 1 .. k - 1 :
                    proposal.objects[j].declaration.name # o.declaration.name
               checks == <<Require(unique, "source_material_mismatch"),
                           Require(o.observed = o.declaration.digest,
                                   "source_material_mismatch"),
                           PathError(o.path)>>
    <3>1. ObjectError(k) = FirstError(checks)
      BY DEF ObjectError
    <3> HIDE DEF unique
    <3>2. checks \in Seq(Code)
      BY PathErrorIsCode DEF Require, Code
    <3> HIDE DEF checks
    <3>3. QED
      BY <3>1, <3>2, FirstErrorDecides
  <2>2. \A k : DeclaredError(k) \in Code
    BY DEF DeclaredError, Require, Code
  <2>3. first \in Seq(Code)
    <3>1. first \in [1 .. Len(proposal.objects) -> Code]
      BY <2>1, Proposed DEF Accepted, Control
    <3> HIDE DEF first
    <3> QED BY <3>1, FunctionIsSeq, Proposed DEF Accepted, Control
  <2>4. second \in Seq(Code)
    <3>1. second \in [1 .. Len(proposal.sources) -> Code]
      BY <2>2, Proposed DEF Accepted, Control
    <3> HIDE DEF second
    <3> QED BY <3>1, FunctionIsSeq, Proposed DEF Accepted, Control
  <2> HIDE DEF first, second
  <2>5. first \o second \in Seq(Code)
    BY <2>3, <2>4, ConcatProperties
  <2>6. QED
    BY <2>5, FirstErrorDecides
<1> HIDE DEF code
<1>3. /\ proposal' = proposal
      /\ stage' \in {"inputs", "done"}
      /\ stage' = "done" => verdict' \in ErrorCode
      /\ stage' # "done" => verdict' = verdict
      /\ verdict' # "admitted"
  BY <1>1, <1>2, CheckSteps, NoErrorIsNone DEF Accepted, Control
<1>4. Control'
  BY <1>1, <1>3, CheckSteps DEF Accepted, Control, Check
<1>5. QED
  BY <1>3, <1>4 DEF Accepted, InputsAccepted, PathsAccepted, LayoutAccepted,
                   CredentialsAccepted, Past

\* A concatenation of checks passes if and only if its parts pass.
LEMMA FirstErrorOfParts ==
  ASSUME NEW a \in Seq(Code), NEW b \in Seq(Code)
  PROVE  /\ a \o b \in Seq(Code)
         /\ (\A k \in 1 .. Len(a \o b) : (a \o b)[k] = NoError)
                <=> /\ \A k \in 1 .. Len(a) : a[k] = NoError
                    /\ \A k \in 1 .. Len(b) : b[k] = NoError
<1>1. /\ a \o b \in Seq(Code) /\ Len(a \o b) = Len(a) + Len(b)
      /\ \A k \in 1 .. Len(a) : (a \o b)[k] = a[k]
      /\ \A k \in 1 .. Len(b) : (a \o b)[Len(a) + k] = b[k]
  BY ConcatAt
<1>2. Len(a) \in Nat /\ Len(b) \in Nat
  BY LenProperties
<1>3. /\ \A k \in 1 .. Len(a) : k \in 1 .. Len(a \o b)
      /\ \A k \in 1 .. Len(b) : Len(a) + k \in 1 .. Len(a \o b)
      /\ \A k \in 1 .. Len(a \o b) :
            k \in 1 .. Len(a)
            \/ (k - Len(a) \in 1 .. Len(b) /\ Len(a) + (k - Len(a)) = k)
  BY <1>1, <1>2
<1>4. QED
  BY <1>1, <1>3

LEMMA AcceptedInputs ==
  ASSUME Accepted, CheckInputs
  PROVE  Accepted'
<1> DEFINE wanted == DOMAIN proposal.inputs
           head == <<Require(Len(proposal.supplied) = Len(proposal.inputs),
                             "package_input_mismatch")>>
           body == [k \in wanted |-> InputError(k)]
           tail == <<Require(AllConsumed, "package_input_mismatch")>>
           unmatched == FirstError(head \o body \o tail)
           matched == [k \in wanted |-> Normalized(proposal.supplied[MatchOf(k)])]
           distinct == Require(DistinctResources(matched),
                               "package_input_mismatch")
           code == IF unmatched # NoError THEN unmatched ELSE distinct
<1>1. /\ Check("inputs", code, "paths") /\ UNCHANGED <<paths, groups>>
      /\ inputs' = IF code = NoError THEN matched ELSE inputs
  BY DEF CheckInputs
<1>2. \A k : InputError(k) \in Code
  BY PathErrorIsCode DEF InputError, Code
<1>3. head \in Seq(Code) /\ tail \in Seq(Code) /\ Len(tail) = 1
  BY DEF Require, Code
<1>4. body \in Seq(Code) /\ Len(body) = Len(proposal.inputs)
  <2>1. body \in [1 .. Len(proposal.inputs) -> Code]
    BY <1>2, Proposed DEF Accepted, Control
  <2> HIDE DEF body
  <2> QED BY <2>1, FunctionIsSeq, Proposed DEF Accepted, Control
<1>5. unmatched \in Code /\ distinct \in Code
  <2>1. distinct \in Code
    BY DEF Require, Code
  <2> HIDE DEF head, body, tail, distinct
  <2>2. unmatched \in Code
    BY <1>3, <1>4, FirstErrorOfParts, FirstErrorDecides
  <2> QED BY <2>1, <2>2
<1>6. code \in Code
  BY <1>5
<1>7. ASSUME code = NoError
      PROVE  /\ \A k \in wanted : UniqueMatch(k)
             /\ AllConsumed
             /\ DistinctResources(matched)
  <2>1. unmatched = NoError /\ distinct = NoError
    BY <1>7
  <2>2. DistinctResources(matched)
    BY <2>1, NoErrorIsNone DEF Require
  <2>3. /\ \A k \in 1 .. Len(body) : body[k] = NoError
        /\ \A k \in 1 .. Len(tail) : tail[k] = NoError
    <3> HIDE DEF head, body, tail
    <3>1. \A k \in 1 .. Len(head \o body \o tail) :
                (head \o body \o tail)[k] = NoError
      BY <1>3, <1>4, <2>1, FirstErrorOfParts, FirstErrorDecides
    <3>2. head \o body \in Seq(Code)
      BY <1>3, <1>4, FirstErrorOfParts
    <3>3. /\ \A k \in 1 .. Len(head \o body) : (head \o body)[k] = NoError
          /\ \A k \in 1 .. Len(tail) : tail[k] = NoError
      BY <1>3, <3>1, <3>2, FirstErrorOfParts
    <3>4. \A k \in 1 .. Len(body) : body[k] = NoError
      BY <1>3, <1>4, <3>3, FirstErrorOfParts
    <3> QED BY <3>3, <3>4
  <2>4. AllConsumed
    BY <1>3, <2>3, NoErrorIsNone DEF Require
  <2>5. \A k \in wanted : InputError(k) = NoError
    BY <2>3, <1>4, Proposed DEF Accepted, Control
  <2>6. \A k \in wanted : UniqueMatch(k)
    BY <2>5, NoErrorIsNone DEF InputError
  <2> QED BY <2>2, <2>4, <2>6
<1>8. matched = MatchedInputs
  BY DEF MatchedInputs
<1> HIDE DEF code, matched
<1>9. /\ proposal' = proposal
      /\ stage' \in {"paths", "done"}
      /\ stage' = "done" => verdict' \in ErrorCode
      /\ stage' # "done" => verdict' = verdict /\ code = NoError
      /\ verdict' # "admitted"
  BY <1>1, <1>6, CheckSteps, NoErrorIsNone DEF Accepted, Control
<1>10. Control'
  BY <1>1, <1>9, CheckSteps DEF Accepted, Control, Check
<1>11. InputsAccepted'
  <2> SUFFICES ASSUME stage' = "paths"
               PROVE  InputsAccepted'
    BY <1>9 DEF InputsAccepted, Past
  <2>1. code = NoError /\ inputs' = matched
    BY <1>1, <1>9
  <2>2. (\A k \in wanted : UniqueMatch(k))' /\ AllConsumed'
    BY <2>1, <1>7, <1>9 DEF UniqueMatch, AllConsumed, Matches
  <2>3. inputs' = MatchedInputs'
    BY <2>1, <1>8, <1>9 DEF MatchedInputs, MatchOf, Matches
  <2>4. DistinctResources(inputs')
    BY <2>1, <1>7
  <2> QED BY <2>2, <2>3, <2>4 DEF InputsAccepted
<1>12. QED
  BY <1>9, <1>10, <1>11 DEF Accepted, PathsAccepted, LayoutAccepted,
                            CredentialsAccepted, Past

LEMMA AcceptedPaths ==
  ASSUME Accepted, CheckPaths
  PROVE  Accepted'
<1> DEFINE normal == [c \in Coordinate |-> Normal(proposal.paths[c])]
           named == NamesFile(normal["artifact"])
           checks == <<PathError(proposal.paths["root_view"]),
                       PathError(proposal.paths["session_root"]),
                       PathError(proposal.paths["package_output"]),
                       PathError(proposal.paths["artifact"]),
                       Require(named, "invalid_session")>>
           code == FirstError(checks)
<1>1. /\ Check("paths", code, "layout") /\ UNCHANGED <<inputs, groups>>
      /\ paths' = IF code = NoError THEN normal ELSE paths
  BY DEF CheckPaths
<1>2. code \in Code /\ (code = NoError => named)
  <2> HIDE DEF named
  <2>1. checks \in Seq(Code) /\ Len(checks) = 5
    BY PathErrorIsCode DEF Require, Code
  <2>2. checks[5] = Require(named, "invalid_session")
    OBVIOUS
  <2> HIDE DEF checks
  <2>3. code \in Code /\ (code = NoError => checks[5] = NoError)
    BY <2>1, FirstErrorDecides
  <2>4. QED
    BY <2>2, <2>3, NoErrorIsNone DEF Require
<1>3. normal = NormalPaths
  BY DEF NormalPaths
<1> HIDE DEF code
<1>4. /\ proposal' = proposal
      /\ stage' \in {"layout", "done"}
      /\ stage' = "done" => verdict' \in ErrorCode
      /\ stage' # "done" => verdict' = verdict /\ code = NoError
      /\ verdict' # "admitted"
      /\ stage = "paths"
  BY <1>1, <1>2, CheckSteps, NoErrorIsNone DEF Accepted, Control
<1>5. Control'
  BY <1>1, <1>4, CheckSteps DEF Accepted, Control, Check
<1>6. InputsAccepted'
  <2>1. stage' = "layout" => InputsAccepted /\ stage = "paths"
    BY <1>4 DEF Accepted
  <2> QED BY <1>1, <1>4, <2>1 DEF InputsAccepted, Past, UniqueMatch, Matches,
                                  AllConsumed, MatchedInputs, MatchOf
<1>7. PathsAccepted'
  BY <1>1, <1>2, <1>3, <1>4 DEF PathsAccepted, NormalPaths, Past
<1>8. QED
  BY <1>4, <1>5, <1>6, <1>7 DEF Accepted, LayoutAccepted, CredentialsAccepted, Past

LEMMA AcceptedLayout ==
  ASSUME Accepted, CheckLayout
  PROVE  Accepted'
<1> DEFINE code == Require(LayoutIsDisjoint, "unsafe_path_layout")
<1>1. Check("layout", code, "credentials") /\ UNCHANGED <<inputs, paths, groups>>
  BY DEF CheckLayout
<1>2. code \in Code /\ (code = NoError => LayoutIsDisjoint)
  BY NoErrorIsNone DEF Require, Code
<1> HIDE DEF code
<1>3. /\ proposal' = proposal
      /\ stage' \in {"credentials", "done"}
      /\ stage' = "done" => verdict' \in ErrorCode
      /\ stage' # "done" => verdict' = verdict /\ code = NoError
      /\ verdict' # "admitted"
      /\ stage = "layout"
  BY <1>1, <1>2, CheckSteps, NoErrorIsNone DEF Accepted, Control
<1>4. Control'
  BY <1>1, <1>3, CheckSteps DEF Accepted, Control, Check
<1>5. InputsAccepted'
  BY <1>1, <1>3 DEF Accepted, InputsAccepted, Past, UniqueMatch, Matches,
                    AllConsumed, MatchedInputs, MatchOf
<1>6. PathsAccepted'
  BY <1>1, <1>3 DEF Accepted, PathsAccepted, NormalPaths, Past
<1>7. LayoutAccepted'
  BY <1>1, <1>2, <1>3 DEF LayoutAccepted, LayoutIsDisjoint, Past
<1>8. QED
  BY <1>3, <1>4, <1>5, <1>6, <1>7 DEF Accepted, CredentialsAccepted, Past

LEMMA AcceptedCredentials ==
  ASSUME Accepted, CheckCredentials
  PROVE  Accepted'
<1> DEFINE c == proposal.credentials
           ordered == Sorted(c.groups)
           small == \A i \in {c.uid, c.gid} \cup ToSet(c.groups) : i < MaxId
           unique == \A k \in 1 .. Len(ordered) - 1 : ordered[k] # ordered[k + 1]
           apart == c.gid \notin ToSet(ordered)
           checks == <<Require(small, "invalid_session"),
                       Require(unique, "invalid_session"),
                       Require(apart, "invalid_session")>>
           code == FirstError(checks)
<1>1. /\ Check("credentials", code, "done") /\ UNCHANGED <<inputs, paths>>
      /\ groups' = IF code = NoError THEN ordered ELSE groups
  BY DEF CheckCredentials
<1>2. code \in Code /\ (code = NoError => small /\ unique /\ apart)
  <2> HIDE DEF small, unique, apart
  <2>1. checks \in Seq(Code) /\ Len(checks) = 3
    BY DEF Require, Code
  <2>2. /\ checks[1] = Require(small, "invalid_session")
        /\ checks[2] = Require(unique, "invalid_session")
        /\ checks[3] = Require(apart, "invalid_session")
    OBVIOUS
  <2> HIDE DEF checks
  <2>3. code \in Code /\ (code = NoError =>
            checks[1] = NoError /\ checks[2] = NoError /\ checks[3] = NoError)
    <3>1. 1 \in 1 .. 3 /\ 2 \in 1 .. 3 /\ 3 \in 1 .. 3
      OBVIOUS
    <3>2. code \in Code /\ (code = NoError => \A k \in 1 .. 3 : checks[k] = NoError)
      BY <2>1, FirstErrorDecides
    <3> HIDE DEF code
    <3> QED BY <3>1, <3>2
  <2>4. QED
    BY <2>2, <2>3, NoErrorIsNone DEF Require
<1> HIDE DEF code
<1>3. /\ proposal' = proposal
      /\ stage' = "done"
      /\ verdict' \in ErrorCode \cup {"admitted"}
      /\ verdict' = "admitted" => code = NoError
      /\ stage = "credentials"
  BY <1>1, <1>2, CheckSteps, NoErrorIsNone DEF Accepted, Control, Check
<1>4. Control'
  BY <1>1, <1>3, CheckSteps DEF Accepted, Control
<1>5. InputsAccepted'
  BY <1>1, <1>3 DEF Accepted, InputsAccepted, Past, UniqueMatch, Matches,
                    AllConsumed, MatchedInputs, MatchOf
<1>6. PathsAccepted'
  BY <1>1, <1>3 DEF Accepted, PathsAccepted, NormalPaths, Past
<1>7. LayoutAccepted'
  BY <1>1, <1>3 DEF Accepted, LayoutAccepted, LayoutIsDisjoint, Past
<1>8. CredentialsAccepted'
  BY <1>1, <1>2, <1>3 DEF CredentialsAccepted
<1>9. QED
  BY <1>4, <1>5, <1>6, <1>7, <1>8 DEF Accepted

LEMMA AcceptedNext ==
  ASSUME Accepted, Next
  PROVE  Accepted'
BY AcceptedPolicy, AcceptedSources, AcceptedInputs, AcceptedPaths,
   AcceptedLayout, AcceptedCredentials, AcceptedUnchanged DEF Next, Returned

\* A projection starts from an admitted session and leaves it as it is.
LEMMA AcceptedProjection ==
  ASSUME Accepted, [ProjectionNext]_<<vars, pvars>>
  PROVE  Accepted'
BY AcceptedNext, AcceptedUnchanged
   DEF ProjectionNext, SealExecutionRequest, Materialize, vars
-----------------------------------------------------------------------------
LEMMA AcceptedAlways == ProjectionSpec => []Accepted
<1>1. ProjectionInit => Accepted
  BY AcceptedInit DEF ProjectionInit
<1>2. Accepted /\ [ProjectionNext]_<<vars, pvars>> => Accepted'
  BY AcceptedProjection
<1>3. QED
  BY <1>1, <1>2, PTL DEF ProjectionSpec

(***************************************************************************)
(* The correspondence of an admitted session is MatchOf: each input has    *)
(* one match, so two inputs with the same match would be one input twice   *)
(* and share its resource, and every supplied resource is a match.         *)
(***************************************************************************)
LEMMA MatchesCorrespond ==
  ASSUME Control, \A k \in DOMAIN proposal.inputs : UniqueMatch(k),
         AllConsumed, DistinctResources(MatchedInputs)
  PROVE  /\ \A k \in DOMAIN proposal.inputs :
                /\ MatchOf(k) \in DOMAIN proposal.supplied
                /\ Matches(k) = {MatchOf(k)}
                /\ proposal.supplied[MatchOf(k)].input = proposal.inputs[k]
         /\ \A j, k \in DOMAIN proposal.inputs : j # k =>
                proposal.supplied[MatchOf(j)].resource
                    # proposal.supplied[MatchOf(k)].resource
         /\ \A j \in DOMAIN proposal.supplied :
                \E k \in DOMAIN proposal.inputs : MatchOf(k) = j
<1> DEFINE n == Len(proposal.supplied)
<1>a. n \in Nat /\ DOMAIN proposal.supplied = 1 .. n
  BY Proposed DEF Control
<1>1. ASSUME NEW k \in DOMAIN proposal.inputs
      PROVE  Matches(k) = {MatchOf(k)}
  <2> HIDE DEF n
  <2>a. Matches(k) \subseteq 1 .. n
    BY <1>a DEF Matches
  <2>1. IsFiniteSet(Matches(k))
    <3>1. 1 \in Int /\ n \in Int
      BY <1>a
    <3>2. IsFiniteSet(1 .. n)
      BY <3>1, FS_Interval
    <3> QED BY <2>a, <3>2, FS_Subset
  <2>2. PICK x : Matches(k) = {x}
    BY <2>1, FS_Singleton DEF UniqueMatch
  <2>3. x \in Nat
    BY <2>2, <2>a, <1>a
  <2>4. Min(Matches(k)) \in {x}
    BY <2>2, <2>3, MinIsLeast
  <2> QED BY <2>2, <2>4 DEF MatchOf
<1>2. ASSUME NEW k \in DOMAIN proposal.inputs
      PROVE  /\ MatchOf(k) \in DOMAIN proposal.supplied
             /\ proposal.supplied[MatchOf(k)].input = proposal.inputs[k]
  BY <1>1 DEF Matches
<1>3. ASSUME NEW j \in DOMAIN proposal.inputs, NEW k \in DOMAIN proposal.inputs,
             j # k
      PROVE  proposal.supplied[MatchOf(j)].resource
                # proposal.supplied[MatchOf(k)].resource
  BY <1>3 DEF DistinctResources, MatchedInputs, Normalized, IsInjective
<1>4. ASSUME NEW j \in DOMAIN proposal.supplied
      PROVE  \E k \in DOMAIN proposal.inputs : MatchOf(k) = j
  BY <1>1 DEF AllConsumed
<1>5. QED
  BY <1>1, <1>2, <1>3, <1>4

(***************************************************************************)
(* Whatever is proposed, an admitted session has exactly one resource for  *)
(* every input of the request and none besides (admit() of model.cpp).     *)
(***************************************************************************)
THEOREM AdmittedInputsCorrespond == ProjectionSpec => []InputsCorrespond
<1>1. Accepted => InputsCorrespond
  <2> SUFFICES ASSUME Accepted, verdict = "admitted"
               PROVE  \E f \in Correspondence(proposal) :
                        /\ DOMAIN inputs = DOMAIN f
                        /\ \A k \in DOMAIN f :
                            /\ inputs[k].input = proposal.inputs[k]
                            /\ inputs[k].resource = proposal.supplied[f[k]].resource
    BY DEF InputsCorrespond
  <2> DEFINE f == [k \in DOMAIN proposal.inputs |-> MatchOf(k)]
  <2>1. /\ Control /\ \A k \in DOMAIN proposal.inputs : UniqueMatch(k)
        /\ AllConsumed /\ inputs = MatchedInputs
        /\ DistinctResources(MatchedInputs)
    BY DEF Accepted, InputsAccepted, Past
  <2>2. f \in [DOMAIN proposal.inputs -> DOMAIN proposal.supplied]
    BY <2>1, MatchesCorrespond
  <2>3. \A k \in DOMAIN f : proposal.supplied[f[k]].input = proposal.inputs[k]
    BY <2>1, MatchesCorrespond
  <2>4. \A j, k \in DOMAIN f : j # k =>
            proposal.supplied[f[j]].resource # proposal.supplied[f[k]].resource
    BY <2>1, MatchesCorrespond
  <2>5. IsInjective(f)
    <3>1. \A j, k \in DOMAIN f : f[j] = f[k] => j = k
      BY <2>4
    <3> QED BY <3>1 DEF IsInjective
  <2>6. Range(f) = DOMAIN proposal.supplied
    <3>1. \A j \in DOMAIN proposal.supplied : \E k \in DOMAIN f : f[k] = j
      BY <2>1, MatchesCorrespond
    <3> HIDE DEF f
    <3>2. DOMAIN f = DOMAIN proposal.inputs
              /\ \A k \in DOMAIN f : f[k] \in DOMAIN proposal.supplied
      BY <2>2
    <3> QED BY <3>1, <3>2 DEF Range
  <2>7. \A k \in DOMAIN f :
            /\ inputs[k].input = proposal.inputs[k]
            /\ inputs[k].resource = proposal.supplied[f[k]].resource
    BY <2>1, <2>3 DEF MatchedInputs, Normalized
  <2>8. f \in Correspondence(proposal)
    <3> HIDE DEF f
    <3> QED BY <2>2, <2>3, <2>4, <2>5, <2>6 DEF Correspondence
  <2>9. DOMAIN inputs = DOMAIN f
    BY <2>1 DEF MatchedInputs
  <2> HIDE DEF f
  <2> QED BY <2>7, <2>8, <2>9
<1>2. QED
  BY <1>1, AcceptedAlways, PTL
-----------------------------------------------------------------------------
(***************************************************************************)
(* Normalization: the place of a path is a sequence of names.              *)
(***************************************************************************)
LEMMA NormalStepIsSequence ==
  ASSUME NEW done \in Seq(STRING), NEW part \in STRING
  PROVE  NormalStep(done, part) \in Seq(STRING)
<1>1. CASE part \in {Blank, "."}
  <2>1. part # ".."
    BY <1>1, Zenon DEF Blank
  <2>2. NormalStep(done, part) = done
    BY <1>1, <2>1 DEF NormalStep
  <2> QED BY <2>2
<1>2. CASE part \notin {Blank, "."} /\ part = ".."
  <2>1. CASE done = <<>>
    BY <1>2, <2>1 DEF NormalStep
  <2>2. CASE done # <<>>
    <3>1. Front(done) \in Seq(STRING)
      <4>1. \A i \in 1 .. Len(done) - 1 : done[i] \in STRING
        OBVIOUS
      <4>2. 1 \in Int /\ Len(done) - 1 \in Int
        BY LenProperties
      <4> QED BY <4>1, <4>2, SubSeqProperties DEF Front
    <3> QED BY <1>2, <2>2, <3>1 DEF NormalStep
  <2> QED BY <2>1, <2>2
<1>3. CASE part \notin {Blank, "."} /\ part # ".."
  <2>1. NormalStep(done, part) = Append(done, part)
    BY <1>3 DEF NormalStep
  <2>2. Append(done, part) \in Seq(STRING)
    BY AppendProperties
  <2> QED BY <2>1, <2>2
<1>4. QED
  BY <1>1, <1>2, <1>3

LEMMA PlaceIsSequence ==
  ASSUME NEW path \in AnyPath
  PROVE  /\ Place(path) \in Seq(STRING)
         /\ path.parts = <<>> => Place(path) = <<>>
         /\ path.parts # <<>> /\ Last(path.parts) \notin {Blank, ".", ".."}
                => Last(Place(path)) = Last(path.parts)
<1> DEFINE parts == path.parts
           n == Len(parts)
           Walk(f, m) == [k \in 0 .. m |->
                IF k = 0 THEN <<>> ELSE NormalStep(f[k - 1], parts[k])]
           done == CHOOSE f : f = Walk(f, n)
<1>1. parts \in Seq(STRING) /\ n \in Nat
  BY LenProperties DEF AnyPath
<1>2. Place(path) = done[n]
  BY DEF Place
<1>3. \E f : f = Walk(f, n)
  <2> DEFINE T == {m \in Nat : \E f : f = Walk(f, m)}
  <2>1. 0 \in T
    <3> DEFINE f == [k \in 0 .. 0 |-> <<>>]
    <3>1. f = Walk(f, 0)
      OBVIOUS
    <3> QED BY <3>1
  <2>2. ASSUME NEW m \in Nat, m \in T
        PROVE  m + 1 \in T
    <3>1. PICK f : f = Walk(f, m)
      BY <2>2
    <3> DEFINE g == [k \in 0 .. m + 1 |->
                IF k <= m THEN f[k] ELSE NormalStep(f[m], parts[m + 1])]
    <3>2. ASSUME NEW k \in 0 .. m + 1
          PROVE  g[k] = IF k = 0 THEN <<>> ELSE NormalStep(g[k - 1], parts[k])
      <4>1. CASE k = 0
        BY <3>1, <4>1
      <4>2. CASE k # 0 /\ k <= m
        <5>1. k \in 0 .. m /\ k - 1 \in 0 .. m + 1 /\ k - 1 <= m
          BY <4>2
        <5>2. g[k] = f[k] /\ g[k - 1] = f[k - 1]
          BY <4>2, <5>1
        <5>3. f[k] = NormalStep(f[k - 1], parts[k])
          BY <3>1, <4>2, <5>1
        <5> HIDE DEF g
        <5> QED BY <4>2, <5>2, <5>3
      <4>3. CASE k = m + 1
        <5>1. k # 0 /\ ~(k <= m) /\ k - 1 = m /\ m \in 0 .. m + 1
          BY <4>3
        <5>2. g[k] = NormalStep(f[m], parts[m + 1]) /\ g[k - 1] = f[m]
          BY <5>1, <4>3
        <5> HIDE DEF g
        <5> QED BY <4>3, <5>1, <5>2
      <4> QED BY <4>1, <4>2, <4>3
    <3>3. g = Walk(g, m + 1)
      <4>1. g = [k \in 0 .. m + 1 |-> g[k]]
        OBVIOUS
      <4> HIDE DEF g
      <4> QED BY <3>2, <4>1
    <3> HIDE DEF g
    <3> QED BY <3>3
  <2>3. Nat \subseteq T
    <3> HIDE DEF T
    <3> QED BY <2>1, <2>2, InductionOverNat
  <2> QED BY <2>3, <1>1
<1>4. done = Walk(done, n)
  <2> HIDE DEF n
  <2> QED BY <1>3
<1> HIDE DEF done
<1>a. done[0] = <<>>
  <2> HIDE DEF n
  <2>1. 0 \in 0 .. n
    BY <1>1
  <2> QED BY <1>4, <2>1
<1>5. \A k \in 0 .. n : done[k] \in Seq(STRING)
  <2> DEFINE T == {k \in Nat : k <= n => done[k] \in Seq(STRING)}
  <2> HIDE DEF n
  <2>1. 0 \in T
    <3>1. <<>> \in Seq(STRING) /\ 0 \in Nat
      OBVIOUS
    <3> QED BY <1>a, <3>1
  <2>2. ASSUME NEW m \in Nat, m \in T
        PROVE  m + 1 \in T
    <3> SUFFICES ASSUME m + 1 <= n
                 PROVE  done[m + 1] \in Seq(STRING)
      OBVIOUS
    <3>1. /\ m + 1 \in 0 .. n /\ m + 1 # 0 /\ m + 1 - 1 = m /\ m <= n
          /\ m + 1 \in 1 .. n
      BY <1>1
    <3>2. done[m + 1] = NormalStep(done[m], parts[m + 1])
      BY <1>4, <3>1
    <3>3. done[m] \in Seq(STRING) /\ parts[m + 1] \in STRING
      BY <1>1, <2>2, <3>1, ElementOfSeq DEF n
    <3> QED BY <3>2, <3>3, NormalStepIsSequence
  <2>3. Nat \subseteq T
    <3> HIDE DEF T
    <3> QED BY <2>1, <2>2, InductionOverNat
  <2> QED BY <2>3, <1>1
<1>6. /\ parts = <<>> => n = 0
      /\ 0 \in 0 .. n /\ n \in 0 .. n
  BY <1>1
<1>7. ASSUME parts # <<>>, Last(parts) \notin {Blank, ".", ".."}
      PROVE  Last(done[n]) = Last(parts)
  <2>1. n # 0 /\ Last(parts) = parts[n]
    BY <1>1, <1>7, EmptySeq DEF Last
  <2>2. n - 1 \in 0 .. n /\ parts[n] \in STRING
    BY <1>1, <2>1, ElementOfSeq
  <2> HIDE DEF n, parts
  <2>3. done[n] = NormalStep(done[n - 1], parts[n])
    BY <1>4, <1>6, <2>1
  <2>4. done[n] = Append(done[n - 1], parts[n])
    BY <1>7, <2>1, <2>3 DEF NormalStep
  <2>5. done[n - 1] \in Seq(STRING)
    BY <1>5, <2>2
  <2>6. Len(done[n]) = Len(done[n - 1]) + 1
        /\ done[n][Len(done[n - 1]) + 1] = parts[n]
    BY <2>2, <2>4, <2>5, AppendProperties
  <2> QED BY <2>1, <2>6 DEF Last
<1>8. QED
  BY <1>2, <1>5, <1>6, <1>7, <1>a
-----------------------------------------------------------------------------
(***************************************************************************)
(* lexically_normal() keeps the separator at the end of a path, and the    *)
(* comparison takes it for one more component (run trailing_separator).    *)
(* For proposals without such paths the check compares places.  A path of  *)
(* the artifact may end as it likes: one without a file name is refused.   *)
(***************************************************************************)
PlainPath(path) ==
    path.parts # <<>> => Last(path.parts) \notin {Blank, ".", ".."}
PlainProposal(p) ==
    /\ \A k \in DOMAIN p.objects : PlainPath(p.objects[k].path)
    /\ \A k \in DOMAIN p.supplied : PlainPath(p.supplied[k].path)
    /\ \A c \in Coordinate \ {"artifact"} : PlainPath(p.paths[c])

LEMMA PlainIsPlace ==
  ASSUME NEW path \in AnyPath, PlainPath(path)
  PROVE  Normal(path) = Place(path)
BY PlaceIsSequence DEF PlainPath, Normal

LEMMA NamedIsPlace ==
  ASSUME NEW path \in AnyPath, NamesFile(Normal(path))
  PROVE  Normal(path) = Place(path)
<1> DEFINE place == Place(path)
<1>1. place \in Seq(STRING)
  BY PlaceIsSequence
<1> HIDE DEF place
<1>2. CASE place # <<>> /\ Last(path.parts) \in {Blank, ".", ".."}
  <2>1. Normal(path) = Append(place, Blank)
    BY <1>2 DEF Normal, place
  <2> DEFINE S == STRING \cup {Blank}
  <2>2. place \in Seq(S) /\ Blank \in S
    BY <1>1, SeqMonotonic
  <2> HIDE DEF S
  <2>3. /\ Append(place, Blank) # <<>>
        /\ Len(Append(place, Blank)) = Len(place) + 1
        /\ Append(place, Blank)[Len(place) + 1] = Blank
    BY <2>2, AppendProperties
  <2>4. Last(Normal(path)) = Blank /\ Normal(path) # <<>>
    BY <2>1, <2>3 DEF Last
  <2> QED BY <2>4 DEF NamesFile
<1>3. CASE ~(place # <<>> /\ Last(path.parts) \in {Blank, ".", ".."})
  BY <1>3 DEF Normal, place
<1>4. QED
  BY <1>2, <1>3

\* What is compared in an admitted session is where the coordinates, the
\* inputs and the objects are.
LEMMA AdmittedPlaces ==
  ASSUME Accepted, PlainProposal(proposal), verdict = "admitted"
  PROVE  /\ paths = [c \in Coordinate |-> Place(proposal.paths[c])]
         /\ \A k \in DOMAIN proposal.objects :
                Normal(proposal.objects[k].path) = Place(proposal.objects[k].path)
         /\ DOMAIN inputs = DOMAIN proposal.inputs
         /\ \A k \in DOMAIN inputs :
                inputs[k].path = Place(proposal.supplied[MatchOf(k)].path)
         /\ \A j \in DOMAIN proposal.supplied : \E k \in DOMAIN inputs :
                j = MatchOf(k) /\ inputs[k].path = Place(proposal.supplied[j].path)
<1>1. /\ Control /\ \A k \in DOMAIN proposal.inputs : UniqueMatch(k)
      /\ AllConsumed /\ inputs = MatchedInputs
      /\ DistinctResources(MatchedInputs)
      /\ paths = NormalPaths /\ NamesFile(paths["artifact"])
  BY DEF Accepted, InputsAccepted, PathsAccepted, Past
<1>2. \A c \in Coordinate : Normal(proposal.paths[c]) = Place(proposal.paths[c])
  <2> TAKE c \in Coordinate
  <2>1. proposal.paths[c] \in AnyPath
    BY <1>1, Proposed DEF Control
  <2>2. CASE c = "artifact"
    BY <1>1, <2>1, <2>2, NamedIsPlace DEF NormalPaths
  <2>3. CASE c # "artifact"
    BY <2>1, <2>3, PlainIsPlace DEF PlainProposal
  <2> QED BY <2>2, <2>3
<1>3. \A k \in DOMAIN proposal.objects :
        Normal(proposal.objects[k].path) = Place(proposal.objects[k].path)
  BY <1>1, Proposed, PlainIsPlace DEF PlainProposal, Control
<1>4. \A k \in DOMAIN proposal.supplied :
        Normal(proposal.supplied[k].path) = Place(proposal.supplied[k].path)
  BY <1>1, Proposed, PlainIsPlace DEF PlainProposal, Control
<1>5. /\ DOMAIN inputs = DOMAIN proposal.inputs
      /\ \A k \in DOMAIN inputs :
            inputs[k].path = Normal(proposal.supplied[MatchOf(k)].path)
  BY <1>1 DEF MatchedInputs, Normalized
<1>6. \A k \in DOMAIN proposal.inputs : MatchOf(k) \in DOMAIN proposal.supplied
  BY <1>1, MatchesCorrespond
<1>7. \A j \in DOMAIN proposal.supplied :
        \E k \in DOMAIN proposal.inputs : MatchOf(k) = j
  BY <1>1, MatchesCorrespond
<1>8. paths = [c \in Coordinate |-> Place(proposal.paths[c])]
  BY <1>1, <1>2 DEF NormalPaths
<1>9. QED
  BY <1>3, <1>4, <1>5, <1>6, <1>7, <1>8

(***************************************************************************)
(* If no path that is proposed ends in a separator, nothing an admitted    *)
(* session writes to is, holds, or lies in another of its coordinates, an  *)
(* input or a source object (require_disjoint() in admit()).               *)
(***************************************************************************)
THEOREM PlainEffectsAreApart ==
  ASSUME \A p \in Proposal : PlainProposal(p)
  PROVE  ProjectionSpec => []AdmittedEffectsAreApart
<1>1. Accepted => AdmittedEffectsAreApart
  <2> SUFFICES ASSUME Accepted, verdict = "admitted", NEW c \in Effect
               PROVE  /\ \A d \in Coordinate \ {c} :
                            ~Meet(proposal.paths[c], proposal.paths[d])
                      /\ \A k \in DOMAIN proposal.supplied :
                            ~Meet(proposal.paths[c], proposal.supplied[k].path)
                      /\ \A k \in DOMAIN proposal.objects :
                            ~Meet(proposal.paths[c], proposal.objects[k].path)
    BY DEF AdmittedEffectsAreApart, EffectsAreApart
  <2>1. /\ PlainProposal(proposal) /\ LayoutIsDisjoint
        /\ c \in Coordinate \ {"root_view"}
    BY DEF Accepted, Control, LayoutAccepted, Past, Effect
  <2>2. \A d \in Coordinate : paths[d] = Place(proposal.paths[d])
    BY <2>1, AdmittedPlaces
  <2>3. \A d \in Coordinate \ {c} : ~Meet(proposal.paths[c], proposal.paths[d])
    <3> TAKE d \in Coordinate \ {c}
    <3>1. ~Overlaps(paths[c], paths[d])
      BY <2>1 DEF LayoutIsDisjoint
    <3> QED BY <2>1, <2>2, <3>1 DEF Overlaps, ContainsOrEquals, Meet
  <2>4. \A k \in DOMAIN proposal.supplied :
            ~Meet(proposal.paths[c], proposal.supplied[k].path)
    <3> TAKE j \in DOMAIN proposal.supplied
    <3>1. PICK k \in DOMAIN inputs :
                inputs[k].path = Place(proposal.supplied[j].path)
      BY <2>1, AdmittedPlaces
    <3>2. ~Overlaps(inputs[k].path, paths[c])
      BY <2>1, <3>1 DEF LayoutIsDisjoint
    <3> QED BY <2>1, <2>2, <3>1, <3>2 DEF Overlaps, ContainsOrEquals, Meet
  <2>5. \A k \in DOMAIN proposal.objects :
            ~Meet(proposal.paths[c], proposal.objects[k].path)
    <3> TAKE k \in DOMAIN proposal.objects
    <3>1. Normal(proposal.objects[k].path) = Place(proposal.objects[k].path)
      BY <2>1, AdmittedPlaces
    <3>2. ~Overlaps(Normal(proposal.objects[k].path), paths[c])
      BY <2>1 DEF LayoutIsDisjoint
    <3> QED BY <2>1, <2>2, <3>1, <3>2 DEF Overlaps, ContainsOrEquals, Meet
  <2>6. QED
    BY <2>3, <2>4, <2>5
<1>2. QED
  BY <1>1, AcceptedAlways, PTL
-----------------------------------------------------------------------------
\* Sorting keeps the elements of a sequence and puts them in order.
LEMMA SortedGroups ==
  ASSUME NEW seq \in Seq(Nat)
  PROVE  /\ Sorted(seq) \in Seq(Nat) /\ Len(Sorted(seq)) = Len(seq)
         /\ ToSet(Sorted(seq)) = ToSet(seq)
         /\ \A j, k \in 1 .. Len(seq) : j < k => Sorted(seq)[j] <= Sorted(seq)[k]
<1> DEFINE n == Len(seq)
           p == Sorting(seq)
           s == [k \in 1 .. n |-> seq[p[k]]]
<1>1. n \in Nat /\ seq \in [1 .. n -> Nat] /\ DOMAIN seq = 1 .. n
  BY LenProperties
<1> HIDE DEF n
<1>2. /\ \A k \in 1 .. n : p[k] \in 1 .. n
      /\ \A t \in 1 .. n : \E k \in 1 .. n : p[k] = t
      /\ \A i, j \in 1 .. n : i < j => seq[p[i]] <= seq[p[j]]
  <2>1. p \in [1 .. n -> 1 .. n]
    BY <1>1, SortingSorts
  <2>2. \A t \in 1 .. n : \E k \in 1 .. n : p[k] = t
    BY <1>1, SortingSorts
  <2>3. \A i, j \in 1 .. n : i < j => seq[p[i]] <= seq[p[j]]
    BY <1>1, SortingSorts
  <2> HIDE DEF p
  <2> QED BY <2>1, <2>2, <2>3
<1>3. Sorted(seq) = s
  BY <1>1 DEF Sorted, SortedBy
<1> HIDE DEF p
<1>4. s \in [1 .. n -> Nat]
  BY <1>1, <1>2
<1>5. s \in Seq(Nat) /\ Len(s) = n
  <2> HIDE DEF s
  <2> QED BY <1>1, <1>4, FunctionIsSeq
<1>6. ToSet(s) = ToSet(seq)
  <2>1. ToSet(seq) = {seq[k] : k \in 1 .. n}
    BY <1>1 DEF ToSet
  <2>2. ToSet(s) = {seq[p[k]] : k \in 1 .. n}
    BY DEF ToSet
  <2>3. ASSUME NEW k \in 1 .. n
        PROVE  seq[k] \in {seq[p[i]] : i \in 1 .. n}
    <3>1. PICK i \in 1 .. n : p[i] = k
      BY <1>2
    <3> QED BY <3>1
  <2>4. ASSUME NEW k \in 1 .. n
        PROVE  seq[p[k]] \in {seq[i] : i \in 1 .. n}
    BY <1>2
  <2> QED BY <2>1, <2>2, <2>3, <2>4
<1>7. QED
  BY <1>2, <1>3, <1>5, <1>6 DEF n

(***************************************************************************)
(* The admitted supplementary groups are those requested, each once and in *)
(* order, without the primary group and below the native maximum.          *)
(***************************************************************************)
THEOREM AdmittedCredentialsAreCanonical ==
  ProjectionSpec => []CredentialsAreCanonical
<1>1. Accepted => CredentialsAreCanonical
  <2> SUFFICES ASSUME Accepted, verdict = "admitted"
               PROVE  /\ ToSet(groups) = ToSet(proposal.credentials.groups)
                      /\ \A j, k \in DOMAIN groups : j < k => groups[j] < groups[k]
                      /\ proposal.credentials.gid \notin ToSet(groups)
                      /\ \A g \in ToSet(groups) : g < MaxId
    BY DEF CredentialsAreCanonical
  <2> DEFINE c == proposal.credentials
             n == Len(c.groups)
  <2>1. /\ groups = Sorted(c.groups)
        /\ \A i \in {c.uid, c.gid} \cup ToSet(c.groups) : i < MaxId
        /\ \A k \in 1 .. Len(groups) - 1 : groups[k] # groups[k + 1]
        /\ c.gid \notin ToSet(groups)
    BY DEF Accepted, CredentialsAccepted
  <2>2. c.groups \in Seq(Nat)
    BY Proposed DEF Accepted, Control
  <2>3. /\ groups \in Seq(Nat) /\ Len(groups) = n
        /\ ToSet(groups) = ToSet(c.groups)
        /\ \A j, k \in 1 .. n : j < k => groups[j] <= groups[k]
    BY <2>1, <2>2, SortedGroups
  <2>4. n \in Nat /\ DOMAIN groups = 1 .. n /\ \A k \in 1 .. n : groups[k] \in Nat
    BY <2>2, <2>3, LenProperties
  <2> HIDE DEF n, c
  <2>5. ASSUME NEW j \in 1 .. n, NEW k \in 1 .. n, j < k
        PROVE  groups[j] < groups[k]
    <3>1. k - 1 \in 1 .. n /\ k - 1 \in 1 .. n - 1 /\ k - 1 + 1 = k /\ k - 1 < k
      BY <2>4, <2>5
    <3>2. groups[k - 1] # groups[k] /\ groups[k - 1] <= groups[k]
      BY <2>1, <2>3, <3>1
    <3>3. groups[j] <= groups[k - 1]
      <4>1. CASE j = k - 1
        BY <4>1, <3>1, <2>4
      <4>2. CASE j # k - 1
        <5>1. j < k - 1
          BY <4>2, <2>4, <2>5
        <5> QED BY <5>1, <3>1, <2>3
      <4> QED BY <4>1, <4>2
    <3> QED BY <3>1, <3>2, <3>3, <2>4
  <2>6. QED
    BY <2>1, <2>3, <2>4, <2>5 DEF c
<1>2. QED
  BY <1>1, AcceptedAlways, PTL
-----------------------------------------------------------------------------
(***************************************************************************)
(* Projection: the layout and the materials are those of an admitted       *)
(* session, whose arguments no longer change.                              *)
(***************************************************************************)
Projected ==
    /\ request # "none" =>
        /\ verdict = "admitted"
        /\ request = "package_input_mismatch" <=> ~UniqueResources(Bindings)
    /\ request \in {"sealed", "bound"} =>
        bindings = Bindings /\ OneResourcePerMount(Bindings)
    /\ request = "bound" => materials = Materials

LEMMA ProjectionStands ==
  ASSUME UNCHANGED vars
  PROVE  Bindings' = Bindings /\ Materials' = Materials
<1>1. inputs' = inputs /\ paths' = paths /\ proposal' = proposal
  BY DEF vars
<1>2. \A k : SuppliedFor(k)' = SuppliedFor(k)
  BY <1>1 DEF SuppliedFor, SelectInSeq
<1>3. \A k : InputBinding(k)' = InputBinding(k)
  BY <1>1, <1>2 DEF InputBinding
<1>4. \A r : PreparedPath(r)' = PreparedPath(r)
  BY <1>1 DEF PreparedPath
<1>5. Bindings' = Bindings
  BY <1>1, <1>3 DEF Bindings
<1>6. Materials' = Materials
  BY <1>1, <1>2, <1>4 DEF Materials
<1>7. QED
  BY <1>5, <1>6

LEMMA AdmittedIsOver ==
  ASSUME Control, verdict = "admitted", Next
  PROVE  UNCHANGED vars
<1>1. stage = "done"
  BY DEF Control
<1>2. QED
  BY <1>1 DEF Next, Returned, Check, CheckPolicy, CheckSources, CheckInputs,
              CheckPaths, CheckLayout, CheckCredentials

LEMMA ProjectedAlways == ProjectionSpec => [](Accepted /\ Projected)
<1>1. ProjectionInit => Accepted /\ Projected
  BY AcceptedInit DEF ProjectionInit, Projected
<1>2. ASSUME Accepted, Projected, [ProjectionNext]_<<vars, pvars>>
      PROVE  Projected'
  <2>1. CASE UNCHANGED <<vars, pvars>>
    <3>1. UNCHANGED vars /\ UNCHANGED pvars /\ verdict' = verdict
      BY <2>1 DEF vars
    <3> QED BY <1>2, <3>1, ProjectionStands DEF Projected, pvars
  <2>2. CASE Next /\ UNCHANGED pvars
    <3>1. CASE request = "none"
      BY <2>2, <3>1 DEF Projected, pvars
    <3>2. CASE request # "none"
      <4>1. UNCHANGED vars
        BY <1>2, <2>2, <3>2, AdmittedIsOver DEF Accepted, Projected
      <4>2. verdict' = verdict
        BY <4>1 DEF vars
      <4> QED BY <1>2, <2>2, <4>1, <4>2, ProjectionStands DEF Projected, pvars
    <3> QED BY <3>1, <3>2
  <2>3. CASE SealExecutionRequest
    <3>1. UNCHANGED vars /\ verdict' = verdict /\ verdict = "admitted"
      BY <2>3 DEF SealExecutionRequest, vars
    <3>2. Bindings' = Bindings
      BY <3>1, ProjectionStands
    <3> QED BY <2>3, <3>1, <3>2 DEF SealExecutionRequest, Projected
  <2>4. CASE Materialize
    <3>1. UNCHANGED vars /\ verdict' = verdict
      BY <2>4 DEF Materialize, vars
    <3> QED BY <1>2, <2>4, <3>1, ProjectionStands DEF Materialize, Projected
  <2>5. QED
    BY <1>2, <2>1, <2>2, <2>3, <2>4 DEF ProjectionNext
<1>3. QED
  BY <1>1, <1>2, AcceptedProjection, PTL DEF ProjectionSpec

\* supplied_resource() finds the input itself: no two inputs are the same.
LEMMA SuppliedForItself ==
  ASSUME Accepted, verdict = "admitted", NEW k \in DOMAIN proposal.inputs
  PROVE  /\ SuppliedFor(k) = inputs[k]
         /\ inputs[k] = Normalized(proposal.supplied[MatchOf(k)])
<1> DEFINE n == Len(proposal.inputs)
           I == {i \in 1 .. Len(inputs) : inputs[i].input = proposal.inputs[k]}
<1>1. /\ Control /\ \A j \in DOMAIN proposal.inputs : UniqueMatch(j)
      /\ AllConsumed /\ inputs = MatchedInputs
      /\ DistinctResources(MatchedInputs)
  BY DEF Accepted, InputsAccepted, Past
<1>2. n \in Nat /\ DOMAIN proposal.inputs = 1 .. n
  BY <1>1, Proposed DEF Control
<1> HIDE DEF n
<1>3. /\ \A j \in 1 .. n : inputs[j] = Normalized(proposal.supplied[MatchOf(j)])
      /\ DOMAIN inputs = 1 .. n
  BY <1>1, <1>2 DEF MatchedInputs
<1>4. Len(inputs) = n
  <2> DEFINE S == {inputs[j] : j \in 1 .. n}
  <2>1. inputs \in [1 .. n -> S]
    BY <1>1, <1>2, <1>3 DEF MatchedInputs
  <2> HIDE DEF S
  <2> QED BY <1>2, <2>1, FunctionIsSeq
<1>5. \A j \in 1 .. n : inputs[j].input = proposal.inputs[j]
  BY <1>1, <1>2, <1>3, MatchesCorrespond DEF Normalized
<1>6. \A j \in 1 .. n : proposal.inputs[j] = proposal.inputs[k] => j = k
  <2> TAKE j \in 1 .. n
  <2>1. proposal.inputs[j] = proposal.inputs[k] => MatchOf(j) = MatchOf(k)
    BY DEF MatchOf, Matches
  <2> QED BY <1>1, <1>2, <2>1, MatchesCorrespond
<1>7. I = {k}
  BY <1>2, <1>4, <1>5, <1>6
<1>8. Min(I) = k
  <2>1. {k} \subseteq Nat /\ {k} # {}
    BY <1>2
  <2>2. Min({k}) \in {k}
    BY <2>1, MinIsLeast
  <2> HIDE DEF I
  <2> QED BY <1>7, <2>2
<1>9. SuppliedFor(k) = inputs[IF I # {} THEN Min(I) ELSE 0]
  BY DEF SuppliedFor, SelectInSeq
<1> HIDE DEF I
<1>10. SuppliedFor(k) = inputs[k]
  BY <1>7, <1>8, <1>9
<1>11. QED
  BY <1>2, <1>3, <1>10

(***************************************************************************)
(* Where the layout has the adapter's own resources: at both ends; the     *)
(* input k is the element after the k-th.  The materials are in the same   *)
(* order.                                                                  *)
(***************************************************************************)
InputCount == Len(proposal.inputs)
Position(role) == CASE role = "source" -> 1
                    [] role = "workspace" -> InputCount + 2
                    [] role = "output" -> InputCount + 3
                    [] role = "temporary" -> InputCount + 4
OwnPath(role) == IF role = "output" THEN paths["package_output"]
                 ELSE PreparedPath(role)

LEMMA OneThenThree ==
  ASSUME NEW S, NEW f \in Seq(S),
         NEW a \in S, NEW b \in S, NEW c \in S, NEW d \in S
  PROVE  LET n == Len(f)
             s == <<a>> \o f \o <<b, c, d>>
         IN
         /\ Len(s) = n + 4 /\ DOMAIN s = 1 .. n + 4
         /\ s[1] = a /\ \A k \in 1 .. n : s[k + 1] = f[k]
         /\ s[n + 2] = b /\ s[n + 3] = c /\ s[n + 4] = d
<1> DEFINE x == <<a>>
           y == <<b, c, d>>
           t == x \o f
           n == Len(f)
<1>a. x \in Seq(S) /\ y \in Seq(S)
  OBVIOUS
<1>1. x \in Seq(S) /\ Len(x) = 1 /\ x[1] = a
  OBVIOUS
<1>2. y \in Seq(S) /\ Len(y) = 3 /\ y[1] = b /\ y[2] = c /\ y[3] = d
  OBVIOUS
<1> HIDE DEF x, y
<1>3. /\ x \o f \in Seq(S) /\ Len(x \o f) = Len(x) + Len(f)
      /\ \A i \in 1 .. Len(x) : (x \o f)[i] = x[i]
      /\ \A i \in 1 .. Len(f) : (x \o f)[Len(x) + i] = f[i]
  BY <1>a, ConcatAt
<1>b. n \in Nat
  BY LenProperties
<1> HIDE DEF t, n
<1>4. /\ t \in Seq(S) /\ Len(t) = 1 + n
      /\ t[1] = a /\ \A k \in 1 .. n : t[1 + k] = f[k]
  <2>1. 1 \in 1 .. 1
    OBVIOUS
  <2> QED BY <1>1, <1>3, <2>1 DEF t, n
<1>5. /\ Len(t \o y) = 1 + n + 3 /\ DOMAIN (t \o y) = 1 .. 1 + n + 3
      /\ \A i \in 1 .. 1 + n : (t \o y)[i] = t[i]
      /\ \A i \in 1 .. 3 : (t \o y)[1 + n + i] = y[i]
  <2>1. /\ Len(t \o y) = Len(t) + Len(y) /\ DOMAIN (t \o y) = 1 .. Len(t) + Len(y)
        /\ \A i \in 1 .. Len(t) : (t \o y)[i] = t[i]
        /\ \A i \in 1 .. Len(y) : (t \o y)[Len(t) + i] = y[i]
    <3>1. t \in Seq(S)
      BY <1>4
    <3> QED BY <1>a, <3>1, ConcatAt
  <2> QED BY <1>2, <1>4, <1>b, <2>1
<1>6. /\ 1 + n + 3 = n + 4 /\ 1 \in 1 .. 1 + n
      /\ \A k \in 1 .. n : 1 + k \in 1 .. 1 + n /\ 1 + k = k + 1
  BY <1>b
<1>7. (t \o y)[1] = a /\ \A k \in 1 .. n : (t \o y)[k + 1] = f[k]
  BY <1>4, <1>5, <1>6
<1>8. /\ 1 \in 1 .. 3 /\ 2 \in 1 .. 3 /\ 3 \in 1 .. 3
      /\ 1 + n + 1 = n + 2 /\ 1 + n + 2 = n + 3
  BY <1>b
<1>9. (t \o y)[n + 2] = b /\ (t \o y)[n + 3] = c /\ (t \o y)[n + 4] = d
  BY <1>2, <1>5, <1>6, <1>8
<1>10. QED
  BY <1>5, <1>6, <1>7, <1>9 DEF t, x, y, n

LEMMA LayoutShape ==
  ASSUME Accepted, verdict = "admitted"
  PROVE  /\ InputCount \in Nat /\ DOMAIN proposal.inputs = 1 .. InputCount
         /\ DOMAIN Bindings = 1 .. InputCount + 4
         /\ DOMAIN Materials = 1 .. InputCount + 4
         /\ \A role \in Role :
                /\ Bindings[Position(role)] = Own(role)
                /\ Materials[Position(role)] =
                        [resource |-> OwnResource[role], path |-> OwnPath(role)]
         /\ \A k \in 1 .. InputCount :
                /\ Bindings[k + 1] = Binding(inputs[k].resource, "read_only",
                                        InputMount(Package[proposal.inputs[k]]))
                /\ Materials[k + 1] = [resource |-> inputs[k].resource,
                                       path |-> inputs[k].path]
<1> DEFINE n == InputCount
<1>1. n \in Nat /\ DOMAIN proposal.inputs = 1 .. n
  BY Proposed DEF Accepted, Control, InputCount
<1> HIDE DEF n
<1>2. \A k \in 1 .. n : SuppliedFor(k) = inputs[k]
  BY <1>1, SuppliedForItself
<1> DEFINE f == [k \in 1 .. n |-> InputBinding(k)]
           g == [k \in 1 .. n |-> [resource |-> SuppliedFor(k).resource,
                                   path |-> SuppliedFor(k).path]]
           own(role) == [resource |-> OwnResource[role], path |-> OwnPath(role)]
<1>3. Bindings = <<Own("source")>> \o f
                    \o <<Own("workspace"), Own("output"), Own("temporary")>>
  BY <1>1 DEF Bindings
<1>4. Materials = <<own("source")>> \o g
                    \o <<own("workspace"), own("output"), own("temporary")>>
  BY <1>1 DEF Materials, OwnPath
<1> DEFINE F == {InputBinding(k) : k \in 1 .. n}
           G == {[resource |-> SuppliedFor(k).resource,
                  path |-> SuppliedFor(k).path] : k \in 1 .. n}
<1>5. f \in Seq(F) /\ Len(f) = n /\ g \in Seq(G) /\ Len(g) = n
  <2>1. f \in [1 .. n -> F] /\ g \in [1 .. n -> G]
    OBVIOUS
  <2> HIDE DEF f, g, F, G
  <2> QED BY <1>1, <2>1, FunctionIsSeq
<1>6. /\ \A k \in 1 .. n : f[k] = Binding(inputs[k].resource, "read_only",
                                    InputMount(Package[proposal.inputs[k]]))
      /\ \A k \in 1 .. n : g[k] = [resource |-> inputs[k].resource,
                                   path |-> inputs[k].path]
  BY <1>2 DEF InputBinding
<1> HIDE DEF f, g, F, G
<1>7. /\ DOMAIN Bindings = 1 .. n + 4
      /\ Bindings[1] = Own("source") /\ \A k \in 1 .. n : Bindings[k + 1] = f[k]
      /\ Bindings[n + 2] = Own("workspace") /\ Bindings[n + 3] = Own("output")
      /\ Bindings[n + 4] = Own("temporary")
  <2> DEFINE a == Own("source") b == Own("workspace")
             c == Own("output") d == Own("temporary")
             S == F \cup {a, b, c, d}
  <2> HIDE DEF a, b, c, d
  <2>1. f \in Seq(S) /\ a \in S /\ b \in S /\ c \in S /\ d \in S
    BY <1>5, SeqMonotonic
  <2> HIDE DEF S
  <2>2. Bindings = <<a>> \o f \o <<b, c, d>>
    BY <1>3 DEF a, b, c, d
  <2>3. /\ DOMAIN Bindings = 1 .. n + 4
        /\ Bindings[1] = a /\ \A k \in 1 .. n : Bindings[k + 1] = f[k]
        /\ Bindings[n + 2] = b /\ Bindings[n + 3] = c /\ Bindings[n + 4] = d
    BY <1>1, <1>5, <2>1, <2>2, OneThenThree
  <2> QED BY <2>3 DEF a, b, c, d
<1>8. /\ DOMAIN Materials = 1 .. n + 4
      /\ Materials[1] = own("source") /\ \A k \in 1 .. n : Materials[k + 1] = g[k]
      /\ Materials[n + 2] = own("workspace") /\ Materials[n + 3] = own("output")
      /\ Materials[n + 4] = own("temporary")
  <2> DEFINE a == own("source") b == own("workspace")
             c == own("output") d == own("temporary")
             S == G \cup {a, b, c, d}
  <2>1. Materials = <<a>> \o g \o <<b, c, d>>
    BY <1>4
  <2> HIDE DEF a, b, c, d
  <2>a. g \in Seq(S) /\ a \in S /\ b \in S /\ c \in S /\ d \in S
    BY <1>5, SeqMonotonic
  <2> HIDE DEF S
  <2>2. /\ DOMAIN Materials = 1 .. n + 4
        /\ Materials[1] = a /\ \A k \in 1 .. n : Materials[k + 1] = g[k]
        /\ Materials[n + 2] = b /\ Materials[n + 3] = c /\ Materials[n + 4] = d
    BY <1>1, <1>5, <2>a, <2>1, OneThenThree
  <2> QED BY <2>2 DEF a, b, c, d
<1>9. /\ Position("source") = 1 /\ Position("workspace") = n + 2
      /\ Position("output") = n + 3 /\ Position("temporary") = n + 4
  BY DEF Position, n
<1> HIDE DEF own
<1>10. \A role \in Role : Bindings[Position(role)] = Own(role)
                          /\ Materials[Position(role)] = own(role)
  BY <1>7, <1>8, <1>9 DEF Role
<1>11. QED
  BY <1>1, <1>6, <1>7, <1>8, <1>10 DEF n, own

LEMMA Positions ==
  ASSUME InputCount \in Nat
  PROVE  /\ \A role \in Role : /\ Position(role) \in 1 .. InputCount + 4
                               /\ \A k \in 1 .. InputCount : Position(role) # k + 1
         /\ \A r, s \in Role : Position(r) = Position(s) => r = s
         /\ \A i \in 1 .. InputCount + 4 :
                \/ \E role \in Role : i = Position(role)
                \/ \E k \in 1 .. InputCount : i = k + 1
         /\ \A k \in 1 .. InputCount : k + 1 \in 1 .. InputCount + 4
<1> DEFINE n == InputCount
<1>1. /\ Position("source") = 1 /\ Position("workspace") = n + 2
      /\ Position("output") = n + 3 /\ Position("temporary") = n + 4
  BY DEF Position
<1> HIDE DEF n
<1>2. n \in Nat
  BY DEF n
<1>3. \A role \in Role : /\ Position(role) \in 1 .. n + 4
                         /\ \A k \in 1 .. n : Position(role) # k + 1
  <2> TAKE role \in Role
  <2>1. Position(role) \in {1, n + 2, n + 3, n + 4}
    BY <1>1 DEF Role
  <2> QED BY <1>2, <2>1
<1>4. \A r, s \in Role : Position(r) = Position(s) => r = s
  BY <1>1, <1>2 DEF Role
<1>5. ASSUME NEW i \in 1 .. n + 4
      PROVE  \/ \E role \in Role : i = Position(role)
             \/ \E k \in 1 .. n : i = k + 1
  <2>1. CASE i \in {1, n + 2, n + 3, n + 4}
    <3>1. "source" \in Role /\ "workspace" \in Role /\ "output" \in Role
          /\ "temporary" \in Role
      BY DEF Role
    <3> QED BY <1>1, <2>1, <3>1
  <2>2. CASE i \notin {1, n + 2, n + 3, n + 4}
    <3>1. i - 1 \in 1 .. n /\ i = i - 1 + 1
      BY <1>2, <2>2
    <3> QED BY <3>1
  <2> QED BY <2>1, <2>2
<1>6. \A k \in 1 .. n : k + 1 \in 1 .. n + 4
  BY <1>2
<1>7. QED
  BY <1>3, <1>4, <1>5, <1>6 DEF n

\* The inputs of an admitted session have resources of their own, which are
\* those supplied.
LEMMA InputResources ==
  ASSUME Accepted, verdict = "admitted"
  PROVE  /\ \A j, k \in DOMAIN proposal.inputs :
                inputs[j].resource = inputs[k].resource => j = k
         /\ \A s \in ToSet(proposal.supplied) : \E k \in DOMAIN proposal.inputs :
                inputs[k].resource = s.resource
         /\ \A k \in DOMAIN proposal.inputs :
                /\ MatchOf(k) \in DOMAIN proposal.supplied
                /\ inputs[k].input = proposal.inputs[k]
                /\ inputs[k].resource = proposal.supplied[MatchOf(k)].resource
<1>1. /\ Control /\ \A j \in DOMAIN proposal.inputs : UniqueMatch(j)
      /\ AllConsumed /\ DistinctResources(MatchedInputs)
  BY DEF Accepted, InputsAccepted, Past
<1>2. \A k \in DOMAIN proposal.inputs :
        inputs[k] = Normalized(proposal.supplied[MatchOf(k)])
  BY SuppliedForItself
<1>3. \A k \in DOMAIN proposal.inputs :
        /\ inputs[k].resource = proposal.supplied[MatchOf(k)].resource
        /\ inputs[k].input = proposal.supplied[MatchOf(k)].input
  <2> TAKE k \in DOMAIN proposal.inputs
  <2>1. inputs[k] = Normalized(proposal.supplied[MatchOf(k)])
    BY <1>2
  <2> QED BY <2>1 DEF Normalized
<1>4. /\ \A k \in DOMAIN proposal.inputs :
            /\ MatchOf(k) \in DOMAIN proposal.supplied
            /\ proposal.supplied[MatchOf(k)].input = proposal.inputs[k]
      /\ \A j, k \in DOMAIN proposal.inputs : j # k =>
            proposal.supplied[MatchOf(j)].resource
                # proposal.supplied[MatchOf(k)].resource
      /\ \A j \in DOMAIN proposal.supplied :
            \E k \in DOMAIN proposal.inputs : MatchOf(k) = j
  BY <1>1, MatchesCorrespond
<1>5. ASSUME NEW s \in ToSet(proposal.supplied)
      PROVE  \E k \in DOMAIN proposal.inputs : inputs[k].resource = s.resource
  <2>1. PICK j \in DOMAIN proposal.supplied : s = proposal.supplied[j]
    BY DEF ToSet
  <2>2. PICK k \in DOMAIN proposal.inputs : MatchOf(k) = j
    BY <1>4
  <2> QED BY <1>3, <2>1, <2>2
<1>6. QED
  BY <1>3, <1>4, <1>5

LEMMA UniqueUnlessAliased ==
  ASSUME Accepted, verdict = "admitted"
  PROVE  UniqueResources(Bindings) <=>
            ~\E s \in ToSet(proposal.supplied) : s.resource \in Range(OwnResource)
<1> DEFINE n == InputCount
           At(i) == Bindings[i].resource
<1>1. /\ n \in Nat /\ DOMAIN proposal.inputs = 1 .. n
      /\ DOMAIN Bindings = 1 .. n + 4
      /\ \A role \in Role : At(Position(role)) = OwnResource[role]
      /\ \A k \in 1 .. n : At(k + 1) = inputs[k].resource
  <2>1. /\ n \in Nat /\ DOMAIN proposal.inputs = 1 .. n
        /\ DOMAIN Bindings = 1 .. n + 4
        /\ \A role \in Role : Bindings[Position(role)] = Own(role)
        /\ \A k \in 1 .. n : Bindings[k + 1] = Binding(inputs[k].resource,
                "read_only", InputMount(Package[proposal.inputs[k]]))
    BY LayoutShape
  <2>2. \A r, a, m : Binding(r, a, m).resource = r
    BY DEF Binding
  <2>3. \A role : Own(role).resource = OwnResource[role]
    BY <2>2 DEF Own
  <2> QED BY <2>1, <2>2, <2>3
<1>2. /\ \A role \in Role : Position(role) \in 1 .. n + 4
      /\ \A role \in Role : \A k \in 1 .. n : Position(role) # k + 1
      /\ \A r, s \in Role : Position(r) = Position(s) => r = s
      /\ \A i \in 1 .. n + 4 : \/ \E role \in Role : i = Position(role)
                               \/ \E k \in 1 .. n : i = k + 1
      /\ \A k \in 1 .. n : k + 1 \in 1 .. n + 4
  BY <1>1, Positions
<1>3. UniqueResources(Bindings) <=>
        \A i, j \in 1 .. n + 4 : At(i) = At(j) => i = j
  BY <1>1 DEF UniqueResources, IsInjective
<1>4. /\ \A r, s \in Role : OwnResource[r] = OwnResource[s] => r = s
      /\ Range(OwnResource) = {OwnResource[r] : r \in Role}
  BY OwnResourceAssumption DEF IsInjective, Range
<1> HIDE DEF n, At
<1>5. ASSUME NEW s \in ToSet(proposal.supplied), s.resource \in Range(OwnResource),
             UniqueResources(Bindings)
      PROVE  FALSE
  <2>1. PICK role \in Role : s.resource = OwnResource[role]
    BY <1>4, <1>5
  <2>2. PICK k \in 1 .. n : inputs[k].resource = s.resource
    BY <1>1, InputResources
  <2>3. At(Position(role)) = At(k + 1)
    BY <1>1, <2>1, <2>2
  <2> QED BY <1>2, <1>3, <1>5, <2>3
<1>6. ASSUME ~\E s \in ToSet(proposal.supplied) : s.resource \in Range(OwnResource),
             NEW i \in 1 .. n + 4, NEW j \in 1 .. n + 4, At(i) = At(j)
      PROVE  i = j
  <2>1. ASSUME NEW role \in Role, NEW k \in 1 .. n,
               OwnResource[role] = inputs[k].resource
        PROVE  FALSE
    <3>1. /\ MatchOf(k) \in DOMAIN proposal.supplied
          /\ inputs[k].resource = proposal.supplied[MatchOf(k)].resource
      BY <1>1, InputResources
    <3>2. proposal.supplied[MatchOf(k)] \in ToSet(proposal.supplied)
      BY <3>1 DEF ToSet
    <3> QED BY <1>4, <1>6, <2>1, <3>1, <3>2
  <2>2. CASE \E r \in Role : i = Position(r)
    <3>1. PICK r \in Role : i = Position(r)
      BY <2>2
    <3>2. CASE \E s \in Role : j = Position(s)
      BY <1>1, <1>4, <1>6, <3>1, <3>2
    <3>3. CASE \E k \in 1 .. n : j = k + 1
      <4>1. PICK k \in 1 .. n : j = k + 1
        BY <3>3
      <4>2. OwnResource[r] = inputs[k].resource
        BY <1>1, <1>6, <3>1, <4>1
      <4> QED BY <2>1, <4>2
    <3> QED BY <1>2, <3>2, <3>3
  <2>3. CASE \E k \in 1 .. n : i = k + 1
    <3>1. PICK k \in 1 .. n : i = k + 1
      BY <2>3
    <3>2. CASE \E s \in Role : j = Position(s)
      BY <1>1, <1>6, <2>1, <3>1, <3>2
    <3>3. CASE \E m \in 1 .. n : j = m + 1
      <4>1. PICK m \in 1 .. n : j = m + 1
        BY <3>3
      <4>2. inputs[k].resource = inputs[m].resource
        BY <1>1, <1>6, <3>1, <4>1
      <4>3. k = m
        BY <1>1, <4>2, InputResources
      <4> QED BY <3>1, <4>1, <4>3
    <3> QED BY <1>2, <3>2, <3>3
  <2> QED BY <1>2, <2>2, <2>3
<1>7. QED
  BY <1>3, <1>5, <1>6

(***************************************************************************)
(* seal_execution_request() refuses a request as a mismatch if and only if *)
(* a supplied resource is one of the adapter's own.                        *)
(***************************************************************************)
THEOREM MismatchIsAlias == ProjectionSpec => []OnlyAliasesMismatch
<1>1. Accepted /\ Projected => OnlyAliasesMismatch
  BY UniqueUnlessAliased DEF Projected, OnlyAliasesMismatch
<1>2. QED
  BY <1>1, ProjectedAlways, PTL
-----------------------------------------------------------------------------
(***************************************************************************)
(* What is bound: a resource identity names one element of the layout and  *)
(* the host path at the same position.                                     *)
(***************************************************************************)
LEMMA OneHostPath ==
  ASSUME Accepted, Projected, request = "bound"
  PROVE  /\ verdict = "admitted" /\ bindings = Bindings
         /\ OneResourcePerMount(Bindings)
         /\ ToSet(bindings) = {Bindings[i] : i \in 1 .. InputCount + 4}
         /\ ToSet(materials) = {Materials[i] : i \in 1 .. InputCount + 4}
         /\ \A i, j \in 1 .. InputCount + 4 :
                Bindings[i].resource = Materials[j].resource => i = j
         /\ \A i \in 1 .. InputCount + 4 :
                Bindings[i].resource = Materials[i].resource
<1> DEFINE n == InputCount
<1>1. /\ verdict = "admitted" /\ bindings = Bindings /\ materials = Materials
      /\ OneResourcePerMount(Bindings) /\ UniqueResources(Bindings)
  BY DEF Projected
<1>2. /\ n \in Nat
      /\ DOMAIN Bindings = 1 .. n + 4 /\ DOMAIN Materials = 1 .. n + 4
      /\ \A role \in Role :
            /\ Bindings[Position(role)] = Own(role)
            /\ Materials[Position(role)] =
                    [resource |-> OwnResource[role], path |-> OwnPath(role)]
      /\ \A k \in 1 .. n :
            /\ Bindings[k + 1] = Binding(inputs[k].resource, "read_only",
                                    InputMount(Package[proposal.inputs[k]]))
            /\ Materials[k + 1] = [resource |-> inputs[k].resource,
                                   path |-> inputs[k].path]
  BY <1>1, LayoutShape
<1>3. \A i \in 1 .. n + 4 : \/ \E role \in Role : i = Position(role)
                            \/ \E k \in 1 .. n : i = k + 1
  BY <1>2, Positions
<1> HIDE DEF n
<1>4. \A i \in 1 .. n + 4 : Bindings[i].resource = Materials[i].resource
  <2> TAKE i \in 1 .. n + 4
  <2>a. /\ \A r, a, m : Binding(r, a, m).resource = r
        /\ \A role : Own(role).resource = OwnResource[role]
    BY DEF Own, Binding
  <2>1. CASE \E role \in Role : i = Position(role)
    <3>1. PICK role \in Role : i = Position(role)
      BY <2>1
    <3>2. /\ Bindings[i] = Own(role)
          /\ Materials[i] = [resource |-> OwnResource[role], path |-> OwnPath(role)]
      BY <1>2, <3>1
    <3> QED BY <2>a, <3>2
  <2>2. CASE \E k \in 1 .. n : i = k + 1
    <3>1. PICK k \in 1 .. n : i = k + 1
      BY <2>2
    <3>2. /\ Bindings[i] = Binding(inputs[k].resource, "read_only",
                                   InputMount(Package[proposal.inputs[k]]))
          /\ Materials[i] = [resource |-> inputs[k].resource,
                             path |-> inputs[k].path]
      BY <1>2, <3>1
    <3> QED BY <2>a, <3>2
  <2> QED BY <1>3, <2>1, <2>2
<1>5. \A i, j \in 1 .. n + 4 :
        Bindings[i].resource = Bindings[j].resource => i = j
  BY <1>1, <1>2 DEF UniqueResources, IsInjective
<1>6. \A i, j \in 1 .. n + 4 :
        Bindings[i].resource = Materials[j].resource => i = j
  BY <1>4, <1>5
<1>7. /\ ToSet(bindings) = {Bindings[i] : i \in 1 .. n + 4}
      /\ ToSet(materials) = {Materials[i] : i \in 1 .. n + 4}
  BY <1>1, <1>2 DEF ToSet
<1>8. QED
  BY <1>1, <1>4, <1>6, <1>7 DEF n

\* The inputs, and nothing of the adapter's own, are beneath /build/inputs.
LEMMA InputMounts ==
  /\ \A x : IsPrefix(<<"build", "inputs">>, InputMount(x))
  /\ \A role \in Role : ~IsPrefix(<<"build", "inputs">>, MountOf(role))
<1> DEFINE top == <<"build", "inputs">>
           Name == {"build", "inputs", "source", "work", "package", "tmp"}
<1>c. /\ "build" \in Name /\ "inputs" \in Name /\ "source" \in Name
      /\ "work" \in Name /\ "package" \in Name /\ "tmp" \in Name
  OBVIOUS
<1> HIDE DEF Name
<1>a. top \in Seq(Name)
  BY <1>c
<1>b. Len(top) = 2 /\ top[1] = "build" /\ top[2] = "inputs"
  OBVIOUS
<1>1. 1 .. 2 = {1, 2}
  OBVIOUS
<1> HIDE DEF top
<1>2. ASSUME NEW x
      PROVE  IsPrefix(top, InputMount(x))
  <2> DEFINE S == Name \cup {x}
             mount == InputMount(x)
  <2>1. "build" \in S /\ "inputs" \in S /\ x \in S
    BY <1>c
  <2>2. top \in Seq(S)
    BY <1>a, SeqMonotonic
  <2> HIDE DEF S
  <2>3. mount \in Seq(S)
    BY <2>1 DEF InputMount
  <2>4. Len(mount) = 3 /\ mount[1] = "build" /\ mount[2] = "inputs"
    BY DEF InputMount
  <2> HIDE DEF mount
  <2>5. Len(top) <= Len(mount) /\ \A i \in 1 .. Len(top) : top[i] = mount[i]
    BY <1>1, <1>b, <2>4
  <2>6. IsPrefix(top, mount)
    BY <2>2, <2>3, <2>5, PrefixAgrees
  <2> QED BY <2>6 DEF mount
<1>3. ASSUME NEW role \in Role
      PROVE  ~IsPrefix(top, MountOf(role))
  <2> DEFINE mount == MountOf(role)
  <2>a. mount \in {<<"build", "source">>, <<"build", "work">>,
                   <<"build", "package">>, <<"tmp">>}
    BY DEF MountOf, Role
  <2>1. mount \in Seq(Name)
    <3>1. <<"build", "source">> \in Seq(Name)
      BY <1>c
    <3>2. <<"build", "work">> \in Seq(Name)
      BY <1>c
    <3>3. <<"build", "package">> \in Seq(Name)
      BY <1>c
    <3>4. <<"tmp">> \in Seq(Name)
      BY <1>c
    <3> QED BY <2>a, <3>1, <3>2, <3>3, <3>4
  <2>b. Len(mount) = 1 \/ mount[2] # "inputs"
    BY <2>a
  <2> HIDE DEF mount
  <2>2. ~(Len(top) <= Len(mount) /\ \A i \in 1 .. Len(top) : top[i] = mount[i])
    BY <1>1, <1>b, <2>b
  <2>3. ~IsPrefix(top, mount)
    BY <1>a, <2>1, <2>2, PrefixAgrees
  <2> QED BY <2>3 DEF mount
<1>4. QED
  BY <1>2, <1>3 DEF top

(***************************************************************************)
(* If no path that is proposed ends in a separator, the build program      *)
(* finds every package of the request under its name, at the host path     *)
(* supplied for it (resource_binding and materialization of the inputs).   *)
(***************************************************************************)
THEOREM PlainInputsReachTheBuild ==
  ASSUME \A p \in Proposal : PlainProposal(p)
  PROVE  ProjectionSpec => []InputsReachTheBuild
<1>1. Accepted /\ Projected => InputsReachTheBuild
  <2> SUFFICES ASSUME Accepted, Projected, request = "bound"
               PROVE  InputsReachTheBuild
    BY DEF InputsReachTheBuild
  <2> DEFINE n == InputCount
             Mount(k) == InputMount(Package[proposal.inputs[k]])
  <2>1. /\ verdict = "admitted" /\ bindings = Bindings
        /\ OneResourcePerMount(Bindings)
        /\ ToSet(bindings) = {Bindings[i] : i \in 1 .. n + 4}
        /\ ToSet(materials) = {Materials[i] : i \in 1 .. n + 4}
        /\ \A i, j \in 1 .. n + 4 :
                Bindings[i].resource = Materials[j].resource => i = j
        /\ \A i \in 1 .. n + 4 : Bindings[i].resource = Materials[i].resource
    BY OneHostPath
  <2>2. /\ n \in Nat /\ DOMAIN proposal.inputs = 1 .. n
        /\ DOMAIN Bindings = 1 .. n + 4
        /\ \A role \in Role : Bindings[Position(role)] = Own(role)
        /\ \A k \in 1 .. n :
            /\ Bindings[k + 1] = Binding(inputs[k].resource, "read_only", Mount(k))
            /\ Materials[k + 1] = [resource |-> inputs[k].resource,
                                   path |-> inputs[k].path]
    BY <2>1, LayoutShape
  <2>3. /\ \A role \in Role : Position(role) \in 1 .. n + 4
        /\ \A i \in 1 .. n + 4 : \/ \E role \in Role : i = Position(role)
                                 \/ \E k \in 1 .. n : i = k + 1
        /\ \A k \in 1 .. n : k + 1 \in 1 .. n + 4
    BY <2>2, Positions
  <2>4. ToSet(proposal.inputs) = {proposal.inputs[k] : k \in 1 .. n}
    BY <2>2 DEF ToSet
  <2>5. /\ \A role \in Role : Bindings[Position(role)].mount = MountOf(role)
        /\ \A k \in 1 .. n : /\ Bindings[k + 1].mount = Mount(k)
                             /\ Bindings[k + 1].access = "read_only"
    <3>1. \A r, a, m : /\ Binding(r, a, m).mount = m
                       /\ Binding(r, a, m).access = a
      BY DEF Binding
    <3>2. \A role : Own(role).mount = MountOf(role)
      BY <3>1 DEF Own
    <3> HIDE DEF n, Mount
    <3>3. \A role \in Role : Bindings[Position(role)].mount = MountOf(role)
      BY <2>2, <3>2
    <3>4. \A k \in 1 .. n : /\ Bindings[k + 1].mount = Mount(k)
                            /\ Bindings[k + 1].access = "read_only"
      <4> TAKE k \in 1 .. n
      <4>1. Bindings[k + 1] = Binding(inputs[k].resource, "read_only", Mount(k))
        BY <2>2
      <4> QED BY <3>1, <4>1
    <3> QED BY <3>3, <3>4
  <2>6. \A i, j \in 1 .. n + 4 : Bindings[i].mount = Bindings[j].mount => i = j
    BY <2>1, <2>2 DEF OneResourcePerMount, IsInjective
  <2>7. \A k \in 1 .. n :
            /\ MatchOf(k) \in DOMAIN proposal.supplied
            /\ inputs[k].input = proposal.inputs[k]
            /\ inputs[k].resource = proposal.supplied[MatchOf(k)].resource
    BY <2>1, <2>2, InputResources
  <2>8. \A k \in 1 .. n :
            inputs[k].path = Place(proposal.supplied[MatchOf(k)].path)
    BY <2>1, <2>2, AdmittedPlaces DEF Accepted, Control
  <2>9. \A k \in 1 .. n : proposal.supplied[MatchOf(k)].input = proposal.inputs[k]
    BY <2>1, <2>2, MatchesCorrespond DEF Accepted, InputsAccepted, Past
  <2> HIDE DEF n
  <2>10. \A i \in 1 .. n + 4 :
            IsPrefix(<<"build", "inputs">>, Bindings[i].mount)
                <=> \E k \in 1 .. n : i = k + 1
    <3> DEFINE Within(m) == IsPrefix(<<"build", "inputs">>, m)
    <3>1. /\ \A role \in Role : ~Within(MountOf(role))
          /\ \A k \in 1 .. n : Within(Mount(k))
      BY InputMounts
    <3> HIDE DEF Within, Mount
    <3>2. \A i \in 1 .. n + 4 : Within(Bindings[i].mount)
                                    <=> \E k \in 1 .. n : i = k + 1
      BY <2>3, <2>5, <3>1
    <3> QED BY <3>2 DEF Within
  <2>11. {b.mount : b \in {c \in ToSet(bindings) :
                IsPrefix(<<"build", "inputs">>, c.mount)}}
            = {InputMount(Package[i]) : i \in ToSet(proposal.inputs)}
    <3> DEFINE Within(m) == IsPrefix(<<"build", "inputs">>, m)
               found == {b.mount : b \in {c \in ToSet(bindings) : Within(c.mount)}}
    <3>1. \A i \in 1 .. n + 4 : Within(Bindings[i].mount)
                                    <=> \E k \in 1 .. n : i = k + 1
      BY <2>10
    <3> HIDE DEF Within
    <3>2. found = {Bindings[i].mount : i \in {j \in 1 .. n + 4 :
                                                Within(Bindings[j].mount)}}
      BY <2>1
    <3>3. {j \in 1 .. n + 4 : Within(Bindings[j].mount)} = {k + 1 : k \in 1 .. n}
      BY <2>3, <3>1
    <3>4. found = {Bindings[i].mount : i \in {k + 1 : k \in 1 .. n}}
      BY <3>2, <3>3
    <3>5. found = {Bindings[k + 1].mount : k \in 1 .. n}
      BY <3>4
    <3>6. found = {Mount(k) : k \in 1 .. n}
      BY <2>5, <3>5
    <3>7. found = {InputMount(Package[i]) : i \in ToSet(proposal.inputs)}
      BY <2>4, <3>6
    <3> QED BY <3>7 DEF Within
  <2>12. ASSUME NEW i \in ToSet(proposal.inputs)
         PROVE  LET seen == {b \in ToSet(bindings) :
                                b.mount = InputMount(Package[i])}
                    host == {m \in ToSet(materials) :
                                \E b \in seen : b.resource = m.resource}
                IN
                /\ Cardinality(seen) = 1 /\ Cardinality(host) = 1
                /\ \A b \in seen : b.access = "read_only"
                /\ \A m \in host : \E s \in ToSet(proposal.supplied) :
                        /\ s.input = i /\ s.resource = m.resource
                        /\ Place(s.path) = m.path
    <3> DEFINE seen == {b \in ToSet(bindings) : b.mount = InputMount(Package[i])}
               host == {m \in ToSet(materials) :
                            \E b \in seen : b.resource = m.resource}
    <3>1. PICK k \in 1 .. n : i = proposal.inputs[k]
      BY <2>4, <2>12
    <3>2. /\ Bindings[k + 1].mount = InputMount(Package[i]) /\ k + 1 \in 1 .. n + 4
          /\ Bindings[k + 1].access = "read_only"
      BY <2>3, <2>5, <3>1
    <3>3. seen = {Bindings[k + 1]}
      BY <2>1, <2>6, <3>2
    <3> HIDE DEF seen
    <3>4. host = {m \in ToSet(materials) :
                    Bindings[k + 1].resource = m.resource}
      BY <3>3
    <3> HIDE DEF host
    <3>5. host = {Materials[k + 1]}
      BY <2>1, <3>2, <3>4
    <3>6. Cardinality(seen) = 1 /\ Cardinality(host) = 1
      BY <3>3, <3>5, FS_Singleton
    <3>7. proposal.supplied[MatchOf(k)] \in ToSet(proposal.supplied)
      BY <2>7 DEF ToSet
    <3>8. LET s == proposal.supplied[MatchOf(k)]
              m == Materials[k + 1]
          IN  s.input = i /\ s.resource = m.resource /\ Place(s.path) = m.path
      <4>1. Materials[k + 1] = [resource |-> inputs[k].resource,
                                path |-> inputs[k].path]
        BY <2>2, <3>1
      <4>2. proposal.supplied[MatchOf(k)].input = i
        BY <2>9, <3>1
      <4>3. /\ inputs[k].resource = proposal.supplied[MatchOf(k)].resource
            /\ inputs[k].path = Place(proposal.supplied[MatchOf(k)].path)
        BY <2>7, <2>8, <3>1
      <4> QED BY <4>1, <4>2, <4>3
    <3>9. QED
      BY <3>2, <3>3, <3>5, <3>6, <3>7, <3>8 DEF seen, host
  <2>13. QED
    BY <2>11, <2>12 DEF InputsReachTheBuild
<1>2. QED
  BY <1>1, ProjectedAlways, PTL
-----------------------------------------------------------------------------
(***************************************************************************)
(* The directories of the session root are apart from each other, and from *)
(* whatever is apart from the session root.                                *)
(***************************************************************************)
OwnName == {"source", "work", "tmp", "sealed-artifact.tar"}

LEMMA OwnNames == /\ "source" \in OwnName /\ "work" \in OwnName
                  /\ "tmp" \in OwnName /\ "sealed-artifact.tar" \in OwnName
BY DEF OwnName

LEMMA BeneathIsApart ==
  ASSUME NEW S, NEW root \in Seq(S), NEW name \in S, NEW place \in Seq(S),
         ~Touch(root, place)
  PROVE  ~Touch(Append(root, name), place)
BY PrefixOfLonger DEF Touch

LEMMA SiblingsAreApart ==
  ASSUME NEW S, NEW root \in Seq(S), NEW x \in S, NEW y \in S, x # y
  PROVE  ~Touch(Append(root, x), Append(root, y))
BY Siblings DEF Touch

LEMMA TouchesItself ==
  ASSUME NEW S, NEW place \in Seq(S)
  PROVE  Touch(place, place)
BY PrefixAgrees DEF Touch

LEMMA TouchIsSymmetric == \A a, b : Touch(a, b) <=> Touch(b, a)
BY DEF Touch

LEMMA ThreePlaces ==
  ASSUME NEW a, NEW b, NEW c, a # b, a # c, b # c
  PROVE  Cardinality({a, b, c}) = 3
<1>1. IsFiniteSet({a}) /\ Cardinality({a}) = 1
  BY FS_Singleton
<1>2. IsFiniteSet({a} \cup {b}) /\ Cardinality({a} \cup {b}) = 2
  <2>1. b \notin {a}
    OBVIOUS
  <2> QED BY <1>1, <2>1, FS_AddElement
<1>3. Cardinality(({a} \cup {b}) \cup {c}) = 3
  <2>1. c \notin {a} \cup {b}
    OBVIOUS
  <2> QED BY <1>2, <2>1, FS_AddElement
<1>4. {a, b, c} = ({a} \cup {b}) \cup {c}
  OBVIOUS
<1>5. QED
  BY <1>3, <1>4

\* The places of an admitted session, as layout and materials have them.
LEMMA HostPlacesAre ==
  ASSUME Accepted, Projected, request = "bound"
  PROVE  /\ HostPlaces("writable") = {PreparedPath("workspace"),
                paths["package_output"], PreparedPath("temporary")}
         /\ HostPlaces("read_only") = {PreparedPath("source")}
                \cup {inputs[k].path : k \in 1 .. InputCount}
<1> DEFINE n == InputCount
           Access(i) == Bindings[i].access
           Path(i) == Materials[i].path
<1>1. /\ verdict = "admitted" /\ bindings = Bindings
      /\ OneResourcePerMount(Bindings)
      /\ ToSet(bindings) = {Bindings[i] : i \in 1 .. n + 4}
      /\ ToSet(materials) = {Materials[i] : i \in 1 .. n + 4}
      /\ \A i, j \in 1 .. n + 4 :
            Bindings[i].resource = Materials[j].resource => i = j
      /\ \A i \in 1 .. n + 4 : Bindings[i].resource = Materials[i].resource
  BY OneHostPath
<1>2. /\ n \in Nat
      /\ \A role \in Role :
            /\ Bindings[Position(role)] = Own(role)
            /\ Materials[Position(role)] =
                    [resource |-> OwnResource[role], path |-> OwnPath(role)]
      /\ \A k \in 1 .. n :
            /\ Bindings[k + 1] = Binding(inputs[k].resource, "read_only",
                                    InputMount(Package[proposal.inputs[k]]))
            /\ Materials[k + 1] = [resource |-> inputs[k].resource,
                                   path |-> inputs[k].path]
  BY <1>1, LayoutShape
<1>3. /\ \A role \in Role : Position(role) \in 1 .. n + 4
      /\ \A i \in 1 .. n + 4 : \/ \E role \in Role : i = Position(role)
                               \/ \E k \in 1 .. n : i = k + 1
      /\ \A k \in 1 .. n : k + 1 \in 1 .. n + 4
  BY <1>2, Positions
<1>4. \A access : HostPlaces(access) =
                    {Path(i) : i \in {j \in 1 .. n + 4 : Access(j) = access}}
  <2> TAKE access
  <2> DEFINE chosen == {m \in {Materials[i] : i \in 1 .. n + 4} :
                \E b \in {Bindings[i] : i \in 1 .. n + 4} :
                    b.resource = m.resource /\ b.access = access}
             at == {j \in 1 .. n + 4 : Bindings[j].access = access}
  <2>1. chosen = {Materials[j] : j \in at}
    <3>1. chosen \subseteq {Materials[j] : j \in at}
      BY <1>1
    <3>2. {Materials[j] : j \in at} \subseteq chosen
      BY <1>1
    <3> QED BY <3>1, <3>2
  <2>2. HostPlaces(access) = {m.path : m \in chosen}
    BY <1>1 DEF HostPlaces
  <2> HIDE DEF chosen
  <2>3. HostPlaces(access) = {m.path : m \in {Materials[j] : j \in at}}
    BY <2>1, <2>2
  <2> HIDE DEF at
  <2>4. HostPlaces(access) = {Materials[j].path : j \in at}
    BY <2>3
  <2> QED BY <2>4 DEF at
<1>5. /\ \A role \in Role : Path(Position(role)) = OwnPath(role)
      /\ \A k \in 1 .. n : Path(k + 1) = inputs[k].path
  <2> HIDE DEF n
  <2>1. \A role \in Role : Path(Position(role)) = OwnPath(role)
    <3> TAKE role \in Role
    <3>1. Materials[Position(role)] =
                [resource |-> OwnResource[role], path |-> OwnPath(role)]
      BY <1>2
    <3> QED BY <3>1
  <2>2. \A k \in 1 .. n : Path(k + 1) = inputs[k].path
    <3> TAKE k \in 1 .. n
    <3>1. Materials[k + 1] = [resource |-> inputs[k].resource,
                              path |-> inputs[k].path]
      BY <1>2
    <3> QED BY <3>1
  <2> QED BY <2>1, <2>2
<1>6. /\ \A role \in Role : Access(Position(role)) =
            IF role = "source" THEN "read_only" ELSE "writable"
      /\ \A k \in 1 .. n : Access(k + 1) = "read_only"
  <2>1. \A r, a, m : Binding(r, a, m).access = a
    BY DEF Binding
  <2>2. \A role : Own(role).access =
            IF role = "source" THEN "read_only" ELSE "writable"
    BY <2>1 DEF Own
  <2> HIDE DEF n
  <2>3. \A k \in 1 .. n : Access(k + 1) = "read_only"
    <3> TAKE k \in 1 .. n
    <3>1. Bindings[k + 1] = Binding(inputs[k].resource, "read_only",
                                InputMount(Package[proposal.inputs[k]]))
      BY <1>2
    <3> QED BY <2>1, <3>1
  <2>4. \A role \in Role : Access(Position(role)) = Own(role).access
    BY <1>2
  <2> QED BY <2>2, <2>3, <2>4
<1>7. /\ \A role \in Role : role \in {"source", "workspace", "output", "temporary"}
      /\ "source" \in Role /\ "workspace" \in Role /\ "output" \in Role
      /\ "temporary" \in Role
  BY DEF Role
<1>8. /\ OwnPath("source") = PreparedPath("source")
      /\ OwnPath("workspace") = PreparedPath("workspace")
      /\ OwnPath("output") = paths["package_output"]
      /\ OwnPath("temporary") = PreparedPath("temporary")
  BY DEF OwnPath
<1> HIDE DEF n, Access, Path
<1>9. {Path(i) : i \in {j \in 1 .. n + 4 : Access(j) = "writable"}}
        = {OwnPath("workspace"), OwnPath("output"), OwnPath("temporary")}
  <2>1. {j \in 1 .. n + 4 : Access(j) = "writable"}
            = {Position("workspace"), Position("output"), Position("temporary")}
    BY <1>3, <1>6, <1>7
  <2>2. {Path(i) : i \in {Position("workspace"), Position("output"),
                          Position("temporary")}}
            = {Path(Position("workspace")), Path(Position("output")),
               Path(Position("temporary"))}
    OBVIOUS
  <2> QED BY <1>5, <1>7, <2>1, <2>2
<1>10. {Path(i) : i \in {j \in 1 .. n + 4 : Access(j) = "read_only"}}
        = {OwnPath("source")} \cup {inputs[k].path : k \in 1 .. n}
  <2>1. {j \in 1 .. n + 4 : Access(j) = "read_only"}
            = {Position("source")} \cup {k + 1 : k \in 1 .. n}
    BY <1>3, <1>6, <1>7
  <2>2. {Path(i) : i \in {Position("source")} \cup {k + 1 : k \in 1 .. n}}
            = {Path(Position("source"))} \cup {Path(k + 1) : k \in 1 .. n}
    OBVIOUS
  <2>3. {Path(k + 1) : k \in 1 .. n} = {inputs[k].path : k \in 1 .. n}
    BY <1>5
  <2> QED BY <1>5, <1>7, <2>1, <2>2, <2>3
<1>11. QED
  BY <1>4, <1>8, <1>9, <1>10 DEF n

(***************************************************************************)
(* If no path that is proposed ends in a separator, what the build program *)
(* may write to is apart from everything it may only read, from what the   *)
(* caller keeps, and from the artifact and its retained archive            *)
(* (project_prepared_paths() and the access of each binding).              *)
(***************************************************************************)
THEOREM PlainWritableIsApart ==
  ASSUME \A p \in Proposal : PlainProposal(p)
  PROVE  ProjectionSpec => []WritableIsApart
<1>1. Accepted /\ Projected => WritableIsApart
  <2> SUFFICES ASSUME Accepted, Projected, request = "bound"
               PROVE  WritableIsApart
    BY DEF WritableIsApart
  <2> DEFINE Name == STRING \cup OwnName
             root == paths["session_root"]
             work == PreparedPath("workspace")
             temp == PreparedPath("temporary")
             source == PreparedPath("source")
             output == paths["package_output"]
             n == InputCount
  <2>1. /\ verdict = "admitted" /\ PlainProposal(proposal) /\ LayoutIsDisjoint
        /\ n \in Nat /\ DOMAIN proposal.inputs = 1 .. n
    BY OneHostPath, LayoutShape
       DEF Accepted, Control, LayoutAccepted, Past
  <2>2. /\ "source" \in Name /\ "work" \in Name
        /\ "tmp" \in Name /\ "sealed-artifact.tar" \in Name
    BY OwnNames
  <2>3. /\ work = Append(root, "work") /\ temp = Append(root, "tmp")
        /\ source = Append(root, "source")
        /\ SealedArtifactPath = Append(root, "sealed-artifact.tar")
    BY DEF PreparedPath, SealedArtifactPath
  <2>4. /\ paths = [c \in Coordinate |-> Place(proposal.paths[c])]
        /\ \A k \in DOMAIN proposal.objects :
            Normal(proposal.objects[k].path) = Place(proposal.objects[k].path)
        /\ DOMAIN inputs = DOMAIN proposal.inputs
        /\ \A k \in DOMAIN inputs :
            inputs[k].path = Place(proposal.supplied[MatchOf(k)].path)
    BY <2>1, AdmittedPlaces
  <2>5. /\ \A c \in Coordinate : paths[c] \in Seq(STRING)
        /\ \A k \in DOMAIN proposal.objects :
                Place(proposal.objects[k].path) \in Seq(STRING)
        /\ \A k \in 1 .. n : inputs[k].path \in Seq(STRING)
    <3>1. Control
      BY DEF Accepted
    <3>2. \A c \in Coordinate : proposal.paths[c] \in AnyPath
      BY <3>1, Proposed DEF Control
    <3>3. \A k \in DOMAIN proposal.objects : proposal.objects[k].path \in AnyPath
      BY <3>1, Proposed DEF Control
    <3>4. \A k \in DOMAIN proposal.supplied : proposal.supplied[k].path \in AnyPath
      BY <3>1, Proposed DEF Control
    <3>5. \A k \in 1 .. n : MatchOf(k) \in DOMAIN proposal.supplied
      BY <2>1, InputResources
    <3> QED BY <2>1, <2>4, <3>2, <3>3, <3>4, <3>5, PlaceIsSequence
  <2>6. Seq(STRING) \subseteq Seq(Name)
    BY SeqMonotonic
  <2>7. /\ "session_root" \in Coordinate /\ "package_output" \in Coordinate
        /\ "root_view" \in Coordinate /\ "artifact" \in Coordinate
    BY DEF Coordinate
  <2>8. root \in Seq(Name) /\ output \in Seq(Name)
    BY <2>5, <2>6, <2>7
  <2>9. /\ \A c, d \in Coordinate : c # d => ~Touch(paths[c], paths[d])
        /\ \A k \in 1 .. n : \A c \in Coordinate : ~Touch(inputs[k].path, paths[c])
        /\ \A k \in DOMAIN proposal.objects : \A c \in Coordinate \ {"root_view"} :
                ~Touch(Place(proposal.objects[k].path), paths[c])
    BY <2>1, <2>4 DEF LayoutIsDisjoint, Overlaps, ContainsOrEquals, Touch
  \* What is apart from the session root and from the package output.
  <2> DEFINE Outside == {place \in Seq(Name) : ~Touch(root, place)
                                               /\ ~Touch(output, place)}
  <2>10. /\ paths["root_view"] \in Outside /\ paths["artifact"] \in Outside
         /\ \A k \in 1 .. n : inputs[k].path \in Outside
         /\ \A k \in DOMAIN proposal.objects :
                Place(proposal.objects[k].path) \in Outside
    <3>1. paths["root_view"] \in Outside /\ paths["artifact"] \in Outside
      BY <2>5, <2>6, <2>7, <2>9
    <3>2. \A k \in 1 .. n : inputs[k].path \in Outside
      BY <2>5, <2>6, <2>7, <2>9, TouchIsSymmetric
    <3>3. \A k \in DOMAIN proposal.objects :
                Place(proposal.objects[k].path) \in Outside
      <4> TAKE k \in DOMAIN proposal.objects
      <4>1. /\ ~Touch(Place(proposal.objects[k].path), root)
            /\ ~Touch(Place(proposal.objects[k].path), output)
        BY <2>7, <2>9
      <4>2. Place(proposal.objects[k].path) \in Seq(Name)
        BY <2>5, <2>6
      <4> QED BY <4>1, <4>2, TouchIsSymmetric
    <3> QED BY <3>1, <3>2, <3>3
  <2>11. ~Touch(root, output)
    BY <2>7, <2>9
  <2> HIDE DEF root, output, Name
  <2>12. \A place \in Outside : ~Touch(work, place) /\ ~Touch(temp, place)
                                /\ ~Touch(output, place)
    BY <2>2, <2>3, <2>8, BeneathIsApart
  <2>13. /\ ~Touch(work, output) /\ ~Touch(temp, output) /\ ~Touch(source, output)
         /\ ~Touch(SealedArtifactPath, output)
    BY <2>2, <2>3, <2>8, <2>11, BeneathIsApart
  <2>14. /\ ~Touch(work, temp) /\ ~Touch(work, source) /\ ~Touch(temp, source)
         /\ ~Touch(work, SealedArtifactPath) /\ ~Touch(temp, SealedArtifactPath)
    BY <2>2, <2>3, <2>8, SiblingsAreApart
  <2>15. work # output /\ temp # output /\ work # temp
    <3>1. Touch(output, output)
      BY <2>8, TouchesItself
    <3>2. temp \in Seq(Name)
      <4>1. \A place \in Seq(Name), name \in Name : Append(place, name) \in Seq(Name)
        BY AppendProperties
      <4> QED BY <2>2, <2>3, <2>8, <4>1
    <3>3. Touch(temp, temp)
      BY <3>2, TouchesItself
    <3>4. work # output
      BY <2>13, <3>1
    <3>5. temp # output
      BY <2>13, <3>1
    <3>6. work # temp
      BY <2>14, <3>3
    <3> QED BY <3>4, <3>5, <3>6
  <2>16. /\ HostPlaces("writable") = {work, output, temp}
         /\ HostPlaces("read_only") = {source} \cup {inputs[k].path : k \in 1 .. n}
    BY HostPlacesAre DEF output
  <2>17. Sensitive \subseteq Outside \cup {source, SealedArtifactPath}
    <3>1. HostPlaces("read_only") \subseteq Outside \cup {source}
      BY <2>10, <2>16
    <3>2. {Place(o.path) : o \in ToSet(proposal.objects)} \subseteq Outside
      <4>1. ToSet(proposal.objects)
                = {proposal.objects[k] : k \in DOMAIN proposal.objects}
        BY DEF ToSet
      <4> HIDE DEF Outside
      <4> QED BY <2>10, <4>1
    <3>3. {paths["root_view"], paths["artifact"]} \subseteq Outside
      BY <2>10
    <3> HIDE DEF Outside
    <3> QED BY <3>1, <3>2, <3>3 DEF Sensitive
  <2> HIDE DEF Outside, work, temp, source, n
  <2>18. Cardinality(HostPlaces("writable")) = 3
    <3>1. Cardinality({work, output, temp}) = 3
      BY <2>15, ThreePlaces
    <3> QED BY <2>16, <3>1
  <2>19. \A w \in {work, output, temp} : \A s \in Sensitive : ~Touch(w, s)
    <3>1. \A w \in {work, output, temp} :
            \A s \in Outside \cup {source, SealedArtifactPath} : ~Touch(w, s)
      BY <2>12, <2>13, <2>14, TouchIsSymmetric
    <3> QED BY <2>17, <3>1
  <2>20. \A w \in {work, output, temp} :
            \A v \in {work, output, temp} \ {w} : ~Touch(w, v)
    BY <2>13, <2>14, TouchIsSymmetric
  <2>21. QED
    BY <2>16, <2>18, <2>19, <2>20 DEF WritableIsApart
<1>2. QED
  BY <1>1, ProjectedAlways, PTL
-----------------------------------------------------------------------------
(***************************************************************************)
(* Refusals: a proposal that is in order passes every group of checks.     *)
(***************************************************************************)
LEMMA FilePasses ==
  ASSUME NEW path \in AnyPath, IsFile(path)
  PROVE  PathError(path) = NoError
<1> DEFINE place == Place(path)
           S == STRING \cup {Blank}
<1>1. place \in Seq(S) /\ Blank \in S
  BY PlaceIsSequence, SeqMonotonic
<1>2. path.abs /\ place # <<>>
  BY DEF IsFile
<1>3. Normal(path) = place \/ Normal(path) = Append(place, Blank)
  BY DEF Normal
<1> HIDE DEF place, S
<1>4. Append(place, Blank) # <<>>
  BY <1>1, AppendProperties
<1>5. QED
  BY <1>2, <1>3, <1>4 DEF PathError

\* Only paths whose places meet overlap, whatever separators they end in.
LEMMA OverlapsMeet ==
  ASSUME NEW a \in AnyPath, NEW b \in AnyPath, ~Meet(a, b)
  PROVE  ~Overlaps(Normal(a), Normal(b))
<1> DEFINE S == STRING \cup {Blank}
           Form(s) == {s, Append(s, Blank)}
<1>1. /\ Place(a) \in Seq(S) /\ Place(b) \in Seq(S) /\ Blank \in S
      /\ Normal(a) \in Form(Place(a)) /\ Normal(b) \in Form(Place(b))
  BY PlaceIsSequence, SeqMonotonic DEF Normal
<1> HIDE DEF S
<1>2. ASSUME NEW s \in Seq(S), NEW t \in Seq(S),
             NEW x \in Form(s), NEW y \in Form(t), IsPrefix(x, y)
      PROVE  IsPrefix(s, t) \/ IsPrefix(t, s)
  <2>1. Append(t, Blank) \in Seq(S)
    BY <1>1, AppendProperties
  <2>2. IsPrefix(s, y)
    <3>1. y \in Seq(S)
      BY <1>2, <2>1
    <3>2. CASE x = s
      BY <1>2, <3>2
    <3>3. CASE x = Append(s, Blank)
      BY <1>1, <1>2, <3>1, <3>3, PrefixOfLonger
    <3> QED BY <1>2, <3>2, <3>3
  <2>3. CASE y = t
    BY <2>2, <2>3
  <2>4. CASE y = Append(t, Blank)
    BY <1>1, <2>2, <2>4, PrefixOfLonger
  <2> QED BY <1>2, <2>3, <2>4
<1> HIDE DEF Form
<1>3. QED
  BY <1>1, <1>2 DEF Overlaps, ContainsOrEquals, Meet

LEMMA PolicyPasses ==
  ASSUME NEW p \in Proposal, InOrder(p), proposal = p
  PROVE  FirstError(<<
                Require(proposal.package_root, "invalid_session"),
                Require(proposal.uncompressed, "invalid_session"),
                Require(proposal.same_source, "source_material_mismatch"),
                Require(Len(proposal.objects) = Len(proposal.sources),
                        "source_material_mismatch")>>) = NoError
<1> DEFINE checks == <<NoError, NoError, NoError, NoError>>
<1>1. <<Require(proposal.package_root, "invalid_session"),
        Require(proposal.uncompressed, "invalid_session"),
        Require(proposal.same_source, "source_material_mismatch"),
        Require(Len(proposal.objects) = Len(proposal.sources),
                "source_material_mismatch")>> = checks
  <2>1. /\ proposal.package_root /\ proposal.uncompressed
        /\ proposal.same_source
        /\ Len(proposal.objects) = Len(proposal.sources)
    BY DEF InOrder
  <2> QED BY <2>1 DEF Require
<1>2. checks \in Seq(Code)
  BY DEF Code
<1>3. \A k \in 1 .. Len(checks) : checks[k] = NoError
  OBVIOUS
<1> HIDE DEF checks
<1>4. FirstError(checks) = NoError
  BY <1>2, <1>3, FirstErrorDecides
<1>5. QED
  BY <1>1, <1>4

LEMMA ObjectNames ==
  ASSUME NEW p \in Proposal, InOrder(p)
  PROVE  \A i, j \in 1 .. Len(p.objects) :
            p.objects[i].declaration.name = p.objects[j].declaration.name => i = j
<1> DEFINE n == Len(p.objects)
<1>1. n \in Nat /\ DOMAIN p.objects = 1 .. n
  BY Proposed
<1> DEFINE name == [j \in 1 .. n |-> p.objects[j].declaration.name]
           T == {name[j] : j \in 1 .. n}
<1>2. T = {x.declaration.name : x \in ToSet(p.objects)}
  <2>1. ToSet(p.objects) = {p.objects[j] : j \in 1 .. n}
    BY <1>1 DEF ToSet
  <2> QED BY <2>1
<1>3. Cardinality(T) = n
  BY <1>2 DEF InOrder
<1> HIDE DEF T, name
<1>4. DOMAIN name = 1 .. n
  BY DEF name
<1>5. \A i, j \in 1 .. n : name[i] = name[j] => i = j
  <2>1. T = {name[j] : j \in 1 .. n}
    BY DEF T
  <2> QED BY <1>1, <1>3, <1>4, <2>1, OneEach
<1>6. QED
  BY <1>5 DEF name

LEMMA ObjectPasses ==
  ASSUME NEW p \in Proposal, InOrder(p), proposal = p, NEW k \in DOMAIN p.objects
  PROVE  ObjectError(k) = NoError
<1> DEFINE n == Len(p.objects)
           o == p.objects[k]
           unique == \A j \in 1 .. k - 1 :
                p.objects[j].declaration.name # o.declaration.name
           checks == <<NoError, NoError, NoError>>
<1>1. n \in Nat /\ DOMAIN p.objects = 1 .. n /\ o \in ToSet(p.objects)
      /\ o.path \in AnyPath
  BY Proposed DEF ToSet
<1>2. \A i, j \in 1 .. n :
        p.objects[i].declaration.name = p.objects[j].declaration.name => i = j
  BY ObjectNames
<1>3. unique
  <2> TAKE j \in 1 .. k - 1
  <2>1. j \in 1 .. n /\ j # k
    BY <1>1
  <2> QED BY <1>1, <1>2, <2>1
<1>4. o.observed = o.declaration.digest /\ IsFile(o.path)
  BY <1>1 DEF InOrder
<1>5. PathError(o.path) = NoError
  BY <1>1, <1>4, FilePasses
<1> HIDE DEF unique
<1>6. <<Require(unique, "source_material_mismatch"),
        Require(o.observed = o.declaration.digest, "source_material_mismatch"),
        PathError(o.path)>> = checks
  <2>1. Require(unique, "source_material_mismatch") = NoError
    BY <1>3 DEF Require
  <2>2. Require(o.observed = o.declaration.digest, "source_material_mismatch")
            = NoError
    BY <1>4 DEF Require
  <2> QED BY <1>5, <2>1, <2>2
<1>7. ObjectError(k) = FirstError(checks)
  BY <1>6 DEF ObjectError, unique
<1>8. checks \in Seq(Code)
  BY DEF Code
<1>9. \A i \in 1 .. Len(checks) : checks[i] = NoError
  OBVIOUS
<1> HIDE DEF checks
<1>10. QED
  BY <1>7, <1>8, <1>9, FirstErrorDecides

\* The names tell the objects apart, so one at most has the declaration.
LEMMA DeclaredPasses ==
  ASSUME NEW p \in Proposal, InOrder(p), proposal = p, NEW k \in DOMAIN p.sources
  PROVE  DeclaredError(k) = NoError
<1> DEFINE n == Len(p.objects)
           found == {j \in DOMAIN p.objects :
                        p.objects[j].declaration = p.sources[k]}
<1>1. n \in Nat /\ DOMAIN p.objects = 1 .. n
  BY Proposed
<1>2. \A i, j \in 1 .. n :
        p.objects[i].declaration.name = p.objects[j].declaration.name => i = j
  BY ObjectNames
<1>3. p.sources[k] \in ToSet(p.sources)
  BY DEF ToSet
<1>4. {o.declaration : o \in ToSet(p.objects)} = ToSet(p.sources)
  BY DEF InOrder
<1>5. PICK o \in ToSet(p.objects) : o.declaration = p.sources[k]
  BY <1>3, <1>4
<1>6. PICK j \in 1 .. n : o = p.objects[j]
  BY <1>1, <1>5 DEF ToSet
<1>7. found = {j}
  BY <1>1, <1>2, <1>5, <1>6
<1>8. Cardinality(found) = 1
  BY <1>7, FS_Singleton
<1>9. QED
  BY <1>8 DEF DeclaredError, Require

LEMMA SourcesPass ==
  ASSUME NEW p \in Proposal, InOrder(p), proposal = p
  PROVE  FirstError([k \in DOMAIN proposal.objects |-> ObjectError(k)] \o
                    [k \in DOMAIN proposal.sources |-> DeclaredError(k)])
            = NoError
<1> DEFINE first == [k \in DOMAIN p.objects |-> ObjectError(k)]
           second == [k \in DOMAIN p.sources |-> DeclaredError(k)]
<1>1. /\ Len(p.objects) \in Nat /\ DOMAIN p.objects = 1 .. Len(p.objects)
      /\ Len(p.sources) \in Nat /\ DOMAIN p.sources = 1 .. Len(p.sources)
  BY Proposed
<1>2. /\ \A k \in DOMAIN p.objects : first[k] = NoError
      /\ \A k \in DOMAIN p.sources : second[k] = NoError
  BY ObjectPasses, DeclaredPasses
<1>3. first \in Seq(Code) /\ Len(first) = Len(p.objects)
  <2>1. first \in [1 .. Len(p.objects) -> Code]
    BY <1>1, <1>2 DEF Code
  <2> HIDE DEF first
  <2> QED BY <1>1, <2>1, FunctionIsSeq
<1>4. second \in Seq(Code) /\ Len(second) = Len(p.sources)
  <2>1. second \in [1 .. Len(p.sources) -> Code]
    BY <1>1, <1>2 DEF Code
  <2> HIDE DEF second
  <2> QED BY <1>1, <2>1, FunctionIsSeq
<1> HIDE DEF first, second
<1>5. /\ \A k \in 1 .. Len(first) : first[k] = NoError
      /\ \A k \in 1 .. Len(second) : second[k] = NoError
  BY <1>1, <1>2, <1>3, <1>4
<1>6. FirstError(first \o second) = NoError
  BY <1>3, <1>4, <1>5, FirstErrorOfParts, FirstErrorDecides
<1>7. QED
  BY <1>6 DEF first, second

(***************************************************************************)
(* The matches are the correspondence that the proposal has, where the     *)
(* request names each of its inputs once (pkgbuild's input set).           *)
(***************************************************************************)
InputsOnce(p) == IsInjective(p.inputs)

LEMMA InputsPass ==
  ASSUME NEW p \in Proposal, InOrder(p), InputsOnce(p), proposal = p
  PROVE  /\ Len(proposal.supplied) = Len(proposal.inputs)
         /\ \A k \in DOMAIN proposal.inputs : InputError(k) = NoError
         /\ AllConsumed /\ DistinctResources(MatchedInputs)
<1> DEFINE n == Len(p.inputs)
           m == Len(p.supplied)
<1>1. /\ n \in Nat /\ DOMAIN p.inputs = 1 .. n
      /\ m \in Nat /\ DOMAIN p.supplied = 1 .. m
      /\ \A j \in DOMAIN p.supplied : p.supplied[j].path \in AnyPath
  BY Proposed
<1>2. PICK f : f \in Correspondence(p)
  BY DEF InOrder
<1>3. /\ f \in [1 .. n -> 1 .. m] /\ IsInjective(f) /\ Range(f) = 1 .. m
      /\ \A k \in 1 .. n : p.supplied[f[k]].input = p.inputs[k]
      /\ \A j, k \in 1 .. n : j # k =>
            p.supplied[f[j]].resource # p.supplied[f[k]].resource
  BY <1>1, <1>2 DEF Correspondence
<1> HIDE DEF n, m
<1>4. n = m
  BY <1>1, <1>3, PairedOff
<1>5. \A j \in 1 .. m : \E k \in 1 .. n : f[k] = j
  BY <1>3 DEF Range
<1>6. \A j, k \in 1 .. n : p.inputs[j] = p.inputs[k] => j = k
  BY <1>1 DEF InputsOnce, IsInjective
<1>7. ASSUME NEW k \in 1 .. n
      PROVE  Matches(k) = {f[k]} /\ f[k] \in 1 .. m
  <2>1. f[k] \in 1 .. m
    BY <1>3
  <2>2. \A j \in 1 .. m : p.supplied[j].input = p.inputs[k] => j = f[k]
    BY <1>3, <1>5, <1>6
  <2> QED BY <1>1, <1>3, <2>1, <2>2 DEF Matches
<1>8. ASSUME NEW k \in 1 .. n
      PROVE  MatchOf(k) = f[k] /\ UniqueMatch(k)
  <2>1. {f[k]} \subseteq Nat /\ {f[k]} # {}
    BY <1>7
  <2>2. Min({f[k]}) \in {f[k]}
    BY <2>1, MinIsLeast
  <2>3. Cardinality({f[k]}) = 1
    BY FS_Singleton
  <2> QED BY <1>7, <2>2, <2>3 DEF MatchOf, UniqueMatch
<1>9. ASSUME NEW k \in 1 .. n
      PROVE  InputError(k) = NoError
  <2>1. p.supplied[f[k]].path \in AnyPath /\ p.supplied[f[k]] \in ToSet(p.supplied)
    BY <1>1, <1>7 DEF ToSet
  <2>2. IsFile(p.supplied[f[k]].path)
    BY <2>1 DEF InOrder
  <2>3. PathError(p.supplied[f[k]].path) = NoError
    BY <2>1, <2>2, FilePasses
  <2> QED BY <1>8, <2>3 DEF InputError, MatchOf
<1>10. AllConsumed
  <2>1. \A j \in 1 .. m : \E k \in 1 .. n : j \in Matches(k)
    BY <1>5, <1>7
  <2> QED BY <1>1, <2>1 DEF AllConsumed
<1>11. DistinctResources(MatchedInputs)
  <2>1. DOMAIN MatchedInputs = 1 .. n
    BY <1>1 DEF MatchedInputs
  <2>2. \A k \in 1 .. n : MatchedInputs[k].resource = p.supplied[f[k]].resource
    BY <1>1, <1>8 DEF MatchedInputs, Normalized
  <2>3. \A j, k \in 1 .. n :
            MatchedInputs[j].resource = MatchedInputs[k].resource => j = k
    BY <1>3, <2>2
  <2> QED BY <2>1, <2>3 DEF DistinctResources, IsInjective
<1>12. QED
  BY <1>1, <1>4, <1>9, <1>10, <1>11 DEF n, m

LEMMA InputChecksPass ==
  ASSUME NEW p \in Proposal, InOrder(p), InputsOnce(p), proposal = p
  PROVE  FirstError(
            <<Require(Len(proposal.supplied) = Len(proposal.inputs),
                      "package_input_mismatch")>> \o
            [k \in DOMAIN proposal.inputs |-> InputError(k)] \o
            <<Require(AllConsumed, "package_input_mismatch")>>) = NoError
<1> DEFINE one == <<NoError>>
           body == [k \in DOMAIN p.inputs |-> InputError(k)]
           n == Len(p.inputs)
<1>1. /\ Len(proposal.supplied) = Len(proposal.inputs)
      /\ \A k \in DOMAIN p.inputs : InputError(k) = NoError
      /\ AllConsumed
  BY InputsPass
<1>2. /\ <<Require(Len(proposal.supplied) = Len(proposal.inputs),
                   "package_input_mismatch")>> = one
      /\ <<Require(AllConsumed, "package_input_mismatch")>> = one
  BY <1>1 DEF Require
<1>3. n \in Nat /\ DOMAIN p.inputs = 1 .. n
  BY Proposed
<1>4. body \in Seq(Code) /\ Len(body) = n
  <2>1. body \in [1 .. n -> Code]
    BY <1>1, <1>3 DEF Code
  <2> HIDE DEF body
  <2> QED BY <1>3, <2>1, FunctionIsSeq
<1>5. \A k \in 1 .. n : body[k] = NoError
  BY <1>1, <1>3
<1>6. one \in Seq(Code)
  BY DEF Code
<1>7. \A k \in 1 .. Len(one) : one[k] = NoError
  OBVIOUS
<1> HIDE DEF one, body
<1>8. one \o body \in Seq(Code)
      /\ \A k \in 1 .. Len(one \o body) : (one \o body)[k] = NoError
  BY <1>4, <1>5, <1>6, <1>7, FirstErrorOfParts
<1>9. one \o body \o one \in Seq(Code)
      /\ \A k \in 1 .. Len(one \o body \o one) : (one \o body \o one)[k] = NoError
  BY <1>6, <1>7, <1>8, FirstErrorOfParts
<1>10. FirstError(one \o body \o one) = NoError
  BY <1>9, FirstErrorDecides
<1>11. QED
  BY <1>2, <1>10 DEF body

\* The file name of the artifact is that of its path.
LEMMA PathsPass ==
  ASSUME NEW p \in Proposal, InOrder(p), proposal = p
  PROVE  FirstError(<<
            PathError(proposal.paths["root_view"]),
            PathError(proposal.paths["session_root"]),
            PathError(proposal.paths["package_output"]),
            PathError(proposal.paths["artifact"]),
            Require(NamesFile(NormalPaths["artifact"]), "invalid_session")>>)
            = NoError
<1> DEFINE checks == <<NoError, NoError, NoError, NoError, NoError>>
           path == p.paths["artifact"]
<1>1. \A c \in Coordinate : p.paths[c] \in AnyPath /\ IsFile(p.paths[c])
  BY Proposed DEF InOrder
<1>2. \A c \in Coordinate : PathError(p.paths[c]) = NoError
  BY <1>1, FilePasses
<1>3. NamesFile(NormalPaths["artifact"])
  <2>1. path \in AnyPath /\ Place(path) # <<>>
    BY <1>1 DEF IsFile
  <2>2. Last(path.parts) \notin {Blank, ".", ".."}
    BY DEF InOrder
  <2>3. Normal(path) = Place(path)
    BY <2>2 DEF Normal
  <2>4. Last(Place(path)) = Last(path.parts)
    BY <2>1, <2>2, PlaceIsSequence
  <2> HIDE DEF path
  <2>5. NamesFile(Normal(path))
    BY <2>2, <2>3, <2>4 DEF NamesFile
  <2> QED BY <2>5 DEF NormalPaths, path
<1>4. <<PathError(proposal.paths["root_view"]),
        PathError(proposal.paths["session_root"]),
        PathError(proposal.paths["package_output"]),
        PathError(proposal.paths["artifact"]),
        Require(NamesFile(NormalPaths["artifact"]), "invalid_session")>> = checks
  BY <1>2, <1>3 DEF Require
<1>5. checks \in Seq(Code)
  BY DEF Code
<1>6. \A k \in 1 .. Len(checks) : checks[k] = NoError
  OBVIOUS
<1> HIDE DEF checks
<1>7. FirstError(checks) = NoError
  BY <1>5, <1>6, FirstErrorDecides
<1>8. QED
  BY <1>4, <1>7

LEMMA LayoutPasses ==
  ASSUME NEW p \in Proposal, InOrder(p), proposal = p,
         Accepted, stage = "layout"
  PROVE  LayoutIsDisjoint
<1>1. /\ \A k \in DOMAIN p.inputs : UniqueMatch(k)
      /\ AllConsumed /\ inputs = MatchedInputs /\ DistinctResources(MatchedInputs)
      /\ paths = NormalPaths /\ Control
  BY DEF Accepted, InputsAccepted, PathsAccepted, Past
<1>2. /\ Len(p.inputs) \in Nat /\ DOMAIN p.inputs = 1 .. Len(p.inputs)
      /\ \A k \in DOMAIN p.objects : p.objects[k].path \in AnyPath
      /\ \A k \in DOMAIN p.supplied : p.supplied[k].path \in AnyPath
      /\ \A c \in Coordinate : p.paths[c] \in AnyPath
  BY Proposed
<1>3. /\ DOMAIN inputs = DOMAIN p.inputs
      /\ \A k \in DOMAIN inputs :
            inputs[k].path = Normal(p.supplied[MatchOf(k)].path)
      /\ \A c \in Coordinate : paths[c] = Normal(p.paths[c])
  BY <1>1 DEF MatchedInputs, Normalized, NormalPaths
<1>4. /\ \A k \in DOMAIN p.inputs : MatchOf(k) \in DOMAIN p.supplied
      /\ \A j, k \in DOMAIN p.inputs : j # k => MatchOf(j) # MatchOf(k)
  BY <1>1, MatchesCorrespond
<1>5. /\ \A c \in Effect : \A d \in Coordinate \ {c} :
            ~Meet(p.paths[c], p.paths[d])
      /\ \A c \in Effect : \A k \in DOMAIN p.supplied :
            ~Meet(p.paths[c], p.supplied[k].path)
      /\ \A c \in Effect : \A k \in DOMAIN p.objects :
            ~Meet(p.paths[c], p.objects[k].path)
      /\ \A k \in DOMAIN p.supplied : ~Meet(p.paths["root_view"], p.supplied[k].path)
      /\ \A j, k \in DOMAIN p.supplied :
            j # k => ~Meet(p.supplied[j].path, p.supplied[k].path)
  BY DEF InOrder, EffectsAreApart
<1>6. Coordinate = Effect \cup {"root_view"} /\ "root_view" \notin Effect
  BY DEF Effect
<1>7. \A a, b : (Meet(a, b) <=> Meet(b, a))
  BY DEF Meet
<1> HIDE DEF Coordinate
<1>8. \A c, d \in Coordinate : c # d => ~Overlaps(paths[c], paths[d])
  <2>1. \A c, d \in Coordinate : c # d => ~Meet(p.paths[c], p.paths[d])
    BY <1>5, <1>6, <1>7
  <2> QED BY <1>2, <1>3, <2>1, OverlapsMeet
<1>9. \A k \in DOMAIN inputs : \A c \in Coordinate : ~Overlaps(inputs[k].path, paths[c])
  <2>1. \A k \in DOMAIN p.supplied : \A c \in Coordinate :
            ~Meet(p.supplied[k].path, p.paths[c])
    BY <1>5, <1>6, <1>7
  <2>2. \A k \in DOMAIN p.supplied : \A c \in Coordinate :
            ~Overlaps(Normal(p.supplied[k].path), Normal(p.paths[c]))
    BY <1>2, <2>1, OverlapsMeet
  <2> QED BY <1>3, <1>4, <2>2
<1>10. \A k \in DOMAIN inputs : \A j \in 1 .. k - 1 :
            ~Overlaps(inputs[k].path, inputs[j].path)
  <2>1. \A j, k \in DOMAIN p.supplied : j # k =>
            ~Overlaps(Normal(p.supplied[j].path), Normal(p.supplied[k].path))
    BY <1>2, <1>5, OverlapsMeet
  <2>2. \A k \in DOMAIN p.inputs : \A j \in 1 .. k - 1 :
            j \in DOMAIN p.inputs /\ j # k
    BY <1>2
  <2> QED BY <1>3, <1>4, <2>1, <2>2
<1>11. \A k \in DOMAIN p.objects : \A c \in Coordinate \ {"root_view"} :
            ~Overlaps(Normal(p.objects[k].path), paths[c])
  <2>1. \A k \in DOMAIN p.objects : \A c \in Effect :
            ~Meet(p.objects[k].path, p.paths[c])
    BY <1>5, <1>7
  <2>2. \A k \in DOMAIN p.objects : \A c \in Effect :
            ~Overlaps(Normal(p.objects[k].path), Normal(p.paths[c]))
    BY <1>2, <1>6, <2>1, OverlapsMeet
  <2> QED BY <1>3, <1>6, <2>2
<1> DEFINE given == [k \in DOMAIN inputs |-> inputs[k].path]
           object == [k \in DOMAIN p.objects |-> Normal(p.objects[k].path)]
<1>12. \A k \in DOMAIN given :
            /\ \A c \in Coordinate : ~Overlaps(given[k], paths[c])
            /\ \A j \in 1 .. k - 1 : ~Overlaps(given[k], given[j])
  <2>1. \A k \in DOMAIN inputs : \A j \in 1 .. k - 1 : j \in DOMAIN inputs
    BY <1>2, <1>3
  <2> QED BY <1>9, <1>10, <2>1
<1>13. \A k \in DOMAIN object : \A c \in Coordinate \ {"root_view"} :
            ~Overlaps(object[k], paths[c])
  BY <1>11
<1>14. QED
  BY <1>8, <1>12, <1>13 DEF LayoutIsDisjoint

LEMMA CredentialsPass ==
  ASSUME NEW p \in Proposal, InOrder(p), proposal = p
  PROVE  LET c == proposal.credentials
             ordered == Sorted(c.groups)
         IN  FirstError(<<
                Require(\A i \in {c.uid, c.gid} \cup ToSet(c.groups) : i < MaxId,
                        "invalid_session"),
                Require(\A k \in 1 .. Len(ordered) - 1 :
                            ordered[k] # ordered[k + 1], "invalid_session"),
                Require(c.gid \notin ToSet(ordered), "invalid_session")>>)
                = NoError
<1> DEFINE c == p.credentials
           n == Len(c.groups)
           ordered == Sorted(c.groups)
           small == \A i \in {c.uid, c.gid} \cup ToSet(c.groups) : i < MaxId
           unique == \A k \in 1 .. Len(ordered) - 1 : ordered[k] # ordered[k + 1]
           apart == c.gid \notin ToSet(ordered)
           checks == <<NoError, NoError, NoError>>
<1>1. c.groups \in Seq(Nat) /\ n \in Nat
  BY Proposed, LenProperties
<1>2. /\ ordered \in Seq(Nat) /\ Len(ordered) = n
      /\ ToSet(ordered) = ToSet(c.groups)
  BY <1>1, SortedGroups
<1>3. small /\ c.gid \notin ToSet(c.groups) /\ Cardinality(ToSet(c.groups)) = n
  BY DEF InOrder
<1>4. apart
  BY <1>2, <1>3
<1>5. unique
  <2> HIDE DEF ordered, n, c
  <2>1. DOMAIN ordered = 1 .. n
    BY <1>2, LenProperties
  <2>2. ToSet(ordered) = {ordered[k] : k \in 1 .. n}
    BY <2>1 DEF ToSet
  <2>3. Cardinality(ToSet(ordered)) = n
    BY <1>2, <1>3 DEF n, c
  <2>4. \A j, k \in 1 .. n : ordered[j] = ordered[k] => j = k
    BY <1>1, <2>1, <2>2, <2>3, OneEach
  <2> TAKE k \in 1 .. Len(ordered) - 1
  <2>5. k \in 1 .. n /\ k + 1 \in 1 .. n /\ k # k + 1
    BY <1>1, <1>2
  <2> QED BY <2>4, <2>5
<1> HIDE DEF small, unique, apart
<1>6. <<Require(small, "invalid_session"), Require(unique, "invalid_session"),
        Require(apart, "invalid_session")>> = checks
  BY <1>3, <1>4, <1>5 DEF Require
<1>7. checks \in Seq(Code)
  BY DEF Code
<1>8. \A k \in 1 .. Len(checks) : checks[k] = NoError
  OBVIOUS
<1> HIDE DEF checks
<1>9. FirstError(checks) = NoError
  BY <1>7, <1>8, FirstErrorDecides
<1>10. QED
  BY <1>6, <1>9 DEF small, unique, apart

\* A check that passes does not end the call, except for the last one.
LEMMA PassingCheckGoesOn ==
  ASSUME NEW here, NEW next, Check(here, NoError, next)
  PROVE  /\ proposal' = proposal /\ stage' = next
         /\ next = "done" => verdict' = "admitted"
BY DEF Check

(***************************************************************************)
(* Where a request names each of its inputs once, admission refuses only   *)
(* what is wrong: every one of admit()'s checks lets a proposal pass whose *)
(* objects, inputs, coordinates and credentials are all in order, however  *)
(* its paths are written.                                                  *)
(***************************************************************************)
THEOREM OnlyWrongIsRefused ==
  ASSUME \A p \in Proposal : InputsOnce(p)
  PROVE  ProjectionSpec => []RefusalIsJustified
<1>1. ProjectionInit => RefusalIsJustified
  BY DEF ProjectionInit, Init, RefusalIsJustified
<1>2. ASSUME Accepted, RefusalIsJustified, [ProjectionNext]_<<vars, pvars>>
      PROVE  RefusalIsJustified'
  <2>1. CASE UNCHANGED vars
    BY <1>2, <2>1 DEF vars, RefusalIsJustified
  <2> SUFFICES ASSUME Next, InOrder(proposal), proposal' = proposal
               PROVE  stage' = "done" => verdict' = "admitted"
    <3>1. Next \/ UNCHANGED vars
      BY <1>2 DEF ProjectionNext, SealExecutionRequest, Materialize
    <3>2. Next => proposal' = proposal
      BY DEF Next, CheckPolicy, CheckSources, CheckInputs, CheckPaths,
             CheckLayout, CheckCredentials, Check, Returned, vars
    <3>3. InOrder(proposal)' /\ proposal' = proposal => InOrder(proposal)
      BY DEF InOrder, Correspondence, EffectsAreApart
    <3> QED BY <2>1, <3>1, <3>2, <3>3 DEF RefusalIsJustified
  <2>2. proposal \in Proposal /\ InputsOnce(proposal)
    BY <1>2 DEF Accepted, Control
  <2>3. CASE CheckPolicy
    BY <2>2, <2>3, PolicyPasses, PassingCheckGoesOn DEF CheckPolicy
  <2>4. CASE CheckSources
    BY <2>2, <2>4, SourcesPass, PassingCheckGoesOn DEF CheckSources
  <2>5. CASE CheckInputs
    <3> DEFINE unmatched == FirstError(
            <<Require(Len(proposal.supplied) = Len(proposal.inputs),
                      "package_input_mismatch")>> \o
            [k \in DOMAIN proposal.inputs |-> InputError(k)] \o
            <<Require(AllConsumed, "package_input_mismatch")>>)
               code == IF unmatched # NoError THEN unmatched
                       ELSE Require(DistinctResources(MatchedInputs),
                                    "package_input_mismatch")
    <3>1. Check("inputs", code, "paths")
      BY <2>5 DEF CheckInputs, MatchedInputs
    <3>2. unmatched = NoError
      BY <2>2, InputChecksPass
    <3>3. DistinctResources(MatchedInputs)
      BY <2>2, InputsPass
    <3> HIDE DEF unmatched
    <3>4. code = NoError
      BY <3>2, <3>3 DEF Require
    <3> HIDE DEF code
    <3> QED BY <3>1, <3>4, PassingCheckGoesOn
  <2>6. CASE CheckPaths
    <3> DEFINE code == FirstError(<<
            PathError(proposal.paths["root_view"]),
            PathError(proposal.paths["session_root"]),
            PathError(proposal.paths["package_output"]),
            PathError(proposal.paths["artifact"]),
            Require(NamesFile(NormalPaths["artifact"]), "invalid_session")>>)
    <3>1. Check("paths", code, "layout")
      BY <2>6 DEF CheckPaths, NormalPaths
    <3>2. code = NoError
      BY <2>2, PathsPass
    <3> HIDE DEF code
    <3> QED BY <3>1, <3>2, PassingCheckGoesOn
  <2>7. CASE CheckLayout
    <3>1. stage = "layout"
      BY <2>7 DEF CheckLayout, Check
    <3>2. LayoutIsDisjoint
      BY <1>2, <2>2, <3>1, LayoutPasses
    <3>3. Check("layout", Require(LayoutIsDisjoint, "unsafe_path_layout"),
                "credentials")
      BY <2>7 DEF CheckLayout
    <3>4. Require(LayoutIsDisjoint, "unsafe_path_layout") = NoError
      BY <3>2 DEF Require
    <3> QED BY <3>3, <3>4, PassingCheckGoesOn
  <2>8. CASE CheckCredentials
    <3> DEFINE code == LET c == proposal.credentials
                           ordered == Sorted(c.groups)
                       IN  FirstError(<<
                Require(\A i \in {c.uid, c.gid} \cup ToSet(c.groups) : i < MaxId,
                        "invalid_session"),
                Require(\A k \in 1 .. Len(ordered) - 1 :
                            ordered[k] # ordered[k + 1], "invalid_session"),
                Require(c.gid \notin ToSet(ordered), "invalid_session")>>)
    <3>1. Check("credentials", code, "done")
      BY <2>8 DEF CheckCredentials
    <3>2. code = NoError
      BY <2>2, CredentialsPass
    <3> HIDE DEF code
    <3> QED BY <3>1, <3>2, PassingCheckGoesOn
  <2>9. CASE Returned
    BY <2>1, <2>9 DEF Returned, vars, RefusalIsJustified
  <2>10. QED
    BY <2>3, <2>4, <2>5, <2>6, <2>7, <2>8, <2>9 DEF Next
<1>3. QED
  BY <1>1, <1>2, AcceptedAlways, PTL DEF ProjectionSpec
=============================================================================
