------------------------------ MODULE Admission ------------------------------
(***************************************************************************)
(* admitted_build_session::admit() of src/src/model.cpp: the pure check of *)
(* a proposed build session before anything on the host is touched.        *)
(*                                                                         *)
(* One action per group of checks, in the code's order; the first check    *)
(* that fails ends the call with its error code.  A path is a record       *)
(* [abs, parts]: the parts between slashes, where an empty one stands for  *)
(* what follows a trailing slash.                                          *)
(***************************************************************************)
EXTENDS Integers, Sequences, SequencesExt, FiniteSetsExt, Sorting

CONSTANTS
    Proposal,   \* the proposals the callers make
    MaxId       \* numeric_limits<uid_t>::max(), the same for gid_t

ASSUME MaxIdAssumption == MaxId \in Nat

(***************************************************************************)
(* A proposal: the build request (layout, sources, inputs: declarations    *)
(* and build-scoped input identities in request order), the fetched        *)
(* objects, the supplied input resources, the coordinates and credentials. *)
(***************************************************************************)
Coordinate == {"root_view", "session_root", "package_output", "artifact"}

AnyPath == [abs : BOOLEAN, parts : Seq(STRING)]
IsSequence(seq) == seq \in Seq(ToSet(seq))
ASSUME ProposalAssumption ==
    \A p \in Proposal :
        /\ IsSequence(p.sources) /\ IsSequence(p.objects)
        /\ IsSequence(p.inputs) /\ IsSequence(p.supplied)
        /\ \A o \in ToSet(p.objects) : o.path \in AnyPath
        /\ \A r \in ToSet(p.supplied) : r.path \in AnyPath
        /\ p.paths \in [Coordinate -> AnyPath]
        /\ {p.credentials.uid, p.credentials.gid} \subseteq Nat
        /\ p.credentials.groups \in Seq(Nat)

VARIABLES
    proposal,   \* the arguments of admit()
    stage,      \* the next group of checks
    verdict,    \* "pending", "admitted", or the error code thrown
    inputs,     \* normalized_inputs
    paths,      \* session_paths, normalized
    groups      \* supplementary_groups, sorted

vars == <<proposal, stage, verdict, inputs, paths, groups>>

ErrorCode == {"invalid_session", "source_material_mismatch",
              "package_input_mismatch", "unsafe_path_layout"}
NoError == "none"
-----------------------------------------------------------------------------
\* Paths.

Blank == ""     \* an empty component

\* One component of lexically_normal(): "." and "" vanish, ".." removes.
NormalStep(done, part) ==
    CASE part \in {Blank, "."} -> done
      [] part = ".." -> IF done = <<>> THEN done ELSE Front(done)
      [] OTHER -> Append(done, part)

\* The directory or file a path leads to, where no component is a symlink.
Place(path) ==
    LET done[k \in 0 .. Len(path.parts)] ==
            IF k = 0 THEN <<>> ELSE NormalStep(done[k - 1], path.parts[k])
    IN done[Len(path.parts)]

\* lexically_normal() of an absolute path keeps a trailing slash, also the
\* one that a final "." or ".." leaves: the last component is then empty.
Normal(path) ==
    LET place == Place(path) IN
    IF place # <<>> /\ Last(path.parts) \in {Blank, ".", ".."}
    THEN Append(place, Blank) ELSE place

\* normalize_absolute(): the error it throws, if any.
PathError(path) == IF ~path.abs THEN "invalid_session"
                   ELSE IF Normal(path) = <<>> THEN "unsafe_path_layout"
                   ELSE NoError

\* contains_or_equals(), component by component; overlaps() in both senses.
SharesFirstComponent(parent, child) == parent[1] = child[1]
ContainsOrEquals(parent, child) == IsPrefix(parent, child)
OverlapsOneWay(a, b) == ContainsOrEquals(a, b)
Overlaps(a, b) == ContainsOrEquals(a, b) \/ ContainsOrEquals(b, a)
-----------------------------------------------------------------------------
Init ==
    /\ proposal \in Proposal
    /\ stage = "policy"
    /\ verdict = "pending"
    /\ inputs = <<>>
    /\ paths = [c \in {} |-> <<>>]
    /\ groups = <<>>

\* The first error of a sequence of checks, NoError if none fails.
FirstError(codes) ==
    LET k == SelectInSeq(codes, LAMBDA c : c # NoError) IN
    IF k = 0 THEN NoError ELSE codes[k]

Require(ok, code) == IF ok THEN NoError ELSE code

\* A group of checks: go on to the next group, or throw.
Check(here, code, next) ==
    /\ stage = here
    /\ stage' = IF code = NoError THEN next ELSE "done"
    /\ verdict' = IF code # NoError THEN code
                  ELSE IF next = "done" THEN "admitted" ELSE verdict
    /\ UNCHANGED proposal

\* Output layout, artifact compression, and the source snapshot.
CheckPolicy ==
    /\ Check("policy",
             FirstError(<<
                Require(proposal.package_root, "invalid_session"),
                Require(proposal.uncompressed, "invalid_session"),
                Require(proposal.same_source, "source_material_mismatch"),
                Require(Len(proposal.objects) = Len(proposal.sources),
                        "source_material_mismatch")>>),
             "sources")
    /\ UNCHANGED <<inputs, paths, groups>>

\* The fetched objects: local names are unique, digests and paths are right.
ObjectError(k) ==
    LET o == proposal.objects[k] IN
    FirstError(<<
        Require(\A j \in 1 .. k - 1 :
                    proposal.objects[j].declaration.name # o.declaration.name,
                "source_material_mismatch"),
        Require(o.observed = o.declaration.digest, "source_material_mismatch"),
        PathError(o.path)>>)

\* Each source of the request is fetched exactly once.
DeclaredError(k) ==
    Require(Cardinality({j \in DOMAIN proposal.objects :
                proposal.objects[j].declaration = proposal.sources[k]}) = 1,
            "source_material_mismatch")
CheckSources ==
    /\ Check("sources",
             FirstError([k \in DOMAIN proposal.objects |-> ObjectError(k)] \o
                        [k \in DOMAIN proposal.sources |-> DeclaredError(k)]),
             "inputs")
    /\ UNCHANGED <<inputs, paths, groups>>

(***************************************************************************)
(* The supplied resources are matched to the build-scoped inputs of the    *)
(* request, in the request's order; each input has exactly one, none is    *)
(* left over, and no two share an execution resource identity.             *)
(***************************************************************************)
Matches(k) == {j \in DOMAIN proposal.supplied :
                    proposal.supplied[j].input = proposal.inputs[k]}
AmbiguousMatch(k) == Matches(k) # {}
UniqueMatch(k) == Cardinality(Matches(k)) = 1
InputError(k) ==
    IF ~UniqueMatch(k) THEN "package_input_mismatch"
    ELSE PathError(proposal.supplied[Min(Matches(k))].path)
SuppliedOrder(k) == k
MatchOf(k) == Min(Matches(k))
Normalized(r) == [input |-> r.input, resource |-> r.resource,
                  path |-> Normal(r.path)]
AllConsumed == \A j \in DOMAIN proposal.supplied :
                    \E k \in DOMAIN proposal.inputs : j \in Matches(k)
DistinctResources(seq) == IsInjective([k \in DOMAIN seq |-> seq[k].resource])
CheckInputs ==
    LET wanted == DOMAIN proposal.inputs
        unmatched == FirstError(
            <<Require(Len(proposal.supplied) = Len(proposal.inputs),
                      "package_input_mismatch")>> \o
            [k \in wanted |-> InputError(k)] \o
            <<Require(AllConsumed, "package_input_mismatch")>>)
        matched == [k \in wanted |-> Normalized(proposal.supplied[MatchOf(k)])]
        code == IF unmatched # NoError THEN unmatched
                ELSE Require(DistinctResources(matched),
                             "package_input_mismatch")
    IN
    /\ Check("inputs", code, "paths")
    /\ inputs' = IF code = NoError THEN matched ELSE inputs
    /\ UNCHANGED <<paths, groups>>

\* The coordinates are normalized; the artifact path needs a file name.
NamesFile(normal) == normal = <<>> \/ Last(normal) # Blank
CheckPaths ==
    LET normal == [c \in Coordinate |-> Normal(proposal.paths[c])]
        code == FirstError(<<
            PathError(proposal.paths["root_view"]),
            PathError(proposal.paths["session_root"]),
            PathError(proposal.paths["package_output"]),
            PathError(proposal.paths["artifact"]),
            Require(NamesFile(normal["artifact"]), "invalid_session")>>)
    IN
    /\ Check("paths", code, "layout")
    /\ paths' = IF code = NoError THEN normal ELSE paths
    /\ UNCHANGED <<inputs, groups>>

(***************************************************************************)
(* require_disjoint() of every two of the four coordinates and the inputs, *)
(* and of every source object with the session root, the package output    *)
(* root and the artifact path.                                             *)
(***************************************************************************)
LayoutIsDisjoint ==
    LET given == [k \in DOMAIN inputs |-> inputs[k].path]
        object == [k \in DOMAIN proposal.objects |->
                        Normal(proposal.objects[k].path)]
    IN
    /\ \A c, d \in Coordinate : c # d => ~Overlaps(paths[c], paths[d])
    /\ \A k \in DOMAIN given :
        /\ \A c \in Coordinate : ~Overlaps(given[k], paths[c])
        /\ \A j \in 1 .. k - 1 : ~Overlaps(given[k], given[j])
    /\ \A k \in DOMAIN object : \A c \in Coordinate \ {"root_view"} :
            ~Overlaps(object[k], paths[c])
CheckLayout ==
    /\ Check("layout", Require(LayoutIsDisjoint, "unsafe_path_layout"),
             "credentials")
    /\ UNCHANGED <<inputs, paths, groups>>

\* The supplementary groups are sorted.
AsSupplied(seq) == seq
Sorted(seq) == SortedBy(seq, seq)

\* Numeric identities are below the native maximum; the supplementary groups
\* are sorted, then checked to be unique and without the primary group.
CheckCredentials ==
    LET c == proposal.credentials
        ordered == Sorted(c.groups)
        code == FirstError(<<
            Require(\A i \in {c.uid, c.gid} \cup ToSet(c.groups) : i < MaxId,
                    "invalid_session"),
            Require(\A k \in 1 .. Len(ordered) - 1 :
                        ordered[k] # ordered[k + 1], "invalid_session"),
            Require(c.gid \notin ToSet(ordered), "invalid_session")>>)
    IN
    /\ Check("credentials", code, "done")
    /\ groups' = IF code = NoError THEN ordered ELSE groups
    /\ UNCHANGED <<inputs, paths>>

\* The call has returned or thrown.
Returned == stage = "done" /\ UNCHANGED vars

Next == \/ CheckPolicy \/ CheckSources \/ CheckInputs \/ CheckPaths
        \/ CheckLayout \/ CheckCredentials \/ Returned

Spec == Init /\ [][Next]_vars
-----------------------------------------------------------------------------
(***************************************************************************)
(* "coordinates are absolute and do not overlap in ways that would mix     *)
(* authority with effects" (DESIGN.md): no place an admitted session       *)
(* writes to (session root, package output, artifact) contains, or lies    *)
(* in, another coordinate, an input or a source object, as places on the   *)
(* host and not as sequences of components.                                *)
(***************************************************************************)
Effect == {"session_root", "package_output", "artifact"}
Meet(a, b) == IsPrefix(Place(a), Place(b)) \/ IsPrefix(Place(b), Place(a))
EffectsAreApart(p) ==
    \A c \in Effect :
        /\ \A d \in Coordinate \ {c} : ~Meet(p.paths[c], p.paths[d])
        /\ \A k \in DOMAIN p.supplied : ~Meet(p.paths[c], p.supplied[k].path)
        /\ \A k \in DOMAIN p.objects : ~Meet(p.paths[c], p.objects[k].path)
AdmittedEffectsAreApart == verdict = "admitted" => EffectsAreApart(proposal)

(***************************************************************************)
(* Admission binds every build input of the request to the one resource    *)
(* supplied for it: there is a one-to-one correspondence that the admitted *)
(* inputs follow in request order, and a proposal that has none is never   *)
(* admitted.                                                               *)
(***************************************************************************)
Correspondence(p) ==
    {f \in [DOMAIN p.inputs -> DOMAIN p.supplied] :
        /\ IsInjective(f) /\ Range(f) = DOMAIN p.supplied
        /\ \A k \in DOMAIN f : p.supplied[f[k]].input = p.inputs[k]
        /\ \A j, k \in DOMAIN f : j # k =>
                p.supplied[f[j]].resource # p.supplied[f[k]].resource}
InputsCorrespond ==
    verdict = "admitted" =>
        \E f \in Correspondence(proposal) :
            /\ DOMAIN inputs = DOMAIN f
            /\ \A k \in DOMAIN f :
                /\ inputs[k].input = proposal.inputs[k]
                /\ inputs[k].resource = proposal.supplied[f[k]].resource

(***************************************************************************)
(* The admitted credentials name every requested group exactly once, in    *)
(* order, and none of them twice, as primary and supplementary.            *)
(***************************************************************************)
CredentialsAreCanonical ==
    verdict = "admitted" =>
        /\ ToSet(groups) = ToSet(proposal.credentials.groups)
        /\ \A j, k \in DOMAIN groups : j < k => groups[j] < groups[k]
        /\ proposal.credentials.gid \notin ToSet(groups)
        /\ \A g \in ToSet(groups) : g < MaxId

(***************************************************************************)
(* Admission refuses only what is wrong: a proposal whose objects, inputs, *)
(* coordinates and credentials are all in order is admitted.               *)
(***************************************************************************)
IsFile(path) == path.abs /\ Place(path) # <<>>
InOrder(p) ==
    /\ p.package_root /\ p.uncompressed /\ p.same_source
    /\ {o.declaration : o \in ToSet(p.objects)} = ToSet(p.sources)
    /\ Len(p.objects) = Len(p.sources)
    /\ Cardinality({o.declaration.name : o \in ToSet(p.objects)})
            = Len(p.objects)
    /\ \A o \in ToSet(p.objects) : o.observed = o.declaration.digest
    /\ Correspondence(p) # {}
    /\ \A x \in ToSet(p.objects) \cup ToSet(p.supplied) : IsFile(x.path)
    /\ \A c \in Coordinate : IsFile(p.paths[c])
    /\ Last(p.paths["artifact"].parts) \notin {Blank, ".", ".."}
    /\ EffectsAreApart(p)
    /\ \A k \in DOMAIN p.supplied :
        /\ ~Meet(p.paths["root_view"], p.supplied[k].path)
        /\ \A j \in DOMAIN p.supplied :
                j # k => ~Meet(p.supplied[j].path, p.supplied[k].path)
    /\ \A i \in {p.credentials.uid, p.credentials.gid}
                    \cup ToSet(p.credentials.groups) : i < MaxId
    /\ p.credentials.gid \notin ToSet(p.credentials.groups)
    /\ Cardinality(ToSet(p.credentials.groups)) = Len(p.credentials.groups)
RefusalIsJustified == stage = "done" /\ InOrder(proposal) => verdict = "admitted"
=============================================================================
