------------------------------ MODULE Projection ------------------------------
(***************************************************************************)
(* What an admitted session becomes for the execution backend              *)
(* (src/src/executor.cpp): seal_execution_request() binds execution        *)
(* resources to the places where the build program sees them, and the end  *)
(* of prepare() gives every resource its place on the host.  The session   *)
(* is the one that Admission's checks let through.                         *)
(***************************************************************************)
EXTENDS Admission

CONSTANTS
    Package,        \* input identity -> name of its package
    OwnResource     \* role -> identity derived for the adapter's resource

Role == {"source", "workspace", "output", "temporary"}

\* Identities of different domains differ.
ASSUME OwnResourceAssumption ==
    DOMAIN OwnResource = Role /\ IsInjective(OwnResource)

VARIABLES
    request,    \* "none", "sealed", "bound", or why there is none
    bindings,   \* the resource layout of the sealed request
    materials   \* the execution resources: an identity and a host path each

pvars == <<request, bindings, materials>>
-----------------------------------------------------------------------------
\* What the build program sees of a resource, and with which access.
Binding(resource, access, mount) ==
    [resource |-> resource, access |-> access, mount |-> mount]
InputMount(name) == <<"build", "inputs", name>>
MountOf(role) == CASE role = "source" -> <<"build", "source">>
                   [] role = "workspace" -> <<"build", "work">>
                   [] role = "output" -> <<"build", "package">>
                   [] role = "temporary" -> <<"tmp">>
Own(role) == Binding(OwnResource[role],
                     IF role = "source" THEN "read_only" ELSE "writable",
                     MountOf(role))

\* supplied_resource(): the resource admitted for an input of the request.
SuppliedInOrder(k) == Normalized(proposal.supplied[k])
SuppliedFor(k) ==
    inputs[SelectInSeq(inputs, LAMBDA r : r.input = proposal.inputs[k])]

InputBinding(k) == Binding(SuppliedFor(k).resource, "read_only",
                           InputMount(Package[proposal.inputs[k]]))
Bindings ==
    <<Own("source")>> \o [k \in DOMAIN proposal.inputs |-> InputBinding(k)]
    \o <<Own("workspace"), Own("output"), Own("temporary")>>

\* require_unique_execution_resource_identities().
UniqueAmongInputs(seq) ==
    IsInjective([k \in 1 .. Len(seq) - 4 |-> seq[k + 1].resource])
UniqueResources(seq) == IsInjective([k \in DOMAIN seq |-> seq[k].resource])

\* resource_layout::seal() refuses two resources at one place.
OneResourcePerMount(seq) == IsInjective([k \in DOMAIN seq |-> seq[k].mount])

SealExecutionRequest ==
    /\ verdict = "admitted" /\ request = "none"
    /\ request' = IF ~UniqueResources(Bindings) THEN "package_input_mismatch"
                  ELSE IF ~OneResourcePerMount(Bindings) THEN "refused"
                  ELSE "sealed"
    /\ bindings' = IF request' = "sealed" THEN Bindings ELSE bindings
    /\ UNCHANGED <<vars, materials>>

\* project_prepared_paths(): the adapter's directories in the session root.
WorkInSource(role) ==
    paths["session_root"] \o (IF role = "source" THEN <<"work", "source">>
                              ELSE IF role = "workspace" THEN <<"work">>
                              ELSE <<"tmp">>)
PreparedPath(role) ==
    Append(paths["session_root"],
           CASE role = "source" -> "source"
             [] role = "workspace" -> "work"
             [] role = "temporary" -> "tmp")

Materials ==
    <<[resource |-> OwnResource["source"], path |-> PreparedPath("source")]>>
    \o [k \in DOMAIN proposal.inputs |->
            [resource |-> SuppliedFor(k).resource, path |-> SuppliedFor(k).path]]
    \o <<[resource |-> OwnResource["workspace"],
          path |-> PreparedPath("workspace")],
         [resource |-> OwnResource["output"], path |-> paths["package_output"]],
         [resource |-> OwnResource["temporary"],
          path |-> PreparedPath("temporary")]>>

\* The end of prepare(): every resource of the layout gets its host path.
Materialize ==
    /\ request = "sealed"
    /\ request' = "bound"
    /\ materials' = Materials
    /\ UNCHANGED <<vars, bindings>>

\* project_sealed_artifact_path()
SealedArtifactPath == Append(paths["session_root"], "sealed-artifact.tar")

ProjectionInit == Init /\ request = "none" /\ bindings = <<>> /\ materials = <<>>

ProjectionNext ==
    (Next /\ UNCHANGED pvars) \/ SealExecutionRequest \/ Materialize

ProjectionSpec == ProjectionInit /\ [][ProjectionNext]_<<vars, pvars>>
-----------------------------------------------------------------------------
(***************************************************************************)
(* "... do not overlap in ways that would mix authority with effects"      *)
(* (DESIGN.md), for what the backend is given: a place the build program   *)
(* may write to neither contains nor lies in the place of another          *)
(* resource, the root view, a fetched object, the artifact's path or the   *)
(* retained archive.                                                       *)
(***************************************************************************)
HostPlaces(access) ==
    {m.path : m \in {n \in ToSet(materials) :
        \E b \in ToSet(bindings) : b.resource = n.resource /\ b.access = access}}
Sensitive ==
    HostPlaces("read_only")
    \cup {paths["root_view"], paths["artifact"], SealedArtifactPath}
    \cup {Place(o.path) : o \in ToSet(proposal.objects)}
Touch(a, b) == IsPrefix(a, b) \/ IsPrefix(b, a)
WritableIsApart ==
    request = "bound" =>
        /\ Cardinality(HostPlaces("writable")) = 3
        /\ \A w \in HostPlaces("writable") :
            /\ \A s \in Sensitive : ~Touch(w, s)
            /\ \A v \in HostPlaces("writable") \ {w} : ~Touch(w, v)

(***************************************************************************)
(* Each package the request asks for is what the build program finds under *)
(* its name, read-only: one binding, one materialization, and the host     *)
(* path that the caller supplied for that very input; and nothing else is  *)
(* found beneath /build/inputs.                                            *)
(***************************************************************************)
InputsReachTheBuild ==
    request = "bound" =>
        /\ {b.mount : b \in {c \in ToSet(bindings) :
                IsPrefix(<<"build", "inputs">>, c.mount)}}
             = {InputMount(Package[i]) : i \in ToSet(proposal.inputs)}
        /\ \A i \in ToSet(proposal.inputs) :
            LET seen == {b \in ToSet(bindings) : b.mount = InputMount(Package[i])}
                host == {m \in ToSet(materials) :
                            \E b \in seen : b.resource = m.resource}
            IN
            /\ Cardinality(seen) = 1 /\ Cardinality(host) = 1
            /\ \A b \in seen : b.access = "read_only"
            /\ \A m \in host : \E s \in ToSet(proposal.supplied) :
                    /\ s.input = i /\ s.resource = m.resource
                    /\ Place(s.path) = m.path

(***************************************************************************)
(* "a caller-supplied package-input resource cannot alias an adapter-owned *)
(* source, workspace, package-output, or temporary resource" (TESTING.md): *)
(* the request is refused as a mismatch then, and only then.               *)
(***************************************************************************)
OnlyAliasesMismatch ==
    request # "none" =>
        (request = "package_input_mismatch") =
            (\E s \in ToSet(proposal.supplied) : s.resource \in Range(OwnResource))
=============================================================================
