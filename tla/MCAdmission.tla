---------------------------- MODULE MCAdmission ----------------------------
(***************************************************************************)
(* Families of proposals for Projection: each family varies one part of a   *)
(* proposal that is otherwise in order.                                    *)
(***************************************************************************)
EXTENDS Projection, TLC

Path(parts) == [abs |-> TRUE, parts |-> parts]

Decl(name, digest) == [name |-> name, digest |-> digest]
Object(decl, observed, path) ==
    [declaration |-> decl, observed |-> observed, path |-> path]
Supplied(input, resource, path) ==
    [input |-> input, resource |-> resource, path |-> path]

Good ==
    [package_root |-> TRUE, uncompressed |-> TRUE, same_source |-> TRUE,
     sources |-> <<Decl("a", 1)>>,
     objects |-> <<Object(Decl("a", 1), 1, Path(<<"f">>))>>,
     inputs |-> <<"i1", "i2">>,
     supplied |-> <<Supplied("i2", "r2", Path(<<"i", "2">>)),
                    Supplied("i1", "r1", Path(<<"i", "1">>))>>,
     paths |-> [root_view |-> Path(<<"r">>), session_root |-> Path(<<"s">>),
                package_output |-> Path(<<"o">>),
                artifact |-> Path(<<"a", "t">>)],
     credentials |-> [uid |-> 1, gid |-> 0, groups |-> <<2, 1>>]]
-----------------------------------------------------------------------------
\* Layout: up to MaxMoved of the seven paths leave their place.
CONSTANTS MaxMoved, Trailing

Slot == Coordinate \cup {"object", "input1", "input2"}

Moved(p, move) ==
    LET At(slot, path) == IF slot \in DOMAIN move THEN move[slot] ELSE path IN
    [p EXCEPT !.paths = [root_view |-> At("root_view", @.root_view),
                         session_root |-> At("session_root", @.session_root),
                         package_output |-> At("package_output", @.package_output),
                         artifact |-> At("artifact", @.artifact)],
              !.objects[1].path = At("object", @),
              !.supplied[1].path = At("input2", @),
              !.supplied[2].path = At("input1", @)]

\* Inside, around and beside the other places, relative, and the root.
Destination ==
    {Path(<<"s", "x">>), Path(<<"o", ".", "y">>), Path(<<"r", "..", "a">>),
     Path(<<"i">>), Path(<<>>), [abs |-> FALSE, parts |-> <<"s">>]}
    \cup (IF Trailing THEN {Path(<<"s", "">>), Path(<<"i", ".">>)} ELSE {})

LayoutProposal ==
    {Moved(Good, move) : move \in UNION {[moved -> Destination] :
        moved \in {m \in SUBSET Slot : Cardinality(m) <= MaxMoved}}}
    \cup {Moved(Good, [artifact |-> Path(<<"a", "">>)])}
-----------------------------------------------------------------------------
\* Authority: sources, inputs, policy and credentials.
Declaration == {Decl("a", 1), Decl("a", 2), Decl("b", 1)}

\* All sequences of at most two, with Make(x, n) for an x in the n-th place.
UpToTwo(S, Make(_, _)) ==
    {<<>>} \cup {<<Make(x, 1)>> : x \in S}
    \cup {<<Make(x, 1), Make(y, 2)>> : x, y \in S}

AnObject(x, n) ==
    Object(x.d, x.observed, IF n = 1 THEN Path(<<"f">>) ELSE Path(<<"g">>))
AnInput(x, n) ==
    Supplied(x.i, x.r, Path(<<"i", IF n = 1 THEN "1" ELSE "2">>))

SourceProposal ==
    {[Good EXCEPT !.sources = s, !.objects = o] :
        s \in {<<>>, <<Decl("a", 1)>>, <<Decl("a", 1), Decl("b", 1)>>},
        o \in UpToTwo([d : Declaration, observed : {1, 2}], AnObject)}

\* "i3" is of the package of "i1"; a resource may be one of the adapter's.
PackageOf == [i1 |-> "p", i2 |-> "q", i3 |-> "p"]
OwnResources == [source |-> "rs", workspace |-> "rw", output |-> "ro", temporary |-> "rt"]

InputProposal ==
    {[Good EXCEPT !.inputs = i, !.supplied = r] :
        i \in {<<>>, <<"i1">>, <<"i1", "i2">>, <<"i2", "i1">>, <<"i1", "i3">>},
        r \in UpToTwo([i : {"i1", "i2", "i3"},
                       r : {"r1", "r2"}], AnInput)}

AliasProposal ==
    {[Good EXCEPT !.supplied[1].resource = r, !.supplied[2].resource = s] :
        r, s \in {"r1"} \cup Range(OwnResources)}

CredentialProposal ==
    {[Good EXCEPT !.credentials = [uid |-> u, gid |-> g, groups |-> s]] :
        u \in {0, 2, 3}, g \in 0 .. 3,
        s \in UNION {[1 .. n -> 0 .. 3] : n \in 0 .. 3}}

PolicyProposal ==
    {[Good EXCEPT !.package_root = a, !.uncompressed = b, !.same_source = c] :
        a \in BOOLEAN, b \in BOOLEAN, c \in BOOLEAN}

AnyProposal ==
    LayoutProposal \cup SourceProposal \cup InputProposal
    \cup AliasProposal \cup CredentialProposal \cup PolicyProposal
=============================================================================
