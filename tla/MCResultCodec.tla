---------------------------- MODULE MCResultCodec ----------------------------
(***************************************************************************)
(* Results, authorities and rewrites for ResultCodec: results of every     *)
(* kind, at and above every limit, and for every field of a record the     *)
(* values that tell its checks apart.                                      *)
(***************************************************************************)
EXTENDS ResultCodec

Execution(q, status, diagnostic) ==
    [request |-> q, backend |-> "k1", status |-> status,
     diagnostic |-> diagnostic]
Done == Execution("x1", "succeeded", 0)
Broken(n) == Execution("x1", "failed", n)

Entry(path, type, size, text) ==
    [path |-> path, type |-> type, size |-> size, text |-> text]
F == Entry(1, "regular", 1, 1)
D == Entry(2, "directory", 0, 1)
Long == Entry(3, "symlink", 0, 2)

Tar(digest) == [format |-> "package_tar", digest |-> digest]
Receipt(digest, entries) ==
    [digest |-> digest, entries |-> entries, intact |-> TRUE]

AnyResult ==
    {FailedExecution("b1", Broken(n)) : n \in 0 .. 2}
    \cup {FailedSealing("b1", Done, kind, n) :
            kind \in {"artifact_encoding", "artifact_cleanup"}, n \in 0 .. 2}
    \cup {Succeeded("b1", Done, p, Tar("s1")) :
            p \in {<<>>, <<F>>, <<F, D>>, <<Long>>, <<F, Long>>,
                   <<F, D, Entry(3, "symlink", 0, 1)>>,
                   <<F, Entry(3, "symlink", 0, 3)>>}}

\* "x3" is not a request for a build.
ForBuild == {"x1", "x2"}
AnyAuthority ==
    [build : {"b1", "b2"}, request : {"x1", "x2", "x3"}, backend : {"k1", "k2"}]

AnyRewrite ==
    [format |-> {"other"}, build |-> {"b2"}, request |-> {"x2", "x3"},
     backend |-> {"k2"},
     execution |-> {Broken(1), Execution("x2", "succeeded", 0)},
     identity |-> {BuildIdentity(r) :
        r \in {FailedSealing("b1", Done, "artifact_encoding", 0),
               FailedSealing("b1", Done, "artifact_cleanup", 0),
               Succeeded("b1", Done, <<F, D>>, Tar("s2"))}},
     embedded |-> {<<>>, <<Done>>, <<Broken(1)>>,
                   <<Execution("x2", "succeeded", 0)>>,
                   <<Execution("x3", "succeeded", 0)>>},
     outcome |-> {"succeeded", "failed", "unknown"},
     failure |-> {<<>>, <<"artifact_cleanup">>, <<"unknown">>},
     diagnostic |-> {0, 1, 2},
     payload |-> {<<>>, <<<<D, F>>>>, <<<<F, F>>>>, <<<<D>>>>,
                  <<<<Entry(1, "unknown", 0, 1)>>>>, <<<<Long>>>>,
                  <<<<F, Entry(2, "directory", 1, 1)>>>>},
     artifact |-> {<<>>, <<Tar("s2")>>,
                   <<[format |-> "unknown", digest |-> "s1"]>>},
     receipt |-> {<<>>, <<Receipt("s2", 2)>>, <<Receipt("s1", 1)>>,
                  <<[Receipt("s1", 2) EXCEPT !.intact = FALSE]>>},
     extent |-> {"header", "body", "longer"}]
=============================================================================
