---------------------------- MODULE MCPreparation ----------------------------
(***************************************************************************)
(* Source archives for Preparation: all short sequences of a pool of       *)
(* entries that support, collide with or contradict one another.           *)
(***************************************************************************)
EXTENDS Preparation

BuildWorkspace == <<"session", "work">>
ObjectName(k) == <<"object1", "object2", "object3">>[k]

E(type, path, mode, mtime, data, to) ==
    [type |-> type, path |-> path, mode |-> mode, mtime |-> mtime,
     data |-> data, to |-> to]
Dir(path, mode) == E("dir", path, mode, 1, "", <<>>)
File(path, mode) == E("file", path, mode, 2, "d", <<>>)
Symlink(path, to) == E("link", path, Bit, 3, "", to)
Hard(path, to) == E("hard", path, Bit, 4, "", to)

\* Directories of every kind of mode, implied and declared, and what is in
\* them; links; names taken twice, by home too; paths that are refused.
Pool ==
    {Dir(<<"a", "">>, Bit \cup {"setid"}), Dir(<<"a">>, {"rx", "go"}),
     Dir(<<"a", "b">>, {}), File(<<"a", "b", "f">>, {"rx", "w", "setid"}),
     File(<<"a">>, Bit), Symlink(<<"a">>, <<"b">>),
     Hard(<<"c">>, <<"a", "b", "f">>), Symlink(<<"c", "l">>, <<"..", "a">>),
     Dir(<<"home">>, Bit), File(<<"home", "f">>, Bit),
     File(<<"a", "..", "f">>, Bit), Symlink(<<"l">>, <<"..", "a">>),
     E("device", <<"d">>, Bit, 5, "", <<>>)}

Archive(entries) == [unpack |-> TRUE, entries |-> entries]
Raw == [unpack |-> FALSE, entries |-> <<>>]
UpTo(n, S) == UNION {[1 .. k -> S] : k \in 0 .. n}

Plain(objects, mask, privileged) ==
    [objects |-> objects, mask |-> mask, privileged |-> privileged,
     aliased |-> FALSE]

\* One archive of up to three entries.
Single == {Plain(<<Archive(e)>>, mask, p) :
            e \in UpTo(3, Pool), mask \in {{}, {"go"}}, p \in BOOLEAN}

\* Two archives of up to two entries, after an object that is none.
Twice == {Plain(<<Raw, Archive(e), Archive(f)>>, {"go"}, p) :
            e, f \in UpTo(2, {x \in Pool : /\ x.type \in {"dir", "file", "hard"}
                                           /\ "home" \notin Range(x.path)}),
            p \in BOOLEAN}

\* Restrictive and deep: for a failure, a build and retries.
Deep == <<File(<<"a", "b", "f">>, {}), Dir(<<"a">>, {"go"}),
          Hard(<<"c">>, <<"a", "b", "f">>), Dir(<<"a", "b">>, {})>>
Awkward ==
    {Plain(<<Archive(Deep)>>, mask, p) : mask \in {{}, Bit}, p \in BOOLEAN}
    \cup {[Plain(<<Raw>>, {}, TRUE) EXCEPT !.aliased = TRUE]}

\* For two failures and a build.
Shut == {Plain(<<Archive(<<Dir(<<"a">>, {}), File(<<"a", "f">>, {})>>)>>,
               {}, FALSE)}

AnySession == Single \cup Twice \cup Awkward \cup Shut
Faults(s) == IF s \in Awkward THEN 1 ELSE IF s \in Shut THEN 2 ELSE 0
Builds(s) == IF s \in Awkward \cup Shut THEN 1 ELSE 0
=============================================================================
