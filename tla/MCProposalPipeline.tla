--------------------------- MODULE MCProposalPipeline ---------------------------
(* Small trees: a path that may be anything, one below it, a protected file. *)
EXTENDS ProposalPipeline

D == <<"d">>
F == <<"d", "f">>
P == <<".cyxcode">>
U == <<"back\\slash">>

MCPaths == {D, F, P, U}
MCUnsafePaths == {U}
MCProtectedRoots == {P}

File(c) == Entry("file", c)
Link(c) == Entry("symlink", c)

\* What may be at D, with what is below it.
Shapes(entries, below) ==
    {EmptyTree} \cup {[q \in {D} |-> e] : e \in entries \cup {Directory}}
    \cup {[q \in {D, F} |-> IF q = D THEN Directory ELSE e] : e \in below}

With(trees, path, entries) ==
    trees \cup {[q \in DOMAIN t \cup {path} |-> IF q = path THEN e ELSE t[q]]
                   : t \in trees, e \in entries}

MCSources == With(Shapes({File("1")}, {File("1")}), P, {File("1")})

MCResults ==
    With(Shapes({File("1"), File("2"), Link("1"), Special}, {File("2"), Directory}),
         P, {File("2")})
    \cup With(Shapes({File("2")}, {}), U, {File("1")})

MCEdits == {[path |-> P, entry |-> File("2")], [path |-> P, entry |-> File("1")],
            [path |-> D, entry |-> File("2")], [path |-> D, entry |-> Special],
            [path |-> D, entry |-> Absent], [path |-> F, entry |-> File("1")]}
===============================================================================
