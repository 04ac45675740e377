----------------------------- MODULE WorkspaceTree -----------------------------
(***************************************************************************)
(* Workspace trees and the canonical patches between them: the inventory   *)
(* of sheath/snapshots.py, the difference of sheath/patches.py and its     *)
(* replay in sheath/patch_application.py.  A tree is a function from paths *)
(* to entries; a digest of a tree is the tree.  A path is the sequence of  *)
(* its names.                                                              *)
(***************************************************************************)
EXTENDS Naturals, Sequences, FiniteSets

CONSTANTS
    Paths,       \* every path an instance knows
    Contents,    \* of files, and targets of links
    UnsafePaths  \* those _safe_path refuses: a file name with a backslash

ASSUME TreeAssumption ==
    /\ \A p \in Paths : p \in Seq(STRING) /\ p # <<>>
    /\ UnsafePaths \subseteq Paths

Kinds == {"directory", "file", "symlink", "special"}

Entries == [kind : Kinds, data : Contents \cup {"none"}]

Entry(kind, data) == [kind |-> kind, data |-> data]

Directory == Entry("directory", "none")

\* Neither directory, file nor link: an inventory raises on it.
Special == Entry("special", "none")

Absent == Entry("absent", "none")

At(tree, path) == IF path \in DOMAIN tree THEN tree[path] ELSE Absent

IsBelow(path, ancestor) ==
    Len(ancestor) < Len(path) /\ SubSeq(path, 1, Len(ancestor)) = ancestor

\* Everything above an entry is a directory.
WellFormed(tree) ==
    \A path \in DOMAIN tree : \A n \in 1..(Len(path) - 1) :
        At(tree, SubSeq(path, 1, n)) = Directory

Trees == UNION {[D -> Entries] : D \in SUBSET Paths}

\* An inventory can be made of the tree.
Readable(tree) == \A path \in DOMAIN tree : tree[path].kind # "special"

Restricted(tree, kept) == [path \in DOMAIN tree \cap kept |-> tree[path]]

\* The tree after path, and all below it, is replaced by what base has there.
WithFrom(tree, base, path) ==
    LET Here(q) == q = path \/ IsBelow(q, path)
    IN  [q \in {r \in DOMAIN tree : ~Here(r)} \cup {r \in DOMAIN base : Here(r)} |->
            IF Here(q) THEN base[q] ELSE tree[q]]

-------------------------------------------------------------------------------
(* The difference of two inventories: for each path that differs, what is there
   before and after.  add, delete and modify are told by which one is absent. *)

Changes(source, result) ==
    [path \in {p \in DOMAIN source \cup DOMAIN result : At(source, p) # At(result, p)} |->
        [before |-> At(source, path), after |-> At(result, path)]]

\* What a patch record can say of an entry.
IsRecordable(entry) == entry.kind \in {"directory", "file", "symlink"}

ChangedFiles(changes) == {path \in DOMAIN changes : changes[path].after.kind = "file"}

-------------------------------------------------------------------------------
(* Replay *)

\* The tree a patch promises, worked out on paper before anything is touched.
Final(tree, changes) ==
    [path \in {p \in DOMAIN tree \cup DOMAIN changes :
                 p \in DOMAIN changes => changes[p].after # Absent} |->
        IF path \in DOMAIN changes THEN changes[path].after ELSE tree[path]]

TransitionHolds(tree, changes) ==
    /\ \A path \in DOMAIN changes : At(tree, path) = changes[path].before
    /\ WellFormed(Final(tree, changes))

Removals(changes) == {path \in DOMAIN changes : changes[path].before # Absent}

Additions(changes) == {path \in DOMAIN changes : changes[path].after # Absent}

\* Mutant: shallowest first, a directory still holds what is to be removed below it.
RemovableTopDown(tree, changes) ==
    \A path \in Removals(changes) :
        changes[path].before = Directory => \A q \in DOMAIN tree : ~IsBelow(q, path)

\* Removals go deepest first, and rmdir wants the directory empty: all that is
\* below it must have been removed before it.
Removable(tree, changes) ==
    \A path \in Removals(changes) :
        changes[path].before = Directory =>
            \A q \in DOMAIN tree : IsBelow(q, path) => q \in Removals(changes)

Removed(tree, changes) == Restricted(tree, Paths \ Removals(changes))

\* Additions go shallowest first: the directory above is there, or was just made.
Creatable(tree, changes) ==
    \A path \in Additions(changes) :
        Len(path) > 1 =>
            LET parent == SubSeq(path, 1, Len(path) - 1)
            IN  \/ At(tree, parent) = Directory
                \/ parent \in Additions(changes) /\ changes[parent].after = Directory

Created(tree, changes) ==
    [path \in DOMAIN tree \cup Additions(changes) |->
        IF path \in Additions(changes) THEN changes[path].after ELSE tree[path]]

Replayable(tree, changes) ==
    Removable(tree, changes) /\ Creatable(Removed(tree, changes), changes)

Replayed(tree, changes) == Created(Removed(tree, changes), changes)
===============================================================================
