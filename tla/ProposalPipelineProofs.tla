------------------------- MODULE ProposalPipelineProofs -------------------------
(***************************************************************************)
(* Any trees, any writes of others, any executor.  A digest is compared at *)
(* six places and between any two of them a tree may change and change     *)
(* back, so what holds at the end is not what was read but what the last   *)
(* comparisons leave possible.                                             *)
(***************************************************************************)
EXTENDS ProposalPipeline, SequenceTheorems, TLAPS

-------------------------------------------------------------------------------
(* Trees *)

Sides == [before : Entries \cup {Absent}, after : Entries \cup {Absent}]

Differences == UNION {[D -> Sides] : D \in SUBSET Paths}

LEMMA AbsentIsNoEntry == Absent \notin Entries
  BY DEF Absent, Entry, Entries, Kinds

LEMMA TreeType ==
    ASSUME NEW t \in Trees
    PROVE  /\ DOMAIN t \subseteq Paths /\ t = [p \in DOMAIN t |-> t[p]]
           /\ \A p \in DOMAIN t : t[p] \in Entries
           /\ \A p : At(t, p) \in Entries \cup {Absent} /\ (p \in DOMAIN t <=> At(t, p) # Absent)
  <1>1. PICK D \in SUBSET Paths : t \in [D -> Entries]
    BY DEF Trees
  <1>2. QED
    BY <1>1, AbsentIsNoEntry DEF At

LEMMA TreeMade ==
    ASSUME NEW D \in SUBSET Paths, NEW t \in [D -> Entries]
    PROVE  t \in Trees
  BY DEF Trees

LEMMA DifferenceType ==
    ASSUME NEW c \in Differences
    PROVE  /\ DOMAIN c \subseteq Paths /\ c = [p \in DOMAIN c |-> c[p]]
           /\ \A p \in DOMAIN c : c[p] \in Sides
  <1>1. PICK D \in SUBSET Paths : c \in [D -> Sides]
    BY DEF Differences
  <1>2. QED
    BY <1>1

LEMMA NothingThere == EmptyTree \in Trees /\ EmptyTree \in Differences /\ DOMAIN EmptyTree = {}
  <1>1. EmptyTree \in [{} -> Entries] /\ EmptyTree \in [{} -> Sides]
    BY DEF EmptyTree
  <1>2. QED
    BY <1>1 DEF Trees, Differences, EmptyTree

\* A tree is what it has at each path.
LEMMA SameTree ==
    ASSUME NEW s \in Trees, NEW t \in Trees, \A p \in Paths : At(s, p) = At(t, p)
    PROVE  s = t
  <1>1. DOMAIN s = DOMAIN t
    BY TreeType
  <1>2. \A p \in DOMAIN s : s[p] = t[p]
    BY <1>1, TreeType DEF At
  <1>3. s = [p \in DOMAIN s |-> s[p]] /\ t = [p \in DOMAIN t |-> t[p]]
    BY TreeType
  <1>4. QED
    BY <1>1, <1>2, <1>3

\* What the difference of two trees says of a path.
LEMMA ChangesType ==
    ASSUME NEW s \in Trees, NEW r \in Trees
    PROVE  /\ Changes(s, r) \in Differences
           /\ \A p : p \in DOMAIN Changes(s, r) <=> At(s, p) # At(r, p)
           /\ \A p \in DOMAIN Changes(s, r) :
                 Changes(s, r)[p] = [before |-> At(s, p), after |-> At(r, p)]
  <1> DEFINE Touched == {p \in DOMAIN s \cup DOMAIN r : At(s, p) # At(r, p)}
  <1>1. Changes(s, r) = [p \in Touched |-> [before |-> At(s, p), after |-> At(r, p)]]
    BY DEF Changes
  <1>2. \A p : p \in Touched <=> At(s, p) # At(r, p)
    BY DEF At
  <1>3. \A p : [before |-> At(s, p), after |-> At(r, p)] \in Sides
    BY TreeType DEF Sides
  <1>4. Touched \in SUBSET Paths
    BY TreeType
  <1> HIDE DEF Touched
  <1>5. Changes(s, r) \in [Touched -> Sides]
    BY <1>1, <1>3
  <1>6. QED
    BY <1>1, <1>2, <1>4, <1>5 DEF Differences

\* A replay leaves at each path what the patch promises there.
LEMMA ReplayedHas ==
    ASSUME NEW t \in Trees, NEW c \in Differences, \A p \in DOMAIN c : At(t, p) = c[p].before
    PROVE  /\ Replayed(t, c) \in Trees
           /\ \A p : At(Replayed(t, c), p) = IF p \in DOMAIN c THEN c[p].after ELSE At(t, p)
  <1> DEFINE Left == DOMAIN t \cap (Paths \ Removals(c))
             Added == Additions(c)
  <1>1. Removed(t, c) = [p \in Left |-> t[p]]
    BY DEF Removed, Restricted
  <1>2. \A p : p \in Left <=> p \in DOMAIN t /\ p \notin DOMAIN c
    BY TreeType DEF Removals, At
  <1>3. \A p : p \in Added <=> p \in DOMAIN c /\ c[p].after # Absent
    BY DEF Additions
  <1> HIDE DEF Left, Added
  <1>4. Replayed(t, c) =
           [p \in Left \cup Added |-> IF p \in Added THEN c[p].after ELSE Removed(t, c)[p]]
    BY <1>1 DEF Replayed, Created, Added
  <1>5. \A p \in Left \cup Added : Replayed(t, c)[p] = IF p \in Added THEN c[p].after ELSE t[p]
    BY <1>1, <1>4
  <1>6. DOMAIN Replayed(t, c) = Left \cup Added
    BY <1>4
  <1>7. Left \cup Added \in SUBSET Paths
    BY <1>2, <1>3, TreeType, DifferenceType
  <1>8. \A p \in Left \cup Added : Replayed(t, c)[p] \in Entries
    BY <1>2, <1>3, <1>5, TreeType, DifferenceType DEF Sides
  <1>9. Replayed(t, c) \in [Left \cup Added -> Entries]
    BY <1>4, <1>6, <1>8
  <1>10. Replayed(t, c) \in Trees
    BY <1>7, <1>9, TreeMade
  <1>11. \A p : At(Replayed(t, c), p) = IF p \in DOMAIN c THEN c[p].after ELSE At(t, p)
    BY <1>2, <1>3, <1>5, <1>6 DEF At
  <1>12. QED
    BY <1>10, <1>11

\* If every path of a patch was as it says and becomes something else, the patch
\* is the difference its replay makes.
LEMMA ReplayShowsAll ==
    ASSUME NEW t \in Trees, NEW c \in Differences,
           \A p \in DOMAIN c : At(t, p) = c[p].before /\ c[p].before # c[p].after
    PROVE  Changes(t, Replayed(t, c)) = c
  <1> DEFINE r == Replayed(t, c)
             made == Changes(t, r)
  <1>1. r \in Trees /\ \A p : At(r, p) = IF p \in DOMAIN c THEN c[p].after ELSE At(t, p)
    BY ReplayedHas
  <1> HIDE DEF r
  <1>2. /\ made \in Differences
        /\ \A p : p \in DOMAIN made <=> At(t, p) # At(r, p)
        /\ \A p \in DOMAIN made : made[p] = [before |-> At(t, p), after |-> At(r, p)]
    BY <1>1, ChangesType
  <1> HIDE DEF made
  <1>3. DOMAIN made = DOMAIN c
    BY <1>1, <1>2
  <1>4. \A p \in DOMAIN c : made[p] = c[p]
    <2> TAKE p \in DOMAIN c
    <2>1. made[p] = [before |-> c[p].before, after |-> c[p].after]
      BY <1>1, <1>2, <1>3
    <2>2. c[p] \in Sides
      BY DifferenceType
    <2>3. QED
      BY <2>1, <2>2 DEF Sides
  <1>5. made = [p \in DOMAIN made |-> made[p]] /\ c = [p \in DOMAIN c |-> c[p]]
    BY <1>2, DifferenceType
  <1>6. QED
    BY <1>3, <1>4, <1>5 DEF made, r

\* The replay of a difference makes the other tree, and so does the paper.
LEMMA ReplayArrives ==
    ASSUME NEW s \in Trees, NEW r \in Trees
    PROVE  /\ Replayed(s, Changes(s, r)) = r /\ Final(s, Changes(s, r)) = r
           /\ \A p \in DOMAIN Changes(s, r) :
                 /\ At(s, p) = Changes(s, r)[p].before
                 /\ Changes(s, r)[p].before # Changes(s, r)[p].after
  <1> DEFINE c == Changes(s, r)
  <1>1. /\ c \in Differences
        /\ \A p : p \in DOMAIN c <=> At(s, p) # At(r, p)
        /\ \A p \in DOMAIN c : c[p] = [before |-> At(s, p), after |-> At(r, p)]
    BY ChangesType
  <1> HIDE DEF c
  <1>2. \A p \in DOMAIN c : At(s, p) = c[p].before /\ c[p].before # c[p].after
    BY <1>1
  <1>3. Replayed(s, c) \in Trees /\ \A p \in Paths : At(Replayed(s, c), p) = At(r, p)
    BY <1>1, <1>2, ReplayedHas
  <1>4. Replayed(s, c) = r
    BY <1>3, SameTree
  <1>5. Final(s, c) = r
    <2> DEFINE There == {p \in DOMAIN s \cup DOMAIN c : p \in DOMAIN c => c[p].after # Absent}
    <2>1. Final(s, c) = [p \in There |-> IF p \in DOMAIN c THEN c[p].after ELSE s[p]]
      BY DEF Final
    <2>2. \A p : p \in There <=> p \in DOMAIN r
      BY <1>1, TreeType
    <2>3. There = DOMAIN r
      BY <2>2
    <2>4. \A p \in DOMAIN r : (IF p \in DOMAIN c THEN c[p].after ELSE s[p]) = r[p]
      BY <1>1, TreeType DEF At
    <2>5. r = [p \in DOMAIN r |-> r[p]]
      BY TreeType
    <2> HIDE DEF There
    <2>6. QED
      BY <2>1, <2>3, <2>4, <2>5
  <1>6. QED
    BY <1>2, <1>4, <1>5 DEF c

\* What is left when the removals are done.
LEMMA RemovedHas ==
    ASSUME NEW s \in Trees, NEW r \in Trees, NEW p, At(s, p) = At(r, p)
    PROVE  At(Removed(s, Changes(s, r)), p) = At(s, p)
  <1> DEFINE c == Changes(s, r)
             Left == DOMAIN s \cap (Paths \ Removals(c))
  <1>1. p \notin DOMAIN c
    BY ChangesType
  <1>2. p \in Left <=> p \in DOMAIN s
    BY <1>1, TreeType DEF Removals
  <1>3. Removed(s, c) = [q \in Left |-> s[q]]
    BY DEF Removed, Restricted
  <1> HIDE DEF Left
  <1>4. QED
    BY <1>2, <1>3 DEF At

\* The patch between any two trees is replayed on the first without an rmdir of a
\* directory that holds something and without an entry made where no directory is
\* (PatchApplier: removals from the deepest, then additions from the shallowest).
THEOREM DifferencesReplay ==
    ASSUME NEW s \in Trees, NEW r \in Trees, WellFormed(s), WellFormed(r)
    PROVE  Replayable(s, Changes(s, r))
  <1> DEFINE c == Changes(s, r)
  <1>1. /\ c \in Differences
        /\ \A p : p \in DOMAIN c <=> At(s, p) # At(r, p)
        /\ \A p \in DOMAIN c : c[p] = [before |-> At(s, p), after |-> At(r, p)]
    BY ChangesType
  <1>2. \A p : At(s, p) = At(r, p) => At(Removed(s, c), p) = At(s, p)
    BY RemovedHas
  <1> HIDE DEF c
  <1>3. ASSUME NEW path \in Removals(c), c[path].before = Directory,
               NEW q \in DOMAIN s, IsBelow(q, path)
        PROVE  q \in Removals(c)
    <2>1. path \in DOMAIN c /\ At(s, path) = Directory /\ At(r, path) # Directory
      BY <1>1, <1>3 DEF Removals
    <2>2. path \in Paths /\ q \in Paths
      BY <1>1, <2>1, DifferenceType, TreeType
    <2>3. Len(path) \in 1..(Len(q) - 1) /\ SubSeq(q, 1, Len(path)) = path
      BY <1>3, <2>2, TreeAssumption DEF IsBelow
    <2>4. ASSUME q \in DOMAIN r
          PROVE  FALSE
      <3>1. At(r, SubSeq(q, 1, Len(path))) = Directory
        BY <2>3, <2>4 DEF WellFormed
      <3>2. QED
        BY <2>1, <2>3, <3>1
    <2>5. At(s, q) # Absent /\ At(r, q) = Absent
      BY <2>4, TreeType DEF At
    <2>6. QED
      BY <1>1, <2>5 DEF Removals
  <1>4. ASSUME NEW path \in Additions(c), Len(path) > 1
        PROVE  LET parent == SubSeq(path, 1, Len(path) - 1)
               IN  \/ At(Removed(s, c), parent) = Directory
                   \/ parent \in Additions(c) /\ c[parent].after = Directory
    <2> DEFINE parent == SubSeq(path, 1, Len(path) - 1)
    <2>1. path \in DOMAIN c /\ At(r, path) # Absent /\ path \in Paths
      BY <1>1, DifferenceType DEF Additions
    <2>2. path \in DOMAIN r /\ Len(path) - 1 \in 1..(Len(path) - 1)
      BY <1>4, <2>1, TreeType, TreeAssumption
    <2>3. At(r, parent) = Directory
      BY <2>2 DEF WellFormed
    <2>4. Directory # Absent
      BY DEF Directory, Absent, Entry
    <2> HIDE DEF parent
    <2>5. CASE At(s, parent) = Directory
      BY <1>2, <2>3, <2>5 DEF parent
    <2>6. CASE At(s, parent) # Directory
      <3>1. parent \in DOMAIN c /\ c[parent].after = Directory
        BY <1>1, <2>3, <2>6
      <3>2. QED
        BY <2>4, <3>1 DEF Additions, parent
    <2>7. QED
      BY <2>5, <2>6
  <1>5. Removable(s, c) /\ Creatable(Removed(s, c), c)
    BY <1>3, <1>4 DEF Removable, Creatable
  <1>6. QED
    BY <1>5 DEF Replayable, c

-------------------------------------------------------------------------------
(* Protected roots *)

Top(p) == SubSeq(p, 1, 1)

LEMMA PathParts ==
    ASSUME NEW p \in Paths
    PROVE  /\ p \in Seq(STRING) /\ Len(p) \in Nat /\ Len(p) >= 1
           /\ \A n \in 1..Len(p) :
                 /\ SubSeq(p, 1, n) \in Seq(STRING) /\ Len(SubSeq(p, 1, n)) = n
                 /\ Top(SubSeq(p, 1, n)) = Top(p)
           /\ Len(p) = 1 => Top(p) = p
  <1>1. p \in Seq(STRING) /\ p # <<>>
    BY TreeAssumption
  <1>2. Len(p) \in Nat /\ Len(p) >= 1
    BY <1>1
  <1>3. ASSUME NEW n \in 1..Len(p)
        PROVE  /\ SubSeq(p, 1, n) \in Seq(STRING) /\ Len(SubSeq(p, 1, n)) = n
               /\ SubSeq(p, 1, n)[1] = p[1]
    BY <1>1, <1>2
  <1>4. ASSUME NEW s \in Seq(STRING), Len(s) >= 1
        PROVE  Top(s) \in Seq(STRING) /\ Len(Top(s)) = 1 /\ Top(s)[1] = s[1]
    BY <1>4 DEF Top
  <1>5. ASSUME NEW n \in 1..Len(p)
        PROVE  Top(SubSeq(p, 1, n)) = Top(p)
    <2>1. /\ Top(SubSeq(p, 1, n)) \in Seq(STRING) /\ Len(Top(SubSeq(p, 1, n))) = 1
          /\ Top(SubSeq(p, 1, n))[1] = p[1]
      <3> DEFINE s == SubSeq(p, 1, n)
      <3>1. s \in Seq(STRING) /\ Len(s) >= 1 /\ s[1] = p[1]
        BY <1>2, <1>3
      <3> HIDE DEF s
      <3>2. Top(s) \in Seq(STRING) /\ Len(Top(s)) = 1 /\ Top(s)[1] = p[1]
        BY <1>4, <3>1
      <3>3. QED
        BY <3>2 DEF s
    <2>2. Top(p) \in Seq(STRING) /\ Len(Top(p)) = 1 /\ Top(p)[1] = p[1]
      BY <1>1, <1>2, <1>4
    <2>3. QED
      BY <2>1, <2>2, SeqEqual
  <1>6. Len(p) = 1 => Top(p) = p
    BY <1>1, <1>4, SeqEqual
  <1>7. QED
    BY <1>1, <1>2, <1>3, <1>5, <1>6

\* A path is protected if the first of its names is, and a path and what is above
\* it have that name in common.
LEMMA ProtectedByTop ==
    ASSUME NEW p \in Paths
    PROVE  /\ IsProtected(p) <=> Top(p) \in ProtectedRoots
           /\ \A n \in 1..Len(p) : IsProtected(SubSeq(p, 1, n)) <=> IsProtected(p)
  <1>1. \A root \in ProtectedRoots : root \in Paths /\ Len(root) = 1 /\ Top(root) = root
    BY PathParts, PipelineAssumption
  <1>2. ASSUME NEW q \in Seq(STRING), Len(q) >= 1, Len(q) = 1 => Top(q) = q
        PROVE  IsProtected(q) <=> Top(q) \in ProtectedRoots
    <2>1. Len(q) = 1 \/ Len(q) > 1
      <3>1. Len(q) >= 1
        BY <1>2
      <3>2. Len(q) \in Nat
        BY LenProperties
      <3>3. \A k \in Nat : k >= 1 => k = 1 \/ k > 1
        OBVIOUS
      <3>4. QED
        BY <3>1, <3>2, <3>3
    <2>2. \A root \in ProtectedRoots : IsBelow(q, root) <=> Len(q) > 1 /\ Top(q) = root
      BY <1>1, <1>2 DEF IsBelow, Top
    <2>3. QED
      BY <1>1, <1>2, <2>1, <2>2 DEF IsProtected
  <1>3. IsProtected(p) <=> Top(p) \in ProtectedRoots
    BY <1>2, PathParts
  <1>4. ASSUME NEW n \in 1..Len(p)
        PROVE  IsProtected(SubSeq(p, 1, n)) <=> IsProtected(p)
    <2> DEFINE q == SubSeq(p, 1, n)
    <2>1. q \in Seq(STRING) /\ Len(q) = n /\ n >= 1 /\ Top(q) = Top(p)
      BY PathParts
    <2>2. n = 1 => q = Top(p)
      BY DEF Top
    <2> HIDE DEF q
    <2>3. IsProtected(q) <=> Top(q) \in ProtectedRoots
      BY <1>2, <2>1, <2>2
    <2>4. QED
      BY <1>3, <2>1, <2>3 DEF q
  <1>5. QED
    BY <1>3, <1>4

\* After the restoration a protected path is as in the source and any other is as
\* the executor left it, and it is a tree still.
LEMMA RestoredHas ==
    ASSUME source \in Trees, tree \in Trees
    PROVE  /\ Restored \in Trees
           /\ \A p \in Paths :
                 At(Restored, p) = IF IsProtected(p) THEN At(source, p) ELSE At(tree, p)
  <1> DEFINE D == {p \in DOMAIN tree : ~IsProtected(p)} \cup {p \in DOMAIN source : IsProtected(p)}
  <1>1. Restored = [p \in D |-> IF IsProtected(p) THEN source[p] ELSE tree[p]]
    BY DEF Restored
  <1>2. D \in SUBSET Paths
    BY TreeType
  <1>3. \A p : p \in D <=> IF IsProtected(p) THEN p \in DOMAIN source ELSE p \in DOMAIN tree
    OBVIOUS
  <1> HIDE DEF D
  <1>4. \A p \in D : Restored[p] = IF IsProtected(p) THEN source[p] ELSE tree[p]
    BY <1>1
  <1>5. \A p \in D : Restored[p] \in Entries
    BY <1>3, <1>4, TreeType
  <1>6. DOMAIN Restored = D
    BY <1>1
  <1>7. Restored \in [D -> Entries]
    BY <1>1, <1>5, <1>6
  <1>8. Restored \in Trees
    BY <1>2, <1>7, TreeMade
  <1>9. \A p \in Paths : At(Restored, p) = IF IsProtected(p) THEN At(source, p) ELSE At(tree, p)
    BY <1>3, <1>4, <1>6 DEF At
  <1>10. QED
    BY <1>8, <1>9

\* No entry of it has lost the directory it is in.
LEMMA RestoredStands ==
    ASSUME source \in Trees, tree \in Trees, WellFormed(source), WellFormed(tree)
    PROVE  WellFormed(Restored)
  <1>1. /\ Restored \in Trees
        /\ \A p \in Paths : At(Restored, p) = IF IsProtected(p) THEN At(source, p) ELSE At(tree, p)
    BY RestoredHas
  <1>2. SUFFICES ASSUME NEW p \in DOMAIN Restored, NEW n \in 1..(Len(p) - 1)
                 PROVE  At(Restored, SubSeq(p, 1, n)) = Directory
    BY DEF WellFormed
  <1> DEFINE q == SubSeq(p, 1, n)
  <1>3. p \in Paths /\ At(Restored, p) # Absent
    BY <1>1, TreeType
  <1>4. n \in 1..Len(p)
    BY <1>3, PathParts
  <1>5. IsProtected(q) <=> IsProtected(p)
    BY <1>3, <1>4, ProtectedByTop
  <1>6. Directory # Absent
    BY DEF Directory, Absent, Entry
  <1>7. CASE IsProtected(p)
    <2>1. p \in DOMAIN source
      BY <1>1, <1>3, <1>7 DEF At
    <2>2. At(source, q) = Directory
      BY <2>1 DEF WellFormed
    <2>3. q \in Paths
      BY <1>6, <2>2, TreeType
    <2>4. QED
      BY <1>1, <1>5, <1>7, <2>2, <2>3
  <1>8. CASE ~IsProtected(p)
    <2>1. p \in DOMAIN tree
      BY <1>1, <1>3, <1>8 DEF At
    <2>2. At(tree, q) = Directory
      BY <2>1 DEF WellFormed
    <2>3. q \in Paths
      BY <1>6, <2>2, TreeType
    <2>4. QED
      BY <1>1, <1>5, <1>8, <2>2, <2>3
  <1>9. QED
    BY <1>7, <1>8

\* A write of one of the others leaves a tree, and what is protected as it was
\* unless its own path is.
LEMMA EditedHas ==
    ASSUME NEW t \in Trees, NEW e \in Edits
    PROVE  /\ Edited(t, e) \in Trees
           /\ ~IsProtected(e.path) =>
                 \A p \in Paths : IsProtected(p) => At(Edited(t, e), p) = At(t, p)
  <1> DEFINE base == [p \in (IF e.entry = Absent THEN {} ELSE {e.path}) |-> e.entry]
             Here(q) == q = e.path \/ IsBelow(q, e.path)
             D == {r \in DOMAIN t : ~Here(r)} \cup {r \in DOMAIN base : Here(r)}
  <1>1. e.path \in Paths /\ e.entry \in Entries \cup {Absent}
    BY PipelineAssumption DEF Edit
  <1>2. Edited(t, e) = [q \in D |-> IF Here(q) THEN base[q] ELSE t[q]]
    BY DEF Edited, WithFrom
  <1>3. /\ DOMAIN base \subseteq {e.path} /\ (e.entry = Absent => DOMAIN base = {})
        /\ \A q \in DOMAIN base : base[q] = e.entry /\ base[q] \in Entries
    BY <1>1
  <1> HIDE DEF base
  <1>4. \A q : q \in D <=> IF Here(q) THEN q \in DOMAIN base ELSE q \in DOMAIN t
    OBVIOUS
  <1>5. D \in SUBSET Paths
    BY <1>1, <1>3, TreeType
  <1> HIDE DEF D
  <1>6. \A q \in D : Edited(t, e)[q] = IF Here(q) THEN base[q] ELSE t[q]
    BY <1>2
  <1>7. DOMAIN Edited(t, e) = D
    BY <1>2
  <1>8. ASSUME ~IsProtected(e.path), NEW p \in Paths, IsProtected(p)
        PROVE  ~Here(p)
    <2>1. p # e.path
      BY <1>8
    <2>2. ASSUME IsBelow(p, e.path)
          PROVE  FALSE
      <3>1. Len(e.path) \in 1..Len(p) /\ SubSeq(p, 1, Len(e.path)) = e.path
        BY <1>1, <2>2, PathParts DEF IsBelow
      <3>2. \A n \in 1..Len(p) : IsProtected(SubSeq(p, 1, n)) <=> IsProtected(p)
        BY ProtectedByTop
      <3>3. IsProtected(SubSeq(p, 1, Len(e.path))) <=> IsProtected(p)
        BY <3>1, <3>2
      <3>4. QED
        BY <1>8, <3>1, <3>3, Zenon
    <2>3. QED
      BY <2>1, <2>2
  <1> HIDE DEF Here
  <1>9. \A q \in D : Edited(t, e)[q] \in Entries
    BY <1>3, <1>4, <1>6, TreeType
  <1>10. Edited(t, e) \in [D -> Entries]
    BY <1>2, <1>7, <1>9
  <1>11. Edited(t, e) \in Trees
    BY <1>5, <1>10, TreeMade
  <1>12. ASSUME ~IsProtected(e.path), NEW p \in Paths, IsProtected(p)
         PROVE  At(Edited(t, e), p) = At(t, p)
    BY <1>4, <1>6, <1>7, <1>8, <1>12 DEF At
  <1>13. QED
    BY <1>11, <1>12

-------------------------------------------------------------------------------
(* What holds between the steps *)

Patches == [source : Trees, result : Trees, changes : Differences]

\* A source can always be staged; a copy may hold what nobody can read.
PipelineTypes ==
    /\ source \in Trees /\ WellFormed(source) /\ Readable(source)
    /\ tree \in Trees
    /\ contract \in Trees /\ before \in Trees /\ digest \in Trees
    /\ changes \in Differences
    /\ patch \in Patches
    /\ writes \in Nat
    /\ phase \in {"propose", "apply"}

AsSaid(t, c) == \A path \in DOMAIN c : At(t, path) = c[path].before

\* Between the check of a patch and the end of its application nobody writes in
\* the copy: it is what was staged, or that with the changes of the patch made.
ReplayIsDetermined ==
    /\ pc \in {"replay", "confirm", "applied"} =>
          AsSaid(digest, patch.changes) /\ CanonicalPatch(patch.changes)
    /\ pc = "replay" => tree = digest
    /\ pc \in {"confirm", "applied"} => tree = Replayed(digest, patch.changes)
    /\ pc = "applied" => tree = patch.result

\* From the restoration to the difference the protected part of the copy is that
\* of the source, so the difference holds nothing protected.
RootsStandGuarded ==
    ~meddled =>
        /\ pc \in {"store", "inventory", "diff", "contents", "recheck"} =>
              \A p \in Paths : IsProtected(p) => At(tree, p) = At(source, p)
        /\ pc \in {"contents", "recheck"} => \A p \in DOMAIN changes : ~IsProtected(p)
        /\ \A p \in DOMAIN patch.changes : ~IsProtected(p)

\* The stored patch leads from the source to a tree, and says so canonically.
PatchLeads ==
    /\ WellFormed(patch.result)
    /\ patch = [source |-> source, result |-> patch.result,
                changes |-> Changes(source, patch.result)]
    /\ CanonicalPatch(patch.changes)

\* As long as nobody has written, every read sees what the one before it saw.
NothingMoves ==
    writes = 0 =>
        /\ pc # "contract" => contract = source
        /\ pc \in {"copy", "compare"} => before = source
        /\ pc = "compare" => tree = source
        /\ pc \notin {"contract", "stage", "copy", "compare", "ended"} => digest = source
        /\ pc \in {"restore", "store", "inventory", "diff", "contents", "recheck"} => WellFormed(tree)
        /\ pc \in {"diff", "contents", "recheck"} => before = tree
        /\ pc \in {"contents", "recheck"} => changes = Changes(source, tree)
        /\ phase = "apply" => pc # "contract" /\ PatchLeads
        /\ pc = "validate" => PatchLeads /\ tree = patch.result
        /\ pc \in {"check", "replay", "confirm"} => phase = "apply"
        /\ pc \in {"check", "replay"} => tree = source
        /\ pc = "confirm" => tree = patch.result
        /\ UndisturbedRunsArrive

-------------------------------------------------------------------------------
(* Trees stay trees, and the replay is determined *)

LEMMA TypesAtFirst == Init => PipelineTypes
  <1> SUFFICES ASSUME Init PROVE PipelineTypes
    OBVIOUS
  <1>1. source \in Trees /\ WellFormed(source) /\ Readable(source)
    BY PipelineAssumption DEF Init
  <1>2. NoPatch \in Patches
    BY NothingThere DEF NoPatch, Patches
  <1>3. QED
    BY <1>1, <1>2, NothingThere DEF Init, PipelineTypes

\* Whoever gives up leaves no copy.
LEMMA GivingUpTypes ==
    ASSUME PipelineTypes, NEW part, GiveUp(part)
    PROVE  PipelineTypes'
  BY NothingThere DEF PipelineTypes, GiveUp, others

LEMMA FailuresGiveUp ==
    ASSUME \/ RefuseCopy \/ RefuseRequest \/ ExecutionFailed \/ ExtractionFails \/ WorkerFails
           \/ RefuseProposal \/ ApplicationFails \/ HostFails
    PROVE  \E part : GiveUp(part)
  BY DEF RefuseCopy, RefuseRequest, ExecutionFailed, ExtractionFails, WorkerFails, RefuseProposal,
         ApplicationFails, HostFails

LEMMA TypesKept ==
    ASSUME PipelineTypes, ReplayIsDetermined, [Next]_vars
    PROVE  PipelineTypes'
  <1>1. CASE MakeContract
    BY <1>1 DEF PipelineTypes, MakeContract, others
  <1>2. CASE DigestSource
    BY <1>2 DEF PipelineTypes, DigestSource, others
  <1>3. CASE CopyTree
    BY <1>3 DEF PipelineTypes, CopyTree, others
  <1>4. CASE CompareCopy
    BY <1>4 DEF PipelineTypes, CompareCopy, others
  <1>5. CASE MakeRequest
    BY <1>5 DEF PipelineTypes, MakeRequest, others
  <1>6. ASSUME NEW result \in Results, NEW status \in Envelopes \cup {"raised"},
               Execute(result, status)
        PROVE  PipelineTypes'
    <2>1. result \in Trees
      BY PipelineAssumption
    <2>2. QED
      BY <1>6, <2>1 DEF PipelineTypes, Execute, others
  <1>7. CASE Restore
    <2>1. CASE execution = "raised"
      BY <1>7, <2>1, GivingUpTypes DEF Restore
    <2>2. CASE execution # "raised"
      <3>1. tree' = Restored
        BY <1>7, <2>2 DEF Restore
      <3>2. Restored \in Trees
        BY RestoredHas DEF PipelineTypes
      <3>3. UNCHANGED <<phase, source, contract, before, digest, changes, patch, writes>>
        BY <1>7, <2>2 DEF Restore, others
      <3>4. QED
        BY <3>1, <3>2, <3>3 DEF PipelineTypes
    <2>3. QED
      BY <2>1, <2>2
  <1>8. CASE StoreResponse
    BY <1>8 DEF PipelineTypes, StoreResponse, others
  <1>9. CASE TakeDigests
    BY <1>9 DEF PipelineTypes, TakeDigests, others
  <1>10. CASE TakeInventories
    <2>1. Changes(source, tree) \in Differences
      BY ChangesType DEF PipelineTypes
    <2>2. QED
      BY <1>10, <2>1 DEF PipelineTypes, TakeInventories, others
  <1>11. CASE ReadContents
    BY <1>11 DEF PipelineTypes, ReadContents, others
  <1>12. CASE StorePatch
    <2>1. Extracted \in Patches
      BY DEF PipelineTypes, Patches, Extracted
    <2>2. QED
      BY <1>12, <2>1 DEF PipelineTypes, StorePatch, others
  <1>13. CASE Capture
    BY <1>13, NothingThere DEF PipelineTypes, Capture, others
  <1>14. CASE CheckPatch
    BY <1>14 DEF PipelineTypes, CheckPatch, others
  <1>15. CASE Replay
    <2>1. tree = digest /\ AsSaid(digest, patch.changes) /\ tree' = Replayed(tree, patch.changes)
      BY <1>15 DEF ReplayIsDetermined, Replay
    <2>2. tree \in Trees /\ patch.changes \in Differences
      BY DEF PipelineTypes, Patches
    <2>3. tree' \in Trees
      BY <2>1, <2>2, ReplayedHas DEF AsSaid
    <2>4. UNCHANGED <<phase, source, contract, before, digest, changes, patch, writes>>
      BY <1>15 DEF Replay, others
    <2>5. QED
      BY <2>3, <2>4 DEF PipelineTypes
  <1>16. CASE Confirm
    BY <1>16 DEF PipelineTypes, Confirm, others
  <1>17. ASSUME NEW e \in Edits, OwnerWrites(e)
         PROVE  PipelineTypes'
    <2>1. Edited(source, e) \in Trees
      BY EditedHas DEF PipelineTypes
    <2>2. source' \in Trees /\ WellFormed(source') /\ Readable(source') /\ writes' \in Nat
      BY <1>17, <2>1 DEF OwnerWrites, Note, PipelineTypes
    <2>3. UNCHANGED <<phase, tree, contract, before, digest, changes, patch>>
      BY <1>17 DEF OwnerWrites, Note
    <2>4. QED
      BY <2>2, <2>3 DEF PipelineTypes
  <1>18. ASSUME NEW e \in Edits, StragglerWrites(e)
         PROVE  PipelineTypes'
    <2>1. Edited(tree, e) \in Trees
      BY EditedHas DEF PipelineTypes
    <2>2. tree' \in Trees /\ writes' \in Nat
      BY <1>18, <2>1 DEF StragglerWrites, Note, PipelineTypes
    <2>3. UNCHANGED <<phase, source, contract, before, digest, changes, patch>>
      BY <1>18 DEF StragglerWrites, Note
    <2>4. QED
      BY <2>2, <2>3 DEF PipelineTypes
  <1>19. CASE \/ RefuseCopy \/ RefuseRequest \/ ExecutionFailed \/ ExtractionFails \/ WorkerFails
              \/ RefuseProposal \/ ApplicationFails \/ HostFails
    BY <1>19, FailuresGiveUp, GivingUpTypes
  <1>20. CASE UNCHANGED vars
    BY <1>20 DEF PipelineTypes, vars, others
  <1>21. QED
    BY <1>1, <1>2, <1>3, <1>4, <1>5, <1>6, <1>7, <1>8, <1>9, <1>10, <1>11, <1>12, <1>13, <1>14,
       <1>15, <1>16, <1>17, <1>18, <1>19, <1>20 DEF Next

LEMMA ReplayStaysDetermined ==
    ASSUME PipelineTypes, ReplayIsDetermined, [Next]_vars
    PROVE  ReplayIsDetermined'
  <1>1. CASE CheckPatch
    <2>1. /\ CanonicalPatch(patch.changes) /\ tree = digest
          /\ AsSaid(digest, patch.changes) /\ pc' = "replay"
      BY <1>1 DEF CheckPatch, Applicable, TransitionHolds, AsSaid
    <2>2. UNCHANGED <<tree, digest, patch>>
      BY <1>1 DEF CheckPatch
    <2>3. QED
      BY <2>1, <2>2 DEF ReplayIsDetermined
  <1>2. CASE Replay
    BY <1>2 DEF Replay, ReplayIsDetermined
  <1>3. CASE Confirm
    BY <1>3 DEF Confirm, ReplayIsRight, ReplayIsDetermined
  <1>4. ASSUME NEW e \in Edits, OwnerWrites(e)
        PROVE  ReplayIsDetermined'
    BY <1>4 DEF OwnerWrites, Note, ReplayIsDetermined
  <1>5. ASSUME NEW e \in Edits, StragglerWrites(e)
        PROVE  ReplayIsDetermined'
    BY <1>5 DEF StragglerWrites, Note, ReplayIsDetermined
  <1>6. CASE UNCHANGED vars
    BY <1>6 DEF vars, ReplayIsDetermined
  <1>7. ASSUME pc' \notin {"replay", "confirm", "applied"}
        PROVE  ReplayIsDetermined'
    BY <1>7 DEF ReplayIsDetermined
  <1>8. CASE \/ RefuseCopy \/ RefuseRequest \/ ExecutionFailed \/ ExtractionFails \/ WorkerFails
             \/ RefuseProposal \/ ApplicationFails \/ HostFails
    <2>1. pc' = "ended"
      BY <1>8, FailuresGiveUp DEF GiveUp
    <2>2. QED
      BY <1>7, <2>1
  <1>9. CASE \/ MakeContract \/ DigestSource \/ CopyTree \/ CompareCopy \/ MakeRequest
             \/ (\E result \in Results, status \in Envelopes \cup {"raised"} : Execute(result, status))
             \/ Restore \/ StoreResponse \/ TakeDigests \/ TakeInventories \/ ReadContents
             \/ StorePatch \/ Capture
    <2>1. pc' \notin {"replay", "confirm", "applied"}
      BY <1>9 DEF MakeContract, DigestSource, CopyTree, CompareCopy, MakeRequest, Execute, Restore,
                  GiveUp, StoreResponse, TakeDigests, TakeInventories, ReadContents, StorePatch,
                  Capture
    <2>2. QED
      BY <1>7, <2>1
  <1>10. QED
    BY <1>1, <1>2, <1>3, <1>4, <1>5, <1>6, <1>8, <1>9 DEF Next

LEMMA PipelineInvariant == Spec => [](PipelineTypes /\ ReplayIsDetermined)
  <1>1. Init => PipelineTypes /\ ReplayIsDetermined
    BY TypesAtFirst DEF Init, ReplayIsDetermined
  <1>2. PipelineTypes /\ ReplayIsDetermined /\ [Next]_vars => (PipelineTypes /\ ReplayIsDetermined)'
    BY TypesKept, ReplayStaysDetermined
  <1>3. QED
    BY <1>1, <1>2, PTL DEF Spec

\* The source is always a tree that can be staged, whatever its owner writes, and
\* the copy, the digests and the patches are trees and differences of trees,
\* whatever the executor or what it left running writes.
THEOREM PipelineTyped == Spec => []PipelineTypes
  BY PipelineInvariant, PTL

\* Whatever was written in between and by whomever: an applied patch has led to the
\* tree it names, and shows each path at which that differs from the source it names,
\* with what was there and what is there now (PatchApplier.apply).
THEOREM AppliedPatchesShowAll == Spec => []AppliedIsWhatWasShown
  <1>1. PipelineTypes /\ ReplayIsDetermined => AppliedIsWhatWasShown
    <2> SUFFICES ASSUME PipelineTypes, ReplayIsDetermined, pc = "applied"
                 PROVE  tree = patch.result /\ patch.changes = Changes(digest, tree)
      BY DEF AppliedIsWhatWasShown
    <2>1. digest \in Trees /\ patch.changes \in Differences
      BY DEF PipelineTypes, Patches
    <2>2. /\ AsSaid(digest, patch.changes) /\ CanonicalPatch(patch.changes)
          /\ tree = Replayed(digest, patch.changes) /\ tree = patch.result
      BY DEF ReplayIsDetermined
    <2>3. \A p \in DOMAIN patch.changes :
             /\ At(digest, p) = patch.changes[p].before
             /\ patch.changes[p].before # patch.changes[p].after
      BY <2>2 DEF AsSaid, CanonicalPatch
    <2>4. Changes(digest, Replayed(digest, patch.changes)) = patch.changes
      BY <2>1, <2>3, ReplayShowsAll
    <2>5. QED
      BY <2>2, <2>4
  <1>2. QED
    BY <1>1, PipelineInvariant, PTL

-------------------------------------------------------------------------------
(* Protected roots are as in the source *)

LEMMA RootsStandAtFirst == Init => RootsStandGuarded
  BY NothingThere DEF Init, RootsStandGuarded, NoPatch

LEMMA RootsStandKept ==
    ASSUME PipelineTypes, RootsStandGuarded, [Next]_vars
    PROVE  RootsStandGuarded'
  <1> SUFFICES ASSUME ~meddled'
               PROVE  RootsStandGuarded'
    BY DEF RootsStandGuarded
  <1> DEFINE Reading == {"store", "inventory", "diff", "contents", "recheck"}
  <1>1. meddled' = meddled \/ \E e \in Edits : meddled' = (meddled \/ IsProtected(e.path))
    BY DEF Next, vars, others, MakeContract, DigestSource, CopyTree, CompareCopy, RefuseCopy,
           MakeRequest, RefuseRequest, Execute, Restore, StoreResponse, ExecutionFailed, TakeDigests,
           TakeInventories, ReadContents, StorePatch, ExtractionFails, WorkerFails, Capture,
           RefuseProposal, CheckPatch, Replay, Confirm, ApplicationFails, HostFails, GiveUp,
           OwnerWrites, StragglerWrites, Note
  <1>2. ~meddled
    BY <1>1
  <1>3. /\ pc \in Reading => \A p \in Paths : IsProtected(p) => At(tree, p) = At(source, p)
        /\ pc \in {"contents", "recheck"} => \A p \in DOMAIN changes : ~IsProtected(p)
        /\ \A p \in DOMAIN patch.changes : ~IsProtected(p)
    BY <1>2 DEF RootsStandGuarded
  <1>4. ASSUME pc' \notin Reading, patch' = patch
        PROVE  RootsStandGuarded'
    BY <1>3, <1>4 DEF RootsStandGuarded
  <1>5. CASE \/ RefuseCopy \/ RefuseRequest \/ ExecutionFailed \/ ExtractionFails \/ WorkerFails
             \/ RefuseProposal \/ ApplicationFails \/ HostFails
    <2>1. pc' = "ended" /\ patch' = patch
      BY <1>5, FailuresGiveUp DEF GiveUp
    <2>2. QED
      BY <1>4, <2>1
  <1>6. CASE \/ MakeContract \/ DigestSource \/ CopyTree \/ CompareCopy \/ MakeRequest
             \/ (\E result \in Results, status \in Envelopes \cup {"raised"} : Execute(result, status))
             \/ Capture \/ CheckPatch \/ Replay \/ Confirm
    <2>1. pc' \notin Reading /\ patch' = patch
      BY <1>6 DEF MakeContract, DigestSource, CopyTree, CompareCopy, MakeRequest, Execute, Capture,
                  CheckPatch, Replay, Confirm
    <2>2. QED
      BY <1>4, <2>1
  <1>7. CASE Restore
    <2>1. CASE execution = "raised"
      <3>1. pc' = "ended" /\ patch' = patch
        BY <1>7, <2>1 DEF Restore, GiveUp
      <3>2. QED
        BY <1>4, <3>1
    <2>2. CASE execution # "raised"
      <3>1. tree' = Restored /\ pc' = "store" /\ UNCHANGED <<source, patch>>
        BY <1>7, <2>2 DEF Restore
      <3>2. \A p \in Paths : IsProtected(p) => At(Restored, p) = At(source, p)
        BY RestoredHas DEF PipelineTypes
      <3>3. QED
        BY <1>3, <3>1, <3>2 DEF RootsStandGuarded
    <2>3. QED
      BY <2>1, <2>2
  <1>8. CASE StoreResponse \/ TakeDigests
    <2>1. pc \in Reading /\ pc' \in {"inventory", "diff"}
      BY <1>8 DEF StoreResponse, TakeDigests
    <2>2. UNCHANGED <<source, tree, patch>>
      BY <1>8 DEF StoreResponse, TakeDigests
    <2>3. QED
      BY <1>3, <2>1, <2>2 DEF RootsStandGuarded
  <1>9. CASE TakeInventories
    <2>1. changes' = Changes(source, tree) /\ pc = "diff" /\ UNCHANGED <<source, tree, patch>>
      BY <1>9 DEF TakeInventories
    <2>2. \A p \in DOMAIN Changes(source, tree) : p \in Paths /\ At(source, p) # At(tree, p)
      BY ChangesType, DifferenceType DEF PipelineTypes
    <2>3. \A p \in DOMAIN changes' : ~IsProtected(p)
      BY <1>3, <2>1, <2>2
    <2>4. QED
      BY <1>3, <2>1, <2>3 DEF RootsStandGuarded
  <1>10. CASE ReadContents
    <2>1. pc = "contents" /\ UNCHANGED <<source, tree, changes, patch>>
      BY <1>10 DEF ReadContents
    <2>2. QED
      BY <1>3, <2>1 DEF RootsStandGuarded
  <1>11. CASE StorePatch
    <2>1. pc = "recheck" /\ pc' = "validate" /\ patch' = Extracted
      BY <1>11 DEF StorePatch
    <2>2. patch'.changes = changes
      BY <2>1 DEF Extracted
    <2>3. QED
      BY <1>3, <2>1, <2>2 DEF RootsStandGuarded
  <1>12. ASSUME NEW e \in Edits, OwnerWrites(e)
         PROVE  RootsStandGuarded'
    <2>1. /\ ~IsProtected(e.path) /\ source' = Edited(source, e)
          /\ UNCHANGED <<pc, tree, changes, patch>>
      BY <1>12 DEF OwnerWrites, Note
    <2>2. \A p \in Paths : IsProtected(p) => At(Edited(source, e), p) = At(source, p)
      BY <2>1, EditedHas DEF PipelineTypes
    <2>3. QED
      BY <1>3, <2>1, <2>2 DEF RootsStandGuarded
  <1>13. ASSUME NEW e \in Edits, StragglerWrites(e)
         PROVE  RootsStandGuarded'
    <2>1. /\ ~IsProtected(e.path) /\ tree' = Edited(tree, e)
          /\ UNCHANGED <<pc, source, changes, patch>>
      BY <1>13 DEF StragglerWrites, Note
    <2>2. \A p \in Paths : IsProtected(p) => At(Edited(tree, e), p) = At(tree, p)
      BY <2>1, EditedHas DEF PipelineTypes
    <2>3. QED
      BY <1>3, <2>1, <2>2 DEF RootsStandGuarded
  <1>14. CASE UNCHANGED vars
    <2>1. UNCHANGED <<pc, source, tree, changes, patch>>
      BY <1>14 DEF vars
    <2>2. QED
      BY <1>3, <2>1 DEF RootsStandGuarded
  <1>15. QED
    BY <1>5, <1>6, <1>7, <1>8, <1>9, <1>10, <1>11, <1>12, <1>13, <1>14 DEF Next

\* A patch that touches .cyxcode or .opencode was captured in a run in which one of
\* the others wrote there, whatever the executor did to them
\* (restore_cyxcode_metadata).
THEOREM RootsAreRestored == Spec => []ProtectedRootsAreRestored
  <1>1. RootsStandGuarded => ProtectedRootsAreRestored
    BY DEF RootsStandGuarded, ProtectedRootsAreRestored
  <1>2. PipelineTypes /\ RootsStandGuarded /\ [Next]_vars => RootsStandGuarded'
    BY RootsStandKept
  <1>3. QED
    BY <1>1, <1>2, RootsStandAtFirst, PipelineTyped, PTL DEF Spec

-------------------------------------------------------------------------------
(* Undisturbed runs *)

LEMMA NothingMovesAtFirst == Init => NothingMoves
  BY DEF Init, NothingMoves, UndisturbedRunsArrive

\* A patch that leads from what was staged to a tree is applicable there, replayable,
\* and its replay makes that tree.
LEMMA LeadingPatchesArrive ==
    ASSUME PipelineTypes, PatchLeads
    PROVE  /\ TransitionHolds(source, patch.changes)
           /\ Replayable(source, patch.changes)
           /\ Replayed(source, patch.changes) = patch.result
           /\ patch.source = source
  <1> DEFINE r == patch.result
             c == Changes(source, r)
  <1>1. source \in Trees /\ r \in Trees /\ WellFormed(source) /\ WellFormed(r)
    BY DEF PipelineTypes, Patches, PatchLeads
  <1>2. patch.changes = c /\ patch.source = source
    BY DEF PatchLeads
  <1>3. /\ Replayed(source, c) = r /\ Final(source, c) = r
        /\ \A p \in DOMAIN c : At(source, p) = c[p].before
    BY <1>1, ReplayArrives
  <1>4. Replayable(source, c)
    BY <1>1, DifferencesReplay
  <1> HIDE DEF c
  <1>5. TransitionHolds(source, c)
    BY <1>1, <1>3 DEF TransitionHolds
  <1>6. QED
    BY <1>2, <1>3, <1>4, <1>5

LEMMA NothingMovesOn ==
    ASSUME PipelineTypes, NothingMoves, [Next]_vars
    PROVE  NothingMoves'
  <1> SUFFICES ASSUME writes' = 0
               PROVE  NothingMoves'
    BY DEF NothingMoves
  <1>1. CASE \E e \in Edits : OwnerWrites(e) \/ StragglerWrites(e)
    <2>1. writes' = writes + 1
      BY <1>1 DEF OwnerWrites, StragglerWrites, Note
    <2>2. writes \in Nat
      BY DEF PipelineTypes
    <2>3. QED
      BY <2>1, <2>2
  <1>2. ASSUME writes = 0
        PROVE  /\ pc # "contract" => contract = source
               /\ pc \in {"copy", "compare"} => before = source
               /\ pc = "compare" => tree = source
               /\ pc \notin {"contract", "stage", "copy", "compare", "ended"} => digest = source
               /\ pc \in {"restore", "store", "inventory", "diff", "contents", "recheck"} =>
                     WellFormed(tree)
               /\ pc \in {"diff", "contents", "recheck"} => before = tree
               /\ pc \in {"contents", "recheck"} => changes = Changes(source, tree)
               /\ phase = "apply" => pc # "contract" /\ PatchLeads
               /\ pc = "validate" => PatchLeads /\ tree = patch.result
               /\ pc \in {"check", "replay", "confirm"} => phase = "apply"
               /\ pc \in {"check", "replay"} => tree = source
               /\ pc = "confirm" => tree = patch.result
               /\ UndisturbedRunsArrive
    BY <1>2 DEF NothingMoves
  <1> DEFINE Arriving == {"executor", "generation", "host", "unreadable", "too large", "path"}
  <1>3. ASSUME NEW part \in Arriving, GiveUp(part), writes = 0, pc # "contract"
        PROVE  NothingMoves'
    <2>1. /\ pc' = "ended" /\ ending' = part
          /\ UNCHANGED <<phase, source, contract, patch>>
      BY <1>3 DEF GiveUp
    <2>2. PatchLeads' <=> PatchLeads
      BY <2>1 DEF PatchLeads
    <2>3. QED
      BY <1>2, <1>3, <2>1, <2>2 DEF NothingMoves, UndisturbedRunsArrive
  <1>4. ASSUME ~\E e \in Edits : OwnerWrites(e) \/ StragglerWrites(e)
        PROVE  writes = 0
    <2>1. writes' = writes
      BY <1>4 DEF Next, vars, others, MakeContract, DigestSource, CopyTree, CompareCopy, RefuseCopy,
             MakeRequest, RefuseRequest, Execute, Restore, StoreResponse, ExecutionFailed,
             TakeDigests, TakeInventories, ReadContents, StorePatch, ExtractionFails, WorkerFails,
             Capture, RefuseProposal, CheckPatch, Replay, Confirm, ApplicationFails, HostFails, GiveUp
    <2>2. QED
      BY <2>1
  <1>5. SUFFICES ASSUME writes = 0, ~\E e \in Edits : OwnerWrites(e) \/ StragglerWrites(e)
                 PROVE  NothingMoves'
    BY <1>1, <1>4
  <1>6. ASSUME UNCHANGED <<source, patch>>
        PROVE  PatchLeads' <=> PatchLeads
    BY <1>6 DEF PatchLeads
  <1>7. CASE MakeContract
    BY <1>2, <1>5, <1>6, <1>7 DEF MakeContract, NothingMoves, UndisturbedRunsArrive
  <1>8. CASE DigestSource
    BY <1>2, <1>5, <1>6, <1>8 DEF DigestSource, NothingMoves, UndisturbedRunsArrive
  <1>9. CASE CopyTree
    BY <1>2, <1>5, <1>6, <1>9 DEF CopyTree, NothingMoves, UndisturbedRunsArrive
  <1>10. CASE CompareCopy
    <2>1. phase = "propose" \/ phase = "apply"
      BY DEF PipelineTypes
    <2>2. QED
      BY <1>2, <1>5, <1>6, <1>10, <2>1 DEF CompareCopy, NothingMoves, UndisturbedRunsArrive
  <1>11. CASE RefuseCopy \/ RefuseRequest
    BY <1>2, <1>5, <1>11 DEF RefuseCopy, CopyIsStable, RefuseRequest
  <1>12. CASE MakeRequest
    BY <1>2, <1>5, <1>6, <1>12 DEF MakeRequest, NothingMoves, UndisturbedRunsArrive
  <1>13. ASSUME NEW result \in Results, NEW status \in Envelopes \cup {"raised"},
                Execute(result, status)
         PROVE  NothingMoves'
    <2>1. WellFormed(result)
      BY PipelineAssumption
    <2>2. QED
      BY <1>2, <1>5, <1>6, <1>13, <2>1 DEF Execute, NothingMoves, UndisturbedRunsArrive
  <1>14. CASE Restore
    <2>1. pc = "restore"
      BY <1>14 DEF Restore
    <2>2. CASE execution = "raised"
      BY <1>3, <1>5, <1>14, <2>1, <2>2 DEF Restore
    <2>3. CASE execution # "raised"
      <3>1. WellFormed(Restored)
        BY <1>2, <1>5, <2>1, RestoredStands DEF PipelineTypes
      <3>2. QED
        BY <1>2, <1>5, <1>6, <1>14, <2>3, <3>1 DEF Restore, NothingMoves, UndisturbedRunsArrive
    <2>4. QED
      BY <2>2, <2>3
  <1>15. CASE StoreResponse
    BY <1>2, <1>5, <1>6, <1>15 DEF StoreResponse, NothingMoves, UndisturbedRunsArrive
  <1>16. CASE ExecutionFailed
    BY <1>3, <1>5, <1>16 DEF ExecutionFailed
  <1>17. CASE TakeDigests
    BY <1>2, <1>5, <1>6, <1>17 DEF TakeDigests, NothingMoves, UndisturbedRunsArrive
  <1>18. CASE TakeInventories
    BY <1>2, <1>5, <1>6, <1>18 DEF TakeInventories, NothingMoves, UndisturbedRunsArrive
  <1>19. CASE ReadContents
    BY <1>2, <1>5, <1>6, <1>19 DEF ReadContents, NothingMoves, UndisturbedRunsArrive
  <1>20. CASE StorePatch
    <2>1. /\ pc = "recheck" /\ pc' = "validate" /\ patch' = Extracted /\ CanonicalPatch(changes)
          /\ UNCHANGED <<phase, source, tree, contract, digest>>
      BY <1>20 DEF StorePatch
    <2>2. /\ digest = source /\ before = tree /\ changes = Changes(source, tree)
          /\ WellFormed(tree) /\ contract = source
      BY <1>2, <1>5, <2>1
    <2>3. patch' = [source |-> source, result |-> tree, changes |-> Changes(source, tree)]
      BY <2>1, <2>2 DEF Extracted
    <2>4. PatchLeads'
      <3>1. patch'.result = tree /\ patch'.changes = changes
        BY <2>2, <2>3
      <3>2. QED
        BY <2>1, <2>2, <2>3, <3>1 DEF PatchLeads
    <2>5. QED
      BY <2>1, <2>2, <2>3, <2>4 DEF NothingMoves, UndisturbedRunsArrive
  <1>21. CASE ExtractionFails
    <2>1. CASE /\ \/ pc \in {"inventory", "recheck"} /\ ~SourceIsStaged
                  \/ pc = "contents" /\ ~ContentsMatch
                  \/ pc = "recheck" /\ tree # before
               /\ GiveUp("changed")
      <3>1. ~(pc \in {"inventory", "recheck"} /\ ~SourceIsStaged) /\ ~(pc = "recheck" /\ tree # before)
        BY <1>2, <1>5 DEF SourceIsStaged
      <3>2. ASSUME pc = "contents"
            PROVE  ContentsMatch
        <4>1. changes = Changes(source, tree)
          BY <1>2, <1>5, <3>2
        <4>2. \A p \in DOMAIN Changes(source, tree) :
                 Changes(source, tree)[p] = [before |-> At(source, p), after |-> At(tree, p)]
          BY ChangesType DEF PipelineTypes
        <4>3. QED
          BY <4>1, <4>2 DEF ContentsMatch, ChangedFiles
      <3>3. QED
        BY <2>1, <3>1, <3>2
    <2>2. CASE pc \in {"inventory", "diff"} /\ ~Readable(tree) /\ GiveUp("unreadable")
      BY <1>3, <1>5, <2>2
    <2>3. CASE pc = "diff" /\ ~FitsLimit(Changes(source, tree)) /\ GiveUp("too large")
      BY <1>3, <1>5, <2>3
    <2>4. CASE pc = "recheck" /\ TreesStand /\ ~CanonicalPatch(changes) /\ GiveUp("path")
      BY <1>3, <1>5, <2>4
    <2>5. QED
      BY <1>21, <2>1, <2>2, <2>3, <2>4 DEF ExtractionFails
  <1>22. CASE WorkerFails \/ HostFails
    BY <1>3, <1>5, <1>22 DEF WorkerFails, HostFails
  <1>23. CASE Capture
    BY <1>2, <1>5, <1>6, <1>23 DEF Capture, NothingMoves, UndisturbedRunsArrive
  <1>24. CASE RefuseProposal
    <2>1. pc = "validate" /\ ~Validates
      BY <1>24 DEF RefuseProposal
    <2>2. PatchLeads /\ tree = patch.result /\ digest = source
      BY <1>2, <1>5, <2>1
    <2>3. patch.source = source /\ CanonicalPatch(patch.changes)
      BY <2>2, LeadingPatchesArrive DEF PatchLeads
    <2>4. QED
      BY <2>1, <2>2, <2>3 DEF Validates, SourceIsStaged
  <1>25. CASE CheckPatch
    BY <1>2, <1>5, <1>6, <1>25 DEF CheckPatch, NothingMoves, UndisturbedRunsArrive
  <1>26. CASE Replay
    <2>1. /\ pc = "replay" /\ tree' = Replayed(tree, patch.changes) /\ pc' = "confirm"
          /\ UNCHANGED <<phase, source, contract, digest, patch>>
      BY <1>26 DEF Replay
    <2>2. phase = "apply" /\ PatchLeads /\ tree = source /\ digest = source /\ contract = source
      BY <1>2, <1>5, <2>1
    <2>3. tree' = patch.result
      BY <2>1, <2>2, LeadingPatchesArrive
    <2>4. QED
      BY <1>6, <2>1, <2>2, <2>3 DEF NothingMoves, UndisturbedRunsArrive
  <1>27. CASE Confirm
    BY <1>2, <1>5, <1>6, <1>27 DEF Confirm, NothingMoves, UndisturbedRunsArrive
  <1>28. CASE ApplicationFails
    <2>1. pc \in {"check", "replay", "confirm"}
      BY <1>28 DEF ApplicationFails
    <2>2. PatchLeads /\ digest = source
      BY <1>2, <1>5, <2>1
    <2>3. /\ TransitionHolds(source, patch.changes) /\ Replayable(source, patch.changes)
          /\ patch.source = source /\ CanonicalPatch(patch.changes)
      BY <2>2, LeadingPatchesArrive DEF PatchLeads
    <2>4. pc = "check" => Applicable
      BY <1>2, <1>5, <2>2, <2>3 DEF Applicable, SourceIsStaged
    <2>5. pc = "replay" => Replayable(tree, patch.changes)
      BY <1>2, <1>5, <2>3
    <2>6. pc = "confirm" => ReplayIsRight
      BY <1>2, <1>5, <2>2 DEF ReplayIsRight, SourceIsStaged
    <2>7. QED
      BY <1>28, <2>4, <2>5, <2>6 DEF ApplicationFails
  <1>29. CASE UNCHANGED vars
    <2>1. UNCHANGED <<pc, phase, source, tree, contract, before, digest, changes, patch, ending,
                      writes>>
      BY <1>29 DEF vars, others
    <2>2. QED
      BY <1>2, <1>5, <1>6, <2>1 DEF NothingMoves, UndisturbedRunsArrive
  <1>30. QED
    BY <1>5, <1>7, <1>8, <1>9, <1>10, <1>11, <1>12, <1>13, <1>14, <1>15, <1>16, <1>17, <1>18, <1>19,
       <1>20, <1>21, <1>22, <1>23, <1>24, <1>25, <1>26, <1>27, <1>28, <1>29 DEF Next

\* Whatever the executor did, a proposal nobody else wrote into is staged, extracted,
\* validated and replayed without any of these parts refusing what another of them
\* has made, unless a name is not canonical, the patch is too large or an entry
\* cannot be read: for trees of any depth, and however a path changes its kind.
THEOREM UndisturbedProposalsArrive == Spec => []UndisturbedRunsArrive
  <1>1. PipelineTypes /\ NothingMoves => UndisturbedRunsArrive
    <2> SUFFICES ASSUME NothingMoves, pc = "ended", writes = 0
                 PROVE  UndisturbedRunsArrive
      BY DEF UndisturbedRunsArrive
    <2>1. QED
      BY DEF NothingMoves
  <1>2. PipelineTypes /\ NothingMoves /\ [Next]_vars => NothingMoves'
    BY NothingMovesOn
  <1>3. QED
    BY <1>1, <1>2, NothingMovesAtFirst, PipelineTyped, PTL DEF Spec

===============================================================================
