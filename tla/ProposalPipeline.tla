---------------------------- MODULE ProposalPipeline ----------------------------
(***************************************************************************)
(* The way of a proposal: a workspace is staged, CyxCodeGenerator.propose  *)
(* lets an executor work in the copy, restores the protected roots and has *)
(* a canonical patch extracted, validate_proposal checks it, the pilots    *)
(* capture it, and PatchApplier replays it on a fresh copy.                *)
(*                                                                         *)
(* pc names the next read or write of a tree.  Two others may write in     *)
(* between: somebody who owns the source, and a process the executor has   *)
(* left running in the copy.                                               *)
(***************************************************************************)
EXTENDS WorkspaceTree

CONSTANTS
    ProtectedRoots,  \* _PROTECTED_ROOTS
    MaxPatchFiles,   \* max_patch_bytes, in changed files
    Sources,         \* the trees a source may be at the start
    Results,         \* the trees an executor may leave behind
    Edits,           \* single entries the others may write or remove
    MaxWrites        \* bound on their writes

Edit == [path : Paths, entry : Entries \cup {Absent}]

ASSUME PipelineAssumption ==
    /\ ProtectedRoots \subseteq {p \in Paths : Len(p) = 1}
    /\ MaxPatchFiles \in Nat
    /\ MaxWrites \in Nat
    /\ Edits \subseteq Edit
    /\ \A t \in Sources \cup Results : t \in Trees /\ WellFormed(t)
    /\ \A t \in Sources : Readable(t)

VARIABLES
    pc,
    phase,      \* "propose", then "apply"
    source,     \* the source tree on disk
    tree,       \* the staged copy on disk
    contract,   \* the digest the task contract names
    before,     \* the digest taken first: of the source by _copy, of the result
                \* by _build_patch_record
    digest,     \* source_digest of the staged copy
    execution,  \* what the executor did
    changes,    \* the changes of the patch record in the making
    patch,      \* the stored patch
    ending,     \* which part gave up
    writes,     \* writes of the others
    meddled     \* one of them was under a protected root

others == <<writes, meddled>>

vars == <<pc, phase, source, tree, contract, before, digest, execution, changes, patch, ending,
          others>>

EmptyTree == [path \in {} |-> Directory]

NoPatch == [source |-> EmptyTree, result |-> EmptyTree, changes |-> EmptyTree]

Init ==
    /\ pc = "contract"
    /\ phase = "propose"
    /\ source \in Sources
    /\ tree = EmptyTree /\ contract = EmptyTree /\ before = EmptyTree /\ digest = EmptyTree
    /\ execution = "none"
    /\ changes = EmptyTree
    /\ patch = NoPatch
    /\ ending = "none"
    /\ writes = 0
    /\ meddled = FALSE

\* The copy goes with whatever gave up.
GiveUp(part) ==
    /\ ending' = part
    /\ pc' = "ended"
    /\ tree' = EmptyTree
    /\ UNCHANGED <<phase, source, contract, before, digest, execution, changes, patch, others>>

MakeContract ==
    /\ pc = "contract"
    /\ contract' = source
    /\ pc' = "stage"
    /\ UNCHANGED <<phase, source, tree, before, digest, execution, changes, patch, ending, others>>

-------------------------------------------------------------------------------
(* SnapshotStager._copy *)

DigestSource ==
    /\ pc = "stage"
    /\ before' = source
    /\ pc' = "copy"
    /\ UNCHANGED <<phase, source, tree, contract, digest, execution, changes, patch, ending, others>>

CopyTree ==
    /\ pc = "copy"
    /\ tree' = source
    /\ pc' = "compare"
    /\ UNCHANGED <<phase, source, contract, before, digest, execution, changes, patch, ending, others>>

CopyIsStable == source = before /\ tree = before

CompareCopy ==
    /\ pc = "compare"
    /\ CopyIsStable
    /\ digest' = before
    /\ pc' = IF phase = "propose" THEN "request" ELSE "check"
    /\ UNCHANGED <<phase, source, tree, contract, before, execution, changes, patch, ending, others>>

RefuseCopy == pc = "compare" /\ ~CopyIsStable /\ GiveUp("staging")

-------------------------------------------------------------------------------
(* CyxCodeGenerator.propose *)

\* GenerationRequest.__post_init__ on the first attempt
MakeRequest ==
    /\ pc = "request"
    /\ digest = contract
    /\ pc' = "execute"
    /\ UNCHANGED <<phase, source, tree, contract, before, digest, execution, changes, patch,
                   ending, others>>

RefuseRequest == pc = "request" /\ digest # contract /\ GiveUp("request")

\* The envelope a bridge may answer with.
Envelopes == {"ok", "failed"}

\* The executor works in the copy and answers, or raises: the bridge does not
\* start, times out, exits with an error, overruns its bound, answers with
\* something that is no envelope or with another request than it was given.
Execute(result, status) ==
    /\ pc = "execute"
    /\ tree' = result
    /\ execution' = status
    /\ pc' = "restore"
    /\ UNCHANGED <<phase, source, contract, before, digest, changes, patch, ending, others>>

IsProtected(path) == \E root \in ProtectedRoots : path = root \/ IsBelow(path, root)

\* Mutant: what the executor has added where the source has nothing stays.
RestoredWherePresent ==
    LET Back(p) == \E root \in ProtectedRoots \cap DOMAIN source : p = root \/ IsBelow(p, root)
    IN  [path \in {p \in DOMAIN tree : ~Back(p)} \cup {p \in DOMAIN source : Back(p)} |->
            IF Back(path) THEN source[path] ELSE tree[path]]

\* restore_cyxcode_metadata: every protected root is removed and copied anew.
Restored ==
    [path \in {p \in DOMAIN tree : ~IsProtected(p)} \cup {p \in DOMAIN source : IsProtected(p)} |->
        IF IsProtected(path) THEN source[path] ELSE tree[path]]

\* It runs whatever the executor did; an exception of the executor goes on after it.
Restore ==
    /\ pc = "restore"
    /\ IF execution = "raised"
         THEN GiveUp("executor")
         ELSE /\ tree' = Restored
              /\ pc' = "store"
              /\ UNCHANGED <<phase, source, contract, before, digest, execution, changes, patch,
                             ending, others>>

\* The response is stored before its status is looked at.
StoreResponse ==
    /\ pc = "store"
    /\ execution = "ok"
    /\ pc' = "inventory"
    /\ UNCHANGED <<phase, source, tree, contract, before, digest, execution, changes, patch,
                   ending, others>>

ExecutionFailed == pc = "store" /\ execution = "failed" /\ GiveUp("generation")

-------------------------------------------------------------------------------
(* DockerPatchExtractor.extract: the worker reads both trees three times *)

SourceIsStaged == source = digest

TakeDigests ==
    /\ pc = "inventory"
    /\ SourceIsStaged /\ Readable(tree)
    /\ before' = tree
    /\ pc' = "diff"
    /\ UNCHANGED <<phase, source, tree, contract, digest, execution, changes, patch, ending, others>>

FitsLimit(c) == Cardinality(ChangedFiles(c)) <= MaxPatchFiles

TakeInventories ==
    /\ pc = "diff"
    /\ Readable(tree) /\ FitsLimit(Changes(source, tree))
    /\ changes' = Changes(source, tree)
    /\ pc' = "contents"
    /\ UNCHANGED <<phase, source, tree, contract, before, digest, execution, patch, ending, others>>

ContentsMatch == \A path \in ChangedFiles(changes) : At(tree, path) = changes[path].after

ReadContents ==
    /\ pc = "contents"
    /\ ContentsMatch
    /\ pc' = "recheck"
    /\ UNCHANGED <<phase, source, tree, contract, before, digest, execution, changes, patch,
                   ending, others>>

\* The trees are what they were at the first digest.
TreesStand == SourceIsStaged /\ tree = before

\* On the host: every path of a record is canonical, ...
PathsAreCanonical(c) == DOMAIN c \cap UnsafePaths = {}

\* ... and says what an entry becomes: an addition, a deletion or a change.
CanonicalPatch(c) ==
    /\ PathsAreCanonical(c)
    /\ \A path \in DOMAIN c :
          /\ c[path].before # c[path].after
          /\ \A e \in {c[path].before, c[path].after} \ {Absent} : IsRecordable(e)

\* PatchExtraction
Extracted == [source |-> digest, result |-> before, changes |-> changes]

StorePatch ==
    /\ pc = "recheck"
    /\ TreesStand /\ CanonicalPatch(changes)
    /\ patch' = Extracted
    /\ pc' = "validate"
    /\ UNCHANGED <<phase, source, tree, contract, before, digest, execution, changes, ending, others>>

ExtractionFails ==
    \/ /\ \/ pc \in {"inventory", "recheck"} /\ ~SourceIsStaged
          \/ pc = "contents" /\ ~ContentsMatch
          \/ pc = "recheck" /\ tree # before
       /\ GiveUp("changed")
    \/ pc \in {"inventory", "diff"} /\ ~Readable(tree) /\ GiveUp("unreadable")
    \/ pc = "diff" /\ ~FitsLimit(Changes(source, tree)) /\ GiveUp("too large")
    \/ pc = "recheck" /\ TreesStand /\ ~CanonicalPatch(changes) /\ GiveUp("path")

\* The sandbox refuses, cuts short or fails the worker.
WorkerFails == pc \in {"inventory", "diff", "contents", "recheck"} /\ GiveUp("host")

-------------------------------------------------------------------------------
(* validate_proposal, and the capture of the proposal by a pilot: the copy is
   closed and only the patch goes on *)

Validates ==
    /\ patch.source = digest
    /\ CanonicalPatch(patch.changes)
    /\ tree = patch.result
    /\ SourceIsStaged

Capture ==
    /\ pc = "validate"
    /\ Validates
    /\ phase' = "apply"
    /\ tree' = EmptyTree
    /\ pc' = "stage"
    /\ UNCHANGED <<source, contract, before, digest, execution, changes, patch, ending, others>>

RefuseProposal == pc = "validate" /\ ~Validates /\ GiveUp("validation")

-------------------------------------------------------------------------------
(* PatchApplier.apply on a fresh copy *)

Applicable ==
    /\ patch.source = digest
    /\ CanonicalPatch(patch.changes)
    /\ SourceIsStaged
    /\ tree = digest
    /\ TransitionHolds(tree, patch.changes)

CheckPatch ==
    /\ pc = "check"
    /\ Applicable
    /\ pc' = "replay"
    /\ UNCHANGED <<phase, source, tree, contract, before, digest, execution, changes, patch,
                   ending, others>>

Replay ==
    /\ pc = "replay"
    /\ Replayable(tree, patch.changes)
    /\ tree' = Replayed(tree, patch.changes)
    /\ pc' = "confirm"
    /\ UNCHANGED <<phase, source, contract, before, digest, execution, changes, patch, ending, others>>

\* Mutant: the result is taken to be what was checked on paper.
ReplayIsTaken == SourceIsStaged

ReplayIsRight == tree = patch.result /\ SourceIsStaged

Confirm ==
    /\ pc = "confirm"
    /\ ReplayIsRight
    /\ pc' = "applied"
    /\ UNCHANGED <<phase, source, tree, contract, before, digest, execution, changes, patch,
                   ending, others>>

ApplicationFails ==
    /\ \/ pc = "check" /\ ~Applicable
       \/ pc = "replay" /\ ~Replayable(tree, patch.changes)
       \/ pc = "confirm" /\ ~ReplayIsRight
    /\ GiveUp("application")

-------------------------------------------------------------------------------
(* An OSError, a container that does not answer, an artifact that is lost *)
HostFails ==
    /\ pc \in {"copy", "restore", "store", "validate", "check", "replay"}
    /\ GiveUp("host")

Edited(base, e) ==
    WithFrom(base, [path \in (IF e.entry = Absent THEN {} ELSE {e.path}) |-> e.entry], e.path)

Note(e) ==
    /\ writes < MaxWrites
    /\ writes' = writes + 1
    /\ meddled' = (meddled \/ IsProtected(e.path))
    /\ UNCHANGED <<pc, phase, contract, before, digest, execution, changes, patch, ending>>

\* Somebody changes the source.
OwnerWrites(e) ==
    /\ pc \notin {"applied", "ended"}
    /\ source' = Edited(source, e)
    /\ source' # source /\ WellFormed(source') /\ Readable(source')
    /\ Note(e)
    /\ UNCHANGED tree

\* Something the executor has started is still at work in the copy.
StragglerWrites(e) ==
    /\ phase = "propose"
    /\ pc \in {"store", "inventory", "diff", "contents", "recheck", "validate"}
    /\ tree' = Edited(tree, e)
    /\ tree' # tree /\ WellFormed(tree')
    /\ Note(e)
    /\ UNCHANGED source

-------------------------------------------------------------------------------
Next ==
    \/ MakeContract
    \/ DigestSource \/ CopyTree \/ CompareCopy \/ RefuseCopy
    \/ MakeRequest \/ RefuseRequest
    \/ \E result \in Results, status \in Envelopes \cup {"raised"} : Execute(result, status)
    \/ Restore \/ StoreResponse \/ ExecutionFailed
    \/ TakeDigests \/ TakeInventories \/ ReadContents \/ StorePatch \/ ExtractionFails \/ WorkerFails
    \/ Capture \/ RefuseProposal
    \/ CheckPatch \/ Replay \/ Confirm \/ ApplicationFails
    \/ HostFails
    \/ \E e \in Edits : OwnerWrites(e) \/ StragglerWrites(e)

Spec == Init /\ [][Next]_vars

-------------------------------------------------------------------------------
(* Properties *)

\* A patch that was applied has brought a fresh copy to the very tree that was
\* validated, and what it showed, path by path, is the whole difference from the
\* source it names: no write in between, by whomever, makes it show anything else
\* (the three reads of _build_patch_record, the checks of PatchApplier.apply).
AppliedIsWhatWasShown ==
    pc = "applied" =>
        /\ tree = patch.result
        /\ patch.changes = Changes(digest, tree)

\* Whatever the executor did, an undisturbed pipeline carries its result through
\* extraction, validation and replay, unless a name is not canonical, the patch
\* is too large or an entry cannot be read: directories that become files, files
\* that become directories, nested removals and additions.
UndisturbedRunsArrive ==
    pc = "ended" /\ writes = 0 =>
        ending \in {"executor", "generation", "host", "unreadable", "too large", "path"}

\* A captured patch touches .cyxcode or .opencode only if somebody other than the
\* pipeline wrote there meanwhile, whatever the executor did to them
\* (restore_cyxcode_metadata).
ProtectedRootsAreRestored ==
    \A path \in DOMAIN patch.changes : IsProtected(path) => meddled
===============================================================================
