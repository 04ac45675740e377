----------------------------- MODULE ArchiveStaging -----------------------------
(***************************************************************************)
(* stage_archive of llmster_archive_staging.py with inspect_archive of     *)
(* llmster_archive_inventory.py: the members of the acquired archive are   *)
(* written below a new directory that a marker file says is ours.  A call  *)
(* that is refused, fails or dies may be made again.  Who wrote a file     *)
(* last is its identity: stat tells any two writes apart.                  *)
(***************************************************************************)
EXTENDS ArchiveAcquisition

CONSTANTS
    Stagers,
    Members     \* of the pinned archive

ASSUME StagingAssumption == {"nobody", "outside"} \cap Stagers = {}

VARIABLES
    root,       \* the staging directory: its maker, its marker, what is in it
    stager      \* per call: its next step, the identity it took, members written

stagingVars == <<root, stager>>

NoRoot == [by |-> "nobody", marked |-> FALSE, files |-> [m \in {} |-> NoFile]]

IdentityOf(file) == <<file.by, file.version>>

\* The identity of the archive as stat reports it.
Identity == IdentityOf(archive)

IdleStager == [step |-> "idle", identity |-> IdentityOf(NoFile),
               hashed |-> IdentityOf(NoFile), written |-> {}]

StagerEnds(s, step) == stager' = [stager EXCEPT ![s] = [IdleStager EXCEPT !.step = step]]

StagingInit ==
    /\ root = NoRoot
    /\ stager = [s \in Stagers |-> IdleStager]

StagerGoesTo(s, step) == stager' = [stager EXCEPT ![s].step = step]

\* The directory does not exist yet; the identity before the inventory.
BeginStaging(s) ==
    /\ stager[s].step = "idle"
    /\ root = NoRoot
    /\ archive # NoFile
    /\ stager' = [stager EXCEPT ![s].step = "hash", ![s].identity = Identity]
    /\ UNCHANGED root

\* The file as it is opened: all that is in it adds up to the pinned size and
\* both pinned digests.
StreamedWhole == Whole(archive)

\* The end record is the last thing in a file, and what it counts lies before
\* it: so it does in every archive that was written to its end.
EndRecordFits == archive.size = Chunks

\* A relative canonical path within the staging directory, met once ...
PathsAreCanonical == archive.content # "misnamed"

\* ... of a plain file or directory, stored or deflated within the ceilings.
KindsAreOrdinary == archive.content # "misnamed"

\* The digest of the inventory and its total, which another archive does not give.
InventoryIsPinned == archive.content = "pinned"

\* inspect_archive: the bytes and the end record, from one open file ...
HashArchive(s) ==
    /\ stager[s].step = "hash"
    /\ StreamedWhole /\ EndRecordFits
    /\ stager' = [stager EXCEPT ![s].step = "entries", ![s].hashed = Identity]
    /\ UNCHANGED root

\* ... then its central directory.  The file has not changed meanwhile, its
\* entries are acceptable one by one, and together they are the pinned ones.
ReadEntries(s) ==
    /\ stager[s].step = "entries"
    /\ Identity = stager[s].hashed
    /\ PathsAreCanonical /\ KindsAreOrdinary /\ InventoryIsPinned
    /\ StagerGoesTo(s, "mkdir")
    /\ UNCHANGED root

\* The archive is still the one looked at first, the reserve holds, and the
\* directory is made here and now.
MakeRoot(s) ==
    /\ stager[s].step = "mkdir"
    /\ Identity = stager[s].identity
    /\ root = NoRoot
    /\ root' = [NoRoot EXCEPT !.by = s]
    /\ StagerGoesTo(s, "mark")

\* Any refusal so far leaves everything as it was.
RefuseStaging(s) ==
    /\ stager[s].step \in {"hash", "entries", "mkdir"}
    /\ StagerEnds(s, "idle")
    /\ UNCHANGED root

\* The marker is created exclusively.
WriteMarker(s) ==
    /\ stager[s].step = "mark"
    /\ ~root.marked
    /\ root' = [root EXCEPT !.marked = TRUE]
    /\ StagerGoesTo(s, "extract")

\* One member is streamed out of whatever the archive is now: its path and kind
\* are looked at again, nothing may be in its place, and as many bytes must come
\* as its entry says.
ExtractMember(s, m) ==
    /\ stager[s].step = "extract"
    /\ m \notin DOMAIN root.files
    /\ archive # NoFile
    /\ EndRecordFits /\ PathsAreCanonical /\ KindsAreOrdinary
    /\ root' = [root EXCEPT !.files = [n \in DOMAIN @ \cup {m} |->
                    IF n = m THEN File(archive.content, archive.size, s, 0) ELSE @[n]]]
    /\ stager' = [stager EXCEPT ![s].written = @ \cup {m}]

\* Mutant: the archive is not looked at again.
ArchiveAsCounted(s) == stager[s].written = Members

\* All members were written, and the archive is the one that was inspected.
ArchiveAsInspected(s) == stager[s].written = Members /\ Identity = stager[s].identity

FinishStaging(s) ==
    /\ stager[s].step = "extract"
    /\ ArchiveAsInspected(s)
    /\ StagerEnds(s, "staged")
    /\ UNCHANGED root

FailStaging(s) ==
    /\ stager[s].step \in {"mark", "extract"}
    /\ StagerGoesTo(s, "cleanup")
    /\ UNCHANGED root

\* A marked directory is verified and removed with all that is in it; one
\* without a marker is removed only if it is empty.  Either may be refused.
CleanupStaging(s, removed) ==
    /\ stager[s].step = "cleanup"
    /\ removed => root.marked \/ DOMAIN root.files = {}
    /\ root' = IF removed THEN NoRoot ELSE root
    /\ StagerEnds(s, "idle")

CrashStager(s) ==
    /\ stager[s].step \notin {"idle", "staged"}
    /\ StagerEnds(s, "idle")
    /\ UNCHANGED root

Stage(s) ==
    \/ BeginStaging(s) \/ HashArchive(s) \/ ReadEntries(s) \/ MakeRoot(s) \/ RefuseStaging(s)
    \/ WriteMarker(s) \/ (\E m \in Members : ExtractMember(s, m)) \/ FinishStaging(s)
    \/ FailStaging(s) \/ (\E removed \in BOOLEAN : CleanupStaging(s, removed)) \/ CrashStager(s)

\* Somebody else writes where a member belongs.
ReplaceMember(m, content) ==
    /\ outside < MaxOutside
    /\ root # NoRoot
    /\ outside' = outside + 1
    /\ root' = [root EXCEPT !.files = [n \in DOMAIN @ \cup {m} |->
                    IF n = m THEN File(content, Chunks, "outside", outside') ELSE @[n]]]
    /\ UNCHANGED stager

-------------------------------------------------------------------------------
\* After a call has returned its result, the directory it names is there and
\* holds every member of the pinned archive, although the archive may have been
\* replaced while it was read and another call may have tried the same name;
\* only somebody outside the pipeline can change that.
StagedIsThePinnedArchive ==
    \A s \in Stagers : stager[s].step = "staged" =>
        /\ root.by = s /\ root.marked
        /\ \A m \in Members : /\ m \in DOMAIN root.files
                              /\ Whole(root.files[m]) \/ root.files[m].by = "outside"
===============================================================================
