--------------------------- MODULE ArchiveAcquisition ---------------------------
(***************************************************************************)
(* acquire_exact_archive of llmster_archive_acquisition.py and its second  *)
(* version, which differs in the reserve only: one download of the pinned  *)
(* archive through a partial file.  Several runs may share the repository; *)
(* each may die at any step, and be started again when it has not ended    *)
(* with a result.                                                          *)
(***************************************************************************)
EXTENDS Naturals

CONSTANTS
    Acquirers,
    Chunks,      \* what the pinned archive takes to write
    MaxOutside   \* bound on the writes of others to the files of the pipeline

ASSUME AcquisitionAssumption ==
    /\ Chunks \in Nat \ {0}
    /\ MaxOutside \in Nat
    /\ {"nobody", "outside"} \cap Acquirers = {}

VARIABLES
    archive,   \* the file at the destination
    partial,   \* the file beside it
    acquirer,  \* per run: its next step and the body it is served
    outside    \* writes of others so far

acquisitionVars == <<archive, partial, acquirer>>

\* What may be served: the pinned archive, another one, or one with an entry
\* whose path or kind is refused.
Bodies == {"pinned", "other", "misnamed"}

\* An answer to the request; a redirect is not followed, its status stands.
Answers == [status : {"200", "other"}, url : {"exact", "other"},
            length : {"absent", "within", "above", "invalid"}]

\* The body comes from the exact URL.
UrlIsExact(answer) == answer.url = "exact"

\* A length may be left out, but one that is there is a number below the ceiling.
LengthFits(answer) == answer.length \in {"absent", "within"}

\* A file, who wrote it last, and which of the writes of others that was.
File(content, size, by, version) ==
    [content |-> content, size |-> size, by |-> by, version |-> version]

NoFile == File("none", 0, "nobody", 0)

AcquisitionInit ==
    /\ archive = NoFile
    /\ partial = NoFile
    /\ acquirer = [a \in Acquirers |-> [step |-> "idle", body |-> "pinned"]]

GoesTo(a, step) == acquirer' = [acquirer EXCEPT ![a].step = step]

\* The call is over, with a result ("done") or without; or its process is.
Ends(a, step) == acquirer' = [acquirer EXCEPT ![a] = [step |-> step, body |-> "pinned"]]

\* What a file holds when all of its body was written, and when not.
Whole(file) == file.content = "pinned" /\ file.size = Chunks

\* Neither file exists and the preflight reserve holds.
Begin(a) ==
    /\ acquirer[a].step = "idle"
    /\ archive = NoFile
    /\ partial = NoFile
    /\ GoesTo(a, "request")
    /\ UNCHANGED <<archive, partial>>

\* The answer to the request: only an acceptable one has its body read.
Respond(a, answer, body) ==
    /\ acquirer[a].step = "request"
    /\ IF answer.status = "200" /\ UrlIsExact(answer) /\ LengthFits(answer)
         THEN acquirer' = [acquirer EXCEPT ![a] = [step |-> "create", body |-> body]]
         ELSE Ends(a, "idle")
    /\ UNCHANGED <<archive, partial>>

\* Mutant: the partial file is opened for writing whatever is there.
CreateOrTruncate(a) ==
    /\ acquirer[a].step = "create"
    /\ partial' = File(acquirer[a].body, 0, a, 0)
    /\ GoesTo(a, "stream")
    /\ UNCHANGED archive

\* partial.open("xb"): from here on the file is this run's.
Create(a) ==
    /\ acquirer[a].step = "create"
    /\ partial = NoFile
    /\ partial' = File(acquirer[a].body, 0, a, 0)
    /\ GoesTo(a, "stream")
    /\ UNCHANGED archive

\* An error before the file is this run's leaves the file system alone: the root,
\* the reserve, the request or the open fails, or either file exists.
FailEarly(a) ==
    /\ acquirer[a].step \in {"request", "create"}
    /\ Ends(a, "idle")
    /\ UNCHANGED <<archive, partial>>

Stream(a) ==
    /\ acquirer[a].step = "stream"
    /\ IF partial.size < Chunks
         THEN partial' = [partial EXCEPT !.size = @ + 1] /\ UNCHANGED acquirer
         ELSE GoesTo(a, "hash") /\ UNCHANGED partial
    /\ UNCHANGED archive

\* The digest is of what was streamed; then the final reserve and the
\* destination are looked at.
Verify(a) ==
    /\ acquirer[a].step = "hash"
    /\ acquirer[a].body = "pinned"
    /\ archive = NoFile
    /\ GoesTo(a, "rename")
    /\ UNCHANGED <<archive, partial>>

\* Windows refuses to rename a file that is open, or onto one that exists.
Rename(a) ==
    /\ acquirer[a].step = "rename"
    /\ archive = NoFile
    /\ \A b \in Acquirers : acquirer[b].step # "stream"
    /\ archive' = partial
    /\ partial' = NoFile
    /\ Ends(a, "done")

\* The body breaks off or is too long, a write, the digest, the reserve or the
\* rename fails.
FailLate(a) ==
    /\ acquirer[a].step \in {"stream", "hash", "rename"}
    /\ GoesTo(a, "cleanup")
    /\ UNCHANGED <<archive, partial>>

\* finally: the partial file goes, if it was created here and can be removed.
Cleanup(a, removed) ==
    /\ acquirer[a].step = "cleanup"
    /\ partial' = IF removed THEN NoFile ELSE partial
    /\ Ends(a, "idle")
    /\ UNCHANGED archive

CrashAcquirer(a) ==
    /\ acquirer[a].step \notin {"idle", "done"}
    /\ Ends(a, "idle")
    /\ UNCHANGED <<archive, partial>>

Acquire(a) ==
    \/ Begin(a)
    \/ \E answer \in Answers, body \in Bodies : Respond(a, answer, body)
    \/ Create(a) \/ Stream(a) \/ Verify(a) \/ Rename(a)
    \/ FailEarly(a) \/ FailLate(a)
    \/ \E removed \in BOOLEAN : Cleanup(a, removed)
    \/ CrashAcquirer(a)

\* Somebody else puts a file at the destination, or takes it away.
ReplaceArchive(content) ==
    /\ outside < MaxOutside
    /\ outside' = outside + 1
    /\ archive' = IF content = "none" THEN NoFile ELSE File(content, Chunks, "outside", outside')
    /\ UNCHANGED <<partial, acquirer>>

-------------------------------------------------------------------------------
\* What an acquisition has put at the destination is the pinned archive, all of
\* it, whoever else was downloading, died half way or was served something else;
\* and the partial file is never taken from the run it belongs to.
AcquiredIsWhole ==
    /\ archive.by \in Acquirers => Whole(archive)
    /\ \A a \in Acquirers : acquirer[a].step \in {"stream", "hash", "rename"} => partial.by = a
===============================================================================
