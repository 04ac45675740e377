----------------------------- MODULE ArchiveReview -----------------------------
(***************************************************************************)
(* review_staged_candidates of llmster_authenticode_review.py with the     *)
(* Windows adapter inspect_candidate as its inspector, and the pipeline    *)
(* from the download to the review.  Every read is bracketed by identities;*)
(* what is read is what is there at that step.                             *)
(***************************************************************************)
EXTENDS ArchiveStaging, CliTransport

CONSTANT Candidates   \* the members whose signature is asked for

ASSUME ReviewAssumption == Candidates \subseteq Members

VARIABLES
    tool,       \* powershell.exe and the script it is given, as one file
    review      \* the call: its next step, the member at hand, what it has seen

Genuine == File("pinned", Chunks, "nobody", 0)

Nothing == [m \in {} |-> NoFile]

NoMember == "none"

\* manifest: what was hashed.  before: the identities taken at the start of a
\* bracket, of the member and of the tool.  rows: what was classified, by what.
NewReview == [step |-> "idle", at |-> NoMember, before |-> <<>>, read |-> NoFile,
              manifest |-> Nothing, rows |-> [m \in {} |-> <<NoFile, NoFile, "none">>]]

ReviewInit == tool = Genuine /\ review = NewReview

Put(f, m, value) == [n \in DOMAIN f \cup {m} |-> IF n = m THEN value ELSE f[n]]

\* _verify_owned_root
Owned == root.marked

\* What is expected comes from a staging's result.
BeginReview ==
    /\ review.step = "idle"
    /\ \E s \in Stagers : stager[s].step = "staged"
    /\ Owned
    /\ review' = [review EXCEPT !.step = "walk"]

\* The walk: identity, bytes, identity.
Meet(m) ==
    /\ review.step = "walk"
    /\ m \in DOMAIN root.files \ DOMAIN review.manifest
    /\ review' = [review EXCEPT !.step = "read", !.at = m,
                                !.before = IdentityOf(root.files[m])]

Read ==
    /\ review.step = "read"
    /\ review.at \in DOMAIN root.files
    /\ review' = [review EXCEPT !.step = "confirm", !.read = root.files[review.at]]

ReadIsStable == review.at \in DOMAIN root.files /\ IdentityOf(root.files[review.at]) = review.before

Confirm ==
    /\ review.step = "confirm"
    /\ ReadIsStable
    /\ review' = [review EXCEPT !.step = "walk", !.at = NoMember, !.read = NoFile,
                    !.manifest = Put(@, review.at,
                                     [review.read EXCEPT !.by = review.before[1],
                                                         !.version = review.before[2]])]

\* Count, total and digest of the manifest are the expected ones.
Admit ==
    /\ review.step = "walk"
    /\ DOMAIN review.manifest = Members
    /\ \A m \in Members : Whole(review.manifest[m])
    /\ review' = [review EXCEPT !.step = "inspect"]

\* The candidate is the file that was hashed, PowerShell and the script have
\* their digests, and their identities are noted.
Launch(m) ==
    /\ review.step = "inspect"
    /\ m \in Candidates \ DOMAIN review.rows
    /\ m \in DOMAIN root.files
    /\ IdentityOf(root.files[m]) = IdentityOf(review.manifest[m])
    /\ Whole(tool)
    /\ review' = [review EXCEPT !.step = "transport", !.at = m, !.before = IdentityOf(tool)]

\* The signature as Windows sees it: the pinned candidates have a valid one.
Signature(file) == IF Whole(file) THEN "Valid" ELSE "HashMismatch"

\* _parse_status: what an exit of zero and one line of JSON say, with nothing
\* on stderr; all else is an error of the tool, or its timeout.
Observation(reply, file) ==
    IF reply = "told" THEN [kind |-> "status", status |-> Signature(file)]
    ELSE [kind |-> IF reply = "timeout" THEN reply ELSE "tool_error", status |-> "none"]

\* normalize_observation
Outcome(observation) ==
    CASE observation.kind # "status" -> observation.kind
      [] observation.status = "Valid" -> "signed_valid"
      [] observation.status = "HashMismatch" -> "invalid"

\* Every answer of the adapter makes a row.
Transport ==
    /\ review.step = "transport"
    /\ review.at \in DOMAIN root.files
    /\ \E reply \in Replies :
          LET file == root.files[review.at] IN
          review' = [review EXCEPT !.step = "after",
                       !.rows = Put(@, review.at,
                                    <<file, tool, Outcome(Observation(reply, file))>>)]

\* Mutant: only the tool is looked at after the transport.
InspectionByTool == IdentityOf(tool) = review.before

InspectionIsStable ==
    /\ IdentityOf(tool) = review.before
    /\ review.at \in DOMAIN root.files
    /\ IdentityOf(root.files[review.at]) = IdentityOf(review.manifest[review.at])

AfterTransport ==
    /\ review.step = "after"
    /\ InspectionIsStable
    /\ review' = [review EXCEPT !.step = "inspect", !.at = NoMember]

FinishReview ==
    /\ review.step = "inspect"
    /\ DOMAIN review.rows = Candidates
    /\ Owned
    /\ review' = [review EXCEPT !.step = "reviewed"]

\* Any check that does not hold, any stat or read that fails, ends it.
RefuseReview ==
    /\ review.step \notin {"idle", "reviewed"}
    /\ review' = NewReview

Review ==
    \/ BeginReview \/ Read \/ Confirm \/ Admit
    \/ \E m \in Members : Meet(m) \/ Launch(m)
    \/ Transport \/ AfterTransport \/ FinishReview \/ RefuseReview

\* Somebody replaces PowerShell or the script.
ReplaceTool(content) ==
    /\ outside < MaxOutside
    /\ outside' = outside + 1
    /\ tool' = File(content, Chunks, "outside", outside')

-------------------------------------------------------------------------------
vars == <<acquisitionVars, stagingVars, tool, review, outside>>

Init ==
    /\ AcquisitionInit
    /\ StagingInit
    /\ ReviewInit
    /\ outside = 0

Next ==
    \/ \E a \in Acquirers : Acquire(a) /\ UNCHANGED <<stagingVars, tool, review, outside>>
    \/ \E s \in Stagers : Stage(s) /\ UNCHANGED <<acquisitionVars, tool, review, outside>>
    \/ Review /\ UNCHANGED <<acquisitionVars, stagingVars, tool, outside>>
    \/ \E content \in Bodies \cup {"none"} :
          ReplaceArchive(content) /\ UNCHANGED <<stagingVars, tool, review>>
    \/ \E m \in Members, content \in {"pinned", "other"} :
          ReplaceMember(m, content) /\ UNCHANGED <<acquisitionVars, tool, review>>
    \/ \E content \in {"pinned", "other"} :
          ReplaceTool(content) /\ UNCHANGED <<acquisitionVars, stagingVars, review>>

Spec == Init /\ [][Next]_vars

\* A review that returns a result has classified the very bytes of the pinned
\* archive, every candidate of it, with the genuine tools, and has learnt their
\* own signature or nothing, although candidates and tools may have been
\* replaced between any two of its steps.
ClassifiedIsGenuine ==
    review.step = "reviewed" =>
        /\ DOMAIN review.rows = Candidates
        /\ \A m \in Candidates :
              /\ Whole(review.rows[m][1]) /\ Whole(review.rows[m][2])
              /\ review.rows[m][3] \in {"signed_valid", "timeout", "tool_error"}
===============================================================================
