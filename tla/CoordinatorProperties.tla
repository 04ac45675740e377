------------------------- MODULE CoordinatorProperties -------------------------
(***************************************************************************)
(* What a caller of run_single_attempt or run_bounded_attempts relies on.  *)
(***************************************************************************)
EXTENDS Coordinator, Functions

TypeOK ==
    /\ LedgerTypeOK
    /\ MachineTypeOK
    /\ session \in Session
    /\ pc \in {"contract", "triage", "propose", "mark", "record", "validate", "execute",
               "verify", "dispatch", "verified", "report", "assess", "decide", "restage",
               "revise", "export", "build", "cleanup", "done"}
    /\ budget \in Budgets
    /\ attempt \in 1..budget
    /\ snapshots \in Seq(Snapshot) /\ snapshots # <<>>
    /\ leaked \in Nat
    /\ proposal \in Proposal \cup {NoProposal}
    /\ proposals \in Seq(Proposal)
    /\ sessions \in Seq(Session)
    /\ toolNext \in 1..(Len(ToolChecks) + 1)
    /\ report \in VerificationReport
    /\ fresh \subseteq Finding
    /\ findings \subseteq Finding
    /\ decision.verdict \in Verdicts \cup {"none"} /\ decision.refs \subseteq EvidenceIds
    /\ failure \in {"none", "generator", "generator_artifacts", "ledger", "verifier",
                    "foreign", "coordinator", "snapshot", "record", "clock", "cleanup"}
    /\ storeIntact \in BOOLEAN
    /\ cleanupErrors \subseteq 2..Len(snapshots)
    /\ outcome \in {"running", "completed", "failed", "unrecorded"}
    /\ record.verdict \in Verdicts \cup {"none", "failed"}

\* The record of an accepted run proves the acceptance to a reader who has
\* nothing else: at the revision of its last proposal, the last evidence event
\* of every required check, of which there is one, is a pass; and no finding of
\* that attempt blocks, escalates or asks for a revision, nor was any tool
\* action of it denied (decide, apply_decision, build_run_record).
AcceptedRunIsProven ==
    outcome = "completed" /\ record.verdict = "accept" =>
        LET last     == Last(record.proposals)
            ChecksOf(ref) == {e.check : e \in {x \in Range(record.evidence) : x.id = ref}}
            About(c) == {n \in DOMAIN record.events :
                            /\ record.events[n].kind = "evidence"
                            /\ record.events[n].revision = last.revision
                            /\ c \in ChecksOf(record.events[n].ref)}
        IN  /\ last.attempt = attempt
            /\ TaskContract.required # {}
            /\ ~TaskContract.unresolved
            /\ \A c \in TaskContract.required :
                  \E n \in About(c) :
                     record.events[n].status = "passed" /\ \A m \in About(c) : m <= n
            /\ \A f \in fresh : f.severity \in {"info", "warning"} /\ f \in record.findings
            /\ DeniedActions(Last(record.sessions)) = {}

\* Each attempt starts from the exact content the one before it was validated
\* to have produced, at a revision that says so; the first starts from the
\* contract's.  This covers the attempt in flight (coordinator.restage, the
\* request built from ledger.current_revision and source_digest).
AttemptsChain ==
    LET all == IF proposal = NoProposal \/ (proposals # <<>> /\ Last(proposals) = proposal)
                 THEN proposals ELSE Append(proposals, proposal)
    IN  \A k \in DOMAIN all :
          /\ all[k].attempt = k
          /\ all[k].source = IF k = 1 THEN ContractDigest ELSE all[k - 1].result
          /\ all[k].revision = RevisionOf(k, all[k].source)

\* Evidence that counts towards the current decision was produced for the
\* current attempt: the labels a retry makes never bring an earlier attempt's
\* evidence back, although a workspace may return to an earlier content.
OnlyThisAttemptCounts ==
    \A i \in DOMAIN evidence :
        evidence[i].revision = revision => evidence[i].id[3] = attempt

\* However a run ends, every retry snapshot it staged is removed or reported
\* as not removable, and a completed run has left none behind.
NothingLeftBehind ==
    outcome # "running" =>
        /\ \A i \in 2..Len(snapshots) : snapshots[i].open => i \in cleanupErrors
        /\ outcome = "completed" => cleanupErrors = {} /\ leaked = 0
        /\ leaked > 0 => "close" \in Lapses /\ failure = "snapshot"

\* A new attempt is begun only while nothing hard stands against the run: no
\* attempt before it was denied an action, found a blocking or escalating
\* fact, cited unknown evidence, or ran against a contract that cannot be
\* accepted at all.
NoRetryPastAHardStop ==
    pc = "propose" /\ attempt > 1 =>
        /\ \A f \in findings : /\ f.severity \notin {"blocking", "escalation"}
                               /\ f.refs \subseteq evidenceIds
        /\ \A i \in DOMAIN sessions : DeniedActions(sessions[i]) = {}
        /\ TaskContract.required # {} /\ ~TaskContract.unresolved

\* Whatever stood between the last attempt and acceptance is in the feedback
\* the next request carries: each finding that asked for a revision, and each
\* required check that did not end passed at that attempt's revision.
FeedbackNamesWhatFailed ==
    pc = "propose" /\ attempt > 1 =>
        LET before == Last(proposals).revision
            Named(prefixes) == {reason[2] : reason \in {r \in feedback : r[1] \in prefixes}}
            About(c) == {i \in DOMAIN evidence :
                            evidence[i].check = c /\ evidence[i].revision = before}
        IN  /\ \A c \in TaskContract.required \ Named({"missing", "stale", "failed"}) :
                  \E i \in About(c) : evidence[i].passed /\ \A j \in About(c) : j <= i
            /\ \A f \in fresh : f.severity = "revision" => f.id \in Named({"finding.revision"})

\* The record builder's checks never reject what the coordinator has kept: a
\* run that was decided and exported gets its record, unless an artifact was
\* lost or a finding cites evidence that does not exist.
DecidedRunsAreRecorded ==
    pc = "build" /\ ~CompletionSound =>
        ~storeIntact \/ \E f \in findings : ~(f.refs \subseteq evidenceIds)

\* What a failure may interrupt that no record is possible of.
CutShort ==
    \/ state = "received"
    \/ ~(evidenceIds \subseteq RefsOfKind("evidence"))
    \/ /\ Single
       /\ \/ failure = "foreign"
          \/ ToolEvents # {} /\ ~session.live
          \/ proposal # NoProposal /\ proposal.id \notin proposalIds
    \/ /\ ~Single
       /\ \/ state \in {"action_validation", "executed", "assessed"}
          \/ state = "proposed" /\ failure = "clock" /\ proposal.id \in proposalIds

\* An artifact is lost that the record would refer to.
ArtifactMissed ==
    /\ ~storeIntact
    /\ \/ proposals # <<>> \/ (Single /\ proposal # NoProposal)
       \/ failure = "generator_artifacts"

\* A run that fails leaves the caller a failure record unless it was cut short
\* or an artifact of it is lost, and then it leaves none.  run_bounded_attempts
\* is cut short by whatever fails from the event of a proposal to its decision;
\* run_single_attempt, which has its proposal and its session in hand, only by
\* a verifier that raises after it has used a tool, by a tool session of
\* another ledger or store, and before the proposal has its event.  Both are
\* cut short when the clock raises before the first transition or between an
\* item of evidence and its event; no other time it raises loses the record.
UnrecordedIffCutShort ==
    outcome \in {"failed", "unrecorded"} =>
        (outcome = "unrecorded" <=> CutShort \/ ArtifactMissed)

\* Every run ends: with a result, a recorded failure or an exception.
Terminates == <>(outcome # "running")

-------------------------------------------------------------------------------
(* The promise of Supervision, seen through the ledger and the outcome *)

Standing == {c \in TaskContract.required : CheckStatus(c) = "passed"}

CallerSees ==
    IF outcome = "running" THEN "running"
    ELSE IF outcome = "unrecorded" THEN "failed"
    ELSE record.verdict

Promise ==
    INSTANCE Supervision WITH
        RequiredChecks <- TaskContract.required,
        budget <- budget,
        attempts <- attempt,
        passing <- Standing,
        status <- CallerSees

\* The coordinator does only what Supervision allows: a retry forgets what the
\* attempt before has earned, nothing is accepted without every check, and a
\* request for revision is final only on the last attempt.
KeepsPromise == Promise!Spec

-------------------------------------------------------------------------------
(* What the repository says and the code does not do *)

\* Progress_Notes/2026-08-15_implementation_status.md: the coordinator "emits
\* schema-valid `failed` run records on generator/stager/runtime errors".
FailuresAreRecorded == outcome # "unrecorded"

\* usage/Sheath_Stage0.md: "Unknown evidence references escalate": a run whose
\* findings cite unknown evidence is handed back as escalated.
UnknownEvidenceEscalates ==
    /\ outcome # "running"
    /\ decision.verdict = "escalate"
    /\ \E f \in fresh : UnknownEvidence \in f.refs
    => outcome = "completed"
===============================================================================
