------------------------------ MODULE Coordinator ------------------------------
(***************************************************************************)
(* run_single_attempt (a budget of one) and run_bounded_attempts (two or   *)
(* more) of sheath/coordinator.py, from the creation of the ledger to the  *)
(* return or the exception the caller sees.                                *)
(*                                                                         *)
(* pc names the next call the coordinator makes; each action is one call   *)
(* with the code around it.  The generator and the verifier are behind     *)
(* protocols: what they do is chosen among what the protocol and the       *)
(* repository's own implementations allow.  A digest stands for the whole  *)
(* content of a workspace.                                                 *)
(***************************************************************************)
EXTENDS RunState, Decision, ToolCalls, FiniteSets

CONSTANTS
    Budgets,         \* the values of budget.max_attempts in this instance
    MaxAttempts,     \* the largest of them
    TaskContract,    \* the contract fields a decision reads
    Digests,         \* contents a workspace may have
    ContractDigest,  \* contract.repository.snapshot_digest
    ToolChecks,      \* the verifier's tool checks, in order
    FindingNames,    \* the names its findings may have
    Reports,         \* what a verifier may put in its VerificationReport
    UnknownEvidence, \* an evidence id nothing ever records
    Lapses           \* the faults of the environment in this instance

\* Mutant: the label of a retry names the content only.
RevisionOfContent(n, digest) == <<1, digest>>

\* Revision labels: <<1, ContractDigest>> stands for the contract's own, the
\* others for f"attempt-{n}:{source_digest}".
RevisionOf(n, digest) == <<n, digest>>

\* Ids carry the attempt: that of a proposal because generators derive it from
\* the request, that of a later action because the verifier appends it.
ProposalId(n) == <<"proposal", n>>

ActionId(check, n) == <<check, n>>

ReportEvidenceId(check, n) == <<"report", check, n>>

\* An evidence item of a report: one that is not "fresh" is built for the
\* contract's revision whatever the current one is.
ReportItem == [check : CheckIds, passed : BOOLEAN, fresh : BOOLEAN]

\* A finding of a report: its id carries the attempt when "numbered" and is
\* the same in every attempt otherwise; "cites" says it cites UnknownEvidence.
ReportFinding ==
    [name : FindingNames, severity : Severities, numbered : BOOLEAN, cites : BOOLEAN]

VerificationReport == [evidence : Seq(ReportItem), findings : SUBSET ReportFinding]

\* A finding id is a name and the attempt it carries, 0 for none.
CoordinatorFindings == {"runner", "denied", "drift", "wall-time"}

\* "clock": the injected clock may raise.  "store": stored artifacts may be
\* lost or altered.  "close": a staged tree may resist removal.  "drift": what
\* verification left running may write to the workspace.
AllLapses == {"clock", "store", "close", "drift"}

\* The ids of authorizations and of observations are made from the action's, and
\* carry its attempt (their third member) with it.
ASSUME CoordinatorAssumption ==
    /\ MaxAttempts \in Budgets
    /\ Budgets \subseteq 1..MaxAttempts
    /\ TaskContract \in Contract
    /\ ContractDigest \in Digests
    /\ Revisions = (1..MaxAttempts) \X Digests
    /\ (CoordinatorFindings \cup FindingNames) \X (0..MaxAttempts) \subseteq FindingIds
    /\ PolicyCheck \in CheckIds
    /\ ToolChecks \in Seq(TaskContract.required)
    /\ Lapses \subseteq AllLapses
    /\ Reports \subseteq VerificationReport
    /\ \A n \in 1..MaxAttempts :
          /\ ProposalId(n) \in ProposalIds
          /\ \A c \in CheckIds : /\ ActionId(c, n) \in ActionIds
                                 /\ ReportEvidenceId(c, n) \in EvidenceIds
    /\ AuthorizationId \in [ActionIds -> EvidenceIds]
    /\ ObservationId \in [ActionIds \X CheckIds -> EvidenceIds]
    /\ \A n \in 1..MaxAttempts : \A c, d \in CheckIds :
          /\ AuthorizationId[ActionId(c, n)][3] = n
          /\ ObservationId[<<ActionId(c, n), d>>][3] = n
    /\ UnknownEvidence \in EvidenceIds

VARIABLES
    pc,
    budget,          \* budget.max_attempts of this run
    attempt,
    snapshots,       \* current_snapshot is the last; all but the first are owned
    leaked,          \* staged trees on disk that no variable of the run refers to
    proposal,        \* the proposal of this attempt once it is validated
    proposals,
    sessions,        \* tool_sessions
    toolNext,        \* position of the verifier's next tool check
    report,          \* what is left to record of the VerificationReport
    fresh,           \* attempt_findings
    findings,
    feedback,        \* current_feedback
    decision,
    failure,         \* the kind of exception that ended the attempts, or "none"
    storeIntact,     \* every artifact a record refers to still verifies
    cleanupErrors,   \* positions of the owned snapshots that could not be closed
    outcome,         \* what the caller got
    record           \* the run record that came with it

attemptVars == <<budget, attempt, proposal, proposals, sessions, findings, feedback, decision>>

verifyVars == <<toolNext, report, fresh>>

hostVars == <<snapshots, leaked, storeIntact>>

exitVars == <<failure, cleanupErrors, outcome, record>>

runVars == <<attemptVars, verifyVars, hostVars, exitVars>>

vars == <<ledgerVars, machineVars, session, pc, runVars>>

Snapshot == [source : Digests, content : Digests, open : BOOLEAN]

Proposal ==
    [id : ProposalIds, attempt : 1..MaxAttempts, revision : Revisions,
     source : Digests, result : Digests]

NoProposal == [attempt |-> 0]

NoReport == [evidence |-> <<>>, findings |-> {}]

NoDecision == Outcome("none", {}, {})

NoRecord == [verdict |-> "none"]

Single == budget = 1

Last(s) == s[Len(s)]

CurrentSnapshot == Last(snapshots)

WrittenTo(digest) == [snapshots EXCEPT ![Len(snapshots)].content = digest]

-------------------------------------------------------------------------------
(* The caller has staged the initial snapshot, of the contract's source or not *)
Init ==
    /\ MachineInit(RevisionOf(1, ContractDigest))
    /\ session = NoSession
    /\ pc = "contract"
    /\ budget \in Budgets
    /\ attempt = 1
    /\ \E d \in Digests : snapshots = <<[source |-> d, content |-> d, open |-> TRUE]>>
    /\ leaked = 0
    /\ proposal = NoProposal
    /\ proposals = <<>>
    /\ sessions = <<>>
    /\ toolNext = 1
    /\ report = NoReport
    /\ fresh = {}
    /\ findings = {}
    /\ feedback = {}
    /\ decision = NoDecision
    /\ failure = "none"
    /\ storeIntact = TRUE
    /\ cleanupErrors = {}
    /\ outcome = "running"
    /\ record = NoRecord

\* An exception leaves the attempt loop for the handler and the finally block.
Raise(kind) ==
    /\ failure' = kind
    /\ pc' = "cleanup"
    /\ UNCHANGED <<cleanupErrors, outcome, record>>

\* A transition of the state machine and the pc it leads to.
Enter(from, to, next) ==
    /\ pc = from
    /\ Transition(to)
    /\ pc' = next
    /\ UNCHANGED session

ContractTask == Enter("contract", "contracted", "triage") /\ UNCHANGED runVars

Triage == Enter("triage", "triaged", "propose") /\ UNCHANGED runVars

-------------------------------------------------------------------------------
(* Generation *)

\* GenerationRequest.__post_init__: only the first request is tied to the contract.
RequestAccepted == attempt = 1 => CurrentSnapshot.source = ContractDigest

\* The generator has worked in the snapshot and validate_proposal found
\* everything it names consistent.  A generator may reuse an earlier id.
Propose(n, result) ==
    /\ pc = "propose"
    /\ RequestAccepted
    /\ snapshots' = WrittenTo(result)
    /\ proposal' = [id |-> ProposalId(n), attempt |-> attempt, revision |-> revision,
                    source |-> CurrentSnapshot.source, result |-> result]
    /\ pc' = "mark"
    /\ UNCHANGED <<ledgerVars, machineVars, session, verifyVars, exitVars, leaked, storeIntact,
                   budget, attempt, proposals, sessions, findings, feedback, decision>>

RefuseRequest ==
    /\ pc = "propose"
    /\ ~RequestAccepted
    /\ Raise("generator")
    /\ UNCHANGED <<ledgerVars, machineVars, session, attemptVars, verifyVars, hostVars>>

\* The generator raises, or its proposal is not what it claims: a
\* GeneratorError, which may carry artifacts, or the SnapshotError of a
\* workspace that cannot be digested.
GenerationFails(result, kind) ==
    /\ pc = "propose"
    /\ RequestAccepted
    /\ snapshots' = WrittenTo(result)
    /\ Raise(kind)
    /\ UNCHANGED <<ledgerVars, machineVars, session, attemptVars, verifyVars,
                   leaked, storeIntact>>

MarkProposed == Enter("mark", "proposed", "record") /\ UNCHANGED runVars

RecordTheProposal ==
    /\ pc = "record"
    /\ RecordProposal(proposal.id)
    /\ pc' = "validate"
    /\ UNCHANGED <<machineVars, session, runVars>>

RefuseTheProposal ==
    /\ pc = "record"
    /\ ProposalRefused(proposal.id)
    /\ Raise("ledger")
    /\ UNCHANGED <<ledgerVars, machineVars, session, attemptVars, verifyVars, hostVars>>

ValidateAction == Enter("validate", "action_validation", "execute") /\ UNCHANGED runVars

\* The last transition before verify is called.  The verifier creates a tool
\* session for this attempt (ToolBackedVerifier, PocVerifier) or uses none.
Execute ==
    /\ pc = "execute"
    /\ Transition("executed")
    /\ session' \in {NoSession, NewSession}
    /\ toolNext' = 1
    /\ report' = NoReport
    /\ fresh' = {}
    /\ pc' = "verify"
    /\ UNCHANGED <<attemptVars, hostVars, exitVars>>

-------------------------------------------------------------------------------
(* Verification *)

ToolCheck == ToolChecks[toolNext]

ToolAction == ActionId(ToolCheck, attempt)

MoreTools == session.live /\ toolNext <= Len(ToolChecks)

\* A denied action ends the verifier's loop.
RequestTool(allowed) ==
    /\ pc = "verify"
    /\ MoreTools
    /\ RequestAction(ToolAction, allowed)
    /\ pc' = IF allowed THEN "dispatch" ELSE "verified"
    /\ UNCHANGED <<machineVars, runVars>>

ObserveTool(passed) ==
    /\ pc = "dispatch"
    /\ RecordObservation(ToolAction, ToolCheck, passed)
    /\ toolNext' = toolNext + 1
    /\ pc' = "verify"
    /\ UNCHANGED <<machineVars, attemptVars, hostVars, exitVars, report, fresh>>

RunnerFinding ==
    [id |-> <<"runner", attempt>>, severity |-> "escalation", refs |-> {}]

\* The runner could not complete the action.  ToolBackedVerifier turns the
\* RunnerError into this finding and stops; PocVerifier lets it out.
ToolFails ==
    /\ pc = "dispatch"
    /\ RunnerFails(ToolAction)
    /\ fresh' = {RunnerFinding}
    /\ pc' = "verified"
    /\ UNCHANGED <<machineVars, attemptVars, hostVars, exitVars, toolNext, report>>

VerifierReturns(r) ==
    /\ pc = "verified" \/ (pc = "verify" /\ ~MoreTools)
    /\ report' = r
    /\ pc' = "report"
    /\ UNCHANGED <<ledgerVars, machineVars, session, attemptVars, hostVars, exitVars,
                   toolNext, fresh>>

\* Whatever verify raises, at any point, or returns that is not a report: the
\* session goes with the frame.
VerifierRaises ==
    /\ pc \in {"verify", "dispatch", "verified"}
    /\ session' = NoSession
    /\ Raise("verifier")
    /\ UNCHANGED <<ledgerVars, machineVars, attemptVars, verifyVars, hostVars>>

\* The report brings a tool session of another ledger or store, and what the
\* verifier did with this ledger is of no session.  Or it brings one of this
\* ledger without a store, which is refused as well but which a record takes.
ForeignSession ==
    /\ pc = "verified" \/ (pc = "verify" /\ ~MoreTools)
    /\ \/ session' = NoSession /\ Raise("foreign")
       \/ /\ session.live /\ session.observed = {}
          /\ Raise("coordinator")
          /\ UNCHANGED session
    /\ UNCHANGED <<ledgerVars, machineVars, attemptVars, verifyVars, hostVars>>

-------------------------------------------------------------------------------
(* Assessment *)

ReportedEvidence(item) ==
    [id |-> ReportEvidenceId(item.check, attempt), check |-> item.check,
     revision |-> IF item.fresh THEN revision ELSE RevisionOf(1, ContractDigest),
     passed |-> item.passed]

RecordReport ==
    /\ pc = "report"
    /\ report.evidence # <<>>
    /\ RecordEvidence(ReportedEvidence(Head(report.evidence)))
    /\ report' = [report EXCEPT !.evidence = Tail(@)]
    /\ UNCHANGED <<machineVars, session, pc, attemptVars, hostVars, exitVars, toolNext, fresh>>

\* Mutant: refused evidence is offered to the ledger again.
OfferReportAgain ==
    /\ pc = "report"
    /\ report.evidence # <<>>
    /\ EvidenceRefused(ReportedEvidence(Head(report.evidence)))
    /\ UNCHANGED vars

RefuseReport ==
    /\ pc = "report"
    /\ report.evidence # <<>>
    /\ EvidenceRefused(ReportedEvidence(Head(report.evidence)))
    /\ Raise("ledger")
    /\ UNCHANGED <<ledgerVars, machineVars, session, attemptVars, verifyVars, hostVars>>

ReportedFindings ==
    {[id |-> <<f.name, IF f.numbered THEN attempt ELSE 0>>, severity |-> f.severity,
      refs |-> IF f.cites THEN {UnknownEvidence} ELSE {}] : f \in report.findings}

\* blocking_findings of the tool session
BlockingFindings ==
    {[id |-> <<"denied", attempt>>, severity |-> "blocking", refs |-> {AuthorizationId[a]}]
        : a \in DeniedActions(session)}

\* directory_digest(snapshot.root) against the validated result
DriftFindings ==
    IF CurrentSnapshot.content = proposal.result THEN {}
    ELSE {[id |-> <<"drift", attempt>>, severity |-> "escalation", refs |-> {}]}

\* ... which raises when the tree cannot be read, or holds what is no file.
DigestFails ==
    /\ pc = "report"
    /\ report.evidence = <<>>
    /\ Raise("snapshot")
    /\ UNCHANGED <<ledgerVars, machineVars, session, attemptVars, verifyVars, hostVars>>

LateFindings(late) ==
    IF late THEN {[id |-> <<"wall-time", 0>>, severity |-> "escalation", refs |-> {}]} ELSE {}

AttemptFindings(late) ==
    fresh \cup ReportedFindings \cup BlockingFindings \cup DriftFindings \cup LateFindings(late)

IdsOf(S) == {f.id : f \in S}

\* Only run_bounded_attempts compares finding ids across attempts.
Repeats(S) == ~Single /\ IdsOf(S) \cap IdsOf(findings) # {}

CollectFindings(late) ==
    /\ pc = "report"
    /\ report.evidence = <<>>
    /\ ~Repeats(AttemptFindings(late))
    /\ fresh' = AttemptFindings(late)
    /\ pc' = "assess"
    /\ UNCHANGED <<ledgerVars, machineVars, session, attemptVars, hostVars, exitVars,
                   toolNext, report>>

RepeatedFinding(late) ==
    /\ pc = "report"
    /\ report.evidence = <<>>
    /\ Repeats(AttemptFindings(late))
    /\ Raise("coordinator")
    /\ UNCHANGED <<ledgerVars, machineVars, session, attemptVars, verifyVars, hostVars>>

Assess == Enter("assess", "assessed", "decide") /\ UNCHANGED runVars

\* Mutants: the last attempt of the budget is never used; the budget is not asked.
RetryBelowBudget(d) == d.verdict = "revise" /\ attempt + 1 < budget

RetryAlways(d) == d.verdict = "revise"

MayRetry(d) == d.verdict = "revise" /\ attempt < budget

\* Only now do the proposal, the session and the findings become part of what
\* run_bounded_attempts exports.
DecideAttempt ==
    LET d == Decide(TaskContract, fresh)
    IN  /\ pc = "decide"
        /\ ApplyDecision(d)
        /\ decision' = d
        /\ proposals' = Append(proposals, proposal)
        /\ sessions' = Append(sessions, session)
        /\ findings' = findings \cup fresh
        /\ pc' = IF MayRetry(d) THEN "restage" ELSE "export"
        /\ UNCHANGED <<session, budget, attempt, proposal, feedback, verifyVars, hostVars,
                       exitVars>>

-------------------------------------------------------------------------------
(* Retry *)

\* Mutant: the retry starts from the tree this attempt started from.
RestageTheSource ==
    /\ pc = "restage"
    /\ snapshots' = Append(snapshots, [source |-> CurrentSnapshot.source,
                                       content |-> CurrentSnapshot.source, open |-> TRUE])
    /\ pc' = "revise"
    /\ UNCHANGED <<ledgerVars, machineVars, session, attemptVars, verifyVars, exitVars,
                   leaked, storeIntact>>

Restage ==
    /\ pc = "restage"
    /\ CurrentSnapshot.content = proposal.result
    /\ snapshots' = Append(snapshots, [source |-> proposal.result, content |-> proposal.result,
                                       open |-> TRUE])
    /\ pc' = "revise"
    /\ UNCHANGED <<ledgerVars, machineVars, session, attemptVars, verifyVars, exitVars,
                   leaked, storeIntact>>

\* The copy is not the validated result: the coordinator closes it and raises.
RestageMismatch ==
    /\ pc = "restage"
    /\ CurrentSnapshot.content # proposal.result
    /\ \/ Raise("coordinator") /\ UNCHANGED leaked
       \/ "close" \in Lapses /\ Raise("snapshot") /\ leaked' = leaked + 1
    /\ UNCHANGED <<ledgerVars, machineVars, session, attemptVars, verifyVars,
                   snapshots, storeIntact>>

\* The stager could not make a stable copy; it discards what it has made.
RestageFails ==
    /\ pc = "restage"
    /\ Raise("snapshot")
    /\ leaked' \in {leaked} \cup (IF "close" \in Lapses THEN {leaked + 1} ELSE {})
    /\ UNCHANGED <<ledgerVars, machineVars, session, attemptVars, verifyVars,
                   snapshots, storeIntact>>

NextRevision == RevisionOf(attempt + 1, CurrentSnapshot.source)

Revise ==
    /\ pc = "revise"
    /\ RecordRevision(NextRevision)
    /\ feedback' = decision.reasons
    /\ attempt' = attempt + 1
    /\ proposal' = NoProposal
    /\ pc' = "propose"
    /\ UNCHANGED <<machineVars, session, verifyVars, hostVars, exitVars,
                   budget, proposals, sessions, findings, decision>>

-------------------------------------------------------------------------------
(* Export *)

Export == Enter("export", "exported", "build") /\ UNCHANGED runVars

RefsOfKind(kind) == {events[i].ref : i \in {n \in DOMAIN events : events[n].kind = kind}}

(* What build_run_record requires of the lists it is given and of the ledger  *)
(* they must agree with, in the order it asks.                                *)

\* One proposal event for each proposal, which tells of its revision.
ProposalsSound(props) ==
    /\ Len(props) <= budget
    /\ \A i \in DOMAIN props : props[i].attempt = i
    /\ \A i, j \in DOMAIN props : props[i].id = props[j].id => i = j
    /\ RefsOfKind("proposal") = {props[i].id : i \in DOMAIN props}
    /\ \A i \in DOMAIN props : \A n \in DOMAIN events :
          events[n].kind = "proposal" /\ events[n].ref = props[i].id
             => events[n].revision = props[i].revision

LiveSessions(toolSessions) == {i \in DOMAIN toolSessions : toolSessions[i].live}

ToolEvents ==
    {n \in DOMAIN events : events[n].kind \in {"tool_request", "tool_observation", "error"}}

\* A session or None for each proposal, one real session where there is none,
\* and no tool event without a session.
SessionsSound(props, toolSessions) ==
    /\ IF props = <<>>
         THEN Len(toolSessions) = Cardinality(LiveSessions(toolSessions)) /\ Len(toolSessions) <= 1
         ELSE Len(toolSessions) \in {0, Len(props)}
    /\ LiveSessions(toolSessions) = {} => ToolEvents = {}

\* Everything a finding or the decision cites is in the ledger, ...
CitationsSound(cited) == cited \subseteq {evidence[i].id : i \in DOMAIN evidence}

\* ... and every item has the event its timestamp is taken from (a KeyError).
EvidenceTimed == {evidence[i].id : i \in DOMAIN evidence} \subseteq RefsOfKind("evidence")

\* Ids are unique across sessions, and no answer is without its action.
ToolIdsSound(toolSessions) ==
    /\ \A i, j \in LiveSessions(toolSessions) :
          i # j => ActionsOf(toolSessions[i]) \cap ActionsOf(toolSessions[j]) = {}
    /\ \A i \in LiveSessions(toolSessions) :
          toolSessions[i].observed \subseteq ActionsOf(toolSessions[i])

\* attempt_contexts: a session worked at the revision of its proposal, or at
\* one revision where there is no proposal.
ContextsSound(props, toolSessions) ==
    \A i \in LiveSessions(toolSessions) :
        LET revisions == {a.revision : a \in toolSessions[i].auths}
        IN  IF i \in DOMAIN props THEN revisions \subseteq {props[i].revision}
                                  ELSE Cardinality(revisions) = 1

\* Each tool event names an action and an answer that some session kept.
ToolTrailSound(toolSessions) ==
    LET live == LiveSessions(toolSessions)
    IN  \A n \in ToolEvents :
            events[n].ref \in
                IF events[n].kind = "tool_observation"
                  THEN UNION {toolSessions[i].observed : i \in live}
                  ELSE UNION {ActionsOf(toolSessions[i]) : i \in live}

\* Outputs, responses, patches and what the generator left are read back.
ArtifactsSound(props, toolSessions, needsStore) ==
    \/ storeIntact
    \/ /\ ~needsStore
       /\ props = <<>>
       /\ \A i \in LiveSessions(toolSessions) : toolSessions[i].observed = {}

RecordSound(props, toolSessions, cited, needsStore) ==
    /\ Len(transitions) >= 2
    /\ ProposalsSound(props)
    /\ SessionsSound(props, toolSessions)
    /\ CitationsSound(cited)
    /\ ToolIdsSound(toolSessions)
    /\ ContextsSound(props, toolSessions)
    /\ ToolTrailSound(toolSessions)
    /\ ArtifactsSound(props, toolSessions, needsStore)
    /\ EvidenceTimed

CompletionSound ==
    /\ state = "exported"
    /\ Last(transitions).from = DecisionState[decision.verdict]
    /\ RecordSound(proposals, sessions, FindingRefs(findings) \cup decision.refs, FALSE)

BuildRecord ==
    /\ pc = "build"
    /\ IF CompletionSound THEN pc' = "cleanup" /\ UNCHANGED exitVars ELSE Raise("record")
    /\ UNCHANGED <<ledgerVars, machineVars, session, attemptVars, verifyVars, hostVars>>

\* Mutant: the attempt that failed is always on record.
FailedWithCurrent ==
    IF proposal = NoProposal THEN proposals ELSE Append(proposals, proposal)

\* What a failure record is built from.  run_single_attempt has its proposal
\* from validation on and its session from the report on.
FailedProposals ==
    IF ~Single THEN proposals ELSE IF proposal = NoProposal THEN <<>> ELSE <<proposal>>

FailedSessions == IF ~Single THEN sessions ELSE IF session.live THEN <<session>> ELSE <<>>

\* _coordinator_failure_code: an exception of no family of the package is
\* named after its class.
FailureCode(kind) ==
    CASE kind \in {"generator", "generator_artifacts"} -> "coordinator.generator_error"
      [] kind \in {"snapshot", "ledger", "record"}      -> <<"coordinator", kind>>
      [] kind = "foreign"                              -> <<"class", "coordinator">>
      [] OTHER                                          -> <<"class", kind>>

\* A session of another ledger or store is refused here too; only
\* run_single_attempt has kept it.
OwnSessions == ~(Single /\ failure = "foreign")

FailureSound ==
    /\ OwnSessions
    /\ RecordSound(FailedProposals, FailedSessions, {}, failure = "generator_artifacts")

-------------------------------------------------------------------------------
(* The finally block and the failure record *)

\* Mutants: the snapshot in use is left to the caller; the first error ends it.
ToCloseButCurrent ==
    {i \in 2..(Len(snapshots) - 1) : snapshots[i].open /\ i \notin cleanupErrors}

ToCloseUntilError == {i \in 2..Len(snapshots) : snapshots[i].open /\ cleanupErrors = {}}

ToClose == {i \in 2..Len(snapshots) : snapshots[i].open /\ i \notin cleanupErrors}

\* Owned snapshots are closed in reverse; an error does not stop the others.
CloseSnapshot(i) ==
    /\ pc = "cleanup"
    /\ i \in ToClose
    /\ \A j \in ToClose : j <= i
    /\ \/ /\ snapshots' = [snapshots EXCEPT ![i].open = FALSE]
          /\ UNCHANGED cleanupErrors
       \/ /\ "close" \in Lapses
          /\ cleanupErrors' = cleanupErrors \cup {i}
          /\ UNCHANGED snapshots
    /\ UNCHANGED <<ledgerVars, machineVars, session, pc, attemptVars, verifyVars,
                   leaked, storeIntact, failure, outcome, record>>

\* _event_record: a "patch" is a revision; what the ledger knows of an
\* evidence item becomes the status of its event.
EventRecord(e) ==
    [kind     |-> IF e.kind = "revision" THEN "patch" ELSE e.kind,
     revision |-> e.revision,
     ref      |-> e.ref,
     from     |-> e.from,
     to       |-> IF e.kind = "state_transition" THEN e.status ELSE "none",
     status   |-> CASE e.kind = "revision"         -> "repository_revision"
                    [] e.kind = "state_transition" -> "transition"
                    [] e.kind = "evidence"         ->
                          IF \E i \in DOMAIN evidence : evidence[i].id = e.ref /\ evidence[i].passed
                            THEN "passed" ELSE "failed"
                    [] OTHER                       -> e.status]

RunRecord(verdict, reasons, props, toolSessions, found) ==
    [verdict      |-> verdict,
     reasons      |-> reasons,
     events       |-> [n \in DOMAIN events |-> EventRecord(events[n])],
     evidence     |-> evidence,
     proposals    |-> props,
     sessions     |-> toolSessions,
     findings     |-> found]

ReturnRecord ==
    /\ failure' = "none"
    /\ outcome' = "completed"
    /\ record' = RunRecord(decision.verdict, decision.reasons, proposals, sessions, findings)

RaiseWithRecord ==
    /\ failure' # "none"
    /\ FailureSound
    /\ outcome' = "failed"
    /\ record' = RunRecord("failed", {FailureCode(failure')}, FailedProposals, FailedSessions, {})

\* Building the failure record raises in turn.
RaiseWithoutRecord ==
    /\ failure' # "none"
    /\ ~FailureSound
    /\ outcome' = "unrecorded"
    /\ UNCHANGED record

Finish ==
    /\ pc = "cleanup"
    /\ ToClose = {}
    /\ failure' = IF failure = "none" /\ cleanupErrors # {} THEN "cleanup" ELSE failure
    /\ ReturnRecord \/ RaiseWithRecord \/ RaiseWithoutRecord
    /\ pc' = "done"
    /\ UNCHANGED <<ledgerVars, machineVars, session, attemptVars, verifyVars, hostVars,
                   cleanupErrors>>

-------------------------------------------------------------------------------
(* Faults *)

\* The clock raises where the ledger has assigned nothing yet.
ClockRaises ==
    /\ "clock" \in Lapses
    /\ pc \in {"contract", "triage", "mark", "record", "validate", "execute", "assess",
               "decide", "export"}
    /\ pc = "record" => ~ProposalRefused(proposal.id)
    /\ Raise("clock")
    /\ UNCHANGED <<ledgerVars, machineVars, session, attemptVars, verifyVars, hostVars>>

\* ... or in the middle of an append of evidence, by a report or by a tool.
EvidenceClockRaises ==
    /\ "clock" \in Lapses
    /\ \/ /\ pc = "report" /\ report.evidence # <<>>
          /\ RecordEvidenceClockFails(ReportedEvidence(Head(report.evidence)))
          /\ UNCHANGED session
       \/ /\ pc = "verify" /\ MoreTools
          /\ \E allowed \in BOOLEAN : RequestActionClockFails(ToolAction, allowed)
          /\ session' = NoSession
       \/ /\ pc = "dispatch"
          /\ \E passed \in BOOLEAN : RecordObservationClockFails(ToolAction, ToolCheck, passed)
          /\ session' = NoSession
    /\ Raise("clock")
    /\ UNCHANGED <<machineVars, attemptVars, verifyVars, hostVars>>

\* ... or after the revision has moved.
RevisionClockRaises ==
    /\ "clock" \in Lapses
    /\ pc = "revise"
    /\ RecordRevisionClockFails(NextRevision)
    /\ Raise("clock")
    /\ UNCHANGED <<machineVars, session, attemptVars, verifyVars, hostVars>>

\* A check, or something it left running, writes to the current workspace:
\* while it runs, before the digest is compared, or between that comparison
\* and the copy a retry is made from.
Drift(digest) ==
    /\ "drift" \in Lapses
    /\ pc \in {"dispatch", "report", "restage"}
    /\ snapshots' = WrittenTo(digest)
    /\ UNCHANGED <<ledgerVars, machineVars, session, pc, attemptVars, verifyVars, exitVars,
                   leaked, storeIntact>>

\* An artifact the record refers to is lost or altered before it is read back.
\* What a proposal refers to was read at its validation: a loss seen there is
\* one of the ways a generation fails.
ArtifactDecays ==
    /\ "store" \in Lapses
    /\ pc \in {"build", "cleanup"}
    /\ storeIntact' = FALSE
    /\ UNCHANGED <<ledgerVars, machineVars, session, pc, attemptVars, verifyVars, exitVars,
                   snapshots, leaked>>

-------------------------------------------------------------------------------
Generation ==
    \/ RefuseRequest
    \/ \E result \in Digests :
          \/ \E n \in 1..attempt : Propose(n, result)
          \/ \E kind \in {"generator", "generator_artifacts", "snapshot"} :
                GenerationFails(result, kind)

Verification ==
    \/ \E allowed \in BOOLEAN : RequestTool(allowed)
    \/ \E passed \in BOOLEAN : ObserveTool(passed)
    \/ ToolFails
    \/ \E r \in Reports : VerifierReturns(r)
    \/ VerifierRaises \/ ForeignSession

Assessment ==
    \/ RecordReport \/ RefuseReport \/ DigestFails
    \/ \E late \in BOOLEAN : CollectFindings(late) \/ RepeatedFinding(late)
    \/ Assess \/ DecideAttempt

Step ==
    \/ ContractTask \/ Triage
    \/ Generation
    \/ MarkProposed \/ RecordTheProposal \/ RefuseTheProposal \/ ValidateAction \/ Execute
    \/ Verification
    \/ Assessment
    \/ Restage \/ RestageMismatch \/ RestageFails \/ Revise
    \/ Export \/ BuildRecord
    \/ \E i \in DOMAIN snapshots : CloseSnapshot(i)
    \/ Finish

Fault ==
    \/ ClockRaises \/ EvidenceClockRaises \/ RevisionClockRaises
    \/ \E digest \in Digests : Drift(digest)
    \/ ArtifactDecays

Done == pc = "done" /\ UNCHANGED vars

Next == Step \/ Fault \/ Done

Spec == Init /\ [][Next]_vars

\* A coordinator is one thread that is never blocked by another: it goes on
\* as long as the generator and the verifier return, which the time limits of
\* their own subprocesses see to.
FairSpec == Spec /\ WF_vars(Step)
===============================================================================
