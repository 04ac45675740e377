--------------------------- MODULE CoordinatorProofs ---------------------------
(***************************************************************************)
(* The coordinators' invariants for any budget, any contract, any          *)
(* verifier's reports and any of the faults.                               *)
(*                                                                         *)
(* TypeInv also says where a run is: how long its lists are, whether it    *)
(* has a proposal, and that nothing is handled before it has failed.       *)
(* Most of what follows reads the place off it.  On it rest LeakInv, that  *)
(* every staged tree is owned or told of; ChainInv, that attempts follow   *)
(* each other at every step; AttemptInv, that ids and revisions carry      *)
(* their attempt; TrailInv and MachineInv, that lists and machine agree    *)
(* with the trail.                                                         *)
(*                                                                         *)
(* The second part is what the decisions of a run are worth and what is    *)
(* recorded of them.                                                       *)
(* HardStopInv and FeedbackInv look back from an attempt at the decision   *)
(* it was begun by, VerdictInv from the end of a run at the last one; the  *)
(* steps of KeepsPromise follow.  What the record builder compares is kept *)
(* in step from call to call by ProposalsInv and SessionsInv; RecordInv    *)
(* and OutcomeInv say which failures find it so and what came of it.       *)
(***************************************************************************)
EXTENDS CoordinatorProperties, DecisionProofs, FiniteSetTheorems

\* Where the coordinator is in an attempt.
Proposing == pc \in {"contract", "triage", "propose"}

Attempting ==
    pc \in {"mark", "record", "validate", "execute", "verify", "dispatch", "verified",
            "report", "assess", "decide"}

Judged == pc \in {"restage", "revise", "export", "build"}

Ending == pc \in {"cleanup", "done"}

\* What the place says of the lists and of the way the attempts may have ended.
Places ==
    /\ Proposing => proposal = NoProposal
    /\ Attempting \/ Judged => proposal \in Proposal
    /\ proposal # NoProposal => proposal.attempt = attempt
    /\ Proposing \/ Attempting => Len(proposals) = attempt - 1
    /\ Judged => Len(proposals) = attempt
    /\ Len(proposals) = attempt => proposals[attempt] = proposal
    /\ Len(proposals) \in {attempt - 1, attempt}
    /\ Len(sessions) = Len(proposals)
    /\ pc \in {"restage", "revise"} => attempt < budget /\ decision.verdict = "revise"
    /\ pc = "dispatch" => session.live /\ toolNext <= Len(ToolChecks)
    /\ ~Ending => failure = "none" /\ cleanupErrors = {} /\ leaked = 0
    /\ outcome = "running" <=> pc # "done"

TypeInv == TypeOK /\ Places

-------------------------------------------------------------------------------
(* What each attempt starts from *)

\* The content the n-th attempt has to start from.
Origin(n) == IF n = 1 THEN ContractDigest ELSE proposals[n - 1].result

Chained(p, n) ==
    /\ p.attempt = n
    /\ p.source = Origin(n)
    /\ p.revision = RevisionOf(n, p.source)

ChainInv ==
    /\ \A n \in DOMAIN proposals : Chained(proposals[n], n)
    /\ proposal # NoProposal => Chained(proposal, attempt)
    /\ Proposing => revision = RevisionOf(attempt, Origin(attempt))
    /\ Proposing /\ attempt > 1 => CurrentSnapshot.source = Origin(attempt)
    /\ pc = "revise" => CurrentSnapshot.source = proposal.result
    /\ Attempting \/ Judged => revision = proposal.revision

-------------------------------------------------------------------------------
(* The ledger, the machine and what they tell of one another *)

\* An item is of the attempt its revision was made for; the revision may be one
\* ahead when the clock has raised in the middle of a retry.
AttemptInv ==
    /\ \A i \in DOMAIN evidence :
          /\ evidence[i].revision[1] = evidence[i].id[3]
          /\ evidence[i].id[3] \in 1..attempt
    /\ revision[1] = attempt \/ (Ending /\ revision[1] = attempt + 1)

\* Only a clock that raises leaves an item of which no event tells.
TrailInv ==
    /\ EvidenceIdsAgree
    /\ ProposalTrailAgrees
    /\ Told(evidence, events)
    /\ AllTold(evidence, events) \/ (Ending /\ failure = "clock")

MachineInv ==
    /\ MachineTrailAgrees
    /\ Len(transitions) = 1 => state = "received"
    /\ Len(transitions) >= 2 \/ pc = "contract" \/ (Ending /\ failure = "clock")
    /\ pc = "export" => state = DecisionState[decision.verdict]
    /\ pc = "build" => /\ state = "exported"
                       /\ Last(transitions).from = DecisionState[decision.verdict]

-------------------------------------------------------------------------------
(* What is left on disk *)

\* Only staging for a retry can leave a tree that nothing refers to.
LeakInv ==
    /\ leaked > 0 => failure = "snapshot" /\ "close" \in Lapses
    /\ pc = "done" => ToClose = {}
    /\ outcome = "completed" => failure = "none" /\ cleanupErrors = {}

-------------------------------------------------------------------------------
(* The steps, in the families the proofs treat alike *)

\* A transition of the machine and nothing else.
Move ==
    \E m \in {<<"contract", "contracted", "triage">>, <<"triage", "triaged", "propose">>,
              <<"mark", "proposed", "record">>, <<"validate", "action_validation", "execute">>,
              <<"assess", "assessed", "decide">>, <<"export", "exported", "build">>} :
        Enter(m[1], m[2], m[3]) /\ UNCHANGED runVars

QuitKinds ==
    {"generator", "generator_artifacts", "ledger", "verifier", "foreign", "coordinator",
     "snapshot", "record", "clock"}

\* An exception that finds the ledger and the lists as the last step left them.
Quit ==
    /\ ~Ending
    /\ \E kind \in QuitKinds :
          /\ Raise(kind)
          /\ kind \in {"generator", "generator_artifacts"} => pc = "propose"
          /\ kind = "ledger" => RefuseTheProposal \/ RefuseReport
          /\ kind = "verifier" => pc \in {"verify", "dispatch", "verified"}
          /\ kind = "foreign" => pc \in {"verify", "verified"}
          /\ kind = "coordinator" => pc \in {"verify", "verified"} \/ (~Single /\ pc \in {"report", "restage"})
          /\ kind = "snapshot" => pc \in {"propose", "report", "restage"}
          /\ kind = "record" => pc = "build"
          /\ kind = "clock" /\ pc = "record" => ~ProposalRefused(proposal.id)
          /\ leaked' # leaked => kind = "snapshot" /\ "close" \in Lapses /\ leaked' = leaked + 1
          /\ session' = IF kind \in {"verifier", "foreign"} THEN NoSession ELSE session
    /\ snapshots' # snapshots => \E d \in Digests : snapshots' = WrittenTo(d)
    /\ UNCHANGED <<ledgerVars, machineVars, attemptVars, verifyVars, storeIntact>>

\* What happens once the attempts are over.
Leave ==
    /\ Ending \/ (pc = "build" /\ (pc' = pc \/ (CompletionSound /\ pc' = "cleanup")))
    /\ \/ BuildRecord \/ Finish \/ ArtifactDecays \/ Done
       \/ \E i \in DOMAIN snapshots : CloseSnapshot(i)
    /\ UNCHANGED <<ledgerVars, machineVars, session, attemptVars, verifyVars>>

\* The counters and their bounds.
LEMMA Numbers ==
    ASSUME TypeInv
    PROVE  /\ MaxAttempts \in Nat /\ budget \in Nat /\ attempt \in Nat
           /\ 1 <= attempt /\ attempt <= budget /\ budget <= MaxAttempts
           /\ Len(ToolChecks) \in Nat /\ toolNext \in 1..(Len(ToolChecks) + 1)
  <1>1. /\ attempt \in 1..budget /\ budget \in Budgets
        /\ toolNext \in 1..(Len(ToolChecks) + 1)
    BY DEF TypeInv, TypeOK
  <1>2. /\ MaxAttempts \in Budgets /\ Budgets \subseteq 1..MaxAttempts
        /\ ToolChecks \in Seq(TaskContract.required)
    BY CoordinatorAssumption
  <1>3. QED
    BY <1>1, <1>2

LEMMA MovesAreMoves ==
    ASSUME ContractTask \/ Triage \/ MarkProposed \/ ValidateAction \/ Assess \/ Export
    PROVE  Move
  BY DEF ContractTask, Triage, MarkProposed, ValidateAction, Assess, Export, Move

LEMMA QuitsAreQuits ==
    ASSUME TypeInv,
           \/ RefuseRequest \/ RefuseTheProposal \/ VerifierRaises \/ RefuseReport
           \/ ForeignSession \/ DigestFails
           \/ RestageMismatch \/ RestageFails \/ ClockRaises
           \/ \E result \in Digests, kind \in {"generator", "generator_artifacts", "snapshot"} :
                 GenerationFails(result, kind)
           \/ \E late \in BOOLEAN : RepeatedFinding(late)
           \/ BuildRecord /\ ~CompletionSound
    PROVE  Quit
  <1> USE DEF QuitKinds
  <1>1. CASE RefuseRequest
    BY <1>1 DEF Quit, RefuseRequest, Raise, Ending, hostVars
  <1>2. CASE RefuseTheProposal
    BY <1>2 DEF Quit, RefuseTheProposal, Raise, Ending, hostVars
  <1>3. CASE VerifierRaises
    BY <1>3 DEF Quit, VerifierRaises, Raise, Ending, hostVars
  <1>4. CASE RefuseReport
    BY <1>4 DEF Quit, RefuseReport, Raise, Ending, hostVars
  <1>5. CASE RestageMismatch
    <2>1. pc = "restage" => attempt < budget
      BY DEF TypeInv, Places
    <2>2. pc = "restage" => ~Single
      BY <2>1, Numbers DEF Single
    <2>3. QED
      BY <1>5, <2>2 DEF Quit, RestageMismatch, Raise, Ending, hostVars
  <1>6. CASE RestageFails
    BY <1>6 DEF Quit, RestageFails, Raise, Ending, hostVars
  <1>7. CASE ClockRaises
    BY <1>7 DEF Quit, ClockRaises, Raise, Ending, hostVars
  <1>8. ASSUME NEW result \in Digests, NEW kind \in {"generator", "generator_artifacts", "snapshot"},
               GenerationFails(result, kind)
        PROVE  Quit
    BY <1>8 DEF Quit, GenerationFails, Raise, Ending, hostVars
  <1>9. ASSUME NEW late \in BOOLEAN, RepeatedFinding(late)
        PROVE  Quit
    BY <1>9 DEF Quit, RepeatedFinding, Repeats, Raise, Ending, hostVars
  <1>10. CASE BuildRecord /\ ~CompletionSound
    BY <1>10 DEF Quit, BuildRecord, Raise, Ending, hostVars
  <1>11. CASE ForeignSession
    BY <1>11 DEF Quit, ForeignSession, Raise, Ending, hostVars
  <1>12. CASE DigestFails
    BY <1>12 DEF Quit, DigestFails, Raise, Ending, hostVars
  <1>13. QED
    BY <1>1, <1>2, <1>3, <1>4, <1>5, <1>6, <1>7, <1>8, <1>9, <1>10, <1>11, <1>12

LEMMA LeavesAreLeaves ==
    ASSUME \/ Finish \/ ArtifactDecays \/ Done
           \/ BuildRecord /\ CompletionSound
           \/ \E i \in DOMAIN snapshots : CloseSnapshot(i)
    PROVE  Leave
  <1>1. CASE Finish
    BY <1>1 DEF Leave, Finish, Ending
  <1>2. CASE ArtifactDecays
    BY <1>2 DEF Leave, ArtifactDecays, Ending
  <1>3. CASE Done
    BY <1>3 DEF Leave, Done, Ending, vars, runVars
  <1>4. CASE BuildRecord /\ CompletionSound
    BY <1>4 DEF Leave, BuildRecord
  <1>5. ASSUME NEW i \in DOMAIN snapshots, CloseSnapshot(i) PROVE Leave
    BY <1>5 DEF Leave, CloseSnapshot, Ending
  <1>6. QED
    BY <1>1, <1>2, <1>3, <1>4, <1>5

\* What one step of the coordinator is.
LEMMA StepIsOneOf ==
    ASSUME TypeInv, Next
    PROVE  \/ Move \/ Quit \/ Leave
           \/ \E result \in Digests : \E n \in 1..attempt : Propose(n, result)
           \/ RecordTheProposal \/ Execute
           \/ \E allowed \in BOOLEAN : RequestTool(allowed)
           \/ \E passed \in BOOLEAN : ObserveTool(passed)
           \/ ToolFails
           \/ \E r \in Reports : VerifierReturns(r)
           \/ RecordReport
           \/ \E late \in BOOLEAN : CollectFindings(late)
           \/ DecideAttempt \/ Restage \/ Revise
           \/ EvidenceClockRaises \/ RevisionClockRaises
           \/ \E digest \in Digests : Drift(digest)
  <1>1. CASE Step
    BY <1>1, MovesAreMoves, QuitsAreQuits, LeavesAreLeaves
       DEF Step, Generation, Verification, Assessment
  <1>2. CASE Fault
    BY <1>2, QuitsAreQuits, LeavesAreLeaves DEF Fault
  <1>3. CASE Done
    BY <1>3, LeavesAreLeaves
  <1>4. QED
    BY <1>1, <1>2, <1>3 DEF Next

-------------------------------------------------------------------------------
(* Types and places *)

\* The ids and revisions that the coordinator and the verifier make up.
LEMMA MadeUp ==
    ASSUME TypeInv, NEW c \in CheckIds, NEW d \in CheckIds
    PROVE  /\ ActionId(c, attempt) \in ActionIds
           /\ ReportEvidenceId(c, attempt) \in EvidenceIds
           /\ AuthorizationId[ActionId(c, attempt)] \in EvidenceIds
           /\ AuthorizationId[ActionId(c, attempt)][3] = attempt
           /\ ObservationId[<<ActionId(c, attempt), d>>] \in EvidenceIds
           /\ ObservationId[<<ActionId(c, attempt), d>>][3] = attempt
  <1>1. attempt \in 1..MaxAttempts
    BY Numbers
  <1>2. /\ ActionId(c, attempt) \in ActionIds
        /\ ReportEvidenceId(c, attempt) \in EvidenceIds
        /\ AuthorizationId[ActionId(c, attempt)][3] = attempt
        /\ ObservationId[<<ActionId(c, attempt), d>>][3] = attempt
    BY <1>1, CoordinatorAssumption
  <1>3. /\ AuthorizationId \in [ActionIds -> EvidenceIds]
        /\ ObservationId \in [ActionIds \X CheckIds -> EvidenceIds]
    BY CoordinatorAssumption
  <1>4. QED
    BY <1>2, <1>3

LEMMA RevisionOfType ==
    ASSUME NEW n \in 1..MaxAttempts, NEW d \in Digests
    PROVE  RevisionOf(n, d) \in Revisions
  BY CoordinatorAssumption DEF RevisionOf

\* The next tool check, and what the tool session stores for it.
LEMMA ToolItems ==
    ASSUME TypeInv, toolNext <= Len(ToolChecks), NEW passed \in BOOLEAN
    PROVE  /\ ToolCheck \in CheckIds /\ ToolAction \in ActionIds
           /\ PolicyEvidence(ToolAction, passed) \in Evidence
           /\ PolicyEvidence(ToolAction, passed).id[3] = attempt
           /\ PolicyEvidence(ToolAction, passed).revision = revision
           /\ ObservationEvidence(ToolAction, ToolCheck, passed) \in Evidence
           /\ ObservationEvidence(ToolAction, ToolCheck, passed).id[3] = attempt
           /\ ObservationEvidence(ToolAction, ToolCheck, passed).revision = revision
  <1>1. ToolCheck \in TaskContract.required
    <2>1. toolNext \in 1..Len(ToolChecks)
      BY Numbers
    <2>2. QED
      BY <2>1, CoordinatorAssumption DEF ToolCheck
  <1>2. PolicyCheck \in CheckIds /\ TaskContract.required \subseteq CheckIds
    BY CoordinatorAssumption DEF Contract
  <1>3. revision \in Revisions
    BY DEF TypeInv, TypeOK, LedgerTypeOK
  <1>4. /\ ToolAction \in ActionIds
        /\ AuthorizationId[ToolAction] \in EvidenceIds
        /\ AuthorizationId[ToolAction][3] = attempt
        /\ ObservationId[<<ToolAction, ToolCheck>>] \in EvidenceIds
        /\ ObservationId[<<ToolAction, ToolCheck>>][3] = attempt
    BY <1>1, <1>2, MadeUp DEF ToolAction
  <1>5. QED
    BY <1>1, <1>2, <1>3, <1>4 DEF PolicyEvidence, ObservationEvidence, Evidence

\* What the coordinator stores for the next item of a report.
LEMMA ReportItems ==
    ASSUME TypeInv, report.evidence # <<>>
    PROVE  /\ ReportedEvidence(Head(report.evidence)) \in Evidence
           /\ ReportedEvidence(Head(report.evidence)).id[3] = attempt
           /\ Tail(report.evidence) \in Seq(ReportItem)
  <1>1. report.evidence \in Seq(ReportItem)
    BY DEF TypeInv, TypeOK, VerificationReport
  <1>2. Head(report.evidence) \in ReportItem /\ Tail(report.evidence) \in Seq(ReportItem)
    BY <1>1
  <1>3. revision \in Revisions
    BY DEF TypeInv, TypeOK, LedgerTypeOK
  <1>4. RevisionOf(1, ContractDigest) \in Revisions
    BY RevisionOfType, Numbers, CoordinatorAssumption
  <1>5. \A c \in CheckIds : ReportEvidenceId(c, attempt) \in EvidenceIds
    BY MadeUp
  <1>6. QED
    BY <1>2, <1>3, <1>4, <1>5 DEF ReportedEvidence, ReportItem, Evidence, ReportEvidenceId

\* The event of a transition and the entry in the machine's own list.
LEMMA TransitionType ==
    ASSUME TypeInv, NEW to, Transition(to)
    PROVE  /\ to \in RunStates
           /\ [kind |-> "state_transition", revision |-> revision, ref |-> NoRef,
               from |-> state, status |-> to] \in LedgerEvent
           /\ [sequence |-> Len(events), from |-> state, to |-> to] \in StateTransition
           /\ LedgerTypeOK' /\ MachineTypeOK'
  <1>1. LedgerTypeOK /\ state \in RunStates /\ transitions \in Seq(StateTransition)
    BY DEF TypeInv, TypeOK, MachineTypeOK
  <1>2. \A s \in RunStates : Allowed[s] \subseteq RunStates
    BY DEF Allowed, RunStates
  <1>3. to \in RunStates
    BY <1>1, <1>2 DEF Transition
  <1>4. [kind |-> "state_transition", revision |-> revision, ref |-> NoRef,
         from |-> state, status |-> to] \in LedgerEvent
    BY <1>1, <1>3 DEF LedgerEvent, EventKinds, EventStatuses, LedgerTypeOK
  <1>5. [sequence |-> Len(events), from |-> state, to |-> to] \in StateTransition
    BY <1>1, <1>3 DEF StateTransition, LedgerTypeOK
  <1>6. LedgerTypeOK'
    BY <1>1, <1>4 DEF Transition, RecordStateTransition, LedgerTypeOK
  <1>7. MachineTypeOK'
    BY <1>1, <1>3, <1>5 DEF Transition, MachineTypeOK
  <1>8. QED
    BY <1>3, <1>4, <1>5, <1>6, <1>7

-------------------------------------------------------------------------------
(* What a step of the coordinator does to the ledger *)

\* An event that is none of evidence, of a proposal or of a revision.
PlainEvent ==
    \E event \in LedgerEvent :
        /\ event.kind = "error" \/ (event.kind = "state_transition" /\ \E to : Transition(to))
        /\ events' = Append(events, event)
        /\ UNCHANGED <<revision, evidence, evidenceIds, proposalIds>>

\* The appends of the tool session of this attempt.
ToolStep(told) ==
    \E event \in LedgerEvent, e \in Evidence :
        /\ ToolAppend(event, e, told)
        /\ event.kind \in {"tool_request", "tool_observation"}
        /\ e.revision = revision /\ e.id[3] = attempt

\* An item of the report of this attempt.
ReportStep(told) ==
    \E e \in Evidence :
        /\ IF told THEN RecordEvidence(e) ELSE RecordEvidenceClockFails(e)
        /\ e.id[3] = attempt

RevisionStep ==
    /\ pc = "revise"
    /\ NextRevision \in Revisions
    /\ \/ RecordRevision(NextRevision) /\ attempt' = attempt + 1
       \/ RecordRevisionClockFails(NextRevision) /\ pc' = "cleanup"

ProposalStep == proposal.id \in ProposalIds /\ RecordProposal(proposal.id)

ClockStops == pc' = "cleanup" /\ failure' = "clock"

LEMMA ToolStepsAppend ==
    ASSUME TypeInv
    PROVE  /\ (\E allowed \in BOOLEAN : RequestTool(allowed)) => ToolStep(TRUE)
           /\ (\E passed \in BOOLEAN : ObserveTool(passed)) => ToolStep(TRUE)
           /\ EvidenceClockRaises =>
                 ClockStops /\ (ToolStep(FALSE) \/ ReportStep(FALSE)) /\ UNCHANGED attempt
  <1>1. LedgerTypeOK
    BY DEF TypeInv, TypeOK
  <1>2. pc = "dispatch" => toolNext <= Len(ToolChecks)
    BY DEF TypeInv, Places
  <1>3. ASSUME NEW passed \in BOOLEAN, toolNext <= Len(ToolChecks)
        PROVE  /\ RequestEvent(ToolAction, passed) \in LedgerEvent
               /\ RequestEvent(ToolAction, passed).kind = "tool_request"
               /\ ObservationEvent(ToolAction, passed) \in LedgerEvent
               /\ ObservationEvent(ToolAction, passed).kind = "tool_observation"
    <2>1. ToolAction \in ActionIds
      BY <1>3, ToolItems
    <2>2. QED
      BY <1>1, <2>1, StampedType
         DEF RequestEvent, ObservationEvent, EventKinds, EventStatuses, RunStates, Stamped
  <1>4. ASSUME NEW allowed \in BOOLEAN, RequestTool(allowed) PROVE ToolStep(TRUE)
    <2>1. toolNext <= Len(ToolChecks) /\ RequestAction(ToolAction, allowed)
      BY <1>4 DEF RequestTool, MoreTools
    <2>2. ToolAppend(RequestEvent(ToolAction, allowed), PolicyEvidence(ToolAction, allowed), TRUE)
      BY <2>1 DEF RequestAction, ToolAppend, RequestRefused, PolicyEvidence
    <2>3. QED
      BY <1>3, <2>1, <2>2, ToolItems DEF ToolStep
  <1>5. ASSUME NEW passed \in BOOLEAN, ObserveTool(passed) PROVE ToolStep(TRUE)
    <2>1. toolNext <= Len(ToolChecks) /\ RecordObservation(ToolAction, ToolCheck, passed)
      BY <1>2, <1>5 DEF ObserveTool
    <2>2. ToolAppend(ObservationEvent(ToolAction, passed),
                     ObservationEvidence(ToolAction, ToolCheck, passed), TRUE)
      BY <2>1 DEF RecordObservation, ToolAppend, ObservationRefused, ObservationEvidence
    <2>3. QED
      BY <1>3, <2>1, <2>2, ToolItems DEF ToolStep
  <1>6. ASSUME EvidenceClockRaises
        PROVE  ClockStops /\ (ToolStep(FALSE) \/ ReportStep(FALSE)) /\ UNCHANGED attempt
    <2>1. ClockStops /\ UNCHANGED attempt
      BY <1>6 DEF EvidenceClockRaises, Raise, ClockStops, attemptVars
    <2>2. CASE /\ report.evidence # <<>>
               /\ RecordEvidenceClockFails(ReportedEvidence(Head(report.evidence)))
      BY <2>1, <2>2, ReportItems DEF ReportStep
    <2>3. ASSUME NEW allowed \in BOOLEAN, MoreTools, RequestActionClockFails(ToolAction, allowed)
          PROVE  ToolStep(FALSE)
      <3>1. ToolAppend(RequestEvent(ToolAction, allowed), PolicyEvidence(ToolAction, allowed),
                       FALSE)
        BY <2>3 DEF RequestActionClockFails, ToolAppend, RequestRefused, PolicyEvidence
      <3>2. QED
        BY <1>3, <2>3, <3>1, ToolItems DEF ToolStep, MoreTools
    <2>4. ASSUME NEW passed \in BOOLEAN, pc = "dispatch",
                 RecordObservationClockFails(ToolAction, ToolCheck, passed)
          PROVE  ToolStep(FALSE)
      <3>1. ToolAppend(ObservationEvent(ToolAction, passed),
                       ObservationEvidence(ToolAction, ToolCheck, passed), FALSE)
        BY <2>4 DEF RecordObservationClockFails, ToolAppend, ObservationRefused,
                    ObservationEvidence
      <3>2. QED
        BY <1>2, <1>3, <2>4, <3>1, ToolItems DEF ToolStep
    <2>5. QED
      BY <1>6, <2>1, <2>2, <2>3, <2>4 DEF EvidenceClockRaises
  <1>7. QED
    BY <1>4, <1>5, <1>6

LEMMA LedgerStep ==
    ASSUME TypeInv, Next
    PROVE  \/ UNCHANGED <<ledgerVars, attempt>>
           \/ PlainEvent /\ UNCHANGED attempt
           \/ ToolStep(TRUE) /\ UNCHANGED attempt
           \/ ReportStep(TRUE) /\ UNCHANGED attempt
           \/ ProposalStep /\ UNCHANGED attempt
           \/ RevisionStep
           \/ ClockStops /\ (ToolStep(FALSE) \/ ReportStep(FALSE)) /\ UNCHANGED attempt
  <1>1. CASE Move \/ Execute \/ DecideAttempt
    <2>1. \E to : Transition(to)
      BY <1>1 DEF Move, Enter, Execute, DecideAttempt, ApplyDecision
    <2>2. UNCHANGED attempt
      BY <1>1 DEF Move, Execute, DecideAttempt, runVars, attemptVars
    <2>3. PlainEvent
      BY <2>1, TransitionType DEF Transition, RecordStateTransition, PlainEvent
    <2>4. QED
      BY <2>2, <2>3
  <1>2. CASE ToolFails
    <2>1. pc = "dispatch" /\ RecordToolError(ToolAction, "error") /\ UNCHANGED attempt
      BY <1>2 DEF ToolFails, RunnerFails, attemptVars
    <2>2. ToolAction \in ActionIds /\ LedgerTypeOK
      BY <2>1, ToolItems DEF TypeInv, TypeOK, Places
    <2>3. Stamped("error", ToolAction, "error") \in LedgerEvent
      BY <2>2, StampedType DEF EventKinds, EventStatuses
    <2>4. QED
      BY <2>1, <2>3 DEF RecordToolError, PlainEvent, Stamped
  <1>3. CASE RecordTheProposal
    <2>1. pc = "record" => proposal \in Proposal
      BY DEF TypeInv, Places, Attempting
    <2>2. QED
      BY <1>3, <2>1 DEF RecordTheProposal, ProposalStep, Proposal, runVars, attemptVars
  <1>4. CASE RecordReport
    BY <1>4, ReportItems DEF RecordReport, ReportStep, attemptVars
  <1>5. CASE Revise \/ RevisionClockRaises
    <2>1. pc = "revise" => attempt + 1 \in 1..MaxAttempts
      BY Numbers DEF TypeInv, Places
    <2>2. CurrentSnapshot.source \in Digests
      <3>1. snapshots \in Seq(Snapshot) /\ snapshots # <<>>
        BY DEF TypeInv, TypeOK
      <3>2. CurrentSnapshot \in Snapshot
        BY <3>1 DEF CurrentSnapshot, Last
      <3>3. QED
        BY <3>2 DEF Snapshot
    <2>3. pc = "revise" => NextRevision \in Revisions
      BY <2>1, <2>2, RevisionOfType DEF NextRevision
    <2>4. QED
      BY <1>5, <2>3 DEF Revise, RevisionClockRaises, RevisionStep, Raise
  <1>6. CASE (\E allowed \in BOOLEAN : RequestTool(allowed))
             \/ (\E passed \in BOOLEAN : ObserveTool(passed))
             \/ EvidenceClockRaises
    <2>1. (\E allowed \in BOOLEAN : RequestTool(allowed))
             \/ (\E passed \in BOOLEAN : ObserveTool(passed)) => UNCHANGED attempt
      BY DEF RequestTool, ObserveTool, runVars, attemptVars
    <2>2. QED
      BY <1>6, <2>1, ToolStepsAppend
  <1>7. CASE Quit \/ Leave
    BY <1>7 DEF Quit, Leave, attemptVars
  <1>8. ASSUME NEW result \in Digests, NEW n \in 1..attempt, Propose(n, result)
        PROVE  UNCHANGED <<ledgerVars, attempt>>
    BY <1>8 DEF Propose
  <1>9. ASSUME NEW r \in Reports, VerifierReturns(r) PROVE UNCHANGED <<ledgerVars, attempt>>
    BY <1>9 DEF VerifierReturns, attemptVars
  <1>10. ASSUME NEW late \in BOOLEAN, CollectFindings(late) PROVE UNCHANGED <<ledgerVars, attempt>>
    BY <1>10 DEF CollectFindings, attemptVars
  <1>11. CASE Restage
    BY <1>11 DEF Restage, attemptVars
  <1>12. ASSUME NEW digest \in Digests, Drift(digest) PROVE UNCHANGED <<ledgerVars, attempt>>
    BY <1>12 DEF Drift, attemptVars
  <1>13. QED
    BY <1>1, <1>2, <1>3, <1>4, <1>5, <1>6, <1>7, <1>8, <1>9, <1>10, <1>11, <1>12, StepIsOneOf

LEMMA LedgerTypePreserved ==
    ASSUME TypeInv, Next
    PROVE  LedgerTypeOK'
  <1>1. LedgerTypeOK
    BY DEF TypeInv, TypeOK
  <1>2. PlainEvent => LedgerTypeOK'
    BY <1>1 DEF PlainEvent, LedgerTypeOK
  <1>3. ASSUME NEW told \in BOOLEAN, ToolStep(told) PROVE LedgerTypeOK'
    BY <1>1, <1>3, ToolAppendType DEF ToolStep
  <1>4. ASSUME NEW told \in BOOLEAN, ReportStep(told) PROVE LedgerTypeOK'
    BY <1>1, <1>4, EvidenceType DEF ReportStep
  <1>5. ProposalStep => LedgerTypeOK'
    BY <1>1, ProposalType DEF ProposalStep
  <1>6. RevisionStep => LedgerTypeOK'
    BY <1>1, RevisionType DEF RevisionStep
  <1>7. UNCHANGED ledgerVars => LedgerTypeOK'
    BY <1>1 DEF ledgerVars, LedgerTypeOK
  <1>8. QED
    BY <1>2, <1>3, <1>4, <1>5, <1>6, <1>7, LedgerStep

\* Only transitions touch the machine.
LEMMA MachineMoves ==
    ASSUME TypeInv, Next
    PROVE  (\E to : Transition(to)) \/ UNCHANGED machineVars
  <1>1. CASE Move \/ Execute \/ DecideAttempt
    BY <1>1 DEF Move, Enter, Execute, DecideAttempt, ApplyDecision
  <1>2. CASE Quit \/ Leave
    BY <1>2 DEF Quit, Leave
  <1>3. CASE \/ RecordTheProposal \/ ToolFails \/ RecordReport \/ Restage \/ Revise
             \/ EvidenceClockRaises \/ RevisionClockRaises
    BY <1>3 DEF RecordTheProposal, ToolFails, RecordReport, Restage, Revise,
                EvidenceClockRaises, RevisionClockRaises
  <1>4. QED
    BY <1>1, <1>2, <1>3, StepIsOneOf
       DEF Propose, RequestTool, ObserveTool, VerifierReturns, CollectFindings, Drift

LEMMA MachineTypePreserved ==
    ASSUME TypeInv, Next
    PROVE  MachineTypeOK'
  BY MachineMoves, TransitionType DEF machineVars, MachineTypeOK, TypeInv, TypeOK

\* The findings of an attempt are findings.
LEMMA AttemptFindingsType ==
    ASSUME TypeInv, NEW late \in BOOLEAN
    PROVE  AttemptFindings(late) \in SUBSET Finding
  <1>1. attempt \in 0..MaxAttempts /\ 0 \in 0..MaxAttempts
    BY Numbers
  <1>2. \A name \in CoordinatorFindings \cup FindingNames, n \in 0..MaxAttempts :
           <<name, n>> \in FindingIds
    BY CoordinatorAssumption
  <1>3. ReportedFindings \subseteq Finding
    <2>1. report.findings \subseteq ReportFinding /\ UnknownEvidence \in EvidenceIds
      BY CoordinatorAssumption DEF TypeInv, TypeOK, VerificationReport
    <2>2. ASSUME NEW f \in report.findings
          PROVE  [id |-> <<f.name, IF f.numbered THEN attempt ELSE 0>>, severity |-> f.severity,
                  refs |-> IF f.cites THEN {UnknownEvidence} ELSE {}] \in Finding
      BY <1>1, <1>2, <2>1, <2>2 DEF ReportFinding, Finding
    <2>3. QED
      BY <2>2 DEF ReportedFindings
  <1>4. BlockingFindings \subseteq Finding
    <2>1. \A a \in DeniedActions(session) : AuthorizationId[a] \in EvidenceIds
      BY CoordinatorAssumption
         DEF TypeInv, TypeOK, Session, Authorization, DeniedActions
    <2>2. ASSUME NEW a \in DeniedActions(session)
          PROVE  [id |-> <<"denied", attempt>>, severity |-> "blocking",
                  refs |-> {AuthorizationId[a]}] \in Finding
      BY <1>1, <1>2, <2>1 DEF Finding, Severities, CoordinatorFindings
    <2>3. QED
      BY <2>2 DEF BlockingFindings
  <1>5. DriftFindings \subseteq Finding
    BY <1>1, <1>2 DEF DriftFindings, Finding, Severities, CoordinatorFindings
  <1>6. LateFindings(late) \subseteq Finding
    BY <1>1, <1>2 DEF LateFindings, Finding, Severities, CoordinatorFindings
  <1>7. fresh \subseteq Finding
    BY DEF TypeInv, TypeOK
  <1>8. QED
    BY <1>3, <1>4, <1>5, <1>6, <1>7 DEF AttemptFindings

\* The snapshot in use, what writing to it leaves, and a further one.
LEMMA SnapshotTypes ==
    ASSUME TypeInv, NEW d \in Digests
    PROVE  /\ CurrentSnapshot \in Snapshot /\ Len(snapshots) \in Nat \ {0}
           /\ WrittenTo(d) \in Seq(Snapshot) /\ WrittenTo(d) # <<>>
           /\ Len(WrittenTo(d)) = Len(snapshots)
           /\ Last(WrittenTo(d)) = [CurrentSnapshot EXCEPT !.content = d]
           /\ \A i \in DOMAIN snapshots : WrittenTo(d)[i].open = snapshots[i].open
  <1>1. snapshots \in Seq(Snapshot) /\ snapshots # <<>>
    BY DEF TypeInv, TypeOK
  <1>2. Len(snapshots) \in Nat \ {0} /\ DOMAIN snapshots = 1..Len(snapshots)
    BY <1>1
  <1>3. CurrentSnapshot = snapshots[Len(snapshots)] /\ CurrentSnapshot \in Snapshot
    BY <1>1, <1>2 DEF CurrentSnapshot, Last
  <1>4. [CurrentSnapshot EXCEPT !.content = d] \in Snapshot
    BY <1>3 DEF Snapshot
  <1>5. WrittenTo(d) = [snapshots EXCEPT ![Len(snapshots)] = [CurrentSnapshot EXCEPT !.content = d]]
    BY <1>1, <1>3 DEF WrittenTo
  <1>6. /\ WrittenTo(d) \in Seq(Snapshot)
        /\ Len(WrittenTo(d)) = Len(snapshots)
        /\ WrittenTo(d)[Len(snapshots)] = [CurrentSnapshot EXCEPT !.content = d]
        /\ \A i \in DOMAIN snapshots : i # Len(snapshots) => WrittenTo(d)[i] = snapshots[i]
    BY <1>1, <1>2, <1>4, <1>5
  <1>7. [CurrentSnapshot EXCEPT !.content = d].open = CurrentSnapshot.open
    BY <1>3 DEF Snapshot
  <1>8. \A i \in DOMAIN snapshots : WrittenTo(d)[i].open = snapshots[i].open
    BY <1>2, <1>3, <1>6, <1>7
  <1>9. WrittenTo(d) # <<>>
    BY <1>2, <1>6
  <1>10. QED
    BY <1>2, <1>3, <1>6, <1>8, <1>9 DEF Last

\* What a session becomes.
LEMMA SessionTypes ==
    ASSUME TypeInv
    PROVE  /\ NoSession \in Session /\ NewSession \in Session
           /\ \A allowed \in BOOLEAN : RequestTool(allowed) =>
                 session' \in Session /\ session'.live = session.live
           /\ \A passed \in BOOLEAN : ObserveTool(passed) =>
                 session' \in Session /\ session'.live = session.live
  <1>1. NoSession \in Session /\ NewSession \in Session
    BY DEF NoSession, NewSession, Session
  <1>2. session \in Session /\ revision \in Revisions
    BY DEF TypeInv, TypeOK, LedgerTypeOK
  <1>3. ASSUME NEW allowed \in BOOLEAN, RequestTool(allowed)
        PROVE  session' \in Session /\ session'.live = session.live
    <2>1. ToolAction \in ActionIds
      BY <1>3, ToolItems DEF RequestTool, MoreTools
    <2>2. [action |-> ToolAction, revision |-> revision, allowed |-> allowed] \in Authorization
      BY <1>2, <2>1 DEF Authorization
    <2>3. QED
      BY <1>2, <1>3, <2>2 DEF RequestTool, RequestAction, Session
  <1>4. ASSUME NEW passed \in BOOLEAN, ObserveTool(passed)
        PROVE  session' \in Session /\ session'.live = session.live
    <2>1. ToolAction \in ActionIds
      BY <1>4, ToolItems DEF ObserveTool, TypeInv, Places
    <2>2. QED
      BY <1>2, <1>4, <2>1 DEF ObserveTool, RecordObservation, Session
  <1>5. QED
    BY <1>1, <1>3, <1>4

LEMMA TypePreserved ==
    ASSUME TypeInv, Next
    PROVE  TypeOK'
  <1>1. LedgerTypeOK' /\ MachineTypeOK' /\ TypeOK
    BY LedgerTypePreserved, MachineTypePreserved DEF TypeInv
  <1>2. CASE Move
    BY <1>1, <1>2 DEF Move, Enter, TypeOK, runVars, attemptVars, verifyVars, hostVars, exitVars
  <1>3. CASE Quit
    <2>1. leaked' \in Nat
      BY <1>1, <1>3 DEF Quit, TypeOK
    <2>2. snapshots' \in Seq(Snapshot) /\ snapshots' # <<>> /\ Len(snapshots') = Len(snapshots)
      BY <1>1, <1>3, SnapshotTypes DEF Quit, TypeOK
    <2>3. session' \in Session
      BY <1>1, <1>3, SessionTypes DEF Quit, TypeOK
    <2>4. QED
      BY <1>1, <1>3, <2>1, <2>2, <2>3 DEF Quit, QuitKinds, Raise, TypeOK, attemptVars, verifyVars
  <1>4. CASE Leave
    <2>1. UNCHANGED <<session, attemptVars, verifyVars>> /\ pc' \in {"build", "cleanup", "done"}
      BY <1>4 DEF Leave, BuildRecord, CompletionSound, Finish, ArtifactDecays, Done, CloseSnapshot, Raise, Ending, vars
    <2>2. /\ snapshots' \in Seq(Snapshot) /\ snapshots' # <<>>
          /\ Len(snapshots') = Len(snapshots)
          /\ cleanupErrors' \subseteq 2..Len(snapshots)
      <3>1. ASSUME NEW i \in DOMAIN snapshots, CloseSnapshot(i)
            PROVE  /\ snapshots' \in Seq(Snapshot) /\ snapshots' # <<>>
                   /\ Len(snapshots') = Len(snapshots)
                   /\ cleanupErrors' \subseteq 2..Len(snapshots)
        <4>1. i \in 2..Len(snapshots)
          BY <3>1 DEF CloseSnapshot, ToClose
        <4>2. [snapshots[i] EXCEPT !.open = FALSE] \in Snapshot
          <5>1. snapshots[i] \in Snapshot
            BY <1>1 DEF TypeOK
          <5>2. QED
            BY <5>1 DEF Snapshot
        <4>3. CASE snapshots' = [snapshots EXCEPT ![i].open = FALSE] /\ UNCHANGED cleanupErrors
          BY <1>1, <4>1, <4>2, <4>3 DEF TypeOK
        <4>4. CASE cleanupErrors' = cleanupErrors \cup {i} /\ UNCHANGED snapshots
          BY <1>1, <4>1, <4>4 DEF TypeOK
        <4>5. QED
          BY <3>1, <4>3, <4>4 DEF CloseSnapshot
      <3>2. (BuildRecord \/ Finish \/ ArtifactDecays \/ Done) =>
               UNCHANGED <<snapshots, cleanupErrors>>
        BY DEF BuildRecord, Finish, ArtifactDecays, Done, Raise, vars, runVars, hostVars,
               exitVars
      <3>3. QED
        BY <1>1, <1>4, <3>1, <3>2 DEF Leave, TypeOK
    <2>3. leaked' \in Nat /\ storeIntact' \in BOOLEAN
      BY <1>1, <1>4 DEF Leave, TypeOK, BuildRecord, Finish, ArtifactDecays, Done,
                        CloseSnapshot, vars, runVars, hostVars
    <2>4. /\ failure' \in {"none", "generator", "generator_artifacts", "ledger", "verifier",
                           "foreign", "coordinator", "snapshot", "record", "clock", "cleanup"}
          /\ outcome' \in {"running", "completed", "failed", "unrecorded"}
          /\ record'.verdict \in Verdicts \cup {"none", "failed"}
      <3>1. CASE Finish
        <4>1. decision.verdict \in Verdicts \cup {"none"}
          BY <1>1 DEF TypeOK
        <4>2. /\ ReturnRecord => record'.verdict = decision.verdict
              /\ RaiseWithRecord => record'.verdict = "failed"
          BY DEF ReturnRecord, RaiseWithRecord, RunRecord
        <4>3. failure' \in {failure, "cleanup"}
          BY <3>1 DEF Finish
        <4>4. ReturnRecord \/ RaiseWithRecord \/ RaiseWithoutRecord
          BY <3>1 DEF Finish
        <4>5. outcome' \in {"completed", "failed", "unrecorded"}
          BY <4>4 DEF ReturnRecord, RaiseWithRecord, RaiseWithoutRecord
        <4>6. record'.verdict \in Verdicts \cup {"none", "failed"}
          BY <1>1, <4>1, <4>2, <4>4 DEF RaiseWithoutRecord, TypeOK
        <4>7. QED
          BY <1>1, <4>3, <4>5, <4>6 DEF TypeOK
      <3>2. CASE BuildRecord
        BY <1>1, <3>2 DEF BuildRecord, Raise, exitVars, TypeOK
      <3>3. (ArtifactDecays \/ Done \/ \E i \in DOMAIN snapshots : CloseSnapshot(i)) =>
               UNCHANGED <<failure, outcome, record>>
        BY DEF ArtifactDecays, Done, CloseSnapshot, vars, runVars, exitVars
      <3>4. QED
        BY <1>1, <1>4, <3>1, <3>2, <3>3 DEF Leave, TypeOK
    <2>5. QED
      BY <1>1, <2>1, <2>2, <2>3, <2>4 DEF TypeOK, attemptVars, verifyVars
  <1>5. ASSUME NEW result \in Digests, NEW n \in 1..attempt, Propose(n, result) PROVE TypeOK'
    <2>1. snapshots' \in Seq(Snapshot) /\ snapshots' # <<>> /\ Len(snapshots') = Len(snapshots)
      BY <1>5, SnapshotTypes DEF Propose
    <2>2. proposal' \in Proposal
      <3>1. ProposalId(n) \in ProposalIds /\ attempt \in 1..MaxAttempts
        BY Numbers, CoordinatorAssumption
      <3>2. revision \in Revisions /\ CurrentSnapshot.source \in Digests
        BY <1>1, SnapshotTypes DEF LedgerTypeOK, TypeOK, Snapshot
      <3>3. QED
        BY <1>5, <3>1, <3>2 DEF Propose, Proposal
    <2>3. QED
      BY <1>1, <1>5, <2>1, <2>2 DEF Propose, TypeOK, verifyVars, exitVars
  <1>6. CASE RecordTheProposal
    BY <1>1, <1>6 DEF RecordTheProposal, TypeOK, runVars, attemptVars, verifyVars, hostVars,
                      exitVars
  <1>7. CASE Execute
    <2>1. NoReport \in VerificationReport
      BY DEF NoReport, VerificationReport
    <2>2. 1 \in 1..(Len(ToolChecks) + 1) /\ session' \in Session
      BY <1>7, Numbers, SessionTypes DEF Execute
    <2>3. QED
      BY <1>1, <1>7, <2>1, <2>2 DEF Execute, TypeOK, attemptVars, hostVars, exitVars
  <1>8. ASSUME NEW allowed \in BOOLEAN, RequestTool(allowed) PROVE TypeOK'
    BY <1>1, <1>8, SessionTypes
       DEF RequestTool, TypeOK, runVars, attemptVars, verifyVars, hostVars, exitVars
  <1>9. ASSUME NEW passed \in BOOLEAN, ObserveTool(passed) PROVE TypeOK'
    <2>1. toolNext + 1 \in 1..(Len(ToolChecks) + 1)
      BY <1>9, Numbers DEF ObserveTool, TypeInv, Places
    <2>2. QED
      BY <1>1, <1>9, <2>1, SessionTypes DEF ObserveTool, TypeOK, attemptVars, hostVars, exitVars
  <1>10. CASE ToolFails
    <2>1. RunnerFinding \in Finding
      BY CoordinatorAssumption, Numbers
         DEF RunnerFinding, Finding, Severities, CoordinatorFindings
    <2>2. QED
      BY <1>1, <1>10, <2>1 DEF ToolFails, RunnerFails, TypeOK, attemptVars, hostVars, exitVars
  <1>11. ASSUME NEW r \in Reports, VerifierReturns(r) PROVE TypeOK'
    BY <1>1, <1>11, CoordinatorAssumption
       DEF VerifierReturns, TypeOK, attemptVars, hostVars, exitVars
  <1>12. CASE RecordReport
    <2>1. report' \in VerificationReport
      BY <1>1, <1>12, ReportItems DEF RecordReport, TypeOK, VerificationReport
    <2>2. QED
      BY <1>1, <1>12, <2>1 DEF RecordReport, TypeOK, attemptVars, hostVars, exitVars
  <1>13. ASSUME NEW late \in BOOLEAN, CollectFindings(late) PROVE TypeOK'
    BY <1>1, <1>13, AttemptFindingsType
       DEF CollectFindings, TypeOK, attemptVars, hostVars, exitVars
  <1>14. CASE DecideAttempt
    <2>1. fresh \subseteq Finding /\ findings \subseteq Finding
      BY <1>1 DEF TypeOK
    <2>2. /\ decision'.verdict \in Verdicts
          /\ decision'.refs \subseteq EvidenceIds
      BY <1>1, <1>14, <2>1, DecisionType, CoordinatorAssumption DEF DecideAttempt, TypeOK
    <2>3. proposals' \in Seq(Proposal) /\ sessions' \in Seq(Session)
      <3>1. proposal \in Proposal
        BY <1>14 DEF DecideAttempt, TypeInv, Places, Attempting
      <3>2. QED
        BY <1>1, <1>14, <3>1 DEF DecideAttempt, TypeOK
    <2>4. pc' \in {"restage", "export"} /\ findings' \subseteq Finding
      BY <1>14, <2>1 DEF DecideAttempt
    <2>5. QED
      BY <1>1, <1>14, <2>2, <2>3, <2>4
         DEF DecideAttempt, TypeOK, verifyVars, hostVars, exitVars
  <1>15. CASE Restage
    <2>1. proposal.result \in Digests
      BY <1>15 DEF Restage, TypeInv, Places, Judged, Proposal
    <2>2. [source |-> proposal.result, content |-> proposal.result, open |-> TRUE] \in Snapshot
      BY <2>1 DEF Snapshot
    <2>3. /\ snapshots' \in Seq(Snapshot) /\ snapshots' # <<>>
          /\ 2..Len(snapshots) \subseteq 2..Len(snapshots')
      BY <1>1, <1>15, <2>2 DEF Restage, TypeOK
    <2>4. cleanupErrors' \subseteq 2..Len(snapshots')
      BY <1>1, <1>15, <2>3 DEF Restage, TypeOK, exitVars
    <2>5. QED
      BY <1>1, <1>15, <2>3, <2>4 DEF Restage, TypeOK, attemptVars, verifyVars, exitVars
  <1>16. CASE Revise
    <2>1. attempt' \in 1..budget
      BY <1>16, Numbers DEF Revise, TypeInv, Places
    <2>2. QED
      BY <1>1, <1>16, <2>1 DEF Revise, TypeOK, verifyVars, hostVars, exitVars
  <1>17. CASE EvidenceClockRaises \/ RevisionClockRaises
    <2>1. session' \in {session, NoSession}
      BY <1>17 DEF EvidenceClockRaises, RevisionClockRaises
    <2>2. session' \in Session
      BY <1>1, <2>1, SessionTypes DEF TypeOK
    <2>3. QED
      BY <1>1, <1>17, <2>2
         DEF EvidenceClockRaises, RevisionClockRaises, Raise, TypeOK, attemptVars, verifyVars,
             hostVars
  <1>18. ASSUME NEW digest \in Digests, Drift(digest) PROVE TypeOK'
    BY <1>1, <1>18, SnapshotTypes DEF Drift, TypeOK, attemptVars, verifyVars, exitVars
  <1>19. QED
    BY <1>2, <1>3, <1>4, <1>5, <1>6, <1>7, <1>8, <1>9, <1>10, <1>11, <1>12, <1>13, <1>14,
       <1>15, <1>16, <1>17, <1>18, StepIsOneOf

\* Places, when a step leaves the attempt and its lists alone.
LEMMA SamePlace ==
    ASSUME TypeInv, UNCHANGED <<attempt, proposal, proposals, sessions, decision, budget>>,
           UNCHANGED <<failure, cleanupErrors, leaked, outcome>>, ~Ending,
           \/ Proposing /\ Proposing'
           \/ Attempting /\ Attempting'
           \/ Judged /\ Judged' /\ (pc' \in {"restage", "revise"} => pc \in {"restage", "revise"}),
           pc' = "dispatch" => session'.live /\ toolNext' <= Len(ToolChecks)
    PROVE  Places'
  BY DEF TypeInv, Places, Proposing, Attempting, Judged, Ending

LEMMA PlacesPreserved ==
    ASSUME TypeInv, Next
    PROVE  Places'
  <1> USE DEF Proposing, Attempting, Judged, Ending
  <1>1. Places /\ attempt \in Nat /\ proposals \in Seq(Proposal) /\ Len(proposals) \in Nat
    BY Numbers DEF TypeInv, TypeOK
  <1>2. CASE Move
    <2>1. UNCHANGED <<attempt, proposal, proposals, sessions, decision, budget>>
      BY <1>2 DEF Move, runVars, attemptVars
    <2>2. UNCHANGED <<failure, cleanupErrors, leaked, outcome>>
      BY <1>2 DEF Move, runVars, hostVars, exitVars
    <2>3. <<pc, pc'>> \in {<<"contract", "triage">>, <<"triage", "propose">>, <<"mark", "record">>,
                           <<"validate", "execute">>, <<"assess", "decide">>,
                           <<"export", "build">>}
      BY <1>2 DEF Move, Enter
    <2>4. QED
      BY <2>1, <2>2, <2>3, SamePlace
  <1>3. CASE Quit
    BY <1>1, <1>3 DEF Quit, Raise, Places, attemptVars
  <1>4. CASE Leave
    <2>1. pc' \in {"build", "cleanup", "done"} /\ (pc' = "build" => pc = "build")
      BY <1>4 DEF Leave, BuildRecord, Finish, ArtifactDecays, Done, CloseSnapshot, vars
    <2>2. pc \in {"build", "cleanup", "done"}
      BY <1>4 DEF Leave
    <2>3. pc' = "build" => UNCHANGED <<failure, cleanupErrors, leaked>>
      BY <1>4 DEF Leave, BuildRecord, Finish, ArtifactDecays, Done, CloseSnapshot, Raise,
                  exitVars, hostVars, vars, runVars
    <2>4. outcome' = "running" <=> pc' # "done"
      <3>1. Finish => pc' = "done" /\ outcome' # "running"
        BY DEF Finish, ReturnRecord, RaiseWithRecord, RaiseWithoutRecord
      <3>2. BuildRecord => pc' = "cleanup" /\ outcome' = outcome /\ pc = "build"
        BY DEF BuildRecord, Raise, exitVars
      <3>3. (ArtifactDecays \/ Done \/ \E i \in DOMAIN snapshots : CloseSnapshot(i)) =>
               UNCHANGED <<pc, outcome>>
        BY DEF ArtifactDecays, Done, CloseSnapshot, vars, runVars, exitVars
      <3>4. QED
        BY <1>1, <1>4, <3>1, <3>2, <3>3 DEF Leave, Places
    <2>5. QED
      BY <1>1, <1>4, <2>1, <2>2, <2>3, <2>4 DEF Leave, Places, attemptVars
  <1>5. ASSUME NEW result \in Digests, NEW n \in 1..attempt, Propose(n, result) PROVE Places'
    <2>1. proposal' \in Proposal /\ proposal'.attempt = attempt
      <3>1. ProposalId(n) \in ProposalIds /\ attempt \in 1..MaxAttempts
        BY Numbers, CoordinatorAssumption
      <3>2. revision \in Revisions /\ CurrentSnapshot.source \in Digests
        BY SnapshotTypes DEF TypeInv, LedgerTypeOK, TypeOK, Snapshot
      <3>3. QED
        BY <1>5, <3>1, <3>2 DEF Propose, Proposal
    <2>2. QED
      BY <1>1, <1>5, <2>1 DEF Propose, Places, exitVars
  <1>6. ASSUME \/ RecordTheProposal \/ Execute \/ ToolFails \/ RecordReport
               \/ \E allowed \in BOOLEAN : RequestTool(allowed)
               \/ \E passed \in BOOLEAN : ObserveTool(passed)
               \/ \E r \in Reports : VerifierReturns(r)
               \/ \E late \in BOOLEAN : CollectFindings(late)
               \/ \E digest \in Digests : Drift(digest)
        PROVE  Places'
    <2>1. UNCHANGED <<attempt, proposal, proposals, sessions, decision, budget>>
      BY <1>6 DEF RecordTheProposal, Execute, ToolFails, RecordReport, RequestTool, ObserveTool,
                  VerifierReturns, CollectFindings, Drift, runVars, attemptVars
    <2>2. UNCHANGED <<failure, cleanupErrors, leaked, outcome>>
      BY <1>6 DEF RecordTheProposal, Execute, ToolFails, RecordReport, RequestTool, ObserveTool,
                  VerifierReturns, CollectFindings, Drift, runVars, hostVars, exitVars
    <2>3. (Attempting /\ Attempting') \/ (Judged /\ pc' = pc)
      BY <1>6 DEF RecordTheProposal, Execute, ToolFails, RecordReport, RequestTool, ObserveTool,
                  VerifierReturns, CollectFindings, Drift
    <2>4. pc' = "dispatch" => session'.live /\ toolNext' <= Len(ToolChecks)
      <3>1. ASSUME NEW allowed \in BOOLEAN, RequestTool(allowed)
            PROVE  session'.live /\ toolNext' <= Len(ToolChecks)
        BY <3>1, SessionTypes DEF RequestTool, MoreTools, runVars, verifyVars
      <3>2. ASSUME NEW digest \in Digests, Drift(digest), pc' = "dispatch"
            PROVE  session'.live /\ toolNext' <= Len(ToolChecks)
        BY <1>1, <3>2 DEF Drift, Places, verifyVars
      <3>3. QED
        BY <1>6, <3>1, <3>2 DEF RecordTheProposal, Execute, ToolFails, RecordReport,
                                ObserveTool, VerifierReturns, CollectFindings
    <2>5. QED
      BY <2>1, <2>2, <2>3, <2>4, SamePlace
  <1>7. CASE DecideAttempt
    <2>1. proposal.attempt = attempt /\ Len(proposals) = attempt - 1 /\ proposal \in Proposal
      BY <1>1, <1>7 DEF DecideAttempt, Places, NoProposal, Proposal
    <2>2. Len(proposals') = attempt /\ proposals'[attempt] = proposal
      BY <1>1, <1>7, <2>1 DEF DecideAttempt
    <2>3. Len(sessions') = Len(proposals')
      <3>1. sessions \in Seq(Session) /\ Len(sessions) = Len(proposals)
        BY <1>1 DEF TypeInv, TypeOK, Places
      <3>2. QED
        BY <1>1, <1>7, <3>1 DEF DecideAttempt
    <2>4. pc' \in {"restage", "export"}
          /\ (pc' = "restage" => attempt < budget /\ decision'.verdict = "revise")
      BY <1>7 DEF DecideAttempt, MayRetry
    <2>5. QED
      BY <1>1, <1>7, <2>1, <2>2, <2>3, <2>4 DEF DecideAttempt, Places, hostVars, exitVars
  <1>8. CASE Restage
    BY <1>1, <1>8 DEF Restage, Places, attemptVars, exitVars
  <1>9. CASE Revise
    BY <1>1, <1>9 DEF Revise, Places, hostVars, exitVars
  <1>10. CASE EvidenceClockRaises \/ RevisionClockRaises
    BY <1>1, <1>10 DEF EvidenceClockRaises, RevisionClockRaises, Raise, Places, attemptVars
  <1>11. QED
    BY <1>2, <1>3, <1>4, <1>5, <1>6, <1>7, <1>8, <1>9, <1>10, StepIsOneOf

LEMMA InitTypes == Init => TypeInv
  <1> SUFFICES ASSUME Init PROVE TypeInv
    OBVIOUS
  <1>1. 1 \in 1..MaxAttempts /\ budget \in Nat /\ 1 <= budget
    BY CoordinatorAssumption DEF Init
  <1>2. RevisionOf(1, ContractDigest) \in Revisions
    BY <1>1, RevisionOfType, CoordinatorAssumption
  <1>3. LedgerTypeOK /\ MachineTypeOK
    <2>1. /\ [kind |-> "revision", revision |-> revision, ref |-> NoRef,
              from |-> "none", status |-> "none"] \in LedgerEvent
          /\ [kind |-> "state_transition", revision |-> revision, ref |-> NoRef,
              from |-> "none", status |-> "received"] \in LedgerEvent
      BY <1>2 DEF Init, MachineInit, LedgerEvent, EventKinds, EventStatuses, RunStates
    <2>2. [sequence |-> 1, from |-> "none", to |-> "received"] \in StateTransition
      BY DEF StateTransition, RunStates
    <2>3. LedgerTypeOK
      BY <1>2, <2>1 DEF Init, MachineInit, LedgerTypeOK
    <2>4. MachineTypeOK
      BY <2>2 DEF Init, MachineInit, MachineTypeOK, RunStates
    <2>5. QED
      BY <2>3, <2>4
  <1>4. snapshots \in Seq(Snapshot) /\ snapshots # <<>>
    BY DEF Init, Snapshot
  <1>5. session \in Session /\ report \in VerificationReport
    BY DEF Init, NoSession, Session, NoReport, VerificationReport
  <1>6. toolNext \in 1..(Len(ToolChecks) + 1)
    BY CoordinatorAssumption DEF Init
  <1>7. decision.verdict = "none" /\ decision.refs = {} /\ record.verdict = "none"
    BY DEF Init, NoDecision, Outcome, NoRecord
  <1>8. TypeOK
    BY <1>1, <1>3, <1>4, <1>5, <1>6, <1>7 DEF Init, TypeOK
  <1>9. Places
    BY <1>1, <1>7
       DEF Init, Places, Proposing, Attempting, Judged, Ending, NoProposal
  <1>10. QED
    BY <1>8, <1>9 DEF TypeInv

\* Every variable of the coordinator keeps its type, and with it its place in
\* an attempt: the lists of proposals and sessions are one short of the attempt
\* until it is decided, and nothing is handled as an error before one is raised.
THEOREM CoordinatorTypes == Spec => []TypeInv
  <1>1. TypeInv /\ UNCHANGED vars => TypeInv'
    BY DEF TypeInv, TypeOK, Places, LedgerTypeOK, MachineTypeOK, Proposing, Attempting, Judged,
           Ending, vars, runVars, ledgerVars, machineVars, attemptVars, verifyVars, hostVars,
           exitVars
  <1>2. TypeInv /\ [Next]_vars => TypeInv'
    BY <1>1, TypePreserved, PlacesPreserved DEF TypeInv
  <1>3. QED
    BY <1>2, InitTypes, PTL DEF Spec

\* The steps that end the attempts, and those after.
LEMMA EndingSteps ==
    ASSUME TypeInv, Next, Ending'
    PROVE  Quit \/ Leave \/ EvidenceClockRaises \/ RevisionClockRaises
  <1>1. (Move \/ RecordTheProposal \/ Execute \/ ToolFails \/ RecordReport \/ DecideAttempt
             \/ Restage \/ Revise) => ~Ending'
    BY DEF Move, Enter, RecordTheProposal, Execute, ToolFails, RecordReport, DecideAttempt,
           Restage, Revise, Ending
  <1>2. (\/ \E result \in Digests : \E n \in 1..attempt : Propose(n, result)
         \/ \E allowed \in BOOLEAN : RequestTool(allowed)
         \/ \E passed \in BOOLEAN : ObserveTool(passed)
         \/ \E r \in Reports : VerifierReturns(r)
         \/ \E late \in BOOLEAN : CollectFindings(late)
         \/ \E digest \in Digests : Drift(digest)) => ~Ending'
    BY DEF Propose, RequestTool, ObserveTool, VerifierReturns, CollectFindings, Drift, Ending
  <1>3. QED
    BY <1>1, <1>2, StepIsOneOf

\* How the attempts end when the run is exported, and what may happen after.
LEMMA LeavingSteps ==
    ASSUME Leave
    PROVE  \/ Finish \/ Done
           \/ /\ \/ ArtifactDecays
                 \/ BuildRecord /\ CompletionSound /\ pc = "build" /\ pc' = "cleanup"
                 \/ \E i \in DOMAIN snapshots : CloseSnapshot(i)
              /\ UNCHANGED <<failure, leaked, outcome, record>> /\ pc' # "done"
  <1>1. CASE BuildRecord
    <2>1. pc = "build" /\ pc' = "cleanup" /\ CompletionSound
      BY <1>1 DEF Leave, BuildRecord, Ending, Raise
    <2>2. UNCHANGED <<exitVars, hostVars>>
      BY <1>1, <2>1 DEF BuildRecord
    <2>3. QED
      BY <1>1, <2>1, <2>2 DEF exitVars, hostVars
  <1>2. ASSUME NEW i \in DOMAIN snapshots, CloseSnapshot(i)
        PROVE  UNCHANGED <<failure, leaked, outcome, record>> /\ pc' # "done"
    BY <1>2 DEF CloseSnapshot
  <1>3. ArtifactDecays => UNCHANGED <<failure, leaked, outcome, record>> /\ pc' # "done"
    BY DEF ArtifactDecays, exitVars
  <1>4. QED
    BY <1>1, <1>2, <1>3 DEF Leave

\* Work within an attempt that leaves the attempt and its lists alone.
Working ==
    /\ UNCHANGED attemptVars
    /\ (Attempting /\ Attempting') \/ (pc \in {"restage", "build"} /\ pc' = pc)

LEMMA GoingSteps ==
    ASSUME TypeInv, Next, ~Ending'
    PROVE  \/ Move \/ DecideAttempt \/ Restage \/ Revise
           \/ \E result \in Digests : \E n \in 1..attempt : Propose(n, result)
           \/ Working
  <1>1. CASE Quit \/ EvidenceClockRaises \/ RevisionClockRaises
    BY <1>1 DEF Quit, EvidenceClockRaises, RevisionClockRaises, Raise, Ending
  <1>2. CASE Leave
    BY <1>2 DEF Leave, Working, Judged, Ending, BuildRecord, Finish, ArtifactDecays, Done,
                CloseSnapshot, vars
  <1>3. ASSUME \/ RecordTheProposal \/ Execute \/ ToolFails \/ RecordReport
               \/ \E allowed \in BOOLEAN : RequestTool(allowed)
               \/ \E passed \in BOOLEAN : ObserveTool(passed)
               \/ \E r \in Reports : VerifierReturns(r)
               \/ \E late \in BOOLEAN : CollectFindings(late)
               \/ \E digest \in Digests : Drift(digest)
        PROVE  Working
    <2>1. UNCHANGED attemptVars
      BY <1>3 DEF RecordTheProposal, Execute, ToolFails, RecordReport, RequestTool, ObserveTool,
                  VerifierReturns, CollectFindings, Drift, runVars
    <2>2. (Attempting /\ Attempting') \/ (pc \in {"restage", "build"} /\ pc' = pc)
      BY <1>3 DEF RecordTheProposal, Execute, ToolFails, RecordReport, RequestTool, ObserveTool,
                  VerifierReturns, CollectFindings, Drift, Attempting, Judged
    <2>3. QED
      BY <2>1, <2>2 DEF Working
  <1>4. QED
    BY <1>1, <1>2, <1>3, StepIsOneOf

\* There is no way back into an attempt.
LEMMA EndingLasts ==
    ASSUME TypeInv, Next, Ending
    PROVE  Leave /\ Ending'
  <1>1. ~(Move \/ Quit \/ RecordTheProposal \/ Execute \/ ToolFails \/ RecordReport \/ DecideAttempt
             \/ Restage \/ Revise \/ EvidenceClockRaises \/ RevisionClockRaises)
    BY DEF Move, Enter, Quit, RecordTheProposal, Execute, ToolFails, RecordReport, DecideAttempt,
           Restage, Revise, EvidenceClockRaises, RevisionClockRaises, Ending
  <1>2. ~(\/ \E result \in Digests : \E n \in 1..attempt : Propose(n, result)
          \/ \E allowed \in BOOLEAN : RequestTool(allowed)
          \/ \E passed \in BOOLEAN : ObserveTool(passed)
          \/ \E r \in Reports : VerifierReturns(r)
          \/ \E late \in BOOLEAN : CollectFindings(late)
          \/ \E digest \in Digests : Drift(digest))
    BY DEF Propose, RequestTool, ObserveTool, VerifierReturns, CollectFindings, Drift, Ending
  <1>3. Leave
    BY <1>1, <1>2, StepIsOneOf
  <1>4. Ending'
    BY <1>3 DEF Leave, Ending, BuildRecord, Finish, ArtifactDecays, Done, CloseSnapshot, vars
  <1>5. QED
    BY <1>3, <1>4

\* Ending the attempts does not touch them.
LEMMA EndingKeeps ==
    ASSUME TypeInv, Next, Ending'
    PROVE  UNCHANGED <<attemptVars, verifyVars, machineVars, proposalIds>>
           /\ (UNCHANGED <<ledgerVars>> \/ (~Ending /\ failure' = "clock"))
  BY EndingSteps
     DEF Quit, Leave, EvidenceClockRaises, RevisionClockRaises, ledgerVars, Raise, Ending,
         RecordEvidenceClockFails, RecordRevisionClockFails, RequestActionClockFails,
         RecordObservationClockFails

\* Only the start of a retry moves the revision.
LEMMA RevisionMoves ==
    ASSUME TypeInv, Next, pc # "revise"
    PROVE  UNCHANGED revision
  BY LedgerStep
     DEF RevisionStep, PlainEvent, ToolStep, ToolAppend, ReportStep, RecordEvidence,
         RecordEvidenceClockFails, ProposalStep, RecordProposal, ledgerVars

-------------------------------------------------------------------------------
(* Nothing is left behind *)

LEMMA LeakPreserved ==
    ASSUME TypeInv, LeakInv, Next
    PROVE  LeakInv'
  <1>1. TypeInv' /\ Places /\ Places'
    BY TypePreserved, PlacesPreserved DEF TypeInv
  <1>2. CASE ~Ending'
    BY <1>1, <1>2 DEF LeakInv, Places, Ending
  <1>3. CASE Quit
    BY <1>1, <1>3 DEF Quit, Raise, LeakInv, Places, Ending
  <1>4. CASE Leave
    <2>1. CASE UNCHANGED <<failure, leaked, outcome>> /\ pc' # "done"
      BY <1>1, <2>1 DEF LeakInv, Places
    <2>2. CASE Finish
      <3>1. /\ UNCHANGED <<leaked, snapshots, cleanupErrors>> /\ ToClose = {}
            /\ failure' = IF failure = "none" /\ cleanupErrors # {} THEN "cleanup" ELSE failure
            /\ outcome' = "completed" => failure' = "none"
        BY <2>2 DEF Finish, ReturnRecord, RaiseWithRecord, RaiseWithoutRecord, hostVars
      <3>2. ToClose' = ToClose
        BY <3>1 DEF ToClose
      <3>3. QED
        BY <3>1, <3>2 DEF LeakInv
    <2>3. CASE Done
      BY <2>3 DEF Done, LeakInv, ToClose, vars, runVars, hostVars, exitVars
    <2>4. QED
      BY <1>4, <2>1, <2>2, <2>3, LeavingSteps
  <1>5. CASE EvidenceClockRaises \/ RevisionClockRaises
    BY <1>1, <1>5 DEF EvidenceClockRaises, RevisionClockRaises, Raise, LeakInv, Places, Ending,
                      hostVars
  <1>6. QED
    BY <1>2, <1>3, <1>4, <1>5, EndingSteps

\* Every retry snapshot is removed or reported as not removable when the run
\* ends, and a completed run has none of the latter (coordinator.close_owned).
THEOREM LeavesNothing == Spec => []NothingLeftBehind
  <1>1. Init => LeakInv
    BY DEF Init, LeakInv
  <1>2. LeakInv /\ UNCHANGED vars => LeakInv'
    BY DEF LeakInv, ToClose, vars, runVars, hostVars, exitVars
  <1>3. TypeInv /\ LeakInv /\ [Next]_vars => LeakInv'
    BY <1>2, LeakPreserved
  <1>4. TypeInv /\ LeakInv => NothingLeftBehind
    <2> SUFFICES ASSUME TypeInv, LeakInv, outcome # "running" PROVE NothingLeftBehind
      BY DEF NothingLeftBehind
    <2>1. pc = "done" /\ ToClose = {}
      BY DEF LeakInv, TypeInv, Places
    <2>2. leaked \in Nat
      BY DEF TypeInv, TypeOK
    <2>3. outcome = "completed" => leaked = 0
      BY <2>2 DEF LeakInv
    <2>4. QED
      BY <2>1, <2>3 DEF NothingLeftBehind, LeakInv, ToClose
  <1>5. QED
    BY <1>1, <1>3, <1>4, CoordinatorTypes, PTL DEF Spec

-------------------------------------------------------------------------------
(* The chain of attempts *)

LEMMA ChainPreserved ==
    ASSUME TypeInv, ChainInv, Next
    PROVE  ChainInv'
  <1> USE DEF Proposing, Attempting, Judged
  <1>1. /\ Places /\ Places' /\ attempt \in Nat /\ 1 <= attempt
        /\ proposals \in Seq(Proposal) /\ Len(proposals) \in Nat
    BY PlacesPreserved, Numbers DEF TypeInv, TypeOK
  <1>2. CASE Ending'
    BY <1>2, EndingKeeps DEF Ending, ChainInv, Chained, Origin, attemptVars
  <1>3. CASE Working
    <2>1. UNCHANGED revision
      BY <1>3, RevisionMoves DEF Working
    <2>2. QED
      BY <1>3, <2>1 DEF Working, ChainInv, Chained, Origin, attemptVars
  <1>4. CASE Move
    <2>1. <<pc, pc'>> \in {<<"contract", "triage">>, <<"triage", "propose">>, <<"mark", "record">>,
                           <<"validate", "execute">>, <<"assess", "decide">>,
                           <<"export", "build">>}
      BY <1>4 DEF Move, Enter
    <2>2. UNCHANGED <<attemptVars, snapshots, revision>>
      BY <1>4, <2>1, RevisionMoves DEF Move, runVars, hostVars
    <2>3. QED
      BY <2>1, <2>2 DEF ChainInv, Chained, Origin, CurrentSnapshot, Last, attemptVars
  <1>5. ASSUME NEW result \in Digests, NEW n \in 1..attempt, Propose(n, result) PROVE ChainInv'
    <2>1. /\ proposal'.attempt = attempt /\ proposal'.source = CurrentSnapshot.source
          /\ proposal'.revision = revision
          /\ UNCHANGED <<attempt, proposals, revision>> /\ pc = "propose" /\ pc' = "mark"
      BY <1>5 DEF Propose, ledgerVars
    <2>2. CurrentSnapshot.source = Origin(attempt)
      BY <1>1, <1>5, <2>1 DEF ChainInv, Origin, Propose, RequestAccepted
    <2>3. QED
      BY <2>1, <2>2 DEF ChainInv, Chained, Origin
  <1>6. CASE DecideAttempt
    <2>1. /\ UNCHANGED <<attempt, proposal, revision>> /\ pc = "decide"
          /\ proposals' = Append(proposals, proposal) /\ pc' \in {"restage", "export"}
          /\ Len(proposals) = attempt - 1 /\ proposal \in Proposal
      BY <1>1, <1>6, RevisionMoves DEF DecideAttempt, Places
    <2>2. /\ DOMAIN proposals' = 1..attempt /\ proposals'[attempt] = proposal
          /\ \A n \in DOMAIN proposals : proposals'[n] = proposals[n]
          /\ DOMAIN proposals = 1..(attempt - 1)
      BY <1>1, <2>1
    <2>3. \A n \in 1..attempt : Origin(n)' = Origin(n)
      BY <1>1, <2>2 DEF Origin
    <2>4. proposal # NoProposal
      BY <2>1 DEF Proposal, NoProposal
    <2>5. (\A n \in DOMAIN proposals : Chained(proposals[n], n))'
      <3>1. Chained(proposal, attempt) /\ \A n \in DOMAIN proposals : Chained(proposals[n], n)
        BY <2>4 DEF ChainInv
      <3>2. ASSUME NEW n \in 1..attempt, n # attempt PROVE n \in DOMAIN proposals
        BY <1>1, <2>2, <3>2
      <3>3. QED
        BY <2>2, <2>3, <3>1, <3>2 DEF Chained
    <2>6. QED
      BY <1>1, <2>1, <2>3, <2>4, <2>5 DEF ChainInv, Chained
  <1>7. CASE Restage
    <2>1. UNCHANGED <<attemptVars, revision>> /\ pc = "restage" /\ pc' = "revise"
      BY <1>7, RevisionMoves DEF Restage
    <2>2. CurrentSnapshot'.source = proposal.result
      <3>1. snapshots \in Seq(Snapshot)
        BY DEF TypeInv, TypeOK
      <3>2. QED
        BY <1>7, <3>1 DEF Restage, CurrentSnapshot, Last
    <2>3. QED
      BY <2>1, <2>2 DEF ChainInv, Chained, Origin, attemptVars
  <1>8. CASE Revise
    <2>1. /\ UNCHANGED <<proposals, snapshots>> /\ attempt' = attempt + 1 /\ pc = "revise"
          /\ pc' = "propose" /\ proposal' = NoProposal
          /\ revision' = RevisionOf(attempt + 1, CurrentSnapshot.source)
      BY <1>8 DEF Revise, hostVars, RecordRevision, NextRevision
    <2>2. Len(proposals) = attempt /\ proposals[attempt] = proposal
      BY <1>1, <2>1 DEF Places
    <2>3. Origin(attempt + 1) = CurrentSnapshot.source
      BY <1>1, <2>1, <2>2 DEF Origin, ChainInv
    <2>4. \A n : Origin(n)' = Origin(n)
      BY <2>1 DEF Origin
    <2>5. CurrentSnapshot' = CurrentSnapshot
      BY <2>1 DEF CurrentSnapshot, Last
    <2>6. QED
      BY <2>1, <2>3, <2>4, <2>5 DEF ChainInv, Chained
  <1>9. QED
    BY <1>2, <1>3, <1>4, <1>5, <1>6, <1>7, <1>8, GoingSteps

\* The chain holds at every point of a run, not only between attempts.
THEOREM AttemptsFollowOn == Spec => []ChainInv
  <1>1. Init => ChainInv
    BY DEF Init, MachineInit, ChainInv, Proposing, Attempting, Judged, Origin
  <1>2. ChainInv /\ UNCHANGED vars => ChainInv'
    BY DEF ChainInv, Chained, Origin, CurrentSnapshot, Last, Proposing, Attempting, Judged,
           vars, runVars, attemptVars, hostVars, ledgerVars
  <1>3. TypeInv /\ ChainInv /\ [Next]_vars => ChainInv'
    BY <1>2, ChainPreserved
  <1>4. QED
    BY <1>1, <1>3, CoordinatorTypes, PTL DEF Spec

\* Each attempt starts from what the one before it was validated to have
\* produced, at a revision that says so; the first from the contract's
\* (coordinator.restage, GenerationRequest, validate_proposal).
THEOREM AttemptsAreChained == Spec => []AttemptsChain
  <1>1. TypeInv /\ ChainInv => AttemptsChain
    <2> SUFFICES ASSUME TypeInv, ChainInv PROVE AttemptsChain
      OBVIOUS
    <2>1. /\ Places /\ attempt \in Nat /\ 1 <= attempt
          /\ proposals \in Seq(Proposal) /\ Len(proposals) \in Nat
      BY Numbers DEF TypeInv, TypeOK
    <2>2. DOMAIN proposals = 1..Len(proposals)
      BY <2>1
    <2>3. CASE proposal = NoProposal \/ (proposals # <<>> /\ Last(proposals) = proposal)
      BY <2>1, <2>2, <2>3 DEF AttemptsChain, ChainInv, Chained, Origin
    <2>4. CASE ~(proposal = NoProposal \/ (proposals # <<>> /\ Last(proposals) = proposal))
      <3> DEFINE all == Append(proposals, proposal)
      <3>1. Len(proposals) = attempt - 1
        BY <2>1, <2>4 DEF Places, Last
      <3>2. /\ DOMAIN all = 1..attempt /\ all[attempt] = proposal
            /\ \A n \in DOMAIN proposals : all[n] = proposals[n]
            /\ DOMAIN proposals = 1..(attempt - 1)
        BY <2>1, <2>2, <3>1
      <3>3. \A n \in 1..attempt : Chained(all[n], n)
        BY <2>1, <2>4, <3>2 DEF ChainInv
      <3>4. \A n \in 1..attempt :
               Origin(n) = IF n = 1 THEN ContractDigest ELSE all[n - 1].result
        BY <2>1, <3>2 DEF Origin
      <3> HIDE DEF all
      <3>5. \A n \in DOMAIN all :
               /\ all[n].attempt = n
               /\ all[n].source = IF n = 1 THEN ContractDigest ELSE all[n - 1].result
               /\ all[n].revision = RevisionOf(n, all[n].source)
        BY <3>2, <3>3, <3>4 DEF Chained
      <3>6. QED
        BY <2>4, <3>5 DEF AttemptsChain, all
    <2>5. QED
      BY <2>3, <2>4
  <1>2. QED
    BY <1>1, CoordinatorTypes, AttemptsFollowOn, PTL

-------------------------------------------------------------------------------
(* Whose evidence counts *)

\* An item of the current attempt joins the others.
LEMMA ItemOfThisAttempt ==
    ASSUME TypeInv, AttemptInv, revision[1] = attempt, NEW e \in Evidence,
           e.revision = revision, e.id[3] = attempt, evidence' = Append(evidence, e),
           UNCHANGED <<revision, attempt>>
    PROVE  AttemptInv'
  <1>1. /\ evidence \in Seq(Evidence) /\ attempt \in 1..attempt
    BY Numbers DEF TypeInv, TypeOK, LedgerTypeOK
  <1>2. /\ DOMAIN evidence' = DOMAIN evidence \cup {Len(evidence) + 1}
        /\ \A i \in DOMAIN evidence : evidence'[i] = evidence[i]
        /\ evidence'[Len(evidence) + 1] = e
    BY <1>1
  <1>3. QED
    BY <1>1, <1>2 DEF AttemptInv

LEMMA AttemptPreserved ==
    ASSUME TypeInv, AttemptInv, Next
    PROVE  AttemptInv'
  <1>1. attempt \in Nat /\ (~Ending => revision[1] = attempt)
    BY Numbers DEF AttemptInv
  <1>2. Ending => Ending' /\ UNCHANGED <<ledgerVars, attempt>>
    BY EndingLasts DEF Leave, attemptVars
  <1>3. ASSUME NEW told \in BOOLEAN, ToolStep(told), UNCHANGED attempt PROVE AttemptInv'
    <2>1. PICK event \in LedgerEvent, e \in Evidence :
             ToolAppend(event, e, told) /\ e.revision = revision /\ e.id[3] = attempt
      BY <1>3 DEF ToolStep
    <2>2. evidence' = Append(evidence, e) /\ UNCHANGED revision
      BY <2>1 DEF ToolAppend
    <2>3. CASE Ending
      BY <1>2, <2>3 DEF AttemptInv, ledgerVars
    <2>4. QED
      BY <1>1, <1>3, <2>1, <2>2, <2>3, ItemOfThisAttempt
  <1>4. ASSUME NEW told \in BOOLEAN, ReportStep(told), UNCHANGED attempt PROVE AttemptInv'
    <2>1. PICK e \in Evidence : /\ RecordEvidence(e) \/ RecordEvidenceClockFails(e)
                                /\ e.id[3] = attempt
      BY <1>4 DEF ReportStep
    <2>2. evidence' = Append(evidence, e) /\ UNCHANGED revision /\ e.revision = revision
      BY <2>1 DEF RecordEvidence, RecordEvidenceClockFails, EvidenceRefused
    <2>3. CASE Ending
      BY <1>2, <2>3 DEF AttemptInv, ledgerVars
    <2>4. QED
      BY <1>1, <1>4, <2>1, <2>2, <2>3, ItemOfThisAttempt
  <1>5. CASE RevisionStep
    <2>1. ~Ending /\ revision' = NextRevision /\ UNCHANGED evidence
      BY <1>5 DEF RevisionStep, RecordRevision, RecordRevisionClockFails, Ending
    <2>2. revision'[1] = attempt + 1
      BY <2>1 DEF NextRevision, RevisionOf
    <2>3. attempt' = attempt + 1 \/ (Ending' /\ UNCHANGED attempt)
      BY <1>5, EndingKeeps DEF RevisionStep, Ending, attemptVars
    <2>4. QED
      BY <1>1, <2>1, <2>2, <2>3 DEF AttemptInv
  <1>6. CASE UNCHANGED <<revision, evidence, attempt>>
    BY <1>2, <1>6 DEF AttemptInv
  <1>7. QED
    BY <1>3, <1>4, <1>5, <1>6, LedgerStep
       DEF PlainEvent, ProposalStep, RecordProposal, ledgerVars

\* Every item is of an attempt begun, and only a clock that raises in the middle
\* of a retry leaves the revision one attempt ahead.
THEOREM EvidenceIsOfItsAttempt == Spec => []AttemptInv
  <1>1. Init => AttemptInv
    BY DEF Init, MachineInit, AttemptInv, RevisionOf
  <1>2. AttemptInv /\ UNCHANGED vars => AttemptInv'
    BY DEF AttemptInv, Ending, vars, runVars, attemptVars, ledgerVars
  <1>3. TypeInv /\ AttemptInv /\ [Next]_vars => AttemptInv'
    BY <1>2, AttemptPreserved
  <1>4. QED
    BY <1>1, <1>3, CoordinatorTypes, PTL DEF Spec

\* What counts towards the current decision was produced for the current
\* attempt, although a workspace may return to an earlier content
\* (coordinator.revise, ledger.evidence_for).
THEOREM OnlyOwnEvidenceCounts == Spec => []OnlyThisAttemptCounts
  <1>1. TypeInv /\ AttemptInv => OnlyThisAttemptCounts
    <2> SUFFICES ASSUME TypeInv, AttemptInv,
                        NEW i \in DOMAIN evidence, evidence[i].revision = revision
                 PROVE  evidence[i].id[3] = attempt
      BY DEF OnlyThisAttemptCounts
    <2>1. attempt \in Nat
      BY Numbers
    <2>2. QED
      BY <2>1 DEF AttemptInv
  <1>2. QED
    BY <1>1, CoordinatorTypes, EvidenceIsOfItsAttempt, PTL

-------------------------------------------------------------------------------
(* The ledger's two structures and the trail *)

LEMMA TrailPreserved ==
    ASSUME TypeInv, TrailInv, Next
    PROVE  TrailInv'
  <1>1. LedgerTypeOK /\ evidence \in Seq(Evidence) /\ events \in Seq(LedgerEvent)
    BY DEF TypeInv, TypeOK, LedgerTypeOK
  <1>2. CASE Ending
    <2>1. UNCHANGED ledgerVars /\ Ending' /\ (failure = "clock" => failure' = "clock")
      BY <1>2, EndingLasts, LeavingSteps DEF Leave, Finish, Done, vars, runVars, exitVars
    <2>2. QED
      BY <2>1 DEF TrailInv, ledgerVars, EvidenceIdsAgree, ProposalTrailAgrees
  <1>3. CASE ~Ending
    <2>1. /\ EvidenceIdsAgree /\ ProposalTrailAgrees
          /\ Told(evidence, events) /\ AllTold(evidence, events)
      BY <1>3 DEF TrailInv
    <2>2. ASSUME NEW event \in LedgerEvent, event.kind \notin {"evidence", "proposal"},
                 events' = Append(events, event), UNCHANGED <<evidence, evidenceIds, proposalIds>>
          PROVE  TrailInv'
      <3>1. ProposalTrailAgrees'
        BY <1>1, <2>1, <2>2, OtherEventsKeepProposals
      <3>2. Told(evidence', events') /\ AllTold(evidence', events')
        BY <1>1, <2>1, <2>2, OtherEventsTellNothing
      <3>3. QED
        BY <2>1, <2>2, <3>1, <3>2 DEF TrailInv, EvidenceIdsAgree
    <2>3. CASE UNCHANGED ledgerVars
      BY <2>1, <2>3 DEF TrailInv, ledgerVars, EvidenceIdsAgree, ProposalTrailAgrees
    <2>4. CASE PlainEvent
      BY <2>2, <2>4 DEF PlainEvent
    <2>5. ASSUME NEW told \in BOOLEAN, ToolStep(told), told \/ ClockStops PROVE TrailInv'
      <3>1. PICK event \in LedgerEvent, e \in Evidence :
               /\ ToolAppend(event, e, told) /\ e.revision = revision
               /\ event.kind \in {"tool_request", "tool_observation"}
        BY <2>5 DEF ToolStep
      <3>2. /\ EvidenceIdsAgree' /\ ProposalTrailAgrees' /\ Told(evidence', events')
            /\ told => AllTold(evidence', events')
        BY <1>1, <2>1, <3>1, ToolAppendKeepsTrail
      <3>3. QED
        BY <2>5, <3>2 DEF TrailInv, ClockStops, Ending
    <2>6. ASSUME NEW told \in BOOLEAN, ReportStep(told), told \/ ClockStops PROVE TrailInv'
      <3>1. PICK e \in Evidence : IF told THEN RecordEvidence(e) ELSE RecordEvidenceClockFails(e)
        BY <2>6 DEF ReportStep
      <3>2. EvidenceIdsAgree' /\ Told(evidence', events') /\ (told => AllTold(evidence', events'))
        BY <1>1, <2>1, <3>1, EvidenceKeepsIds, EvidenceIsTold
      <3>3. ProposalTrailAgrees'
        <4>1. CASE told
          <5>1. EvidenceEvent(e) \in LedgerEvent /\ EvidenceEvent(e).kind # "proposal"
            BY <1>1, StampedType
               DEF EvidenceEvent, EventKinds, EventStatuses, Evidence, Stamped
          <5>2. events' = Append(events, EvidenceEvent(e)) /\ UNCHANGED proposalIds
            BY <3>1, <4>1 DEF RecordEvidence
          <5>3. QED
            BY <1>1, <2>1, <5>1, <5>2, OtherEventsKeepProposals
        <4>2. CASE ~told
          BY <2>1, <3>1, <4>2 DEF RecordEvidenceClockFails, ProposalTrailAgrees
        <4>3. QED
          BY <4>1, <4>2
      <3>4. QED
        BY <2>6, <3>2, <3>3 DEF TrailInv, ClockStops, Ending
    <2>7. CASE ProposalStep
      <3>1. Stamped("proposal", proposal.id, "recorded") \in LedgerEvent
        BY <1>1, <2>7, StampedType DEF ProposalStep, EventKinds, EventStatuses
      <3>2. ProposalTrailAgrees'
        BY <1>1, <2>1, <2>7, ProposalKeepsTrail DEF ProposalStep
      <3>3. /\ events' = Append(events, Stamped("proposal", proposal.id, "recorded"))
            /\ UNCHANGED <<evidence, evidenceIds>>
            /\ Stamped("proposal", proposal.id, "recorded").kind = "proposal"
        BY <2>7 DEF ProposalStep, RecordProposal, Stamped
      <3>4. Told(evidence', events') /\ AllTold(evidence', events')
        BY <1>1, <2>1, <3>1, <3>3, OtherEventsTellNothing
      <3>5. QED
        BY <2>1, <3>2, <3>3, <3>4 DEF TrailInv, EvidenceIdsAgree
    <2>8. CASE RevisionStep
      <3> DEFINE event == [kind |-> "revision", revision |-> NextRevision, ref |-> NoRef,
                           from |-> "none", status |-> "none"]
      <3>1. event \in LedgerEvent /\ event.kind = "revision"
        BY <2>8 DEF RevisionStep, LedgerEvent, EventKinds, EventStatuses
      <3>2. CASE RecordRevision(NextRevision)
        <4>1. events' = Append(events, event)
              /\ UNCHANGED <<evidence, evidenceIds, proposalIds>>
          BY <3>2 DEF RecordRevision
        <4> HIDE DEF event
        <4>2. QED
          BY <2>2, <3>1, <4>1
      <3>3. CASE RecordRevisionClockFails(NextRevision)
        BY <2>1, <3>3 DEF RecordRevisionClockFails, TrailInv, EvidenceIdsAgree,
                          ProposalTrailAgrees
      <3>4. QED
        BY <2>8, <3>2, <3>3 DEF RevisionStep
    <2>9. QED
      BY <2>3, <2>4, <2>5, <2>6, <2>7, <2>8, LedgerStep DEF ledgerVars
  <1>4. QED
    BY <1>2, <1>3

LEMMA TrailStarts == Init => TrailInv
  <1> SUFFICES ASSUME Init PROVE TrailInv
    OBVIOUS
  <1>1. DOMAIN evidence = {} /\ evidenceIds = {} /\ proposalIds = {}
    BY DEF Init, MachineInit
  <1>2. DOMAIN events = {1, 2} /\ \A n \in DOMAIN events : events[n].kind \notin {"evidence", "proposal"}
    BY DEF Init, MachineInit
  <1>3. EvidenceEvents(events) = {}
    BY <1>2 DEF EvidenceEvents
  <1>4. QED
    BY <1>1, <1>2, <1>3 DEF TrailInv, EvidenceIdsAgree, ProposalTrailAgrees, Told, AllTold

\* The trail's other structures agree in every run of a coordinator, whatever its
\* tools, its verifier and its clock do.
THEOREM TrailAgrees == Spec => []TrailInv
  <1>1. TrailInv /\ UNCHANGED vars => TrailInv'
    BY DEF TrailInv, EvidenceIdsAgree, ProposalTrailAgrees, Ending, vars, runVars, exitVars,
           ledgerVars
  <1>2. TypeInv /\ TrailInv /\ [Next]_vars => TrailInv'
    BY <1>1, TrailPreserved
  <1>3. QED
    BY <1>2, TrailStarts, CoordinatorTypes, PTL DEF Spec

-------------------------------------------------------------------------------
(* The machine's history and the ledger's *)

\* Events are only appended, and only a transition appends one of its kind.
LEMMA EventsGrow ==
    ASSUME TypeInv, Next
    PROVE  /\ DOMAIN events \subseteq DOMAIN events'
           /\ \A n \in DOMAIN events : events'[n] = events[n]
           /\ \/ \E to : Transition(to)
              \/ /\ UNCHANGED machineVars
                 /\ \A n \in DOMAIN events' \ DOMAIN events : events'[n].kind # "state_transition"
  <1> DEFINE Grows == /\ DOMAIN events \subseteq DOMAIN events'
                      /\ \A n \in DOMAIN events : events'[n] = events[n]
             Others == \A n \in DOMAIN events' \ DOMAIN events :
                          events'[n].kind # "state_transition"
  <1>1. events \in Seq(LedgerEvent) /\ LedgerTypeOK
    BY DEF TypeInv, TypeOK, LedgerTypeOK
  <1>2. ASSUME NEW event \in LedgerEvent, events' = Append(events, event)
        PROVE  Grows /\ (event.kind # "state_transition" => Others)
    <2>1. /\ DOMAIN events' = DOMAIN events \cup {Len(events) + 1}
          /\ \A n \in DOMAIN events : events'[n] = events[n]
          /\ events'[Len(events) + 1] = event
      BY <1>1, <1>2
    <2>2. QED
      BY <2>1
  <1>3. CASE UNCHANGED ledgerVars
    BY <1>3, MachineMoves DEF ledgerVars
  <1>4. CASE PlainEvent
    BY <1>2, <1>4, MachineMoves DEF PlainEvent
  <1>5. ASSUME NEW told \in BOOLEAN, ToolStep(told) PROVE Grows /\ Others
    <2>1. PICK event \in LedgerEvent, e \in Evidence :
             ToolAppend(event, e, told) /\ event.kind \in {"tool_request", "tool_observation"}
      BY <1>5 DEF ToolStep
    <2> DEFINE second == EvidenceEvent(e)
    <2>2. /\ second \in LedgerEvent
          /\ events' = IF told THEN Append(Append(events, event), second)
                       ELSE Append(events, event)
      BY <1>1, <2>1, ToolAppendInTwo
    <2>3. second.kind = "evidence"
      BY DEF EvidenceEvent, Stamped
    <2> HIDE DEF second
    <2>4. CASE told
      <3>1. events' = Append(Append(events, event), second)
        BY <2>2, <2>4
      <3>2. /\ DOMAIN events' = DOMAIN events \cup {Len(events) + 1, Len(events) + 2}
            /\ \A n \in DOMAIN events : events'[n] = events[n]
            /\ events'[Len(events) + 1] = event /\ events'[Len(events) + 2] = second
        BY <1>1, <2>2, <3>1
      <3>3. QED
        BY <2>1, <2>3, <3>2
    <2>5. CASE ~told
      BY <1>2, <2>1, <2>2, <2>5
    <2>6. QED
      BY <2>4, <2>5
  <1>6. ASSUME NEW told \in BOOLEAN, ReportStep(told) PROVE Grows /\ Others
    <2>1. PICK e \in Evidence : IF told THEN RecordEvidence(e) ELSE RecordEvidenceClockFails(e)
      BY <1>6 DEF ReportStep
    <2>2. EvidenceEvent(e) \in LedgerEvent /\ EvidenceEvent(e).kind = "evidence"
      BY <1>1, StampedType DEF EvidenceEvent, EventKinds, EventStatuses, Evidence, Stamped
    <2>3. events' = Append(events, EvidenceEvent(e)) \/ UNCHANGED events
      BY <2>1 DEF RecordEvidence, RecordEvidenceClockFails
    <2>4. QED
      BY <1>2, <2>2, <2>3
  <1>7. CASE ProposalStep
    <2>1. /\ Stamped("proposal", proposal.id, "recorded") \in LedgerEvent
          /\ Stamped("proposal", proposal.id, "recorded").kind = "proposal"
      BY <1>1, <1>7, StampedType DEF ProposalStep, EventKinds, EventStatuses, Stamped
    <2>2. Grows /\ Others
      BY <1>2, <1>7, <2>1 DEF ProposalStep, RecordProposal
    <2>3. QED
      BY <2>2, MachineMoves
  <1>8. CASE RevisionStep
    <2> DEFINE event == [kind |-> "revision", revision |-> NextRevision, ref |-> NoRef,
                         from |-> "none", status |-> "none"]
    <2>1. event \in LedgerEvent /\ event.kind = "revision"
      BY <1>8 DEF RevisionStep, LedgerEvent, EventKinds, EventStatuses
    <2>2. events' = Append(events, event) \/ UNCHANGED events
      BY <1>8 DEF RevisionStep, RecordRevision, RecordRevisionClockFails
    <2> HIDE DEF event
    <2>3. Grows /\ Others
      BY <1>2, <2>1, <2>2
    <2>4. QED
      BY <2>3, MachineMoves
  <1>9. QED
    BY <1>3, <1>4, <1>5, <1>6, <1>7, <1>8, LedgerStep, MachineMoves

LEMMA MachineTrailPreserved ==
    ASSUME TypeInv, MachineTrailAgrees, Next
    PROVE  MachineTrailAgrees'
  <1> DEFINE Entries == {n \in DOMAIN events : events[n].kind = "state_transition"}
  <1>1. /\ transitions \in Seq(StateTransition) /\ events \in Seq(LedgerEvent)
        /\ Len(transitions) \in Nat /\ Len(events) \in Nat
    BY DEF TypeInv, TypeOK, MachineTypeOK, LedgerTypeOK
  <1>2. /\ DOMAIN events \subseteq DOMAIN events'
        /\ \A n \in DOMAIN events : events'[n] = events[n]
    BY EventsGrow
  <1>3. \A i \in DOMAIN transitions : transitions[i].sequence + 1 \in Entries
    BY DEF MachineTrailAgrees
  <1>4. ASSUME NEW to, Transition(to) PROVE MachineTrailAgrees'
    <2> DEFINE event == [kind |-> "state_transition", revision |-> revision, ref |-> NoRef,
                         from |-> state, status |-> to]
               entry == [sequence |-> Len(events), from |-> state, to |-> to]
               last == Len(transitions) + 1
               new == Len(events) + 1
    <2>1. /\ event \in LedgerEvent /\ entry \in StateTransition
          /\ event.kind = "state_transition" /\ event.from = state /\ event.status = to
          /\ entry.sequence = Len(events) /\ entry.from = state /\ entry.to = to
      BY <1>4, TransitionType
    <2>2. /\ events' = Append(events, event) /\ transitions' = Append(transitions, entry)
          /\ state' = to /\ to \in Allowed[state]
      BY <1>4 DEF Transition, RecordStateTransition
    <2> HIDE DEF event, entry
    <2>3. /\ DOMAIN transitions' = DOMAIN transitions \cup {last} /\ Len(transitions') = last
          /\ \A i \in DOMAIN transitions : transitions'[i] = transitions[i]
          /\ transitions'[last] = entry /\ last \in Nat
      BY <1>1, <2>1, <2>2
    <2>4. /\ DOMAIN events' = DOMAIN events \cup {new} /\ events'[new] = event
      BY <1>1, <2>1, <2>2
    <2>5. Entries' = Entries \cup {new}
      BY <1>2, <2>1, <2>4
    <2>6. {transitions'[i].sequence + 1 : i \in DOMAIN transitions'} = Entries'
      <3>1. {transitions'[i].sequence + 1 : i \in DOMAIN transitions'}
              = {transitions[i].sequence + 1 : i \in DOMAIN transitions} \cup {new}
        BY <2>1, <2>3
      <3>2. {transitions[i].sequence + 1 : i \in DOMAIN transitions} = Entries
        BY DEF MachineTrailAgrees
      <3>3. QED
        BY <2>5, <3>1, <3>2
    <2>7. \A i \in DOMAIN transitions' :
             /\ events'[transitions'[i].sequence + 1].from = transitions'[i].from
             /\ events'[transitions'[i].sequence + 1].status = transitions'[i].to
      BY <1>2, <1>3, <2>1, <2>3, <2>4 DEF MachineTrailAgrees
    <2>8. transitions # <<>> /\ transitions[Len(transitions)].to = state
      BY DEF MachineTrailAgrees
    <2>9. /\ transitions' # <<>> /\ transitions'[1].from = "none"
          /\ transitions'[Len(transitions')].to = state'
      BY <1>1, <2>1, <2>2, <2>3, <2>8 DEF MachineTrailAgrees
    <2>10. \A i \in 2..Len(transitions') :
              /\ transitions'[i].from = transitions'[i - 1].to
              /\ transitions'[i].to \in Allowed[transitions'[i].from]
      <3>1. ASSUME NEW i \in 2..Len(transitions), i - 1 \in DOMAIN transitions
            PROVE  /\ transitions'[i].from = transitions'[i - 1].to
                   /\ transitions'[i].to \in Allowed[transitions'[i].from]
        BY <1>1, <2>3 DEF MachineTrailAgrees
      <3>2. /\ last - 1 = Len(transitions) /\ Len(transitions) \in DOMAIN transitions
            /\ transitions'[last].from = transitions'[last - 1].to
            /\ transitions'[last].to \in Allowed[transitions'[last].from]
        BY <1>1, <2>1, <2>2, <2>3, <2>8
      <3>3. \A i \in 2..Len(transitions') : i = last \/ (i \in 2..Len(transitions)
                                                        /\ i - 1 \in DOMAIN transitions)
        BY <1>1, <2>3
      <3>4. QED
        BY <3>1, <3>2, <3>3
    <2>11. QED
      BY <2>6, <2>7, <2>9, <2>10 DEF MachineTrailAgrees
  <1>5. CASE /\ UNCHANGED machineVars
             /\ \A n \in DOMAIN events' \ DOMAIN events : events'[n].kind # "state_transition"
    <2>1. Entries' = Entries
      BY <1>2, <1>5
    <2>2. \A i \in DOMAIN transitions :
             events'[transitions[i].sequence + 1] = events[transitions[i].sequence + 1]
      BY <1>2, <1>3
    <2>3. UNCHANGED <<state, transitions>>
      BY <1>5 DEF machineVars
    <2>4. {transitions'[i].sequence + 1 : i \in DOMAIN transitions'} = Entries'
      BY <2>1, <2>3 DEF MachineTrailAgrees
    <2> HIDE DEF Entries
    <2>5. QED
      BY <2>2, <2>3, <2>4 DEF MachineTrailAgrees, Entries
  <1>6. QED
    BY <1>4, <1>5, EventsGrow

LEMMA MachinePreserved ==
    ASSUME TypeInv, MachineInv, Next
    PROVE  MachineInv'
  <1>1. MachineTrailAgrees'
    BY MachineTrailPreserved DEF MachineInv
  <1>2. /\ transitions \in Seq(StateTransition) /\ Len(transitions) \in Nat
        /\ Len(transitions) >= 1
    BY DEF TypeInv, TypeOK, MachineTypeOK, MachineInv, MachineTrailAgrees
  <1>3. ASSUME NEW to, Transition(to)
        PROVE  /\ Len(transitions') = Len(transitions) + 1 /\ Last(transitions').from = state
               /\ state' = to
    <2> DEFINE entry == [sequence |-> Len(events), from |-> state, to |-> to]
    <2>1. /\ entry \in StateTransition /\ entry.from = state
          /\ transitions' = Append(transitions, entry) /\ state' = to
      BY <1>3, TransitionType DEF Transition
    <2> HIDE DEF entry
    <2>2. QED
      BY <1>2, <2>1 DEF Last
  <1>4. Len(transitions') # 1 \/ UNCHANGED machineVars
    <2>1. ASSUME NEW to, Transition(to) PROVE Len(transitions') # 1
      <3>1. Len(transitions') = Len(transitions) + 1
        BY <1>3, <2>1
      <3>2. Len(transitions) \in Nat /\ Len(transitions) >= 1
        BY <1>2
      <3>3. QED
        BY <3>1, <3>2
    <2>2. QED
      BY <2>1, MachineMoves
  <1>5. Len(transitions') = 1 => state' = "received"
    BY <1>4 DEF MachineInv, machineVars
  <1>6. Len(transitions') >= 2 \/ pc' = "contract" \/ (Ending' /\ failure' = "clock")
    <2>1. CASE Ending
      BY <2>1, EndingLasts, LeavingSteps
         DEF MachineInv, Leave, Finish, Done, vars, runVars, exitVars, machineVars, Ending
    <2>2. CASE pc = "contract" /\ ~(\E to : Transition(to))
      <3>1. pc' = "contract" \/ (Ending' /\ failure' = "clock")
        <4>1. CASE Quit
          BY <2>2, <4>1 DEF Quit, QuitKinds, Raise, Ending, RefuseTheProposal, RefuseReport
        <4>2. ~(Move \/ Execute \/ DecideAttempt)
          BY <2>2 DEF Move, Enter, Execute, DecideAttempt, ApplyDecision
        <4>3. QED
          BY <2>2, <4>1, <4>2, StepIsOneOf
             DEF Leave, Propose, RecordTheProposal, RequestTool, ObserveTool, ToolFails,
                 VerifierReturns, RecordReport, CollectFindings, Restage, Revise,
                 EvidenceClockRaises, RevisionClockRaises, Drift, Ending
      <3>2. QED
        BY <3>1
    <2>3. CASE \E to : Transition(to)
      BY <1>2, <1>3, <2>3
    <2>4. CASE pc # "contract" /\ ~Ending /\ UNCHANGED machineVars
      BY <2>4 DEF MachineInv, machineVars
    <2>5. QED
      BY <2>1, <2>2, <2>3, <2>4, MachineMoves
  <1>7. pc' = "export" => state' = DecisionState[decision'.verdict]
    <2>1. CASE DecideAttempt
      <3>1. Transition(DecisionState[decision'.verdict])
        BY <2>1 DEF DecideAttempt, ApplyDecision
      <3>2. QED
        BY <1>3, <3>1
    <2>2. pc' = "export" => DecideAttempt
      <3>1. pc' = "export" => ~Ending' /\ ~Move /\ ~Working
        BY DEF Ending, Move, Enter, Working, Attempting
      <3>2. QED
        BY <3>1, GoingSteps DEF Restage, Revise, Propose
    <2>3. QED
      BY <2>1, <2>2
  <1>8. pc' = "build" => /\ state' = "exported"
                         /\ Last(transitions').from = DecisionState[decision'.verdict]
    <2>1. CASE Export
      <3>1. Transition("exported") /\ UNCHANGED decision /\ pc = "export"
        BY <2>1 DEF Export, Enter, runVars, attemptVars
      <3>2. QED
        BY <1>3, <3>1 DEF MachineInv
    <2>2. CASE pc = "build" /\ UNCHANGED <<machineVars, decision>>
      BY <2>2 DEF MachineInv, machineVars, Last
    <2>3. pc' = "build" => Export \/ (pc = "build" /\ UNCHANGED <<machineVars, decision>>)
      <3>1. pc' = "build" => ~Ending' /\ ~DecideAttempt /\ ~Restage /\ ~Revise
        BY DEF Ending, DecideAttempt, Restage, Revise
      <3>2. ASSUME Move, pc' = "build" PROVE Export
        <4>1. PICK m \in {<<"contract", "contracted", "triage">>, <<"triage", "triaged", "propose">>,
                          <<"mark", "proposed", "record">>,
                          <<"validate", "action_validation", "execute">>,
                          <<"assess", "assessed", "decide">>, <<"export", "exported", "build">>} :
                 Enter(m[1], m[2], m[3]) /\ UNCHANGED runVars
          BY <3>2 DEF Move
        <4>2. m[3] = "build"
          BY <3>2, <4>1 DEF Enter
        <4>3. m = <<"export", "exported", "build">>
          BY <4>1, <4>2
        <4>4. QED
          BY <4>1, <4>3 DEF Export
      <3>3. Working /\ pc' = "build" => pc = "build" /\ UNCHANGED decision
        BY DEF Working, Attempting, attemptVars
      <3>4. pc = "build" => ~(\E to : Transition(to)) \/ ~(pc' = "build")
        <4>1. CASE pc = "build" /\ pc' = "build"
          <5>1. state = "exported"
            BY <4>1 DEF MachineInv
          <5>2. Allowed[state] = {}
            BY <5>1 DEF Allowed, RunStates
          <5>3. QED
            BY <5>2 DEF Transition
        <4>2. QED
          BY <4>1
      <3>5. QED
        BY <3>1, <3>2, <3>3, <3>4, GoingSteps, MachineMoves DEF Propose
    <2>4. QED
      BY <2>1, <2>2, <2>3
  <1>9. QED
    BY <1>1, <1>5, <1>6, <1>7, <1>8 DEF MachineInv

\* The machine's own history and the ledger's are one history in every run
\* (state.RunStateMachine, ledger.record_state_transition).
THEOREM OneHistory == Spec => []MachineInv
  <1>1. Init => MachineInv
    <2> SUFFICES ASSUME Init PROVE MachineInv
      OBVIOUS
    <2>1. /\ DOMAIN transitions = {1} /\ Len(transitions) = 1 /\ transitions # <<>>
          /\ transitions[1].from = "none" /\ transitions[1].to = "received"
          /\ transitions[1].sequence = 1
      BY DEF Init, MachineInit
    <2>2. /\ DOMAIN events = {1, 2} /\ events[1].kind # "state_transition"
          /\ events[2].kind = "state_transition"
          /\ events[2].from = "none" /\ events[2].status = "received"
      BY DEF Init, MachineInit
    <2>3. state = "received" /\ pc = "contract"
      BY DEF Init, MachineInit
    <2>4. {transitions[i].sequence + 1 : i \in DOMAIN transitions}
            = {n \in DOMAIN events : events[n].kind = "state_transition"}
      BY <2>1, <2>2
    <2>5. MachineTrailAgrees
      BY <2>1, <2>2, <2>3, <2>4 DEF MachineTrailAgrees
    <2>6. QED
      BY <2>1, <2>3, <2>5 DEF MachineInv
  <1>2. MachineInv /\ UNCHANGED vars => MachineInv'
    BY DEF MachineInv, MachineTrailAgrees, Last, Ending, vars, runVars, exitVars, ledgerVars,
           machineVars, attemptVars
  <1>3. TypeInv /\ MachineInv /\ [Next]_vars => MachineInv'
    BY <1>2, MachinePreserved
  <1>4. QED
    BY <1>1, <1>3, CoordinatorTypes, PTL DEF Spec

\* What a run record repeats of the states is what the machine went through
\* (state.RunStateMachine.transition, records._validate_completion).
THEOREM MachineTrail == Spec => []MachineTrailAgrees
  <1>1. MachineInv => MachineTrailAgrees
    BY DEF MachineInv
  <1>2. QED
    BY <1>1, OneHistory, PTL

-------------------------------------------------------------------------------
(* What a decision to go on leaves behind *)

Trying == Proposing \/ Attempting \/ pc \in {"restage", "revise"}

HardStopInv ==
    /\ Trying =>
          /\ \A f \in findings : /\ f.severity \notin {"blocking", "escalation"}
                                 /\ f.refs \subseteq evidenceIds
          /\ \A i \in DOMAIN sessions : DeniedActions(sessions[i]) = {}
    /\ (Trying /\ attempt > 1) \/ pc \in {"restage", "revise"} =>
          TaskContract.required # {} /\ ~TaskContract.unresolved
    /\ pc \in {"assess", "decide"} /\ DeniedActions(session) # {} =>
          \E f \in fresh : f.severity = "blocking"

\* The reasons name whatever stood against the attempt at that revision.
Explained(reasons, before) ==
    LET Named(prefixes) == {reason[2] : reason \in {r \in reasons : r[1] \in prefixes}}
        About(c) == {i \in DOMAIN evidence :
                        evidence[i].check = c /\ evidence[i].revision = before}
    IN  /\ \A c \in TaskContract.required \ Named({"missing", "stale", "failed"}) :
              \E i \in About(c) : evidence[i].passed /\ \A j \in About(c) : j <= i
        /\ \A f \in fresh : f.severity = "revision" => f.id \in Named({"finding.revision"})

FeedbackInv ==
    /\ pc \in {"contract", "triage"} => attempt = 1
    /\ pc \in {"restage", "revise"} => Explained(decision.reasons, proposal.revision)
    /\ pc = "propose" /\ attempt > 1 => Explained(feedback, Last(proposals).revision)

LEMMA MoveCases ==
    ASSUME Move
    PROVE  ContractTask \/ Triage \/ MarkProposed \/ ValidateAction \/ Assess \/ Export
  BY DEF ContractTask, Triage, MarkProposed, ValidateAction, Assess, Export, Move

\* An id once recorded stays so.
LEMMA IdsGrow ==
    ASSUME TypeInv, Next
    PROVE  evidenceIds \subseteq evidenceIds'
  BY LedgerStep
     DEF RevisionStep, RecordRevision, RecordRevisionClockFails, PlainEvent, ToolStep, ToolAppend,
         ReportStep, RecordEvidence, RecordEvidenceClockFails, ProposalStep, RecordProposal,
         ledgerVars

\* The steps to a decision, and those from there to the next request.
LEMMA AssessSteps ==
    ASSUME TypeInv, Next, pc' \in {"assess", "decide"}
    PROVE  Assess \/ \E late \in BOOLEAN : CollectFindings(late)
  <1>1. ~(Quit \/ Leave \/ RecordTheProposal \/ Execute \/ ToolFails \/ RecordReport
             \/ DecideAttempt \/ Restage \/ Revise \/ EvidenceClockRaises \/ RevisionClockRaises)
    BY DEF Quit, Leave, BuildRecord, Finish, ArtifactDecays, Done, CloseSnapshot, vars, Ending,
           RecordTheProposal, Execute, ToolFails, RecordReport, DecideAttempt, Restage, Revise,
           EvidenceClockRaises, RevisionClockRaises, Raise
  <1>2. ~(\/ \E result \in Digests : \E n \in 1..attempt : Propose(n, result)
          \/ \E allowed \in BOOLEAN : RequestTool(allowed)
          \/ \E passed \in BOOLEAN : ObserveTool(passed)
          \/ \E r \in Reports : VerifierReturns(r)
          \/ \E digest \in Digests : Drift(digest))
    BY DEF Propose, RequestTool, ObserveTool, VerifierReturns, Drift
  <1>3. Move => Assess
    BY MoveCases DEF ContractTask, Triage, MarkProposed, ValidateAction, Export, Enter
  <1>4. QED
    BY <1>1, <1>2, <1>3, StepIsOneOf

LEMMA RetrySteps ==
    ASSUME TypeInv, Next, pc' \in {"restage", "revise", "propose"}
    PROVE  \/ Triage \/ DecideAttempt \/ Restage \/ Revise
           \/ \E digest \in Digests : Drift(digest)
  <1>1. ~(Quit \/ Leave \/ RecordTheProposal \/ Execute \/ ToolFails \/ RecordReport
             \/ EvidenceClockRaises \/ RevisionClockRaises)
    BY DEF Quit, Leave, BuildRecord, Finish, ArtifactDecays, Done, CloseSnapshot, vars, Ending,
           RecordTheProposal, Execute, ToolFails, RecordReport,
           EvidenceClockRaises, RevisionClockRaises, Raise
  <1>2. ~(\/ \E result \in Digests : \E n \in 1..attempt : Propose(n, result)
          \/ \E allowed \in BOOLEAN : RequestTool(allowed)
          \/ \E passed \in BOOLEAN : ObserveTool(passed)
          \/ \E r \in Reports : VerifierReturns(r)
          \/ \E late \in BOOLEAN : CollectFindings(late))
    BY DEF Propose, RequestTool, ObserveTool, VerifierReturns, CollectFindings
  <1>3. Move => Triage
    BY MoveCases DEF ContractTask, Assess, MarkProposed, ValidateAction, Export, Enter
  <1>4. QED
    BY <1>1, <1>2, <1>3, StepIsOneOf

\* What the decision of an attempt leaves as it was, and what it makes of it.
LEMMA DecisionStep ==
    ASSUME TypeInv, DecideAttempt
    PROVE  /\ decision' = Decide(TaskContract, fresh)
           /\ UNCHANGED <<revision, evidence, evidenceIds, proposalIds, session, budget, attempt,
                         proposal, fresh, feedback, snapshots, failure, outcome, record>>
           /\ pc = "decide" /\ pc' \in {"restage", "export"}
           /\ pc' = "restage" <=> decision'.verdict = "revise" /\ attempt < budget
           /\ Len(proposals) = attempt - 1 /\ proposal \in Proposal
           /\ fresh \in SUBSET Finding /\ findings' = findings \cup fresh
           /\ DOMAIN proposals = 1..(attempt - 1) /\ DOMAIN proposals' = 1..attempt
           /\ DOMAIN sessions = 1..(attempt - 1) /\ DOMAIN sessions' = 1..attempt
           /\ \A i \in 1..(attempt - 1) :
                 proposals'[i] = proposals[i] /\ sessions'[i] = sessions[i]
           /\ proposals'[attempt] = proposal /\ sessions'[attempt] = session
           /\ Len(proposals') = attempt /\ Len(sessions') = attempt
  <1>1. /\ pc = "decide" /\ Len(proposals) = attempt - 1 /\ Len(sessions) = attempt - 1
        /\ proposal \in Proposal
    BY DEF TypeInv, Places, DecideAttempt, Attempting
  <1>2. /\ proposals \in Seq(Proposal) /\ sessions \in Seq(Session) /\ session \in Session
        /\ attempt \in Nat /\ 1 <= attempt /\ fresh \in SUBSET Finding
    BY Numbers DEF TypeInv, TypeOK
  <1>3. /\ proposals' = Append(proposals, proposal) /\ sessions' = Append(sessions, session)
        /\ pc' = IF MayRetry(Decide(TaskContract, fresh)) THEN "restage" ELSE "export"
        /\ decision' = Decide(TaskContract, fresh) /\ findings' = findings \cup fresh
    BY DEF DecideAttempt
  <1>4. /\ DOMAIN proposals = 1..(attempt - 1) /\ DOMAIN proposals' = 1..attempt
        /\ \A i \in 1..(attempt - 1) : proposals'[i] = proposals[i]
        /\ proposals'[attempt] = proposal /\ Len(proposals') = attempt
    BY <1>1, <1>2, <1>3
  <1>5. /\ DOMAIN sessions = 1..(attempt - 1) /\ DOMAIN sessions' = 1..attempt
        /\ \A i \in 1..(attempt - 1) : sessions'[i] = sessions[i]
        /\ sessions'[attempt] = session /\ Len(sessions') = attempt
    BY <1>1, <1>2, <1>3
  <1>6. UNCHANGED <<revision, evidence, evidenceIds, proposalIds, session, budget, attempt,
                    proposal, fresh, feedback, snapshots, failure, outcome, record>>
    BY DEF DecideAttempt, ApplyDecision, Transition, RecordStateTransition, verifyVars, hostVars,
           exitVars
  <1>7. pc' = "restage" <=> decision'.verdict = "revise" /\ attempt < budget
    BY <1>3 DEF MayRetry
  <1>8. QED
    BY <1>1, <1>2, <1>3, <1>4, <1>5, <1>6, <1>7

LEMMA HardStopPreserved ==
    ASSUME TypeInv, HardStopInv, Next
    PROVE  HardStopInv'
  <1> USE DEF Trying, Proposing, Attempting
  <1>1. evidenceIds \subseteq evidenceIds'
    BY IdsGrow
  <1>2. pc' \in {"assess", "decide"} /\ DeniedActions(session)' # {} =>
           (\E f \in fresh : f.severity = "blocking")'
    <2>1. ASSUME NEW late \in BOOLEAN, CollectFindings(late), DeniedActions(session) # {}
          PROVE  \E f \in fresh' : f.severity = "blocking"
      <3>1. \E f \in BlockingFindings : f.severity = "blocking"
        <4>1. PICK a \in DeniedActions(session) : TRUE
          BY <2>1
        <4> DEFINE f == [id |-> <<"denied", attempt>>, severity |-> "blocking",
                         refs |-> {AuthorizationId[a]}]
        <4>2. f \in BlockingFindings
          BY DEF BlockingFindings
        <4>3. f.severity = "blocking"
          OBVIOUS
        <4>4. QED
          BY <4>2, <4>3
      <3>2. QED
        BY <2>1, <3>1 DEF CollectFindings, AttemptFindings
    <2>2. ASSUME NEW late \in BOOLEAN, CollectFindings(late) PROVE UNCHANGED session
      BY <2>2 DEF CollectFindings
    <2>3. Assess => pc = "assess" /\ UNCHANGED <<session, fresh>>
      BY DEF Assess, Enter, runVars, verifyVars
    <2>4. QED
      BY <2>1, <2>2, <2>3, AssessSteps DEF HardStopInv, DeniedActions
  <1>3. CASE Ending'
    BY <1>2, <1>3 DEF HardStopInv, Ending
  <1>4. CASE Move
    <2>1. UNCHANGED attemptVars
      BY <1>4 DEF Move, runVars
    <2>2. Trying => HardStopInv'
      BY <1>1, <1>2, <1>4, <2>1, MoveCases
         DEF HardStopInv, attemptVars, ContractTask, Triage, MarkProposed, ValidateAction, Assess,
             Export, Enter
    <2>3. ~Trying => ~Trying' /\ pc' \notin {"restage", "revise"}
      BY <1>4, MoveCases
         DEF ContractTask, Triage, MarkProposed, ValidateAction, Assess, Export, Enter
    <2>4. QED
      BY <1>2, <2>2, <2>3 DEF HardStopInv
  <1>5. CASE Working
    BY <1>1, <1>2, <1>5 DEF HardStopInv, Working, attemptVars
  <1>6. ASSUME NEW result \in Digests, NEW n \in 1..attempt, Propose(n, result)
        PROVE  HardStopInv'
    BY <1>1, <1>2, <1>6 DEF Propose, HardStopInv
  <1>7. CASE DecideAttempt
    <2> DEFINE d == Decide(TaskContract, fresh)
    <2>1. CASE pc' = "restage"
      <3>1. d.verdict = "revise"
        BY <1>7, <2>1, DecisionStep
      <3>2. /\ TaskContract.required # {} /\ ~TaskContract.unresolved /\ Dangling(fresh) = {}
            /\ OfSeverity(fresh, "blocking") = {} /\ OfSeverity(fresh, "escalation") = {}
        BY <3>1, RevisionNamesAll
      <3>3. \A f \in fresh : /\ f.severity \notin {"blocking", "escalation"}
                             /\ f.refs \subseteq evidenceIds
        BY <3>2 DEF Dangling, OfSeverity
      <3>4. DeniedActions(session) = {}
        BY <1>7, <3>3, DecisionStep DEF HardStopInv
      <3>5. /\ \A f \in findings : /\ f.severity \notin {"blocking", "escalation"}
                                    /\ f.refs \subseteq evidenceIds
            /\ \A i \in DOMAIN sessions : DeniedActions(sessions[i]) = {}
        BY <1>7, DecisionStep DEF HardStopInv
      <3>6. \A i \in DOMAIN sessions' : DeniedActions(sessions'[i]) = {}
        <4>1. attempt \in Nat
          BY Numbers
        <4>2. \A i \in 1..attempt : i = attempt \/ i \in 1..(attempt - 1)
          BY <4>1
        <4>3. QED
          BY <1>7, <3>4, <3>5, <4>2, DecisionStep
      <3>7. QED
        BY <1>1, <1>2, <1>7, <2>1, <3>2, <3>3, <3>5, <3>6, DecisionStep
           DEF HardStopInv, DeniedActions
    <2>2. CASE pc' = "export"
      BY <1>2, <2>2 DEF HardStopInv
    <2>3. QED
      BY <1>7, <2>1, <2>2, DecisionStep
  <1>8. CASE Restage
    BY <1>1, <1>2, <1>8 DEF Restage, HardStopInv, attemptVars
  <1>9. CASE Revise
    BY <1>1, <1>2, <1>9 DEF Revise, HardStopInv
  <1>10. QED
    BY <1>3, <1>4, <1>5, <1>6, <1>7, <1>8, <1>9, GoingSteps

\* While the run may still go on, nothing hard stands against it.
THEOREM HardStopsStop == Spec => []HardStopInv
  <1>1. Init => HardStopInv
    BY DEF Init, HardStopInv
  <1>2. HardStopInv /\ UNCHANGED vars => HardStopInv'
    BY DEF HardStopInv, Trying, Proposing, Attempting, DeniedActions, vars, runVars, attemptVars,
           verifyVars, ledgerVars
  <1>3. TypeInv /\ HardStopInv /\ [Next]_vars => HardStopInv'
    BY <1>2, HardStopPreserved
  <1>4. QED
    BY <1>1, <1>3, CoordinatorTypes, PTL DEF Spec

\* A further attempt is begun only while nothing hard stands against the run: no
\* attempt so far was denied an action or had a finding that blocks, escalates
\* or cites what the ledger does not know (decide, coordinator.may_retry).
THEOREM NoRetryAfterAHardStop == Spec => []NoRetryPastAHardStop
  <1>1. HardStopInv => NoRetryPastAHardStop
    BY DEF HardStopInv, NoRetryPastAHardStop, Trying, Proposing
  <1>2. QED
    BY <1>1, HardStopsStop, PTL

-------------------------------------------------------------------------------
(* What the next request is told *)

LEMMA ExplainedStays ==
    ASSUME NEW reasons, NEW before, UNCHANGED <<evidence, fresh>>
    PROVE  Explained(reasons, before) => Explained(reasons, before)'
  BY DEF Explained

\* What a request for revision says of the attempt it was decided on.
LEMMA RevisionExplains ==
    ASSUME LedgerTypeOK, Decide(TaskContract, fresh).verdict = "revise"
    PROVE  Explained(Decide(TaskContract, fresh).reasons, revision)
  <1> DEFINE reasons == Decide(TaskContract, fresh).reasons
             Named(prefixes) == {reason[2] : reason \in {r \in reasons : r[1] \in prefixes}}
             About(c) == {i \in DOMAIN evidence :
                             evidence[i].check = c /\ evidence[i].revision = revision}
  <1>1. ASSUME NEW c \in TaskContract.required \ Named({"missing", "stale", "failed"})
        PROVE  \E i \in About(c) : evidence[i].passed /\ \A j \in About(c) : j <= i
    <2>1. CheckStatus(c) = "passed"
      BY <1>1, UnnamedChecksPassed
    <2>2. PICK i \in DOMAIN evidence :
             /\ evidence[i].passed /\ evidence[i].check = c /\ evidence[i].revision = revision
             /\ \A j \in DOMAIN evidence :
                   j > i => ~(evidence[j].check = c /\ evidence[j].revision = revision)
      BY <2>1, PassedMeansLastPassed
    <2>3. DOMAIN evidence \subseteq Nat
      BY DEF LedgerTypeOK
    <2>4. \A j \in About(c) : j <= i
      BY <2>2, <2>3
    <2>5. QED
      BY <2>2, <2>4
  <1>2. ASSUME NEW f \in fresh, f.severity = "revision" PROVE f.id \in Named({"finding.revision"})
    BY <1>2, RevisionFindingsNamed
  <1>3. QED
    BY <1>1, <1>2 DEF Explained

LEMMA FeedbackPreserved ==
    ASSUME TypeInv, ChainInv, FeedbackInv, Next
    PROVE  FeedbackInv'
  <1>1. pc' \in {"contract", "triage"} => attempt' = 1
    <2>1. pc' \in {"contract", "triage"} => ~Ending' /\ ~Working
      BY DEF Ending, Working, Attempting
    <2>2. Move /\ pc' \in {"contract", "triage"} => ContractTask
      BY MoveCases DEF Triage, Assess, MarkProposed, ValidateAction, Export, Enter
    <2>3. ContractTask => attempt' = attempt /\ pc = "contract"
      BY DEF ContractTask, Enter, runVars, attemptVars
    <2>4. QED
      BY <2>1, <2>2, <2>3, GoingSteps
         DEF FeedbackInv, DecideAttempt, Restage, Revise, Propose
  <1>2. CASE Triage
    BY <1>1, <1>2 DEF Triage, Enter, FeedbackInv, runVars, attemptVars
  <1>3. CASE DecideAttempt
    <2>1. CASE pc' = "restage"
      <3>1. decision' = Decide(TaskContract, fresh) /\ decision'.verdict = "revise"
        BY <1>3, <2>1, DecisionStep
      <3>2. revision = proposal.revision /\ UNCHANGED <<evidence, fresh, proposal>>
        BY <1>3, DecisionStep DEF ChainInv, Attempting
      <3>3. Explained(decision'.reasons, proposal.revision)
        BY <3>1, <3>2, RevisionExplains DEF TypeInv, TypeOK
      <3>4. Explained(decision.reasons, proposal.revision)'
        BY <3>2, <3>3 DEF Explained
      <3>5. QED
        BY <1>1, <2>1, <3>4 DEF FeedbackInv
    <2>2. QED
      BY <1>1, <1>3, <2>1, DecisionStep DEF FeedbackInv
  <1>4. ASSUME Restage \/ \E digest \in Digests : Drift(digest) PROVE FeedbackInv'
    <2>1. UNCHANGED <<evidence, fresh, decision, proposal>>
      BY <1>4 DEF Restage, Drift, ledgerVars, verifyVars, attemptVars
    <2>2. pc' # "propose" /\ (pc' \in {"restage", "revise"} => pc = "restage")
      BY <1>4 DEF Restage, Drift
    <2>3. QED
      BY <1>1, <2>1, <2>2 DEF FeedbackInv, Explained
  <1>5. CASE Revise
    <2>1. UNCHANGED <<evidence, fresh, proposals>> /\ feedback' = decision.reasons
          /\ pc = "revise" /\ pc' = "propose"
      BY <1>5 DEF Revise, RecordRevision, verifyVars
    <2>2. Last(proposals) = proposal
      BY <2>1 DEF TypeInv, Places, Judged, Last
    <2>3. Explained(feedback', Last(proposals').revision)
      BY <2>1, <2>2 DEF FeedbackInv
    <2>4. Explained(feedback, Last(proposals).revision)'
      BY <2>1, <2>3 DEF Explained
    <2>5. QED
      BY <1>1, <2>1, <2>4 DEF FeedbackInv
  <1>6. CASE pc' \notin {"restage", "revise", "propose"}
    BY <1>1, <1>6 DEF FeedbackInv
  <1>7. QED
    BY <1>2, <1>3, <1>4, <1>5, <1>6, RetrySteps

\* The feedback of a request names each finding that asked for the revision and
\* each required check that did not end passed at the last attempt's revision
\* (decide, the current_feedback of run_bounded_attempts).
THEOREM FeedbackIsComplete == Spec => []FeedbackNamesWhatFailed
  <1>1. Init => FeedbackInv
    BY DEF Init, FeedbackInv
  <1>2. FeedbackInv /\ UNCHANGED vars => FeedbackInv'
    BY DEF FeedbackInv, Explained, Last, vars, runVars, attemptVars, verifyVars, ledgerVars
  <1>3. TypeInv /\ ChainInv /\ FeedbackInv /\ [Next]_vars => FeedbackInv'
    BY <1>2, FeedbackPreserved
  <1>4. FeedbackInv => FeedbackNamesWhatFailed
    BY DEF FeedbackInv, FeedbackNamesWhatFailed, Explained
  <1>5. QED
    BY <1>1, <1>3, <1>4, CoordinatorTypes, AttemptsFollowOn, PTL DEF Spec

-------------------------------------------------------------------------------
(* What the last decision was worth *)

Concluded == pc \in {"export", "build"} \/ (Ending /\ failure = "none")

\* The decision is about the last proposal on the list and its findings.
Settled ==
    Judged \/ Concluded =>
        /\ decision.verdict \in Verdicts
        /\ decision.refs \subseteq evidenceIds
        /\ Len(proposals) = attempt
        /\ proposal # NoProposal /\ revision = proposal.revision
        /\ fresh \subseteq findings

Conclusive ==
    Concluded =>
        /\ decision.verdict = "accept" =>
              Earned(TaskContract, fresh) /\ DeniedActions(Last(sessions)) = {}
        /\ decision.verdict = "revise" => attempt = budget

Returned ==
    /\ outcome = "completed" =>
          /\ failure = "none"
          /\ record = RunRecord(decision.verdict, decision.reasons, proposals, sessions, findings)
    /\ outcome = "failed" => record.verdict = "failed"

VerdictInv == Settled /\ Conclusive /\ Returned

\* Nothing the last decision was made from changes.
Standstill ==
    UNCHANGED <<revision, evidence, evidenceIds, attemptVars, verifyVars, session, failure,
                outcome, record>>

LEMMA JudgedSteps ==
    ASSUME TypeInv, Next, Judged'
    PROVE  \/ DecideAttempt
           \/ /\ Standstill /\ Judged /\ pc' # "export"
              /\ pc' = "build" => pc \in {"export", "build"}
  <1> DEFINE Stays == /\ Standstill /\ Judged /\ pc' # "export"
                      /\ pc' = "build" => pc \in {"export", "build"}
  <1> USE DEF Judged
  <1>1. ~(Quit \/ RecordTheProposal \/ Execute \/ ToolFails \/ RecordReport
             \/ Revise \/ EvidenceClockRaises \/ RevisionClockRaises)
    BY DEF Quit, Ending, RecordTheProposal, Execute, ToolFails, RecordReport, Revise,
           EvidenceClockRaises, RevisionClockRaises, Raise
  <1>2. ~(\/ \E result \in Digests : \E n \in 1..attempt : Propose(n, result)
          \/ \E allowed \in BOOLEAN : RequestTool(allowed)
          \/ \E passed \in BOOLEAN : ObserveTool(passed)
          \/ \E r \in Reports : VerifierReturns(r)
          \/ \E late \in BOOLEAN : CollectFindings(late))
    BY DEF Propose, RequestTool, ObserveTool, VerifierReturns, CollectFindings
  <1>3. CASE Move
    <2>1. Export
      BY <1>3, MoveCases DEF ContractTask, Triage, Assess, MarkProposed, ValidateAction, Enter
    <2>2. pc = "export" /\ pc' = "build" /\ UNCHANGED <<revision, evidence, evidenceIds>>
      BY <2>1 DEF Export, Enter, Transition, RecordStateTransition
    <2>3. QED
      BY <2>1, <2>2 DEF Export, Enter, Standstill, runVars, exitVars
  <1>4. CASE Restage
    BY <1>4 DEF Restage, Standstill, ledgerVars, exitVars
  <1>5. ASSUME NEW digest \in Digests, Drift(digest) PROVE Stays
    BY <1>5 DEF Drift, Standstill, ledgerVars, exitVars
  <1>6. CASE Leave
    <2>1. ArtifactDecays \/ \E i \in DOMAIN snapshots : CloseSnapshot(i)
      BY <1>6, LeavingSteps DEF Finish, Done, vars, Leave, Ending, BuildRecord
    <2>2. ~\E i \in DOMAIN snapshots : CloseSnapshot(i)
      BY DEF CloseSnapshot
    <2>3. QED
      BY <2>1, <2>2 DEF ArtifactDecays, Standstill, ledgerVars, exitVars
  <1>7. QED
    BY <1>1, <1>2, <1>3, <1>4, <1>5, <1>6, StepIsOneOf

\* Once the attempts are over the ledger and the lists rest.
LEMMA LeavingKeeps ==
    ASSUME Leave
    PROVE  /\ UNCHANGED <<revision, evidence, evidenceIds, events, transitions, attemptVars,
                         verifyVars, session>>
           /\ \/ Finish
              \/ UNCHANGED <<failure, outcome, record>> /\ (Done \/ pc' # "done")
  BY LeavingSteps DEF Leave, ledgerVars, machineVars, Done, vars, runVars, exitVars

LEMMA ReturnedPreserved ==
    ASSUME TypeInv, Returned, Next
    PROVE  Returned'
  <1>1. Places /\ Places'
    BY PlacesPreserved DEF TypeInv
  <1>2. CASE pc' # "done"
    BY <1>1, <1>2 DEF Places, Returned
  <1>3. CASE pc' = "done"
    <2>1. Finish \/ Done
      <3>1. Leave
        BY <1>3, EndingSteps DEF Ending, Quit, EvidenceClockRaises, RevisionClockRaises, Raise
      <3>2. QED
        BY <1>3, <3>1, LeavingSteps
    <2>2. CASE Finish
      <3>1. UNCHANGED <<decision, proposals, sessions, findings, events, evidence>>
        BY <2>2 DEF Finish, attemptVars, ledgerVars
      <3>2. CASE ReturnRecord
        <4>1. record' = RunRecord(decision.verdict, decision.reasons, proposals, sessions, findings)
          BY <3>2 DEF ReturnRecord
        <4>2. record' = RunRecord(decision.verdict, decision.reasons, proposals, sessions, findings)'
          BY <3>1, <4>1 DEF RunRecord, EventRecord
        <4>3. failure' = "none" /\ outcome' = "completed"
          BY <3>2 DEF ReturnRecord
        <4>4. QED
          BY <4>2, <4>3 DEF Returned
      <3>3. CASE RaiseWithRecord
        BY <3>3 DEF RaiseWithRecord, RunRecord, Returned
      <3>4. CASE RaiseWithoutRecord
        BY <3>4 DEF RaiseWithoutRecord, Returned
      <3>5. QED
        BY <2>2, <3>2, <3>3, <3>4 DEF Finish
    <2>3. CASE Done
      BY <2>3 DEF Done, Returned, RunRecord, EventRecord, vars, runVars, exitVars, attemptVars,
                  ledgerVars
    <2>4. QED
      BY <2>1, <2>2, <2>3
  <1>4. QED
    BY <1>2, <1>3

LEMMA VerdictPreserved ==
    ASSUME TypeInv, TrailInv, ChainInv, HardStopInv, VerdictInv, Next
    PROVE  VerdictInv'
  <1> USE DEF Judged
  <1>1. Places /\ Places' /\ Returned'
    BY PlacesPreserved, ReturnedPreserved DEF TypeInv, VerdictInv
  <1>2. ASSUME UNCHANGED <<revision, evidence, evidenceIds, attemptVars, verifyVars>>,
               Judged' \/ Concluded' => Judged \/ Concluded,
               Concluded' => Concluded
        PROVE  Settled' /\ Conclusive'
    <2>1. Settled'
      BY <1>2 DEF VerdictInv, Settled, attemptVars, verifyVars
    <2>2. Earned(TaskContract, fresh) => Earned(TaskContract, fresh)'
      BY <1>2 DEF Earned, verifyVars
    <2>3. UNCHANGED <<decision, sessions, attempt, budget>>
      BY <1>2 DEF attemptVars
    <2>4. DeniedActions(Last(sessions))' = DeniedActions(Last(sessions))
      BY <2>3 DEF DeniedActions, Last
    <2>5. Conclusive'
      BY <1>2, <2>2, <2>3, <2>4 DEF VerdictInv, Conclusive
    <2>6. QED
      BY <2>1, <2>5
  <1>3. CASE Ending'
    <2>1. ~Judged'
      BY <1>3 DEF Ending
    <2>2. CASE Leave
      <3>1. failure' = "none" => failure = "none"
        BY <2>2, LeavingKeeps DEF Finish, ReturnRecord
      <3>2. ~Ending => pc = "build"
        BY <2>2 DEF Leave
      <3>3. QED
        BY <1>1, <1>2, <2>1, <2>2, <3>1, <3>2, LeavingKeeps DEF Concluded, VerdictInv, Ending
    <2>3. CASE Quit \/ EvidenceClockRaises \/ RevisionClockRaises
      <3>1. failure' # "none"
        BY <2>3 DEF Quit, QuitKinds, EvidenceClockRaises, RevisionClockRaises, Raise
      <3>2. ~Concluded'
        BY <1>3, <3>1 DEF Concluded, Ending
      <3>3. QED
        BY <1>1, <2>1, <3>2 DEF VerdictInv, Settled, Conclusive
    <2>4. QED
      BY <1>3, <2>2, <2>3, EndingSteps
  <1>4. CASE DecideAttempt
    <2> DEFINE d == Decide(TaskContract, fresh)
    <2>1. LedgerTypeOK /\ EvidenceIdsAgree /\ TaskContract \in Contract /\ attempt \in Nat
      BY Numbers, CoordinatorAssumption DEF TypeInv, TypeOK, TrailInv
    <2>2. /\ decision' = d /\ fresh \in SUBSET Finding /\ findings' = findings \cup fresh
          /\ UNCHANGED <<revision, evidence, evidenceIds, fresh, attempt, budget, proposal>>
          /\ Len(proposals') = attempt /\ proposal \in Proposal
      BY <1>4, DecisionStep
    <2>3. d.verdict \in Verdicts /\ d.refs \subseteq evidenceIds
      BY <2>1, <2>2, DecisionType, DecisionCites
    <2>4. proposal # NoProposal /\ revision = proposal.revision
      BY <1>4, <2>2, DecisionStep DEF ChainInv, Attempting, Proposal, NoProposal
    <2>5. Settled'
      BY <2>2, <2>3, <2>4 DEF Settled
    <2>6. ASSUME d.verdict = "accept"
          PROVE  Earned(TaskContract, fresh)' /\ DeniedActions(Last(sessions))' = {}
      <3>1. Earned(TaskContract, fresh)
        BY <2>1, <2>2, <2>6, AcceptanceIsEarned
      <3>2. Earned(TaskContract, fresh)'
        BY <2>2, <3>1 DEF Earned
      <3>3. \A f \in fresh : f.severity # "blocking"
        BY <3>1 DEF Earned
      <3>4. DeniedActions(session) = {}
        BY <1>4, <3>3, DecisionStep DEF HardStopInv
      <3>5. Last(sessions') = session
        BY <1>4, DecisionStep DEF Last
      <3>6. DeniedActions(Last(sessions))' = DeniedActions(session)
        BY <3>5 DEF DeniedActions, Last
      <3>7. QED
        BY <3>2, <3>4, <3>6
    <2>7. Concluded' /\ d.verdict = "revise" => attempt = budget
      <3>1. Concluded' => pc' = "export"
        BY <1>4, DecisionStep DEF Concluded, Ending
      <3>2. attempt <= budget /\ budget \in Nat
        BY Numbers
      <3>3. QED
        BY <1>4, <2>1, <3>1, <3>2, DecisionStep
    <2>8. QED
      BY <1>1, <2>2, <2>5, <2>6, <2>7 DEF VerdictInv, Conclusive
  <1>5. CASE Judged' /\ ~DecideAttempt
    <2>1. Standstill /\ Judged /\ (pc' = "build" => pc \in {"export", "build"}) /\ pc' # "export"
      BY <1>5, JudgedSteps
    <2>2. Concluded' => Concluded
      BY <1>5, <2>1 DEF Concluded, Ending
    <2>3. QED
      BY <1>1, <1>2, <2>1, <2>2 DEF Standstill, VerdictInv
  <1>6. CASE ~Judged' /\ ~Ending'
    BY <1>1, <1>6 DEF VerdictInv, Settled, Conclusive, Concluded
  <1>7. QED
    BY <1>3, <1>4, <1>5, <1>6

\* The decision a run ends with is the policy's on its last attempt, and the
\* caller's record says so (coordinator.decide, build_run_record).
THEOREM VerdictsStand == Spec => []VerdictInv
  <1>1. Init => VerdictInv
    BY DEF Init, VerdictInv, Settled, Conclusive, Returned, Concluded, Judged, Ending
  <1>2. VerdictInv /\ UNCHANGED vars => VerdictInv'
    <2> SUFFICES ASSUME VerdictInv, UNCHANGED vars PROVE VerdictInv'
      OBVIOUS
    <2>1. /\ UNCHANGED <<ledgerVars, attemptVars, verifyVars, exitVars, pc>>
      BY DEF vars, runVars
    <2>2. Settled'
      BY <2>1 DEF VerdictInv, Settled, Concluded, Judged, Ending, ledgerVars, attemptVars,
                  verifyVars, exitVars
    <2>3. Conclusive'
      BY <2>1 DEF VerdictInv, Conclusive, Concluded, Ending, Earned, DeniedActions, Last,
                  ledgerVars, attemptVars, verifyVars, exitVars
    <2>4. RunRecord(decision.verdict, decision.reasons, proposals, sessions, findings)'
            = RunRecord(decision.verdict, decision.reasons, proposals, sessions, findings)
      BY <2>1 DEF RunRecord, EventRecord, ledgerVars, attemptVars
    <2>5. Returned'
      BY <2>1, <2>4 DEF VerdictInv, Returned, exitVars
    <2>6. QED
      BY <2>2, <2>3, <2>5 DEF VerdictInv
  <1>3. TypeInv /\ TrailInv /\ ChainInv /\ HardStopInv /\ VerdictInv /\ [Next]_vars => VerdictInv'
    BY <1>2, VerdictPreserved
  <1>4. QED
    BY <1>1, <1>3, CoordinatorTypes, TrailAgrees, AttemptsFollowOn, HardStopsStop, PTL DEF Spec

\* A reader of the record of an accepted run finds, for each required check, that
\* the last evidence event of that check at the last proposal's revision is a
\* pass, that no finding of that attempt objects and that no action was denied
\* (decide, build_run_record).
THEOREM AcceptanceIsProven == Spec => []AcceptedRunIsProven
  <1>1. TypeInv /\ TrailInv /\ ChainInv /\ VerdictInv => AcceptedRunIsProven
    <2> SUFFICES ASSUME TypeInv, TrailInv, ChainInv, VerdictInv,
                        outcome = "completed", record.verdict = "accept"
                 PROVE  AcceptedRunIsProven
      BY DEF AcceptedRunIsProven
    <2> DEFINE last == Last(record.proposals)
               ChecksOf(ref) == {e.check : e \in {x \in Range(record.evidence) : x.id = ref}}
               About(c) == {n \in DOMAIN record.events :
                              /\ record.events[n].kind = "evidence"
                              /\ record.events[n].revision = last.revision
                              /\ c \in ChecksOf(record.events[n].ref)}
    <2>1. /\ failure = "none" /\ pc = "done"
          /\ record = RunRecord(decision.verdict, decision.reasons, proposals, sessions, findings)
      BY DEF VerdictInv, Returned, TypeInv, Places
    <2>2. /\ decision.verdict = "accept" /\ record.proposals = proposals
          /\ record.evidence = evidence /\ record.findings = findings
          /\ record.sessions = sessions
          /\ record.events = [n \in DOMAIN events |-> EventRecord(events[n])]
      BY <2>1 DEF RunRecord
    <2>3. /\ Earned(TaskContract, fresh) /\ DeniedActions(Last(sessions)) = {}
          /\ Len(proposals) = attempt /\ proposal # NoProposal
          /\ revision = proposal.revision /\ fresh \subseteq findings
      BY <2>1, <2>2 DEF VerdictInv, Settled, Conclusive, Concluded, Ending
    <2>4. last = proposal /\ proposal.attempt = attempt
      BY <2>2, <2>3 DEF TypeInv, Places, Last
    <2>5. /\ EvidenceIdsAgree /\ Told(evidence, events) /\ AllTold(evidence, events)
      BY <2>1 DEF TrailInv
    <2>6. /\ evidence \in Seq(Evidence) /\ events \in Seq(LedgerEvent)
          /\ DOMAIN events \subseteq Nat /\ DOMAIN evidence \subseteq Nat
      BY DEF TypeInv, TypeOK, LedgerTypeOK
    <2>7. \A n \in DOMAIN events :
             /\ n \in DOMAIN record.events
             /\ events[n].kind = "evidence" =>
                   /\ record.events[n].kind = "evidence"
                   /\ record.events[n].revision = events[n].revision
                   /\ record.events[n].ref = events[n].ref
                   /\ (\E i \in DOMAIN evidence :
                          evidence[i].id = events[n].ref /\ evidence[i].passed)
                        => record.events[n].status = "passed"
             /\ record.events[n].kind = "evidence" => events[n].kind = "evidence"
      BY <2>2 DEF EventRecord
    <2>8. DOMAIN record.events = DOMAIN events
      BY <2>2
    <2>9. \A ref, c : c \in ChecksOf(ref) <=>
             \E i \in DOMAIN evidence : evidence[i].id = ref /\ evidence[i].check = c
      BY <2>2 DEF Range
    <2> HIDE DEF last, ChecksOf
    <2>10. ASSUME NEW c \in TaskContract.required
           PROVE  \E n \in About(c) :
                     record.events[n].status = "passed" /\ \A m \in About(c) : m <= n
      <3>1. PICK i \in DOMAIN evidence :
               /\ evidence[i].passed /\ evidence[i].check = c /\ evidence[i].revision = revision
               /\ \A j \in DOMAIN evidence :
                     j > i => ~(evidence[j].check = c /\ evidence[j].revision = revision)
        BY <2>3 DEF Earned
      <3>2. PICK n \in EvidenceEvents(events) : events[n].ref = evidence[i].id
        BY <2>5 DEF AllTold
      <3>3. n \in DOMAIN events /\ events[n].kind = "evidence"
        BY DEF EvidenceEvents
      <3>4. events[n].revision = revision
        <4>1. PICK k \in DOMAIN evidence :
                 evidence[k].id = events[n].ref /\ evidence[k].revision = events[n].revision
          BY <2>5 DEF Told
        <4>2. k = i
          BY <2>5, <3>2, <4>1 DEF EvidenceIdsAgree
        <4>3. QED
          BY <3>1, <4>1, <4>2
      <3>5. n \in About(c) /\ record.events[n].status = "passed"
        BY <2>3, <2>4, <2>7, <2>9, <3>1, <3>2, <3>3, <3>4
      <3>6. ASSUME NEW m \in About(c) PROVE m <= n
        <4>1. /\ m \in DOMAIN events /\ events[m].kind = "evidence"
              /\ events[m].revision = revision /\ c \in ChecksOf(events[m].ref)
          BY <2>3, <2>4, <2>7, <2>8
        <4>2. PICK j \in DOMAIN evidence : evidence[j].id = events[m].ref /\ evidence[j].check = c
          BY <2>9, <4>1
        <4>3. m \in EvidenceEvents(events)
          BY <4>1 DEF EvidenceEvents
        <4>4. PICK k \in DOMAIN evidence :
                 evidence[k].id = events[m].ref /\ evidence[k].revision = events[m].revision
          BY <2>5, <4>3 DEF Told
        <4>5. k = j
          BY <2>5, <4>2, <4>4 DEF EvidenceIdsAgree
        <4>6. ~(j > i)
          BY <3>1, <4>1, <4>2, <4>4, <4>5
        <4>7. n < m => i < j
          BY <2>5, <3>2, <4>2, <4>3 DEF Told
        <4>8. QED
          BY <2>6, <3>3, <4>1, <4>6, <4>7
      <3>7. QED
        BY <3>5, <3>6
    <2>11. /\ TaskContract.required # {} /\ ~TaskContract.unresolved
           /\ \A f \in fresh : f.severity \in {"info", "warning"} /\ f \in record.findings
      BY <2>2, <2>3 DEF Earned
    <2>12. last.attempt = attempt /\ DeniedActions(Last(record.sessions)) = {}
      BY <2>2, <2>3, <2>4
    <2>13. QED
      BY <2>10, <2>11, <2>12 DEF AcceptedRunIsProven, last, ChecksOf
  <1>2. QED
    BY <1>1, CoordinatorTypes, TrailAgrees, AttemptsFollowOn, VerdictsStand, PTL

-------------------------------------------------------------------------------
(* The promise of Supervision *)

\* Nothing stands for an attempt that has no evidence yet.
LEMMA NothingStands ==
    ASSUME TypeInv, \A i \in DOMAIN evidence : evidence[i].revision # revision
    PROVE  Standing = {}
  <1>1. \A c : CurrentEvidence(c) = {}
    BY DEF CurrentEvidence
  <1>2. \A c : CheckStatus(c) # "passed"
    BY <1>1 DEF CheckStatus
  <1>3. QED
    BY <1>2 DEF Standing

LEMMA PromiseStarts ==
    ASSUME Init
    PROVE  Promise!Init
  <1>1. TypeInv
    BY InitTypes
  <1>2. Standing = {}
    BY <1>1, NothingStands DEF Init, MachineInit
  <1>3. budget \in Nat \ {0} /\ attempt = 1 /\ CallerSees = "running"
    BY Numbers, <1>1 DEF Init, CallerSees
  <1>4. QED
    BY <1>2, <1>3 DEF Promise!Init

LEMMA StandingOfLedger ==
    ASSUME UNCHANGED <<revision, evidence>>
    PROVE  Standing' = Standing
  BY DEF Standing, CheckStatus, CurrentEvidence, LatestCurrent, EverRecorded

\* Each step of the coordinator is one that Supervision allows, or none.
LEMMA PromiseKept ==
    ASSUME TypeInv, TypeInv', AttemptInv, VerdictInv, VerdictInv', Next
    PROVE  [Promise!Next]_Promise!vars
  <1>1. Places /\ Places' /\ attempt \in Nat /\ UNCHANGED budget
    <2>1. UNCHANGED budget
      BY StepIsOneOf
         DEF Move, Quit, Leave, Propose, RecordTheProposal, Execute, RequestTool, ObserveTool,
             ToolFails, VerifierReturns, RecordReport, CollectFindings, DecideAttempt, Restage,
             Revise, EvidenceClockRaises, RevisionClockRaises, Drift, runVars, attemptVars
    <2>2. QED
      BY <2>1, Numbers DEF TypeInv
  <1>2. CASE Revise
    <2>1. /\ attempt' = attempt + 1 /\ attempt < budget /\ UNCHANGED <<evidence, outcome>>
          /\ revision' = RevisionOf(attempt + 1, CurrentSnapshot.source) /\ outcome = "running"
          /\ ~Ending
      BY <1>1, <1>2 DEF Revise, RecordRevision, NextRevision, Places, exitVars, Ending
    <2>2. \A i \in DOMAIN evidence : evidence[i].revision[1] \in 1..attempt
      BY DEF AttemptInv
    <2>3. revision'[1] = attempt + 1
      BY <2>1 DEF RevisionOf
    <2>4. \A i \in DOMAIN evidence : evidence[i].revision # revision'
      BY <1>1, <2>2, <2>3
    <2>5. (Standing = {})'
      <3>1. (\A i \in DOMAIN evidence : evidence[i].revision # revision)'
        BY <2>1, <2>4
      <3>2. (\A c : CurrentEvidence(c) = {})'
        BY <3>1 DEF CurrentEvidence
      <3>3. (\A c : CheckStatus(c) # "passed")'
        BY <3>2 DEF CheckStatus
      <3>4. QED
        BY <3>3 DEF Standing
    <2>6. CallerSees = "running" /\ CallerSees' = "running"
      BY <2>1 DEF CallerSees
    <2>7. Promise!Retry
      BY <1>1, <2>1, <2>5, <2>6 DEF Promise!Retry
    <2>8. QED
      BY <2>7 DEF Promise!Next
  <1>3. CASE Finish
    <2>1. /\ UNCHANGED <<revision, evidence, attempt, fresh>> /\ pc = "cleanup" /\ pc' = "done"
          /\ outcome = "running" /\ outcome' # "running"
      BY <1>1, <1>3 DEF Finish, attemptVars, verifyVars, ledgerVars, Places
    <2>2. Standing' = Standing
      BY <2>1, StandingOfLedger
    <2>3. CallerSees = "running"
      BY <2>1 DEF CallerSees
    <2>4. CASE outcome' = "completed"
      <3>1. failure = "none" /\ UNCHANGED <<decision>>
        BY <1>3, <2>4 DEF Finish, ReturnRecord, RaiseWithRecord, RaiseWithoutRecord, attemptVars
      <3>2. CallerSees' = decision.verdict
        BY <2>4, <3>1 DEF CallerSees, VerdictInv, Returned, RunRecord
      <3>3. Concluded
        BY <2>1, <3>1 DEF Concluded, Ending
      <3>4. CASE decision.verdict = "accept"
        <4>1. Earned(TaskContract, fresh)
          BY <3>3, <3>4 DEF VerdictInv, Conclusive
        <4>2. TaskContract.required # {} /\ Standing = TaskContract.required
          <5>1. \A c \in TaskContract.required : CheckStatus(c) = "passed"
            BY <4>1, PassedMeansLastPassed DEF Earned, TypeInv, TypeOK
          <5>2. QED
            BY <4>1, <5>1 DEF Earned, Standing
        <4>3. Promise!Accept
          BY <1>1, <2>1, <2>2, <2>3, <3>2, <3>4, <4>2 DEF Promise!Accept
        <4>4. QED
          BY <4>3 DEF Promise!Next
      <3>5. CASE decision.verdict # "accept"
        <4>1. decision.verdict \in {"revise", "block", "escalate"}
          BY <3>3, <3>5 DEF VerdictInv, Settled, Verdicts
        <4>2. decision.verdict = "revise" => attempt = budget
          BY <3>3 DEF VerdictInv, Conclusive
        <4>3. Promise!Refuse(decision.verdict)
          BY <1>1, <2>1, <2>2, <2>3, <3>2, <4>2 DEF Promise!Refuse
        <4>4. QED
          BY <4>1, <4>3 DEF Promise!Next
      <3>6. QED
        BY <3>4, <3>5
    <2>5. CASE outcome' \in {"failed", "unrecorded"}
      <3>1. CallerSees' = "failed"
        BY <2>5 DEF CallerSees, VerdictInv, Returned
      <3>2. Promise!Fail
        BY <1>1, <2>1, <2>2, <2>3, <3>1 DEF Promise!Fail
      <3>3. QED
        BY <3>2 DEF Promise!Next
    <2>6. QED
      BY <1>3, <2>4, <2>5 DEF Finish, ReturnRecord, RaiseWithRecord, RaiseWithoutRecord
  <1>4. CASE Done
    <2>1. UNCHANGED <<revision, evidence, outcome, record, attempt>>
      BY <1>4 DEF Done, vars, runVars, ledgerVars, exitVars, attemptVars
    <2>2. Standing' = Standing /\ CallerSees' = CallerSees
      BY <2>1, StandingOfLedger DEF CallerSees
    <2>3. QED
      BY <1>1, <2>1, <2>2 DEF Promise!vars
  <1>5. CASE ~(Revise \/ Finish \/ Done)
    <2>1. outcome = "running" /\ outcome' = "running"
      <3>1. pc # "done" /\ pc' # "done"
        <4>1. CASE Leave
          BY <1>5, <4>1, LeavingSteps DEF BuildRecord, ArtifactDecays, CloseSnapshot
        <4>2. CASE ~Leave
          BY <4>2, EndingLasts, EndingSteps
             DEF Ending, Quit, EvidenceClockRaises, RevisionClockRaises, Raise
        <4>3. QED
          BY <4>1, <4>2
      <3>2. QED
        BY <1>1, <3>1 DEF Places
    <2>2. UNCHANGED attempt
      BY <1>5, StepIsOneOf
         DEF Move, Quit, Leave, Propose, RecordTheProposal, Execute, RequestTool, ObserveTool,
             ToolFails, VerifierReturns, RecordReport, CollectFindings, DecideAttempt, Restage,
             EvidenceClockRaises, RevisionClockRaises, Drift, runVars, attemptVars
    <2>3. Standing' \in SUBSET TaskContract.required
      BY DEF Standing
    <2>4. CallerSees = "running" /\ CallerSees' = "running"
      BY <2>1 DEF CallerSees
    <2>5. Promise!Judge
      BY <1>1, <2>2, <2>3, <2>4 DEF Promise!Judge
    <2>6. QED
      BY <2>5 DEF Promise!Next
  <1>6. QED
    BY <1>2, <1>3, <1>4, <1>5

\* The coordinator implements Supervision: a retry forgets what the attempt before
\* has earned, nothing is accepted without every check, and a request for
\* revision is final only on the last attempt (run_bounded_attempts, decide).
THEOREM CoordinatorKeepsPromise == Spec => KeepsPromise
  <1>1. UNCHANGED vars => UNCHANGED Promise!vars
    <2> SUFFICES ASSUME UNCHANGED vars PROVE UNCHANGED Promise!vars
      OBVIOUS
    <2>1. UNCHANGED <<revision, evidence, outcome, record, attempt, budget>>
      BY DEF vars, runVars, ledgerVars, exitVars, attemptVars
    <2>2. Standing' = Standing /\ CallerSees' = CallerSees
      BY <2>1, StandingOfLedger DEF CallerSees
    <2>3. QED
      BY <2>1, <2>2 DEF Promise!vars
  <1>2. TypeInv /\ TypeInv' /\ AttemptInv /\ VerdictInv /\ VerdictInv' /\ [Next]_vars
           => [Promise!Next]_Promise!vars
    BY <1>1, PromiseKept
  <1>3. QED
    BY <1>2, PromiseStarts, CoordinatorTypes, EvidenceIsOfItsAttempt, VerdictsStand, PTL
       DEF Spec, KeepsPromise, Promise!Spec

-------------------------------------------------------------------------------
(* What the run could be recorded from *)

\* The trail and a list of proposals tell the same.
Recorded(props) ==
    /\ \A i, j \in DOMAIN props : props[i].id = props[j].id => i = j
    /\ RefsOfKind("proposal") = {props[i].id : i \in DOMAIN props}
    /\ \A i \in DOMAIN props : \A n \in DOMAIN events :
          events[n].kind = "proposal" /\ events[n].ref = props[i].id
             => events[n].revision = props[i].revision

\* The proposal of this attempt is on the trail before it is on the list.
Listed ==
    IF pc \in {"validate", "execute", "verify", "dispatch", "verified", "report", "assess",
               "decide"}
      THEN Append(proposals, proposal) ELSE proposals

ProposalsInv == ~Ending => Recorded(Listed)

Verifying == pc \in {"verify", "dispatch", "verified", "report", "assess", "decide"}

\* A session acted in its own attempt, at the revision of that attempt.
SessionFits(s, n, before) ==
    /\ s.live \/ s = NoSession
    /\ \A a \in s.auths : a.action[2] = n /\ a.revision = before
    /\ s.observed \subseteq ActionsOf(s)

\* The session kept what the event tells of.
KeptBy(s, event) ==
    /\ s.live
    /\ event.ref \in IF event.kind = "tool_observation" THEN s.observed ELSE ActionsOf(s)

SessionsInv ==
    /\ \A i \in DOMAIN sessions : SessionFits(sessions[i], i, proposals[i].revision)
    /\ Verifying => SessionFits(session, attempt, revision)
    /\ ~Verifying /\ ~Ending => session \in {NoSession} \cup Range(sessions)
    /\ Judged => session = Last(sessions)
    /\ pc = "dispatch" => ToolAction \in ActionsOf(session)
    /\ ~Ending => \A n \in ToolEvents :
                     \E s \in {session} \cup Range(sessions) : KeptBy(s, events[n])

\* All that a record is refused for except what it cites and artifacts.
Recordable(props, toolSessions) ==
    /\ Len(transitions) >= 2
    /\ ProposalsSound(props)
    /\ SessionsSound(props, toolSessions)
    /\ ToolIdsSound(toolSessions)
    /\ ContextsSound(props, toolSessions)
    /\ ToolTrailSound(toolSessions)
    /\ EvidenceTimed

\* Where the state machine is in the meantime.
StateInv ==
    /\ pc = "contract" => state = "received"
    /\ pc = "triage" => state = "contracted"
    /\ pc \in {"propose", "mark"} => state \in {"triaged", "revision_required"}
    /\ pc \in {"record", "validate"} => state = "proposed"
    /\ pc = "execute" => state = "action_validation"
    /\ pc \in {"verify", "dispatch", "verified", "report", "assess"} => state = "executed"
    /\ pc = "decide" => state = "assessed"
    /\ pc \in {"restage", "revise"} => state = "revision_required"
    /\ pc \in {"export", "build"} =>
          state \in {"revision_required", "blocked", "escalated", "verified", "exported"}

\* A failure record is refused exactly where the run was cut short, artifacts
\* aside, and without a proposal there is no session to read any back for.
RecordInv ==
    Ending =>
        /\ OwnSessions /\ Recordable(FailedProposals, FailedSessions) <=> ~CutShort
        /\ Single /\ proposal = NoProposal => ~session.live

OutcomeInv ==
    pc = "done" /\ outcome # "completed" =>
        (outcome = "unrecorded" <=> CutShort \/ ArtifactMissed)

\* The trail goes on with events of these kinds.
Grows(kinds) ==
    /\ DOMAIN events \subseteq DOMAIN events'
    /\ \A n \in DOMAIN events : events'[n] = events[n]
    /\ \A n \in DOMAIN events' \ DOMAIN events : events'[n].kind \in kinds

ToolKinds == {"tool_request", "tool_observation", "error"}

QuietKinds == {"revision", "evidence", "state_transition"}

\* A step that leaves the sessions and what is listed alone.
Calm ==
    /\ UNCHANGED <<session, sessions, proposals, budget>>
    /\ Verifying' => Verifying /\ UNCHANGED <<attempt, revision>>
    /\ Verifying => Verifying'
    /\ Judged' => Judged
    /\ pc' = "dispatch" => pc = "dispatch" /\ UNCHANGED <<toolNext, attempt>>

LEMMA AppendGrows ==
    ASSUME events \in Seq(LedgerEvent), NEW event \in LedgerEvent,
           events' = Append(events, event)
    PROVE  /\ Grows({event.kind})
           /\ \A n \in DOMAIN events' \ DOMAIN events : events'[n] = event
  <1>1. /\ DOMAIN events' = DOMAIN events \cup {Len(events) + 1}
        /\ \A n \in DOMAIN events : events'[n] = events[n]
        /\ events'[Len(events) + 1] = event
    OBVIOUS
  <1>2. QED
    BY <1>1 DEF Grows

\* What each step adds to the trail and does to the sessions.
LEMMA CalmSteps ==
    ASSUME TypeInv, Next, ~Ending'
    PROVE  \/ Execute /\ Grows(QuietKinds) /\ Listed' = Listed
           \/ DecideAttempt /\ Grows(QuietKinds) /\ Listed' = Listed
           \/ \E allowed \in BOOLEAN : RequestTool(allowed) /\ Listed' = Listed
           \/ \E passed \in BOOLEAN : ObserveTool(passed) /\ Listed' = Listed
           \/ ToolFails /\ Listed' = Listed
           \/ RecordTheProposal /\ Calm
           \/ Calm /\ Grows(QuietKinds) /\ Listed' = Listed
  <1> USE DEF Verifying, Judged
  <1>1. events \in Seq(LedgerEvent)
    BY DEF TypeInv, TypeOK, LedgerTypeOK
  <1>2. ASSUME NEW to, Transition(to) PROVE Grows(QuietKinds)
    <2> DEFINE event == [kind |-> "state_transition", revision |-> revision, ref |-> NoRef,
                         from |-> state, status |-> to]
    <2>1. event \in LedgerEvent /\ events' = Append(events, event)
          /\ event.kind = "state_transition"
      BY <1>2, TransitionType DEF Transition, RecordStateTransition
    <2> HIDE DEF event
    <2>2. QED
      BY <1>1, <2>1, AppendGrows DEF Grows, QuietKinds
  <1>3. UNCHANGED events => Grows(QuietKinds)
    BY DEF Grows
  <1>4. CASE Move
    <2>1. \E to : Transition(to)
      BY <1>4 DEF Move, Enter
    <2>2. Calm
      <3>1. UNCHANGED <<session, attemptVars, toolNext>>
        BY <1>4 DEF Move, Enter, runVars, verifyVars
      <3>2. pc # "revise" /\ pc' # "dispatch" /\ (Verifying' <=> Verifying) /\ (Judged' => Judged)
        BY <1>4, MoveCases
           DEF ContractTask, Triage, MarkProposed, ValidateAction, Assess, Export, Enter
      <3>3. UNCHANGED revision
        BY <3>2, RevisionMoves
      <3>4. QED
        BY <3>1, <3>2, <3>3 DEF Calm, attemptVars
    <2>3. Listed' = Listed
      BY <1>4, MoveCases
         DEF ContractTask, Triage, MarkProposed, ValidateAction, Assess, Export, Enter, Listed,
             runVars, attemptVars
    <2>4. QED
      BY <1>2, <2>1, <2>2, <2>3
  <1>5. CASE Execute
    BY <1>2, <1>5 DEF Execute, Listed, attemptVars
  <1>6. CASE DecideAttempt
    BY <1>2, <1>6 DEF DecideAttempt, ApplyDecision, Listed
  <1>7. ASSUME NEW allowed \in BOOLEAN, RequestTool(allowed) PROVE Listed' = Listed
    BY <1>7 DEF RequestTool, Listed, runVars, attemptVars
  <1>8. ASSUME NEW passed \in BOOLEAN, ObserveTool(passed) PROVE Listed' = Listed
    BY <1>8 DEF ObserveTool, Listed, attemptVars
  <1>9. ToolFails => Listed' = Listed
    BY DEF ToolFails, Listed, attemptVars
  <1>10. RecordTheProposal => Calm
    BY DEF RecordTheProposal, Calm, runVars, attemptVars
  <1>11. CASE RecordReport
    <2>1. /\ ReportedEvidence(Head(report.evidence)) \in Evidence
          /\ RecordEvidence(ReportedEvidence(Head(report.evidence)))
      BY <1>11, ReportItems DEF RecordReport
    <2>2. PICK e \in Evidence : RecordEvidence(e)
      BY <2>1
    <2>3. EvidenceEvent(e) \in LedgerEvent /\ EvidenceEvent(e).kind = "evidence"
      BY StampedType
         DEF EvidenceEvent, EventKinds, EventStatuses, Evidence, Stamped, TypeInv, TypeOK
    <2>4. Grows(QuietKinds)
      BY <1>1, <2>2, <2>3, AppendGrows DEF RecordEvidence, Grows, QuietKinds
    <2>5. QED
      BY <1>11, <2>2, <2>4 DEF RecordReport, Calm, Listed, attemptVars, RecordEvidence
  <1>12. CASE Revise
    <2> DEFINE event == [kind |-> "revision", revision |-> NextRevision, ref |-> NoRef,
                         from |-> "none", status |-> "none"]
    <2>1. RevisionStep /\ events' = Append(events, event)
      BY <1>12, LedgerStep
         DEF Revise, RecordRevision, RevisionStep, PlainEvent, ToolStep, ToolAppend, ReportStep,
             ProposalStep, RecordEvidence, RecordEvidenceClockFails, RecordProposal, RevisionRefused,
             ledgerVars
    <2>2. event \in LedgerEvent /\ event.kind = "revision"
      BY <2>1 DEF RevisionStep, LedgerEvent, EventKinds, EventStatuses
    <2> HIDE DEF event
    <2>3. Grows(QuietKinds)
      BY <1>1, <2>1, <2>2, AppendGrows DEF Grows, QuietKinds
    <2>4. QED
      BY <1>12, <2>3 DEF Revise, Calm, Listed
  <1>13. CASE Restage
    BY <1>3, <1>13 DEF Restage, Calm, Listed, attemptVars, ledgerVars
  <1>14. ASSUME NEW result \in Digests, NEW n \in 1..attempt, Propose(n, result)
         PROVE  Calm /\ Grows(QuietKinds) /\ Listed' = Listed
    BY <1>3, <1>14 DEF Propose, Calm, Listed, ledgerVars
  <1>15. ASSUME NEW r \in Reports, VerifierReturns(r)
         PROVE  Calm /\ Grows(QuietKinds) /\ Listed' = Listed
    BY <1>3, <1>15 DEF VerifierReturns, Calm, Listed, ledgerVars, attemptVars
  <1>16. ASSUME NEW late \in BOOLEAN, CollectFindings(late)
         PROVE  Calm /\ Grows(QuietKinds) /\ Listed' = Listed
    BY <1>3, <1>16 DEF CollectFindings, Calm, Listed, ledgerVars, attemptVars
  <1>17. ASSUME NEW digest \in Digests, Drift(digest)
         PROVE  Calm /\ Grows(QuietKinds) /\ Listed' = Listed
    BY <1>3, <1>17 DEF Drift, Calm, Listed, ledgerVars, attemptVars, verifyVars
  <1>18. CASE Leave
    <2>1. ArtifactDecays /\ pc = "build"
      BY <1>18, LeavingSteps
         DEF Finish, Done, vars, Leave, Ending, BuildRecord, CloseSnapshot, ArtifactDecays
    <2>2. QED
      BY <1>3, <2>1 DEF ArtifactDecays, Calm, Listed, ledgerVars, attemptVars
  <1>19. ~(Quit \/ EvidenceClockRaises \/ RevisionClockRaises)
    BY DEF Quit, EvidenceClockRaises, RevisionClockRaises, Raise, Ending
  <1>20. QED
    BY <1>4, <1>5, <1>6, <1>7, <1>8, <1>9, <1>10, <1>11, <1>12, <1>13, <1>14, <1>15, <1>16,
       <1>17, <1>18, <1>19, StepIsOneOf

\* The coordinator's lists are in step in an attempt.
LEMMA ListsInStep ==
    ASSUME TypeInv
    PROVE  /\ proposals \in Seq(Proposal) /\ sessions \in Seq(Session) /\ session \in Session
           /\ DOMAIN sessions = DOMAIN proposals /\ DOMAIN proposals = 1..Len(proposals)
           /\ Len(proposals) \in Nat /\ attempt \in Nat
  <1>1. /\ proposals \in Seq(Proposal) /\ sessions \in Seq(Session) /\ session \in Session
        /\ Len(sessions) = Len(proposals) /\ attempt \in Nat
    BY Numbers DEF TypeInv, TypeOK, Places
  <1>2. QED
    BY <1>1

LEMMA ToolStepsGrow ==
    ASSUME TypeInv, NEW told \in BOOLEAN, NEW event \in LedgerEvent, NEW e \in Evidence,
           ToolAppend(event, e, told)
    PROVE  /\ Grows({event.kind, "evidence"})
           /\ \A n \in DOMAIN events' \ DOMAIN events :
                 events'[n] = event \/ events'[n].kind = "evidence"
  <1> DEFINE second == EvidenceEvent(e)
  <1>1. events \in Seq(LedgerEvent) /\ LedgerTypeOK
    BY DEF TypeInv, TypeOK, LedgerTypeOK
  <1>2. /\ second \in LedgerEvent
        /\ events' = IF told THEN Append(Append(events, event), second) ELSE Append(events, event)
    BY <1>1, ToolAppendInTwo
  <1>3. second.kind = "evidence"
    BY DEF EvidenceEvent, Stamped
  <1> HIDE DEF second
  <1>4. CASE told
    <2>1. events' = Append(Append(events, event), second)
      BY <1>2, <1>4
    <2>2. /\ DOMAIN events' = DOMAIN events \cup {Len(events) + 1, Len(events) + 2}
          /\ \A n \in DOMAIN events : events'[n] = events[n]
          /\ events'[Len(events) + 1] = event /\ events'[Len(events) + 2] = second
      BY <1>1, <1>2, <2>1
    <2>3. QED
      BY <1>3, <2>2 DEF Grows
  <1>5. CASE ~told
    <2>1. events' = Append(events, event)
      BY <1>2, <1>5
    <2>2. QED
      BY <1>1, <2>1, AppendGrows DEF Grows
  <1>6. QED
    BY <1>4, <1>5

\* What a tool call adds to the trail.
LEMMA ToolEventsAre ==
    ASSUME TypeInv, NEW allowed \in BOOLEAN
    PROVE  /\ RequestTool(allowed) =>
                 /\ Grows({"tool_request", "evidence"})
                 /\ \A n \in DOMAIN events' \ DOMAIN events :
                       events'[n] = RequestEvent(ToolAction, allowed) \/ events'[n].kind = "evidence"
           /\ ObserveTool(allowed) =>
                 /\ Grows({"tool_observation", "evidence"})
                 /\ \A n \in DOMAIN events' \ DOMAIN events :
                       events'[n] = ObservationEvent(ToolAction, allowed)
                         \/ events'[n].kind = "evidence"
           /\ ToolFails =>
                 /\ Grows({"error"})
                 /\ \A n \in DOMAIN events' \ DOMAIN events :
                       events'[n] = Stamped("error", ToolAction, "error")
  <1>1. LedgerTypeOK /\ events \in Seq(LedgerEvent)
    BY DEF TypeInv, TypeOK, LedgerTypeOK
  <1>2. pc = "dispatch" => toolNext <= Len(ToolChecks)
    BY DEF TypeInv, Places
  <1>3. ASSUME toolNext <= Len(ToolChecks)
        PROVE  /\ RequestEvent(ToolAction, allowed) \in LedgerEvent
               /\ RequestEvent(ToolAction, allowed).kind = "tool_request"
               /\ ObservationEvent(ToolAction, allowed) \in LedgerEvent
               /\ ObservationEvent(ToolAction, allowed).kind = "tool_observation"
               /\ Stamped("error", ToolAction, "error") \in LedgerEvent
               /\ Stamped("error", ToolAction, "error").kind = "error"
    <2>1. ToolAction \in ActionIds
      BY <1>3, ToolItems
    <2>2. QED
      BY <1>1, <2>1, StampedType
         DEF RequestEvent, ObservationEvent, EventKinds, EventStatuses, RunStates, Stamped
  <1>4. ASSUME RequestTool(allowed)
        PROVE  /\ Grows({"tool_request", "evidence"})
               /\ \A n \in DOMAIN events' \ DOMAIN events :
                     events'[n] = RequestEvent(ToolAction, allowed) \/ events'[n].kind = "evidence"
    <2>1. toolNext <= Len(ToolChecks) /\ RequestAction(ToolAction, allowed)
      BY <1>4 DEF RequestTool, MoreTools
    <2>2. ToolAppend(RequestEvent(ToolAction, allowed), PolicyEvidence(ToolAction, allowed), TRUE)
      BY <2>1 DEF RequestAction, ToolAppend, RequestRefused, PolicyEvidence
    <2>3. PolicyEvidence(ToolAction, allowed) \in Evidence
      BY <2>1, ToolItems
    <2>4. Grows({RequestEvent(ToolAction, allowed).kind, "evidence"})
          /\ \A n \in DOMAIN events' \ DOMAIN events :
                events'[n] = RequestEvent(ToolAction, allowed) \/ events'[n].kind = "evidence"
      BY <1>3, <2>1, <2>2, <2>3, ToolStepsGrow
    <2>5. QED
      BY <1>3, <2>1, <2>4
  <1>5. ASSUME ObserveTool(allowed)
        PROVE  /\ Grows({"tool_observation", "evidence"})
               /\ \A n \in DOMAIN events' \ DOMAIN events :
                     events'[n] = ObservationEvent(ToolAction, allowed)
                       \/ events'[n].kind = "evidence"
    <2>1. toolNext <= Len(ToolChecks) /\ RecordObservation(ToolAction, ToolCheck, allowed)
      BY <1>2, <1>5 DEF ObserveTool
    <2>2. ToolAppend(ObservationEvent(ToolAction, allowed),
                     ObservationEvidence(ToolAction, ToolCheck, allowed), TRUE)
      BY <2>1 DEF RecordObservation, ToolAppend, ObservationRefused, ObservationEvidence
    <2>3. ObservationEvidence(ToolAction, ToolCheck, allowed) \in Evidence
      BY <2>1, ToolItems
    <2>4. Grows({ObservationEvent(ToolAction, allowed).kind, "evidence"})
          /\ \A n \in DOMAIN events' \ DOMAIN events :
                events'[n] = ObservationEvent(ToolAction, allowed) \/ events'[n].kind = "evidence"
      BY <1>3, <2>1, <2>2, <2>3, ToolStepsGrow
    <2>5. QED
      BY <1>3, <2>1, <2>4
  <1>6. ASSUME ToolFails
        PROVE  /\ Grows({"error"})
               /\ \A n \in DOMAIN events' \ DOMAIN events :
                     events'[n] = Stamped("error", ToolAction, "error")
    <2>1. toolNext <= Len(ToolChecks) /\ RecordToolError(ToolAction, "error")
      BY <1>2, <1>6 DEF ToolFails, RunnerFails
    <2>2. events' = Append(events, Stamped("error", ToolAction, "error"))
      BY <2>1 DEF RecordToolError
    <2>3. QED
      BY <1>1, <1>3, <2>1, <2>2, AppendGrows
  <1>7. QED
    BY <1>4, <1>5, <1>6

LEMMA ProposalsPreserved ==
    ASSUME TypeInv, ChainInv, TrailInv, ProposalsInv, Next
    PROVE  ProposalsInv'
  <1>1. CASE Ending'
    BY <1>1 DEF ProposalsInv
  <1>2. ASSUME Listed' = Listed, NEW kinds, Grows(kinds), "proposal" \notin kinds, ~Ending, ~Ending'
        PROVE  ProposalsInv'
    <2>1. \A n \in DOMAIN events' : events'[n].kind = "proposal" =>
             n \in DOMAIN events /\ events'[n] = events[n]
      BY <1>2 DEF Grows
    <2>2. RefsOfKind("proposal")' = RefsOfKind("proposal")
      <3>1. {n \in DOMAIN events' : events'[n].kind = "proposal"}
              = {n \in DOMAIN events : events[n].kind = "proposal"}
        BY <1>2, <2>1 DEF Grows
      <3>2. \A n \in {m \in DOMAIN events : events[m].kind = "proposal"} : events'[n] = events[n]
        BY <1>2 DEF Grows
      <3>3. QED
        BY <3>1, <3>2 DEF RefsOfKind
    <2>3. Recorded(Listed)
      BY <1>2 DEF ProposalsInv
    <2>4. Recorded(Listed)'
      BY <1>2, <2>1, <2>2, <2>3 DEF Recorded
    <2>5. QED
      BY <2>4 DEF ProposalsInv
  <1>3. ~Ending' => ~Ending
    BY EndingLasts
  <1>4. ASSUME \/ \E allowed \in BOOLEAN : RequestTool(allowed)
               \/ \E passed \in BOOLEAN : ObserveTool(passed)
               \/ ToolFails
        PROVE  \E kinds : Grows(kinds) /\ "proposal" \notin kinds
    <2>1. \/ Grows({"tool_request", "evidence"}) \/ Grows({"tool_observation", "evidence"})
          \/ Grows({"error"})
      <3>1. ToolFails => Grows({"error"})
        BY ToolEventsAre
      <3>2. ASSUME NEW allowed \in BOOLEAN
            PROVE  /\ RequestTool(allowed) => Grows({"tool_request", "evidence"})
                   /\ ObserveTool(allowed) => Grows({"tool_observation", "evidence"})
        BY ToolEventsAre
      <3>3. QED
        BY <1>4, <3>1, <3>2
    <2>2. /\ "proposal" \notin {"tool_request", "evidence"}
          /\ "proposal" \notin {"tool_observation", "evidence"} /\ "proposal" \notin {"error"}
      OBVIOUS
    <2>3. QED
      BY <2>1, <2>2
  <1>5. CASE RecordTheProposal
    <2> DEFINE event == Stamped("proposal", proposal.id, "recorded")
    <2>1. /\ pc = "record" /\ pc' = "validate" /\ RecordProposal(proposal.id)
          /\ UNCHANGED <<proposals, proposal, revision>>
      BY <1>5 DEF RecordTheProposal, RecordProposal, runVars, attemptVars
    <2>2. /\ proposals \in Seq(Proposal) /\ proposal \in Proposal /\ proposal.id \in ProposalIds
      BY <2>1 DEF TypeInv, TypeOK, Places, Attempting, Proposal
    <2>3. /\ event \in LedgerEvent /\ event.kind = "proposal" /\ event.ref = proposal.id
          /\ event.revision = revision
      BY <2>2, StampedType DEF EventKinds, EventStatuses, Stamped, TypeInv, TypeOK
    <2>4. events' = Append(events, event) /\ proposal.id \notin proposalIds
      BY <2>1 DEF RecordProposal, ProposalRefused
    <2> HIDE DEF event
    <2>5. events \in Seq(LedgerEvent)
      BY DEF TypeInv, TypeOK, LedgerTypeOK
    <2>6. /\ DOMAIN events' = DOMAIN events \cup {Len(events) + 1}
          /\ \A n \in DOMAIN events : events'[n] = events[n]
          /\ events'[Len(events) + 1] = event
      BY <2>3, <2>4, <2>5
    <2>7. Listed = proposals /\ Listed' = Append(proposals, proposal)
      BY <2>1 DEF Listed
    <2>8. /\ DOMAIN Listed' = DOMAIN proposals \cup {Len(proposals) + 1}
          /\ \A i \in DOMAIN proposals : Listed'[i] = proposals[i]
          /\ Listed'[Len(proposals) + 1] = proposal
      BY <2>2, <2>7
    <2>9. Recorded(proposals)
      BY <2>1, <2>7 DEF ProposalsInv, Ending
    <2>10. RefsOfKind("proposal") = proposalIds
      BY DEF TrailInv, ProposalTrailAgrees, RefsOfKind
    <2>11. \A i \in DOMAIN proposals : proposals[i].id # proposal.id
      BY <2>4, <2>9, <2>10 DEF Recorded
    <2>12. \A n \in DOMAIN events : events[n].kind = "proposal" => events[n].ref # proposal.id
      BY <2>4, <2>10 DEF RefsOfKind
    <2>13. \A i, j \in DOMAIN Listed' : Listed'[i].id = Listed'[j].id => i = j
      BY <2>8, <2>9, <2>11 DEF Recorded
    <2>14. RefsOfKind("proposal")' = {Listed'[i].id : i \in DOMAIN Listed'}
      <3>1. {n \in DOMAIN events' : events'[n].kind = "proposal"}
              = {n \in DOMAIN events : events[n].kind = "proposal"} \cup {Len(events) + 1}
        BY <2>3, <2>6
      <3>2. RefsOfKind("proposal")' = RefsOfKind("proposal") \cup {proposal.id}
        BY <2>3, <2>6, <3>1 DEF RefsOfKind
      <3>3. {Listed'[i].id : i \in DOMAIN Listed'}
              = {proposals[i].id : i \in DOMAIN proposals} \cup {proposal.id}
        BY <2>8
      <3>4. QED
        BY <2>9, <3>2, <3>3 DEF Recorded
    <2>15. revision = proposal.revision
      BY <2>1 DEF ChainInv, Attempting
    <2>16. \A i \in DOMAIN Listed' : \A n \in DOMAIN events' :
              events'[n].kind = "proposal" /\ events'[n].ref = Listed'[i].id
                => events'[n].revision = Listed'[i].revision
      BY <2>3, <2>6, <2>8, <2>9, <2>11, <2>12, <2>15 DEF Recorded
    <2>17. Recorded(Listed)'
      BY <2>13, <2>14, <2>16 DEF Recorded
    <2>18. QED
      BY <2>17 DEF ProposalsInv
  <1>6. "proposal" \notin QuietKinds
    BY DEF QuietKinds
  <1>7. QED
    BY <1>1, <1>2, <1>3, <1>4, <1>5, <1>6, CalmSteps

\* The sessions after a step that adds no tool event.
LEMMA QuietSessions ==
    ASSUME NEW kinds, Grows(kinds), kinds \cap ToolKinds = {}
    PROVE  /\ ToolEvents' = ToolEvents
           /\ \A n \in ToolEvents : events'[n] = events[n]
  <1>1. ToolEvents = {n \in DOMAIN events : events[n].kind \in ToolKinds}
    BY DEF ToolEvents, ToolKinds
  <1>2. ToolEvents' = {n \in DOMAIN events' : events'[n].kind \in ToolKinds}
    BY DEF ToolEvents, ToolKinds
  <1>3. QED
    BY <1>1, <1>2 DEF Grows

\* What a session of this attempt becomes by a tool call.
LEMMA SessionGrows ==
    ASSUME TypeInv, SessionFits(session, attempt, revision), NEW allowed \in BOOLEAN
    PROVE  /\ RequestTool(allowed) =>
                 /\ SessionFits(session', attempt, revision) /\ session'.live
                 /\ ToolAction \in ActionsOf(session')
                 /\ \A event : KeptBy(session, event) => KeptBy(session', event)
           /\ ObserveTool(allowed) /\ ToolAction \in ActionsOf(session) =>
                 /\ SessionFits(session', attempt, revision) /\ session'.live
                 /\ ToolAction \in session'.observed
                 /\ \A event : KeptBy(session, event) => KeptBy(session', event)
  <1>1. session \in Session
    BY DEF TypeInv, TypeOK
  <1>2. ASSUME RequestTool(allowed)
        PROVE  /\ SessionFits(session', attempt, revision) /\ session'.live
               /\ ToolAction \in ActionsOf(session')
               /\ \A event : KeptBy(session, event) => KeptBy(session', event)
    <2> DEFINE auth == [action |-> ToolAction, revision |-> revision, allowed |-> allowed]
    <2>1. session.live /\ session' = [session EXCEPT !.auths = @ \cup {auth}]
      BY <1>2 DEF RequestTool, RequestAction, MoreTools
    <2>2. /\ session'.live /\ session'.auths = session.auths \cup {auth}
          /\ session'.observed = session.observed
      BY <1>1, <2>1 DEF Session
    <2>3. auth.action = ToolAction /\ auth.revision = revision /\ ToolAction[2] = attempt
      BY DEF ToolAction, ActionId
    <2> HIDE DEF auth
    <2>4. ActionsOf(session') = ActionsOf(session) \cup {ToolAction}
      BY <2>2, <2>3 DEF ActionsOf
    <2>5. SessionFits(session', attempt, revision)
      BY <2>2, <2>3, <2>4 DEF SessionFits
    <2>6. QED
      BY <2>2, <2>4, <2>5 DEF KeptBy
  <1>3. ASSUME ObserveTool(allowed), ToolAction \in ActionsOf(session)
        PROVE  /\ SessionFits(session', attempt, revision) /\ session'.live
               /\ ToolAction \in session'.observed
               /\ \A event : KeptBy(session, event) => KeptBy(session', event)
    <2>1. pc = "dispatch" /\ session' = [session EXCEPT !.observed = @ \cup {ToolAction}]
      BY <1>3 DEF ObserveTool, RecordObservation
    <2>2. session.live
      BY <2>1 DEF TypeInv, Places
    <2>3. /\ session'.live /\ session'.auths = session.auths
          /\ session'.observed = session.observed \cup {ToolAction}
      BY <1>1, <2>1, <2>2 DEF Session
    <2>4. ActionsOf(session') = ActionsOf(session)
      BY <2>3 DEF ActionsOf
    <2>5. SessionFits(session', attempt, revision)
      BY <1>3, <2>3, <2>4 DEF SessionFits
    <2>6. QED
      BY <2>3, <2>4, <2>5 DEF KeptBy
  <1>4. QED
    BY <1>2, <1>3

LEMMA SessionsPreserved ==
    ASSUME TypeInv, ChainInv, SessionsInv, Next
    PROVE  SessionsInv'
  <1> USE DEF Verifying, Judged
  <1> DEFINE Kept == \A n \in ToolEvents :
                        \E s \in {session} \cup Range(sessions) : KeptBy(s, events[n])
             Fits == \A i \in DOMAIN sessions : SessionFits(sessions[i], i, proposals[i].revision)
  <1>1. TypeInv' /\ Places /\ Places' /\ Fits
    BY TypePreserved, PlacesPreserved DEF TypeInv, SessionsInv
  <1>2. CASE Ending'
    <2>1. UNCHANGED <<sessions, proposals>>
      BY <1>2, EndingKeeps DEF attemptVars
    <2>2. Fits'
      BY <1>1, <2>1 DEF SessionFits, ActionsOf
    <2>3. QED
      BY <1>2, <2>2 DEF SessionsInv, Ending
  <1>3. ~Ending' => ~Ending /\ Kept
    BY EndingLasts DEF SessionsInv
  <1>4. ASSUME Calm, NEW kinds, Grows(kinds), kinds \cap ToolKinds = {}, ~Ending'
        PROVE  SessionsInv'
    <2>1. UNCHANGED <<session, sessions, proposals>>
      BY <1>4 DEF Calm
    <2>2. Kept'
      BY <1>3, <1>4, <2>1, QuietSessions DEF KeptBy, ActionsOf
    <2>3. Fits'
      BY <1>1, <2>1 DEF SessionFits, ActionsOf
    <2>4. pc' = "dispatch" => ToolAction' \in ActionsOf(session)'
      BY <1>4 DEF Calm, SessionsInv, ToolAction, ToolCheck, ActionsOf
    <2>5. Verifying' => SessionFits(session, attempt, revision)'
      BY <1>4 DEF Calm, SessionsInv, SessionFits, ActionsOf
    <2>6. QED
      BY <1>3, <1>4, <2>1, <2>2, <2>3, <2>4, <2>5 DEF SessionsInv, Calm, Last
  <1>5. ASSUME Execute, Grows(QuietKinds) PROVE SessionsInv'
    <2>1. /\ pc = "execute" /\ pc' = "verify" /\ session' \in {NoSession, NewSession}
          /\ UNCHANGED <<sessions, proposals>>
      BY <1>5 DEF Execute, attemptVars
    <2>2. Kept'
      <3>1. session \in {NoSession} \cup Range(sessions)
        BY <2>1 DEF SessionsInv, Ending
      <3>2. \A n \in ToolEvents : \E s \in Range(sessions) : KeptBy(s, events[n])
        BY <1>3, <2>1, <3>1 DEF KeptBy, NoSession, Ending
      <3>3. ToolEvents' = ToolEvents /\ \A n \in ToolEvents : events'[n] = events[n]
        BY <1>5, QuietSessions DEF QuietKinds, ToolKinds
      <3>4. QED
        BY <2>1, <3>2, <3>3 DEF KeptBy, ActionsOf
    <2>3. Fits'
      BY <1>1, <2>1 DEF SessionFits, ActionsOf
    <2>4. SessionFits(session, attempt, revision)'
      BY <2>1 DEF SessionFits, NoSession, NewSession, ActionsOf
    <2>5. QED
      BY <2>1, <2>2, <2>3, <2>4 DEF SessionsInv, Ending
  <1>6. ASSUME DecideAttempt, Grows(QuietKinds) PROVE SessionsInv'
    <2>1. /\ pc = "decide" /\ pc' \in {"restage", "export"}
          /\ UNCHANGED <<session, revision>> /\ attempt \in Nat
          /\ DOMAIN sessions = 1..(attempt - 1) /\ DOMAIN sessions' = 1..attempt
          /\ \A i \in 1..(attempt - 1) :
                proposals'[i] = proposals[i] /\ sessions'[i] = sessions[i]
          /\ proposals'[attempt] = proposal /\ sessions'[attempt] = session
          /\ Len(sessions') = attempt
      BY <1>6, DecisionStep, Numbers
    <2>2. /\ \A i \in DOMAIN sessions' : i = attempt \/ i \in DOMAIN sessions
          /\ attempt \in DOMAIN sessions' /\ DOMAIN sessions \subseteq DOMAIN sessions'
      <3>1. 1 <= attempt
        BY Numbers
      <3>2. QED
        BY <2>1, <3>1
    <2>3. SessionFits(session, attempt, proposal.revision)
      <3>1. revision = proposal.revision
        BY <2>1 DEF ChainInv, Attempting
      <3>2. QED
        BY <2>1, <3>1 DEF SessionsInv
    <2>4. \A i \in DOMAIN sessions' : SessionFits(sessions'[i], i, proposals'[i].revision)
      BY <1>1, <2>1, <2>2, <2>3
    <2>5. Fits'
      BY <2>4 DEF SessionFits, ActionsOf
    <2>6. {session} \cup Range(sessions) \subseteq Range(sessions')
      BY <2>1, <2>2 DEF Range
    <2>7. Kept'
      <3>1. ToolEvents' = ToolEvents /\ \A n \in ToolEvents : events'[n] = events[n]
        BY <1>6, QuietSessions DEF QuietKinds, ToolKinds
      <3>2. QED
        BY <1>3, <2>1, <2>6, <3>1 DEF KeptBy, ActionsOf, Ending
    <2>8. session' \in Range(sessions') /\ session' = Last(sessions')
      BY <2>1, <2>6 DEF Last
    <2>9. QED
      BY <2>1, <2>5, <2>7, <2>8 DEF SessionsInv, Last
  <1>7. ASSUME NEW event, SessionFits(session', attempt, revision), session'.live,
               \A n \in DOMAIN events' \ DOMAIN events :
                  events'[n] = event \/ events'[n].kind = "evidence",
               NEW kinds, Grows(kinds), KeptBy(session', event),
               \A old : KeptBy(session, old) => KeptBy(session', old),
               UNCHANGED <<sessions, proposals, attempt, revision>>, Verifying, Verifying',
               pc' = "dispatch" => ToolAction' \in ActionsOf(session')
        PROVE  SessionsInv'
    <2>1. \A n \in ToolEvents' : (n \in ToolEvents /\ events'[n] = events[n]) \/ events'[n] = event
      BY <1>7 DEF Grows, ToolEvents
    <2>2. \A n \in ToolEvents' : \E s \in {session'} \cup Range(sessions) : KeptBy(s, events'[n])
      BY <1>3, <1>7, <2>1 DEF Ending
    <2>3. Kept'
      BY <1>7, <2>2 DEF KeptBy, ActionsOf
    <2>4. Fits'
      BY <1>1, <1>7 DEF SessionFits, ActionsOf
    <2>5. SessionFits(session, attempt, revision)'
      BY <1>7 DEF SessionFits, ActionsOf
    <2>6. pc' = "dispatch" => (ToolAction \in ActionsOf(session))'
      BY <1>7 DEF ActionsOf
    <2>7. QED
      BY <1>7, <2>3, <2>4, <2>5, <2>6 DEF SessionsInv, Ending
  <1>8. ASSUME NEW allowed \in BOOLEAN, RequestTool(allowed) PROVE SessionsInv'
    <2>1. /\ UNCHANGED <<sessions, proposals, attempt, revision, toolNext>> /\ pc = "verify"
          /\ pc' \in {"dispatch", "verified"}
      BY <1>8 DEF RequestTool, RequestAction, runVars, attemptVars, verifyVars
    <2>2. SessionFits(session, attempt, revision)
      BY <2>1 DEF SessionsInv
    <2>3. /\ SessionFits(session', attempt, revision) /\ session'.live
          /\ ToolAction \in ActionsOf(session')
          /\ \A event : KeptBy(session, event) => KeptBy(session', event)
      BY <1>8, <2>2, SessionGrows
    <2>4. KeptBy(session', RequestEvent(ToolAction, allowed))
      BY <2>3 DEF KeptBy, RequestEvent, Stamped
    <2>5. ToolAction' = ToolAction
      BY <2>1 DEF ToolAction, ToolCheck
    <2>6. /\ Grows({"tool_request", "evidence"})
          /\ \A n \in DOMAIN events' \ DOMAIN events :
                events'[n] = RequestEvent(ToolAction, allowed) \/ events'[n].kind = "evidence"
      BY <1>8, ToolEventsAre
    <2>7. QED
      BY <1>7, <2>1, <2>3, <2>4, <2>5, <2>6
  <1>9. ASSUME NEW passed \in BOOLEAN, ObserveTool(passed) PROVE SessionsInv'
    <2>1. /\ UNCHANGED <<sessions, proposals, attempt, revision>> /\ pc = "dispatch"
          /\ pc' = "verify"
      BY <1>9 DEF ObserveTool, RecordObservation, attemptVars
    <2>2. SessionFits(session, attempt, revision) /\ ToolAction \in ActionsOf(session)
      BY <2>1 DEF SessionsInv
    <2>3. /\ SessionFits(session', attempt, revision) /\ session'.live
          /\ ToolAction \in session'.observed
          /\ \A event : KeptBy(session, event) => KeptBy(session', event)
      BY <1>9, <2>2, SessionGrows
    <2>4. KeptBy(session', ObservationEvent(ToolAction, passed))
      BY <2>3 DEF KeptBy, ObservationEvent, Stamped
    <2>5. /\ Grows({"tool_observation", "evidence"})
          /\ \A n \in DOMAIN events' \ DOMAIN events :
                events'[n] = ObservationEvent(ToolAction, passed) \/ events'[n].kind = "evidence"
      BY <1>9, ToolEventsAre
    <2>6. QED
      BY <1>7, <2>1, <2>3, <2>4, <2>5
  <1>10. CASE ToolFails
    <2>1. /\ UNCHANGED <<session, sessions, proposals, attempt, revision>> /\ pc = "dispatch"
          /\ pc' = "verified"
      BY <1>10 DEF ToolFails, RunnerFails, RecordToolError, attemptVars
    <2>2. /\ SessionFits(session, attempt, revision) /\ ToolAction \in ActionsOf(session)
          /\ session.live
      BY <1>1, <2>1 DEF SessionsInv, Places
    <2>3. KeptBy(session, Stamped("error", ToolAction, "error"))
      BY <2>2 DEF KeptBy, Stamped
    <2>4. /\ Grows({"error"})
          /\ \A n \in DOMAIN events' \ DOMAIN events :
                events'[n] = Stamped("error", ToolAction, "error")
      BY <1>10, ToolEventsAre
    <2>5. QED
      BY <1>7, <2>1, <2>2, <2>3, <2>4
  <1>11. RecordTheProposal => Grows({"proposal"}) /\ {"proposal"} \cap ToolKinds = {}
    <2> DEFINE event == Stamped("proposal", proposal.id, "recorded")
    <2>1. pc = "record" => proposal.id \in ProposalIds
      BY DEF TypeInv, Places, Attempting, Proposal
    <2>2. pc = "record" => event \in LedgerEvent /\ event.kind = "proposal"
      BY <2>1, StampedType DEF EventKinds, EventStatuses, Stamped, TypeInv, TypeOK
    <2>3. RecordTheProposal => pc = "record" /\ events' = Append(events, event)
      BY DEF RecordTheProposal, RecordProposal
    <2> HIDE DEF event
    <2>4. events \in Seq(LedgerEvent)
      BY DEF TypeInv, TypeOK, LedgerTypeOK
    <2>5. QED
      BY <2>2, <2>3, <2>4, AppendGrows DEF ToolKinds
  <1>12. QuietKinds \cap ToolKinds = {}
    BY DEF QuietKinds, ToolKinds
  <1>13. QED
    BY <1>2, <1>4, <1>5, <1>6, <1>8, <1>9, <1>10, <1>11, <1>12, CalmSteps

\* The proposals of a run and the trail tell the same until its attempts end
\* (ledger.record_proposal, the lists of run_bounded_attempts).
THEOREM ProposalsAreOnTheTrail == Spec => []ProposalsInv
  <1>1. Init => ProposalsInv
    <2> SUFFICES ASSUME Init PROVE Recorded(Listed)
      BY DEF ProposalsInv
    <2>1. Listed = <<>>
      BY DEF Init, Listed
    <2>2. \A n \in DOMAIN events : events[n].kind # "proposal"
      BY DEF Init, MachineInit
    <2>3. RefsOfKind("proposal") = {}
      BY <2>2 DEF RefsOfKind
    <2>4. QED
      BY <2>1, <2>3 DEF Recorded
  <1>2. ProposalsInv /\ UNCHANGED vars => ProposalsInv'
    BY DEF ProposalsInv, Recorded, Listed, RefsOfKind, Ending, vars, runVars, ledgerVars, attemptVars
  <1>3. TypeInv /\ ChainInv /\ TrailInv /\ ProposalsInv /\ [Next]_vars => ProposalsInv'
    BY <1>2, ProposalsPreserved
  <1>4. QED
    BY <1>1, <1>3, CoordinatorTypes, AttemptsFollowOn, TrailAgrees, PTL DEF Spec

\* Every tool event of a run was kept by the session of its attempt, and each
\* session acted only in its own attempt and at its revision, until the
\* attempts end (tools.ToolSession, the lists of run_bounded_attempts).
THEOREM SessionsKeepTheTrail == Spec => []SessionsInv
  <1>1. Init => SessionsInv
    <2> SUFFICES ASSUME Init PROVE SessionsInv
      OBVIOUS
    <2>1. pc = "contract" /\ session = NoSession /\ DOMAIN sessions = {}
      BY DEF Init
    <2>2. \A n \in DOMAIN events : events[n].kind \in {"revision", "state_transition"}
      BY DEF Init, MachineInit
    <2>3. ToolEvents = {}
      BY <2>2 DEF ToolEvents
    <2>4. QED
      BY <2>1, <2>3 DEF SessionsInv, Verifying, Judged
  <1>2. SessionsInv /\ UNCHANGED vars => SessionsInv'
    <2> SUFFICES ASSUME SessionsInv, UNCHANGED vars PROVE SessionsInv'
      OBVIOUS
    <2>1. UNCHANGED <<session, sessions, proposals, events, revision, attempt, toolNext, pc>>
      BY DEF vars, runVars, ledgerVars, attemptVars, verifyVars
    <2>2. UNCHANGED ToolEvents /\ UNCHANGED ToolAction
      BY <2>1 DEF ToolEvents, ToolAction, ToolCheck
    <2>3. UNCHANGED ActionsOf(session)
      BY <2>1 DEF ActionsOf
    <2>4. (~Ending => \A n \in ToolEvents :
                         \E s \in {session} \cup Range(sessions) : KeptBy(s, events[n]))'
      BY <2>1, <2>2 DEF SessionsInv, KeptBy, ActionsOf, Ending
    <2>5. (\A i \in DOMAIN sessions : SessionFits(sessions[i], i, proposals[i].revision))'
      BY <2>1 DEF SessionsInv, SessionFits, ActionsOf
    <2>6. (Verifying => SessionFits(session, attempt, revision))'
      BY <2>1 DEF SessionsInv, SessionFits, ActionsOf, Verifying
    <2>7. QED
      BY <2>1, <2>2, <2>3, <2>4, <2>5, <2>6 DEF SessionsInv, Verifying, Judged, Ending, Last
  <1>3. TypeInv /\ ChainInv /\ SessionsInv /\ [Next]_vars => SessionsInv'
    BY <1>2, SessionsPreserved
  <1>4. QED
    BY <1>1, <1>3, CoordinatorTypes, AttemptsFollowOn, PTL DEF Spec

-------------------------------------------------------------------------------
(* What the record is built from *)

\* One session for each proposal, or none at all.
LEMMA ShorterList ==
    ASSUME NEW S, NEW T, NEW s \in Seq(S), NEW t \in Seq(T), Len(s) \in {0, Len(t)}
    PROVE  DOMAIN s \subseteq DOMAIN t /\ (t = <<>> => Len(s) = 0 /\ DOMAIN s = {})
  OBVIOUS

\* Proposals the trail tells of and sessions that fit them make a record.
LEMMA FittingIsRecordable ==
    ASSUME NEW props \in Seq(Proposal), NEW list \in Seq(Session),
           Len(transitions) >= 2, AllTold(evidence, events), Recorded(props),
           Len(props) <= budget, \A i \in DOMAIN props : props[i].attempt = i,
           Len(list) \in {0, Len(props)},
           \A i \in DOMAIN list : SessionFits(list[i], i, props[i].revision),
           \A n \in ToolEvents : \E i \in DOMAIN list : KeptBy(list[i], events[n])
    PROVE  Recordable(props, list)
  <1>1. ProposalsSound(props)
    BY DEF Recorded, ProposalsSound
  <1>2. props = <<>> => Len(list) = 0 /\ DOMAIN list = {}
    BY ShorterList
  <1>3. DOMAIN list \subseteq DOMAIN props /\ LiveSessions(list) \subseteq DOMAIN list
    BY ShorterList DEF LiveSessions
  <1>4. \A n \in ToolEvents : \E i \in LiveSessions(list) : KeptBy(list[i], events[n])
    BY DEF KeptBy, LiveSessions
  <1>5. SessionsSound(props, list)
    <2>1. LiveSessions(list) = {} => ToolEvents = {}
      BY <1>4
    <2>2. ASSUME props = <<>>
          PROVE  Len(list) = Cardinality(LiveSessions(list)) /\ Len(list) <= 1
      <3>1. Len(list) = 0 /\ LiveSessions(list) = {}
        BY <1>2, <1>3, <2>2
      <3>2. QED
        BY <3>1, FS_EmptySet
    <2>3. QED
      BY <2>1, <2>2 DEF SessionsSound
  <1>6. ToolIdsSound(list)
    <2>1. \A i \in DOMAIN list : \A a \in ActionsOf(list[i]) : a[2] = i
      BY DEF SessionFits, ActionsOf
    <2>2. \A i \in DOMAIN list : list[i].observed \subseteq ActionsOf(list[i])
      BY DEF SessionFits
    <2>3. QED
      BY <1>3, <2>1, <2>2 DEF ToolIdsSound
  <1>7. ContextsSound(props, list)
    BY <1>3 DEF ContextsSound, SessionFits
  <1>8. ToolTrailSound(list)
    BY <1>4 DEF ToolTrailSound, KeptBy
  <1>9. EvidenceTimed
    BY DEF EvidenceTimed, AllTold, Told, EvidenceEvents, RefsOfKind
  <1>10. QED
    BY <1>1, <1>5, <1>6, <1>7, <1>8, <1>9 DEF Recordable

\* The lists of run_bounded_attempts outside of an attempt under verification.
LEMMA ListsAreRecordable ==
    ASSUME TypeInv, ChainInv, TrailInv, MachineInv, ProposalsInv, SessionsInv,
           pc \in {"triage", "propose", "mark", "record"} \/ Judged
    PROVE  Recordable(proposals, sessions)
  <1> USE DEF Judged
  <1>1. AllTold(evidence, events) /\ Len(transitions) >= 2
    BY DEF TrailInv, MachineInv, Ending
  <1>2. Recorded(proposals)
    BY DEF ProposalsInv, Listed, Ending
  <1>3. /\ proposals \in Seq(Proposal) /\ sessions \in Seq(Session)
        /\ Len(sessions) = Len(proposals) /\ Len(proposals) <= budget
    BY Numbers, ListsInStep DEF TypeInv, Places
  <1>4. \A i \in DOMAIN proposals : proposals[i].attempt = i
    BY DEF ChainInv, Chained
  <1>5. \A i \in DOMAIN sessions : SessionFits(sessions[i], i, proposals[i].revision)
    BY DEF SessionsInv
  <1>6. ASSUME NEW n \in ToolEvents
        PROVE  \E i \in DOMAIN sessions : KeptBy(sessions[i], events[n])
    <2>1. PICK s \in {session} \cup Range(sessions) : KeptBy(s, events[n])
      BY DEF SessionsInv, Ending
    <2>2. s \in {NoSession} \cup Range(sessions) /\ s # NoSession
      BY <2>1 DEF SessionsInv, Verifying, Ending, KeptBy, NoSession
    <2>3. QED
      BY <2>1, <2>2 DEF Range
  <1>7. QED
    BY <1>1, <1>2, <1>3, <1>4, <1>5, <1>6, FittingIsRecordable

\* One proposal and what its session kept, or nothing of either.
LEMMA SingleIsRecordable ==
    ASSUME Single, Len(transitions) >= 2, AllTold(evidence, events),
           proposal \in Proposal, proposal.attempt = 1, Recorded(<<proposal>>),
           NEW s \in Session, SessionFits(s, 1, proposal.revision),
           \A n \in ToolEvents : KeptBy(s, events[n])
    PROVE  Recordable(<<proposal>>, IF s.live THEN <<s>> ELSE <<>>)
  <1> DEFINE props == <<proposal>>
             list == IF s.live THEN <<s>> ELSE <<>>
  <1>1. /\ props \in Seq(Proposal) /\ Len(props) = 1 /\ DOMAIN props = {1}
        /\ props[1] = proposal
    OBVIOUS
  <1>2. /\ list \in Seq(Session) /\ Len(list) \in {0, 1}
        /\ DOMAIN list = IF s.live THEN {1} ELSE {}
        /\ s.live => list[1] = s
    OBVIOUS
  <1>3. Recorded(props)
    OBVIOUS
  <1> HIDE DEF props, list
  <1>4. Len(props) <= budget
    BY <1>1 DEF Single
  <1>5. \A n \in ToolEvents : \E i \in DOMAIN list : KeptBy(list[i], events[n])
    BY <1>2 DEF KeptBy
  <1>6. \A i \in DOMAIN list : SessionFits(list[i], i, props[i].revision)
    BY <1>1, <1>2
  <1>7. \A i \in DOMAIN props : props[i].attempt = i
    BY <1>1
  <1>8. Recordable(props, list)
    BY <1>1, <1>2, <1>3, <1>4, <1>5, <1>6, <1>7, FittingIsRecordable
  <1>9. QED
    BY <1>8 DEF props, list

\* A run that has entered no state of its own has one transition.
LEMMA BeyondReceived ==
    ASSUME TypeInv, MachineInv
    PROVE  Len(transitions) >= 2 <=> state # "received"
  <1>1. /\ transitions \in Seq(StateTransition) /\ Len(transitions) \in Nat
        /\ transitions # <<>> /\ transitions[Len(transitions)].to = state
    BY DEF TypeInv, TypeOK, MachineTypeOK, MachineInv, MachineTrailAgrees
  <1>2. ASSUME Len(transitions) >= 2 PROVE state # "received"
    <2> DEFINE n == Len(transitions)
    <2>1. n \in 2..n /\ n - 1 \in DOMAIN transitions
      BY <1>1, <1>2
    <2>2. /\ transitions[n].from = transitions[n - 1].to
          /\ transitions[n].to \in Allowed[transitions[n].from]
      BY <2>1 DEF MachineInv, MachineTrailAgrees
    <2>3. transitions[n - 1].to \in RunStates
      <3>1. transitions[n - 1] \in StateTransition
        BY <1>1, <2>1
      <3>2. QED
        BY <3>1 DEF StateTransition
    <2>4. \A from \in RunStates : "received" \notin Allowed[from]
      BY DEF Allowed, RunStates
    <2>5. QED
      BY <1>1, <2>2, <2>3, <2>4
  <1>3. Len(transitions) = 1 => state = "received"
    BY DEF MachineInv
  <1>4. Len(transitions) # 1 => Len(transitions) >= 2
    <2>1. Len(transitions) \in Nat /\ Len(transitions) # 0
      BY <1>1
    <2>2. QED
      BY <2>1
  <1>5. QED
    BY <1>2, <1>3, <1>4

\* What run_single_attempt has in hand once its proposal has its event.
LEMMA SingleInHand ==
    ASSUME TypeInv, ChainInv, TrailInv, ProposalsInv, SessionsInv, Single,
           Attempting \/ Judged, pc \notin {"mark", "record"}
    PROVE  /\ proposal \in Proposal /\ proposal.attempt = 1 /\ proposal # NoProposal
           /\ proposal.id \in proposalIds /\ Recorded(<<proposal>>)
           /\ SessionFits(session, 1, proposal.revision)
           /\ \A n \in ToolEvents : KeptBy(session, events[n])
  <1>1. attempt = 1 /\ ~Ending
    BY Numbers DEF Single, Attempting, Judged, Ending
  <1>2. proposal \in Proposal /\ proposal.attempt = 1 /\ proposal # NoProposal
    BY <1>1 DEF TypeInv, Places, NoProposal, Proposal
  <1>3. /\ proposals \in Seq(Proposal) /\ sessions \in Seq(Session)
        /\ Len(sessions) = Len(proposals) /\ DOMAIN sessions = 1..Len(proposals)
    BY ListsInStep DEF TypeInv, Places
  <1>4. Listed = <<proposal>>
    <2>1. CASE Attempting
      <3>1. Len(proposals) = 0
        BY <1>1, <2>1 DEF TypeInv, Places
      <3>2. proposals = <<>>
        BY <1>3, <3>1
      <3>3. QED
        BY <2>1, <3>2 DEF Listed, Attempting
    <2>2. CASE Judged
      <3>1. Len(proposals) = 1 /\ proposals[1] = proposal
        BY <1>1, <2>2 DEF TypeInv, Places
      <3>2. proposals = <<proposal>>
        BY <1>3, <3>1
      <3>3. QED
        BY <2>2, <3>2 DEF Listed, Judged
    <2>3. QED
      BY <2>1, <2>2
  <1>5. Recorded(<<proposal>>)
    BY <1>1, <1>4 DEF ProposalsInv
  <1>6. proposal.id \in proposalIds
    <2>1. RefsOfKind("proposal") = {proposal.id}
      BY <1>5 DEF Recorded
    <2>2. QED
      BY <2>1 DEF TrailInv, ProposalTrailAgrees, RefsOfKind
  <1>7. CASE Attempting
    <2>1. Len(proposals) = 0
      BY <1>1, <1>7 DEF TypeInv, Places
    <2>2. DOMAIN sessions = {} /\ Range(sessions) = {}
      BY <1>3, <2>1 DEF Range
    <2>3. \A n \in ToolEvents : KeptBy(session, events[n])
      BY <1>1, <2>2 DEF SessionsInv
    <2>4. SessionFits(session, 1, proposal.revision)
      <3>1. CASE Verifying
        BY <1>1, <1>7, <3>1 DEF SessionsInv, ChainInv
      <3>2. CASE ~Verifying
        BY <1>1, <2>2, <3>2 DEF SessionsInv, SessionFits, NoSession, ActionsOf
      <3>3. QED
        BY <3>1, <3>2
    <2>5. QED
      BY <1>2, <1>5, <1>6, <2>3, <2>4
  <1>8. CASE Judged
    <2>1. Len(proposals) = 1 /\ proposals[1] = proposal
      BY <1>1, <1>8 DEF TypeInv, Places
    <2>2. DOMAIN sessions = {1} /\ session = sessions[1]
      BY <1>3, <1>8, <2>1 DEF SessionsInv, Last
    <2>3. SessionFits(session, 1, proposal.revision)
      BY <2>1, <2>2 DEF SessionsInv
    <2>4. \A n \in ToolEvents : KeptBy(session, events[n])
      BY <1>1, <2>2 DEF SessionsInv, Range
    <2>5. QED
      BY <1>2, <1>5, <1>6, <2>3, <2>4
  <1>9. QED
    BY <1>7, <1>8

\* Before a single attempt has its proposal on the trail there is none.
LEMMA SingleBefore ==
    ASSUME TypeInv, TrailInv, ProposalsInv, SessionsInv, Single,
           Proposing \/ pc \in {"mark", "record"}
    PROVE  /\ proposals = <<>> /\ sessions = <<>> /\ session = NoSession
           /\ proposalIds = {} /\ RefsOfKind("proposal") = {} /\ ToolEvents = {}
  <1>1. attempt = 1 /\ ~Ending /\ ~Verifying /\ Listed = proposals
    BY Numbers DEF Single, Proposing, Ending, Verifying, Listed
  <1>2. Len(proposals) = 0
    BY <1>1 DEF TypeInv, Places, Attempting
  <1>3. proposals = <<>> /\ sessions = <<>> /\ Range(sessions) = {}
    BY <1>2, ListsInStep DEF Range
  <1>4. session = NoSession
    BY <1>1, <1>3 DEF SessionsInv
  <1>5. RefsOfKind("proposal") = {}
    BY <1>1, <1>2, ListsInStep DEF ProposalsInv, Recorded
  <1>6. proposalIds = {}
    BY <1>5 DEF TrailInv, ProposalTrailAgrees, RefsOfKind
  <1>7. ToolEvents = {}
    BY <1>1, <1>3, <1>4 DEF SessionsInv, KeptBy, NoSession
  <1>8. QED
    BY <1>3, <1>4, <1>5, <1>6, <1>7

\* CutShort for the failure and the session that a step leaves.
ShortOf(kind, s) ==
    \/ state = "received"
    \/ ~(evidenceIds \subseteq RefsOfKind("evidence"))
    \/ /\ Single
       /\ \/ kind = "foreign"
          \/ ToolEvents # {} /\ ~s.live
          \/ proposal # NoProposal /\ proposal.id \notin proposalIds
    \/ /\ ~Single
       /\ \/ state \in {"action_validation", "executed", "assessed"}
          \/ state = "proposed" /\ kind = "clock" /\ proposal.id \in proposalIds

\* What may be cut short is told by what the failing step leaves alone.
LEMMA ShortThen ==
    ASSUME UNCHANGED <<evidenceIds, proposalIds, events, state, attemptVars>>
    PROVE  CutShort' <=> ShortOf(failure', session')
  <1>1. UNCHANGED <<budget, proposal>>
    BY DEF attemptVars
  <1>2. /\ RefsOfKind("evidence")' = RefsOfKind("evidence")
        /\ ToolEvents' = ToolEvents
    BY DEF RefsOfKind, ToolEvents
  <1>3. QED
    BY <1>1, <1>2 DEF CutShort, ShortOf, Single

\* A record is made of the lists, of the trail and of nothing else.
LEMMA RecordableStays ==
    ASSUME UNCHANGED <<evidence, events, transitions, budget>>, NEW props, NEW list,
           FailedProposals' = props, FailedSessions' = list
    PROVE  Recordable(FailedProposals, FailedSessions)' <=> Recordable(props, list)
  <1>1. RefsOfKind("proposal")' = RefsOfKind("proposal")
        /\ RefsOfKind("evidence")' = RefsOfKind("evidence")
    BY DEF RefsOfKind
  <1>2. ToolEvents' = ToolEvents /\ LiveSessions(FailedSessions)' = LiveSessions(list)
    BY DEF ToolEvents, LiveSessions
  <1>3. ProposalsSound(FailedProposals)' <=> ProposalsSound(props)
    BY <1>1 DEF ProposalsSound
  <1>4. EvidenceTimed' <=> EvidenceTimed
    BY <1>1 DEF EvidenceTimed
  <1>5. SessionsSound(FailedProposals, FailedSessions)' <=> SessionsSound(props, list)
    BY <1>2 DEF SessionsSound
  <1>6. ToolIdsSound(FailedSessions)' <=> ToolIdsSound(list)
    BY <1>2 DEF ToolIdsSound, ActionsOf
  <1>7. ContextsSound(FailedProposals, FailedSessions)' <=> ContextsSound(props, list)
    BY <1>2 DEF ContextsSound
  <1>8. ToolTrailSound(FailedSessions)' <=> ToolTrailSound(list)
    BY <1>2 DEF ToolTrailSound, ActionsOf
  <1>9. QED
    BY <1>3, <1>4, <1>5, <1>6, <1>7, <1>8 DEF Recordable

\* run_single_attempt is cut short by what leaves its own records apart.
LEMMA SingleCutShort ==
    ASSUME TypeInv, ChainInv, TrailInv, MachineInv, ProposalsInv, SessionsInv, StateInv,
           Single, ~Ending, NEW kind, NEW s \in {session, NoSession},
           s # session => kind \in {"verifier", "foreign"},
           kind \in {"verifier", "foreign"} => Verifying
    PROVE  LET list == IF s.live THEN <<s>> ELSE <<>>
               props == IF proposal = NoProposal THEN <<>> ELSE <<proposal>>
           IN  /\ kind # "foreign" /\ Recordable(props, list) <=> ~ShortOf(kind, s)
               /\ proposal = NoProposal => ~s.live
  <1> DEFINE list == IF s.live THEN <<s>> ELSE <<>>
             props == IF proposal = NoProposal THEN <<>> ELSE <<proposal>>
  <1>1. AllTold(evidence, events) /\ EvidenceIdsAgree
    BY DEF TrailInv
  <1>2. evidenceIds \subseteq RefsOfKind("evidence")
    BY <1>1 DEF AllTold, EvidenceIdsAgree, EvidenceEvents, RefsOfKind
  <1>3. Len(transitions) >= 2 <=> state # "received"
    BY BeyondReceived
  <1>4. ~NoSession.live /\ NoSession \in Session /\ session \in Session
    BY SessionTypes DEF NoSession, TypeInv, TypeOK
  <1>5. CASE Proposing
    <2>1. /\ proposals = <<>> /\ sessions = <<>> /\ s = NoSession /\ ToolEvents = {}
          /\ proposal = NoProposal
      BY <1>5, SingleBefore DEF TypeInv, Places
    <2>2. props = <<>> /\ list = <<>>
      BY <1>4, <2>1
    <2>3. kind # "foreign"
      BY <1>5 DEF Proposing, Verifying
    <2>4. pc = "contract" => state = "received"
      BY DEF StateInv
    <2>5. pc # "contract" => Recordable(<<>>, <<>>) /\ state # "received"
      BY <1>5, <2>1, ListsAreRecordable DEF Proposing, StateInv
    <2>6. Recordable(<<>>, <<>>) => state # "received"
      BY <1>3 DEF Recordable
    <2>7. ShortOf(kind, s) <=> state = "received"
      BY <1>2, <2>1, <2>3 DEF ShortOf
    <2>8. QED
      BY <1>4, <1>5, <2>1, <2>2, <2>3, <2>4, <2>5, <2>6, <2>7
  <1>6. CASE pc \in {"mark", "record"}
    <2>1. proposal \in Proposal /\ proposal # NoProposal
      BY <1>6 DEF TypeInv, Places, Attempting, NoProposal, Proposal
    <2>2. proposalIds = {} /\ RefsOfKind("proposal") = {}
      BY <1>6, SingleBefore
    <2>3. ~ProposalsSound(<<proposal>>)
      <3>1. DOMAIN <<proposal>> = {1} /\ <<proposal>>[1] = proposal
        OBVIOUS
      <3>2. {<<proposal>>[i].id : i \in DOMAIN <<proposal>>} # {}
        BY <3>1
      <3>3. QED
        BY <2>2, <3>2 DEF ProposalsSound
    <2>4. props = <<proposal>>
      BY <2>1
    <2>5. ~Recordable(props, list)
      BY <2>3, <2>4 DEF Recordable
    <2>6. ShortOf(kind, s)
      BY <2>1, <2>2 DEF ShortOf
    <2>7. QED
      BY <2>1, <2>5, <2>6
  <1>7. CASE (Attempting \/ Judged) /\ pc \notin {"mark", "record"}
    <2>1. /\ proposal \in Proposal /\ proposal.attempt = 1 /\ proposal # NoProposal
          /\ proposal.id \in proposalIds /\ Recorded(<<proposal>>)
          /\ SessionFits(session, 1, proposal.revision)
          /\ \A n \in ToolEvents : KeptBy(session, events[n])
      BY <1>7, SingleInHand
    <2>2. state # "received" /\ Len(transitions) >= 2
      BY <1>3, <1>7 DEF StateInv, Attempting, Judged
    <2>3. props = <<proposal>>
      BY <2>1
    <2>4. ShortOf(kind, s) <=> kind = "foreign" \/ (ToolEvents # {} /\ ~s.live)
      BY <1>2, <2>1, <2>2 DEF ShortOf
    <2>5. CASE ToolEvents # {} /\ ~s.live
      <3>1. list = <<>> /\ LiveSessions(list) = {}
        BY <2>5 DEF LiveSessions
      <3>2. ~SessionsSound(props, list)
        BY <2>5, <3>1 DEF SessionsSound
      <3>3. QED
        BY <2>1, <2>4, <2>5, <3>2 DEF Recordable
    <2>6. CASE ToolEvents = {} \/ s.live
      <3>1. SessionFits(s, 1, proposal.revision)
        BY <2>1 DEF SessionFits, NoSession, ActionsOf
      <3>2. \A n \in ToolEvents : KeptBy(s, events[n])
        BY <1>4, <2>1, <2>6
      <3>3. Recordable(<<proposal>>, list)
        BY <1>1, <1>4, <2>1, <2>2, <3>1, <3>2, SingleIsRecordable
      <3>4. QED
        BY <2>1, <2>3, <2>4, <2>6, <3>3
    <2>7. QED
      BY <2>5, <2>6
  <1>8. pc \in {"contract", "triage", "propose", "mark", "record", "validate", "execute", "verify",
                "dispatch", "verified", "report", "assess", "decide", "restage", "revise", "export",
                "build", "cleanup", "done"}
    BY DEF TypeInv, TypeOK
  <1>9. QED
    BY <1>5, <1>6, <1>7, <1>8 DEF Proposing, Attempting, Judged, Ending

\* run_bounded_attempts is cut short between the event of a proposal and its
\* decision, whatever fails there.
LEMMA BoundedCutShort ==
    ASSUME TypeInv, ChainInv, TrailInv, MachineInv, ProposalsInv, SessionsInv, StateInv,
           ~Single, ~Ending, NEW kind, NEW s,
           pc = "record" /\ kind = "clock" => proposal.id \notin proposalIds,
           pc = "validate" => kind = "clock"
    PROVE  Recordable(proposals, sessions) <=> ~ShortOf(kind, s)
  <1>1. AllTold(evidence, events) /\ EvidenceIdsAgree
    BY DEF TrailInv
  <1>2. evidenceIds \subseteq RefsOfKind("evidence")
    BY <1>1 DEF AllTold, EvidenceIdsAgree, EvidenceEvents, RefsOfKind
  <1>3. CASE pc = "contract"
    <2>1. state = "received" /\ ~(Len(transitions) >= 2)
      BY <1>3, BeyondReceived DEF StateInv
    <2>2. QED
      BY <2>1 DEF Recordable, ShortOf
  <1>4. CASE pc \in {"triage", "propose", "mark", "record"} \/ Judged
    <2>1. Recordable(proposals, sessions)
      BY <1>4, ListsAreRecordable
    <2>2. /\ state \notin {"received", "action_validation", "executed", "assessed"}
          /\ state = "proposed" => pc = "record"
      BY <1>4 DEF StateInv, Judged
    <2>3. QED
      BY <1>2, <2>1, <2>2 DEF ShortOf
  <1>5. CASE pc \in {"validate", "execute", "verify", "dispatch", "verified", "report", "assess",
                     "decide"}
    <2> DEFINE all == Append(proposals, proposal)
               last == Len(proposals) + 1
    <2>1. proposals \in Seq(Proposal) /\ proposal \in Proposal
      BY <1>5 DEF TypeInv, TypeOK, Places, Attempting
    <2>2. Recorded(all)
      BY <1>5 DEF ProposalsInv, Listed
    <2>3. /\ DOMAIN all = DOMAIN proposals \cup {last} /\ last \notin DOMAIN proposals
          /\ all[last] = proposal
          /\ \A i \in DOMAIN proposals : all[i] = proposals[i]
      BY <2>1
    <2> HIDE DEF all, last
    <2>4. proposal.id \in RefsOfKind("proposal")
      BY <2>2, <2>3 DEF Recorded
    <2>5. \A i \in DOMAIN proposals : proposals[i].id # proposal.id
      BY <2>2, <2>3 DEF Recorded
    <2>6. ~ProposalsSound(proposals)
      BY <2>4, <2>5 DEF ProposalsSound
    <2>7. proposal.id \in proposalIds
      BY <2>4 DEF TrailInv, ProposalTrailAgrees, RefsOfKind
    <2>8. ShortOf(kind, s)
      BY <1>5, <2>7 DEF StateInv, ShortOf
    <2>9. QED
      BY <2>6, <2>8 DEF Recordable
  <1>6. pc \in {"contract", "triage", "propose", "mark", "record", "validate", "execute", "verify",
                "dispatch", "verified", "report", "assess", "decide", "restage", "revise", "export",
                "build", "cleanup", "done"}
    BY DEF TypeInv, TypeOK
  <1>7. QED
    BY <1>3, <1>4, <1>5, <1>6 DEF Judged, Ending

\* A step that ends the attempts and leaves ledger and lists alone.
LEMMA RecordAtTheEnd ==
    ASSUME TypeInv, ChainInv, TrailInv, MachineInv, ProposalsInv, SessionsInv, StateInv, ~Ending,
           UNCHANGED <<evidence, evidenceIds, proposalIds, events, machineVars, attemptVars>>,
           session' \in {session, NoSession},
           session' # session => failure' \in {"verifier", "foreign"},
           failure' \in {"verifier", "foreign"} => Verifying,
           pc = "record" /\ failure' = "clock" => proposal.id \notin proposalIds,
           pc = "validate" => failure' = "clock"
    PROVE  RecordInv'
  <1>1. UNCHANGED <<state, transitions, budget, proposal, proposals, sessions>>
    BY DEF machineVars, attemptVars
  <1>2. CutShort' <=> ShortOf(failure', session')
    BY <1>1, ShortThen
  <1>3. CASE Single
    <2> DEFINE list == IF session'.live THEN <<session'>> ELSE <<>>
               props == IF proposal = NoProposal THEN <<>> ELSE <<proposal>>
    <2>1. FailedProposals' = props /\ FailedSessions' = list
      BY <1>1, <1>3 DEF FailedProposals, FailedSessions, Single
    <2>2. Recordable(FailedProposals, FailedSessions)' <=> Recordable(props, list)
      BY <1>1, <2>1, RecordableStays
    <2>3. /\ failure' # "foreign" /\ Recordable(props, list) <=> ~ShortOf(failure', session')
          /\ proposal = NoProposal => ~session'.live
      BY <1>3, SingleCutShort
    <2> HIDE DEF list, props
    <2>4. OwnSessions' <=> failure' # "foreign"
      BY <1>1, <1>3 DEF OwnSessions, Single
    <2>5. QED
      BY <1>1, <1>2, <2>2, <2>3, <2>4 DEF RecordInv
  <1>4. CASE ~Single
    <2>1. FailedProposals' = proposals /\ FailedSessions' = sessions
      BY <1>1, <1>4 DEF FailedProposals, FailedSessions, Single
    <2>2. Recordable(FailedProposals, FailedSessions)' <=> Recordable(proposals, sessions)
      BY <1>1, <2>1, RecordableStays
    <2>3. Recordable(proposals, sessions) <=> ~ShortOf(failure', session')
      BY <1>4, BoundedCutShort
    <2>4. OwnSessions' /\ ~Single'
      BY <1>1, <1>4 DEF OwnSessions, Single
    <2>5. QED
      BY <1>2, <2>2, <2>3, <2>4 DEF RecordInv
  <1>5. QED
    BY <1>3, <1>4

\* An item of evidence without its event is one that no record can date.
LEMMA UntoldIsCutShort ==
    ASSUME TypeInv, TrailInv, ~Ending, Next, EvidenceClockRaises
    PROVE  ~EvidenceTimed' /\ CutShort'
  <1>1. LedgerTypeOK /\ evidence \in Seq(Evidence) /\ events \in Seq(LedgerEvent)
    BY DEF TypeInv, TypeOK, LedgerTypeOK
  <1>2. PICK e \in Evidence :
           /\ e.id \notin evidenceIds /\ evidenceIds' = evidenceIds \cup {e.id}
           /\ evidence' = Append(evidence, e)
           /\ \/ UNCHANGED events
              \/ \E event \in LedgerEvent :
                    event.kind # "evidence" /\ events' = Append(events, event)
    <2>1. CASE ToolStep(FALSE)
      <3>1. PICK event \in LedgerEvent, e \in Evidence :
               /\ ToolAppend(event, e, FALSE)
               /\ event.kind \in {"tool_request", "tool_observation"}
        BY <2>1 DEF ToolStep
      <3>2. /\ e.id \notin evidenceIds /\ evidenceIds' = evidenceIds \cup {e.id}
            /\ evidence' = Append(evidence, e) /\ events' = Append(events, event)
        BY <3>1 DEF ToolAppend
      <3>3. QED
        BY <3>1, <3>2
    <2>2. CASE ReportStep(FALSE)
      BY <2>2 DEF ReportStep, RecordEvidenceClockFails, EvidenceRefused
    <2>3. QED
      BY <2>1, <2>2, ToolStepsAppend
  <1>3. RefsOfKind("evidence")' \subseteq evidenceIds
    <2>1. ASSUME NEW n \in DOMAIN events', events'[n].kind = "evidence"
          PROVE  n \in DOMAIN events /\ events'[n] = events[n]
      <3>1. CASE UNCHANGED events
        BY <2>1, <3>1
      <3>2. ASSUME NEW event \in LedgerEvent, event.kind # "evidence",
                   events' = Append(events, event)
            PROVE  n \in DOMAIN events /\ events'[n] = events[n]
        BY <1>1, <2>1, <3>2
      <3>3. QED
        BY <1>2, <3>1, <3>2
    <2>2. \A n \in DOMAIN events : events[n].kind = "evidence" => events[n].ref \in evidenceIds
      BY DEF TrailInv, Told, EvidenceEvents, EvidenceIdsAgree
    <2>3. QED
      BY <2>1, <2>2 DEF RefsOfKind
  <1>4. e.id \notin RefsOfKind("evidence")'
    BY <1>2, <1>3
  <1>5. e.id \in {evidence'[i].id : i \in DOMAIN evidence'}
    <2>1. Len(evidence) + 1 \in DOMAIN evidence' /\ evidence'[Len(evidence) + 1] = e
      BY <1>1, <1>2
    <2>2. QED
      BY <2>1
  <1>6. QED
    BY <1>2, <1>4, <1>5 DEF EvidenceTimed, CutShort

LEMMA StatePreserved ==
    ASSUME TypeInv, StateInv, Next
    PROVE  StateInv'
  <1> USE DEF Judged
  <1>1. CASE Ending'
    BY <1>1 DEF StateInv, Ending
  <1>2. CASE ~Ending' /\ Move
    BY <1>2 DEF Move, Enter, Transition, StateInv
  <1>3. CASE DecideAttempt
    <2>1. decision'.verdict \in Verdicts /\ pc' \in {"restage", "export"}
      BY <1>3, DecisionType, CoordinatorAssumption DEF DecideAttempt, TypeInv, TypeOK
    <2>2. state' = DecisionState[decision'.verdict] /\ (pc' = "restage" => decision'.verdict = "revise")
      BY <1>3 DEF DecideAttempt, ApplyDecision, Transition, MayRetry
    <2>3. /\ state' \in {"revision_required", "blocked", "escalated", "verified"}
          /\ pc' = "restage" => state' = "revision_required"
      BY <2>1, <2>2 DEF DecisionState, Verdicts
    <2>4. QED
      BY <2>1, <2>3 DEF StateInv
  <1>4. CASE Restage
    BY <1>4 DEF Restage, StateInv, machineVars
  <1>5. CASE Revise
    BY <1>5 DEF Revise, StateInv, machineVars
  <1>6. ASSUME NEW result \in Digests, NEW n \in 1..attempt, Propose(n, result) PROVE StateInv'
    BY <1>6 DEF Propose, StateInv, machineVars
  <1>7. CASE Execute
    BY <1>7 DEF Execute, Transition, StateInv
  <1>8. ASSUME \/ RecordTheProposal \/ ToolFails \/ RecordReport
               \/ \E allowed \in BOOLEAN : RequestTool(allowed)
               \/ \E passed \in BOOLEAN : ObserveTool(passed)
               \/ \E r \in Reports : VerifierReturns(r)
               \/ \E late \in BOOLEAN : CollectFindings(late)
               \/ \E digest \in Digests : Drift(digest)
        PROVE  StateInv'
    BY <1>8 DEF RecordTheProposal, ToolFails, RecordReport, RequestTool, ObserveTool,
                VerifierReturns, CollectFindings, Drift, StateInv, machineVars
  <1>9. ~Ending' => ~(Quit \/ EvidenceClockRaises \/ RevisionClockRaises)
    BY DEF Quit, EvidenceClockRaises, RevisionClockRaises, Raise, Ending
  <1>10. CASE ~Ending' /\ Leave
    BY <1>10 DEF Leave, BuildRecord, Finish, ArtifactDecays, Done, CloseSnapshot, Raise, Ending,
                 vars, machineVars, StateInv
  <1>11. QED
    BY <1>1, <1>2, <1>3, <1>4, <1>5, <1>6, <1>7, <1>8, <1>9, <1>10, StepIsOneOf

\* Where a run may be found in each state of its machine (state.py's table and
\* the order of the calls in coordinator.py).
THEOREM StatesAreInPlace == Spec => []StateInv
  <1>1. Init => StateInv
    BY DEF Init, MachineInit, StateInv, Judged
  <1>2. StateInv /\ UNCHANGED vars => StateInv'
    BY DEF StateInv, Judged, vars, machineVars
  <1>3. TypeInv /\ StateInv /\ [Next]_vars => StateInv'
    BY <1>2, StatePreserved
  <1>4. QED
    BY <1>1, <1>3, CoordinatorTypes, PTL DEF Spec

\* Once the attempts are over only a failing cleanup changes the failure.
LEMMA RecordStays ==
    ASSUME RecordInv, Ending,
           UNCHANGED <<evidence, evidenceIds, proposalIds, events, machineVars, attemptVars, session>>,
           failure' = failure \/ (failure = "none" /\ failure' = "cleanup")
    PROVE  RecordInv'
  <1>1. UNCHANGED <<state, transitions, budget, proposal, proposals, sessions>>
    BY DEF machineVars, attemptVars
  <1>2. FailedProposals' = FailedProposals /\ FailedSessions' = FailedSessions
    BY <1>1 DEF FailedProposals, FailedSessions, Single
  <1>3. Recordable(FailedProposals, FailedSessions)' <=> Recordable(FailedProposals, FailedSessions)
    BY <1>1, <1>2, RecordableStays
  <1>4. RefsOfKind("evidence")' = RefsOfKind("evidence") /\ ToolEvents' = ToolEvents
    BY DEF RefsOfKind, ToolEvents
  <1>5. CutShort' <=> CutShort
    BY <1>1, <1>4 DEF CutShort, Single
  <1>6. OwnSessions' <=> OwnSessions
    BY <1>1 DEF OwnSessions, Single
  <1>7. QED
    BY <1>1, <1>3, <1>5, <1>6 DEF RecordInv, Single

LEMMA RecordPreserved ==
    ASSUME TypeInv, ChainInv, TrailInv, MachineInv, ProposalsInv, SessionsInv, StateInv, RecordInv,
           Next
    PROVE  RecordInv'
  <1>1. CASE ~Ending'
    BY <1>1 DEF RecordInv
  <1>2. CASE Ending' /\ Leave
    <2>1. UNCHANGED <<evidence, evidenceIds, proposalIds, events, machineVars, attemptVars, session>>
      BY <1>2 DEF Leave, ledgerVars
    <2>2. failure' = failure \/ (failure = "none" /\ failure' = "cleanup")
      BY <1>2, LeavingKeeps DEF Finish
    <2>3. CASE Ending
      BY <2>1, <2>2, <2>3, RecordStays
    <2>4. CASE pc = "build"
      <3>1. ~Ending /\ failure' \in {"none", "cleanup"}
        BY <2>2, <2>4 DEF TypeInv, Places, Ending
      <3>2. QED
        BY <2>1, <2>4, <3>1, RecordAtTheEnd
    <2>5. QED
      BY <1>2, <2>3, <2>4 DEF Leave
  <1>3. CASE Ending' /\ Quit
    <2>1. /\ ~Ending
          /\ UNCHANGED <<evidence, evidenceIds, proposalIds, events, machineVars, attemptVars>>
      BY <1>3 DEF Quit, ledgerVars
    <2>2. /\ session' \in {session, NoSession}
          /\ session' # session => failure' \in {"verifier", "foreign"}
          /\ failure' \in {"verifier", "foreign"} => Verifying
          /\ pc = "record" /\ failure' = "clock" => proposal.id \notin proposalIds
          /\ pc = "validate" => failure' = "clock"
      BY <1>3 DEF Quit, QuitKinds, Raise, Verifying, RefuseTheProposal, RefuseReport,
                  ProposalRefused
    <2>3. QED
      BY <2>1, <2>2, RecordAtTheEnd
  <1>4. CASE Ending' /\ RevisionClockRaises
    <2>1. /\ pc = "revise" /\ failure' = "clock"
          /\ UNCHANGED <<evidence, evidenceIds, proposalIds, events, machineVars, attemptVars,
                         session>>
      BY <1>4 DEF RevisionClockRaises, RecordRevisionClockFails, Raise
    <2>2. ~Ending
      BY <2>1 DEF Ending
    <2>3. QED
      BY <2>1, <2>2, RecordAtTheEnd
  <1>5. CASE Ending' /\ EvidenceClockRaises
    <2>1. pc \in {"verify", "dispatch", "report"} /\ UNCHANGED attemptVars
      BY <1>5 DEF EvidenceClockRaises
    <2>2. ~EvidenceTimed' /\ CutShort'
      BY <1>5, <2>1, UntoldIsCutShort DEF Ending
    <2>3. proposal' # NoProposal
      BY <2>1 DEF TypeInv, Places, Attempting, NoProposal, Proposal, attemptVars
    <2>4. ~Recordable(FailedProposals, FailedSessions)'
      BY <2>2 DEF Recordable
    <2>5. QED
      BY <2>2, <2>3, <2>4 DEF RecordInv
  <1>6. QED
    BY <1>1, <1>2, <1>3, <1>4, <1>5, EndingSteps

\* Artifacts are read back for what a failure record is built from.
LEMMA ArtifactsReadBack ==
    ASSUME TypeInv, RecordInv, Ending
    PROVE  ArtifactsSound(FailedProposals, FailedSessions, failure = "generator_artifacts")
              <=> ~ArtifactMissed
  <1>1. /\ proposals \in Seq(Proposal) /\ sessions \in Seq(Session)
        /\ Len(sessions) = Len(proposals)
    BY ListsInStep DEF TypeInv, Places
  <1>2. CASE Single
    <2>1. FailedProposals = <<>> <=> proposal = NoProposal
      BY <1>2 DEF FailedProposals
    <2>2. proposal = NoProposal => FailedSessions = <<>> /\ LiveSessions(FailedSessions) = {}
      BY <1>2 DEF RecordInv, FailedSessions, LiveSessions
    <2>3. proposal = NoProposal => proposals = <<>>
      <3>1. attempt = 1
        BY <1>2, Numbers DEF Single
      <3>2. Len(proposals) \in {0, 1} /\ (Len(proposals) = 1 => proposals[1] = proposal)
        BY <3>1 DEF TypeInv, Places
      <3>3. Len(proposals) = 1 => proposal \in Proposal
        BY <1>1, <3>2
      <3>4. QED
        BY <1>1, <3>2, <3>3 DEF NoProposal, Proposal
    <2>4. QED
      BY <1>2, <2>1, <2>2, <2>3 DEF ArtifactsSound, ArtifactMissed
  <1>3. CASE ~Single
    <2>1. FailedProposals = proposals /\ FailedSessions = sessions
      BY <1>3 DEF FailedProposals, FailedSessions
    <2>2. proposals = <<>> => LiveSessions(sessions) = {}
      BY <1>1 DEF LiveSessions
    <2>3. QED
      BY <1>3, <2>1, <2>2 DEF ArtifactsSound, ArtifactMissed
  <1>4. QED
    BY <1>2, <1>3

LEMMA OutcomePreserved ==
    ASSUME TypeInv, RecordInv, OutcomeInv, Next
    PROVE  OutcomeInv'
  <1>1. CASE pc' # "done"
    BY <1>1 DEF OutcomeInv
  <1>2. CASE pc' = "done"
    <2>1. Leave
      BY <1>2, EndingSteps DEF Ending, Quit, EvidenceClockRaises, RevisionClockRaises, Raise
    <2>2. /\ UNCHANGED <<evidenceIds, proposalIds, events, state, budget, proposal, proposals,
                         session>>
      BY <2>1 DEF Leave, ledgerVars, machineVars, attemptVars
    <2>3. /\ RefsOfKind("evidence")' = RefsOfKind("evidence") /\ ToolEvents' = ToolEvents
      BY <2>2 DEF RefsOfKind, ToolEvents
    <2>4. ASSUME failure' = failure \/ (failure = "none" /\ failure' = "cleanup"),
                 UNCHANGED storeIntact
          PROVE  (CutShort' <=> CutShort) /\ (ArtifactMissed' <=> ArtifactMissed)
      BY <2>2, <2>3, <2>4 DEF CutShort, ArtifactMissed, Single
    <2>5. CASE Done
      <3>1. UNCHANGED <<failure, storeIntact, outcome, pc>>
        BY <2>5 DEF Done, vars, runVars, exitVars, hostVars
      <3>2. QED
        BY <2>4, <3>1 DEF OutcomeInv
    <2>6. CASE Finish
      <3>1. /\ pc = "cleanup" /\ UNCHANGED storeIntact
            /\ failure' = failure \/ (failure = "none" /\ failure' = "cleanup")
            /\ ReturnRecord \/ RaiseWithRecord \/ RaiseWithoutRecord
        BY <2>6 DEF Finish, hostVars
      <3>2. FailureSound <=> ~CutShort /\ ~ArtifactMissed
        <4>1. OwnSessions /\ Recordable(FailedProposals, FailedSessions) <=> ~CutShort
          BY <3>1 DEF RecordInv, Ending
        <4>2. ArtifactsSound(FailedProposals, FailedSessions, failure = "generator_artifacts")
                 <=> ~ArtifactMissed
          BY <3>1, ArtifactsReadBack DEF Ending
        <4>3. CitationsSound({})
          BY DEF CitationsSound
        <4>4. FailureSound <=>
                 /\ OwnSessions /\ Recordable(FailedProposals, FailedSessions)
                 /\ ArtifactsSound(FailedProposals, FailedSessions, failure = "generator_artifacts")
          BY <4>3 DEF FailureSound, RecordSound, Recordable
        <4>5. QED
          BY <4>1, <4>2, <4>4
      <3>3. QED
        BY <2>4, <3>1, <3>2
           DEF OutcomeInv, ReturnRecord, RaiseWithRecord, RaiseWithoutRecord
    <2>7. QED
      BY <1>2, <2>1, <2>5, <2>6, LeavingKeeps
  <1>3. QED
    BY <1>1, <1>2

\* Whatever fails, the proposals, sessions and events agree exactly where the
\* run was not cut short, and the caller gets a record exactly then
\* (coordinator.py's handlers, records.build_failed_run_record).
THEOREM FailuresAreRecordable == Spec => [](RecordInv /\ OutcomeInv)
  <1>1. Init => RecordInv /\ OutcomeInv
    BY DEF Init, RecordInv, OutcomeInv, Ending
  <1>2. RecordInv /\ OutcomeInv /\ UNCHANGED vars => (RecordInv /\ OutcomeInv)'
    <2> SUFFICES ASSUME RecordInv, OutcomeInv, UNCHANGED vars PROVE (RecordInv /\ OutcomeInv)'
      OBVIOUS
    <2>1. UNCHANGED <<ledgerVars, machineVars, session, pc, attemptVars, exitVars, hostVars>>
      BY DEF vars, runVars
    <2>2. UNCHANGED <<evidence, evidenceIds, proposalIds, events, state, budget, proposal,
                      proposals, failure, storeIntact, outcome>>
      BY <2>1 DEF ledgerVars, machineVars, attemptVars, exitVars, hostVars
    <2>3. RecordInv'
      BY <2>1, <2>2, RecordStays DEF RecordInv, Ending
    <2>4. RefsOfKind("evidence")' = RefsOfKind("evidence") /\ ToolEvents' = ToolEvents
      BY <2>2 DEF RefsOfKind, ToolEvents
    <2>5. OutcomeInv'
      BY <2>1, <2>2, <2>4 DEF OutcomeInv, CutShort, ArtifactMissed, Single
    <2>6. QED
      BY <2>3, <2>5
  <1>3. TypeInv /\ ChainInv /\ TrailInv /\ MachineInv /\ ProposalsInv /\ SessionsInv /\ StateInv
           /\ (RecordInv /\ OutcomeInv) /\ [Next]_vars
        => (RecordInv /\ OutcomeInv)'
    BY <1>2, RecordPreserved, OutcomePreserved
  <1>4. QED
    BY <1>1, <1>3, CoordinatorTypes, AttemptsFollowOn, TrailAgrees, OneHistory,
       ProposalsAreOnTheTrail, SessionsKeepTheTrail, StatesAreInPlace, PTL
       DEF Spec

\* A run that fails leaves no record exactly when it was cut short or has lost
\* an artifact the record would refer to: for run_bounded_attempts between the
\* event of a proposal and its decision; for run_single_attempt when a verifier
\* raises after using a tool, brings a tool session of another ledger or store,
\* or before the proposal has its event; for both when the clock raises before
\* the first transition or between an item of evidence and its event.
THEOREM RecordsAreOwed == Spec => []UnrecordedIffCutShort
  <1>1. TypeInv /\ OutcomeInv => UnrecordedIffCutShort
    BY DEF TypeInv, Places, OutcomeInv, UnrecordedIffCutShort
  <1>2. QED
    BY <1>1, CoordinatorTypes, FailuresAreRecordable, PTL

\* The record builder's checks reject nothing the coordinator has kept: only a
\* lost artifact or a finding that cites unknown evidence keeps a run that was
\* decided and exported from its record (records.build_run_record).
THEOREM DecidedRunsRecorded == Spec => []DecidedRunsAreRecorded
  <1>1. TypeInv /\ ChainInv /\ TrailInv /\ MachineInv /\ ProposalsInv /\ SessionsInv
           /\ VerdictInv
        => DecidedRunsAreRecorded
    <2> SUFFICES ASSUME TypeInv, ChainInv, TrailInv, MachineInv, ProposalsInv, SessionsInv,
                        VerdictInv, pc = "build", storeIntact,
                        \A f \in findings : f.refs \subseteq evidenceIds
                 PROVE  CompletionSound
      BY DEF DecidedRunsAreRecorded, TypeInv, TypeOK
    <2>1. state = "exported" /\ Last(transitions).from = DecisionState[decision.verdict]
      BY DEF MachineInv
    <2>2. Recordable(proposals, sessions)
      BY ListsAreRecordable DEF Judged
    <2>3. decision.refs \subseteq evidenceIds
      BY DEF VerdictInv, Settled, Judged
    <2>4. FindingRefs(findings) \subseteq evidenceIds
      BY DEF FindingRefs
    <2>5. CitationsSound(FindingRefs(findings) \cup decision.refs)
      BY <2>3, <2>4 DEF CitationsSound, TrailInv, EvidenceIdsAgree
    <2>6. QED
      BY <2>1, <2>2, <2>5 DEF CompletionSound, RecordSound, Recordable, ArtifactsSound
  <1>2. QED
    BY <1>1, CoordinatorTypes, AttemptsFollowOn, TrailAgrees, OneHistory, ProposalsAreOnTheTrail,
       SessionsKeepTheTrail, VerdictsStand, PTL

===============================================================================
