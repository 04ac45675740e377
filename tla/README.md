# Sheath: verification project

This directory holds TLA+ models of Sheath, the supervisor that runs an
untrusted code generator against a task contract and hands back a decision with
the evidence it rests on, together with the TLC configurations that check the
models and TLAPS proofs about them. Sources are under `src/sheath/src/sheath`
(the library, `P/` below) and `src/Thesis/pilot_data` (the pilot's runners,
`T/` below). `PROJECT.json` ties every definition to the lines it models.

## 1. The system

| Component | State | Operations | Meets the others by |
|---|---|---|---|
| Evidence ledger (`P/ledger.py`) | revision, evidence list + id set, proposal ids, event trail | `record_*`, `evidence_for`, `has_evidence` | shared by every other part; one RLock; injected clock |
| Decision policy (`P/decision.py`) | none | `decide` | reads contract, ledger and findings |
| Run state machine (`P/state.py`) | state, transition list | `transition`, `apply_decision` | writes each transition to the ledger |
| Tool session (`P/tools.py`) | actions, authorizations, observations | `request_action`, `record_observation`, `blocking_findings` | two or more ledger appends per call, under its own lock |
| Constrained runner (`P/runner.py`, `P/verification.py`) | none | `execute`, `verify` | policy, sandbox backend, artifact store, session |
| Coordinators (`P/coordinator.py`) | attempt, snapshots, proposals, sessions, findings, feedback | `run_single_attempt`, `run_bounded_attempts` | call all of the above and the `Generator` and `Verifier` protocols |
| Generator boundary (`P/generator.py`) | none | `GenerationRequest`, `validate_proposal` | checks what a generator hands over against the tree on disk |
| Run records (`P/records.py`) | none | `build_run_record` | rereads everything a run has kept and cross-checks it |
| Snapshots (`P/snapshots.py`) | staged trees | `stage`, `restage`, `close` | file system; copies while others may write |
| Artifact store (`P/artifacts.py`) | metadata map, objects on disk | `store_bytes`, `get`, `verify` | directory shared by stores and processes |
| Patches (`P/patches.py`, `P/patch_application.py`) | none | extract, apply | trees, artifacts |
| Container backend (`P/docker_backend.py`) | child process, two drain threads | `run` | subprocess |
| CyxCode adapter (`P/cyxcode.py`) | one child process | `generate` | snapshot, store |
| Archive of the local generator (`T/llmster_*.py`) | partial file, archive, staging directory | acquire, inspect, stage, review signatures | file system; HTTPS; PowerShell |
| Load-health runner (`T/run_local_model_load_health.py`, `T/lm_studio_*.py`, `T/monitored_process.py`, `T/cli_transport.py`) | claim, result, `AttemptState`, one supervised child | `main`, the gates, samples, cleanup | CLI of LM Studio; process snapshots; the machine it shares with its user |
| CLI exit probe (`T/run_cli_exit_probe.py`) | result | one `--help`, cleanup | the same machine |
| Local canary and proxy (`T/phase6_local_*.py`) | resources held, two counters | `execute_canary`, request handlers, `stop` | callbacks; threads |
| Minimum proof of concept (`T/*phase6_minimum_poc.py`) | the evidence file | a schedule of cells | coordinators; file system |
| Candidate events and evidence (`T/validate_candidate_events.py`, `T/validate_source_snapshots.py`, `T/capture_source_snapshots.py`, `T/review_candidate_artifacts.py`) | an append-only file, records derived from it | append, validate, capture, review | files read at one time and named at another |
| Validators (`T/validate_*.py`) | none | compare committed JSON with constants | none |

**A run.** The caller stages a snapshot of the contract's source and calls a
coordinator. The coordinator makes a ledger and a state machine on it, asks the
generator for a proposal, checks the proposal against the tree, records it, and
calls the verifier, which runs its checks through a tool session of its own and
returns a report. Evidence and findings of the report, denied actions, drift of
the workspace and a late verification are judged by `decide`. On *revise*
with budget left, the workspace is copied, the ledger moves to a new revision
and the next attempt begins with the reason codes as its feedback. Otherwise
the run is exported as a record. Any exception becomes a failure record inside
a `CoordinatorError`, unless building that record raises in turn.

**A proposal.** The generator's adapter runs an executor in the staged copy,
puts the protected roots back, and has the difference of the two trees written
as a canonical patch. The boundary checks it against both trees, a pilot captures
it, and the applier replays it on a fresh copy of the source and compares.

**Phase 6.** Scripts that a person starts on a Windows machine: they fetch and
stage one pinned archive and review its signatures, probe the CLI, load the
model once under supervision, run a canary through a proxy, and spend a frozen
schedule of cells. They share that machine with its user and meet each other
only through files.

**What is hard here.** One fact is kept in several places (id set and list;
evidence and trail; machine and trail; proposals, sessions and trail), by
separate statements with fallible calls in between. Evidence is current by the
*name* of a revision. The workspace is outside the program's control between
two digests. The record builder judges, after the fact, what a dozen places
have left behind. Each retry must forget the evidence of the attempt before
and remember its feedback. Cleanup has to survive its own failures. Around the
core: drain threads, a sampled child, a threading server, one-shot claim files
and objects that a crash may leave half written, trees and files that are read
several times while somebody else may write, services that die and come back
under an old process id, and ledgers read now and cited later.

**What makes each part correct.** Ledger: the copies agree and the trail
replays. Policy: fail-closed, with complete feedback and sound citations.
Machine: its history is the trail's. Coordinators: acceptance is earned by the
last attempt alone, attempts form a chain of digests, hard stops end the run,
nothing staged is left over, a record exists, every run ends. Tool session:
registry, trail and evidence tell one story under threads. Pipeline: what is
applied is what was shown, and whatever an executor leaves arrives. Archive:
what is at the destination, staged or classified is the pinned one. Runners: an
acceptance is of one life of one service, a one-shot is spent once, all that was
acquired is released. Candidates: no review speaks over one its author had
not read. The properties
are in the modules named below and the hazards they answer are listed, line by
line, under "hazards" in `PROJECT.json`.

## 2. The modules

| Module | Models | State and actions |
|---|---|---|
| `EvidenceLedger` | `P/ledger.py` | the five fields of the ledger; one operator per append method, its refusals, and what a raising clock leaves behind (`...ClockFails`) |
| `Decision` | `P/decision.py` | `Decide`, pure, with the order of its early returns; `Earned` is the independent reference for acceptance |
| `LedgerDecisions` | any caller of the two | appends in any order, at any revision, with a clock that may raise |
| `RunState` | `P/state.py` | `state`, `transitions`; `Transition`, `ApplyDecision` |
| `ToolCalls` | `P/tools.py`, the failure path of `P/runner.py` | `session`; `RequestAction`, `RecordObservation`, `RunnerFails`, and both calls cut short by the clock |
| `Coordinator` | `P/coordinator.py` with the parts of `generator.py`, `snapshots.py`, `records.py`, `verification.py` it depends on | `pc` names the coordinator's next call; one action per call |
| `CoordinatorProperties` | | what a caller relies on, and the refinement mapping to `Supervision` |
| `Supervision` | the abstract promise of both coordinators | attempts, standing of the checks, status |
| `MCLedgerDecisions`, `MCCoordinator`, `MCToolSession`, `MCProposalPipeline` | | small instances |
| `ArtifactStore` | `P/artifacts.py` | the object of each content on disk, what each store has registered, the `store_bytes` call it is in; `open("xb")`, the write and the verification are steps of their own |
| `ContentMap` | what `P/artifacts.py` promises | an abstract specification: one map for all stores, what each has answered for and is asked for |
| `BoundedTransport` | `_BoundedProcessTransport` of `P/docker_backend.py` | the calling thread (`pc`), two drain threads with their shared budget, the `docker run` child, its container, its pipes |
| `ToolSession` | `P/tools.py`, `P/runner.py`, the checks of `P/docker_backend.py` | per thread the next ledger call (`pc`), its command and what it holds; per session its lock and registry; the ledger below. One action per ledger call |
| `WorkspaceTree` | the inventory of `P/snapshots.py`, the difference of `P/patches.py`, the replay of `P/patch_application.py` | operators on trees, no state |
| `ProposalPipeline` | `_copy`, `propose`, `_build_patch_record`, `validate_proposal`, the pilot's capture, `PatchApplier.apply` | `pc` names the next read or write of a tree; source and copy change between any two |
| `CliTransport` | `T/cli_transport.py` | the ways a command returns or raises |
| `LocalHost` | `T/lm_studio_windows.py`, `T/lm_studio_lifecycle.py`, LM Studio and the user as far as these depend on them | the processes alive with pid, birth, name and parent; who holds the model |
| `MonitoredProcess` | `T/monitored_process.py` | the supervision loop, one action per look, around the child that loads |
| `LoadHealth` | `T/run_local_model_load_health.py` | invocations, the files that claim and end the one shot, the attempt with its cleanup |
| `CliExitProbe` | `T/run_cli_exit_probe.py` | the probe on the same host |
| `ModelProxy`, `LocalCanary` | `T/phase6_local_model_proxy.py`, `T/phase6_local_canary_lifecycle.py`, `T/phase6_local_generator_canary.py` | connections, their threads and two counters; resources acquired, held, asked to stop |
| `ArchiveAcquisition`, `ArchiveStaging`, `ArchiveReview` | `T/llmster_archive_*.py`, `T/llmster_authenticode_review.py`, `T/llmster_windows_authenticode.py` | each extends the one before: archive and partial file; the marked directory; the bracketed inspections |
| `MinimumPoc` | `T/run_phase6_minimum_poc.py`, the schedule of `T/phase6_minimum_poc.py` | invocations and the evidence file |
| `CandidateLedger`, `CandidateEvidence` | `T/validate_candidate_events.py`; `T/review_candidate_artifacts.py`, `T/capture_source_snapshots.py`, `T/validate_source_snapshots.py` | the file of lines and what each author had read; captures and reviews of a prefix |
| `Phase6` | the scripts above, together | a rigid `occasion` says which of them is at work |
| `DecisionProofs`, `LedgerDecisionsProofs`, `CoordinatorProofs`, `ToolSessionProofs`, `ProposalPipelineProofs`, `ArtifactStoreProofs`, `BoundedTransportProofs`, `Phase6Proofs` | | theorems |

How code maps to actions:

* *Ledger.* Every method holds the lock from its first check to its last
  assignment, so a call is one step. A method that asks the clock *after* it has
  assigned something has a second operator for the exception:
  `record_evidence` stores the item and its id first, `record_revision` moves
  the revision first, the others build the event first.
* *Coordinator.* One thread; an action runs from one call to the next, with
  the guard conditions and early exits in between. The argument checks before
  the ledger is created are not modelled: a run starts at the ledger.
  The budget of a run is a member of `Budgets`, chosen at the start and rigid:
  1 is `run_single_attempt`, more is `run_bounded_attempts`. They differ where the code does: what a failure record
  is built from (`FailedProposals`, `FailedSessions`) and whether finding ids
  are compared across attempts (`Repeats`). What `build_run_record` returns is
  kept, and properties of an accepted run are read off that record.
* *Generator and verifier* are protocols. A generator may leave any content in
  the workspace, reuse an id of its own, or fail, with artifacts or without. A
  verifier may use a tool session or none, return any report of `Reports`, or
  raise at any point. It may also bring a session that is not of this run's
  ledger and store (`ForeignSession`): both coordinators refuse it, and
  `run_single_attempt` has it in hand by then. A session of this ledger that has no store
  is refused as well, but a record takes it. `ToolBackedVerifier` and the pilot's
  `PocVerifier` are both instances. A verifier that calls `ledger.record_revision`
  itself, or that returns no session after it has used one, is not.
* *Digests* of the workspace may raise: before verification inside the generator
  boundary (`GenerationFails`) and after it (`DigestFails`). Both are
  `SnapshotError`s.
* *Faults* are the members of `Lapses`: a clock that raises, artifacts that
  decay before the record rereads them, staged trees that resist removal, and
  something left running that writes to the workspace. Each run's `.cfg` says
  which it allows.
* *Stores.* A store's lock excludes callers of the same object only, and its
  constructor takes a directory that exists, so nothing keeps two stores, or the
  store of a run and its successor after a crash, from sharing one root: their
  calls interleave at each file-system call. Between the exclusive create and the end of the write the
  object is "partial". A crash, a failed write and tampering are faults. The
  exception of a failed write is an `OSError`, which `store_bytes` lets through.
* *Transport.* Each statement of `run` that another thread or the child can come
  between is a step; the body of the drain threads' lock is one step. Output
  is a count of units. `stream.read(65_536)` on a buffered pipe returns a
  full chunk or the end of the stream, so a child that has written more than the
  limit, but less than a chunk, is not noticed before the deadline. The
  abort command may fail or come before the container exists.
* *Tool session.* A session's lock excludes only callers of that session, and it
  is not the ledger's, so every ledger call of `request_action` and
  `record_observation` is a step of its own, with a revision moved or an item
  of another session appended between two of them. What the policy and the
  backend make of a command (listed or not, limits, working directory) is part
  of the command; an executable's file may change at any time.
* *Trees.* A tree is a function from paths to entries and a digest is the tree
  itself. `directory_digest` and a copy are each one atomic read. Two others
  write one entry at a time between any two steps: somebody who owns the
  source, and a process that the executor has left in the copy.
* *The machine.* A control command is one step and so is a snapshot; time is
  not counted, so that a deadline may have passed at any look. Process ids are
  few and used again, births are not. One LM Studio service runs at a time: a
  second one that is started does not stay. Memory, port and size ceilings are
  one way for a sample to fail. After a label was noted as a failure the facts
  noted later are dropped, since no verdict depends on them any more.
* *Phase 6.* The scripts meet in no state, so `Phase6` lets each be at work on an
  occasion of its own instead of multiplying them. Invocations are alike and
  their names are shared by all scripts: one symmetry set stands for all.
  A handler of the proxy is the thread of a connection: it takes one request
  after another, also after the proxy's `stop`, which neither closes connections
  nor joins threads. That an upstream which was stopped takes no connection is
  assumed of the model server (`Listening`).
  A call that has failed or died may be started again. The members of the
  archive, its answers and its bodies are small sets; file identity, as `stat`
  gives it, is who wrote last and when.
* *Candidates.* Lines are only added, by authors each of whom has read the file
  at some time; on the occasion "capture" they have read it just before, since
  nothing there depends on stale authors, and an unsound line is written on
  the occasion "review" only.
* *Data.* A digest stands for the content of a tree; ids are tuples of what the
  code formats into them, so that two ids are equal exactly when the code's
  strings are, as long as no name has a colon in it. Texts, timestamps and field validation are left out. Findings
  and reason codes are sets: their order only orders messages.

`Supervision` says, in three variables, what a run may do: judge the current
attempt, retry from nothing while budget is left, accept only while *every*
required check stands passed, leave *revise* as the last word only on the last
attempt, or fail. `Coordinator` implements it with
`attempts <- attempt`, `passing <- Standing` (the required checks whose status
in the ledger is "passed") and `status <- CallerSees`.

`ContentMap` says what the stores promise together: one map, to which a content is
added because some store was asked for it, and from which no store takes one; a
store answers only for what the map has. `ArtifactStore` implements it with
`stored <- Whole` (the objects whose file is whole), `held <- known`,
`asked <- AskedFor` and `spoiled <- tampered`. `WriteOnce` follows from it.

Operators commented as "Mutant" are plausible slips of the code, placed before
the definition they would replace. `PROJECT.json` pairs each with the property
that catches it; no behaviour of the models uses them.

## 3. The runs

| Run | Question | Bounds |
|---|---|---|
| `ledger_decisions` | Do decisions fail closed, cite what exists, name every obstacle, and can they be replayed from the trail, after any sequence of appends? | 2 revisions, 2 checks, 2 items, 1 proposal, 5 events |
| `bounded_run` | What does an accepted run rest on, how do attempts follow each other, what is cleaned up and recorded, and is the run a run of `Supervision`? | budgets 1 and 2, 2 contents, 9 reports, all faults |
| `three_attempts` | Does evidence of an earlier attempt come back when a workspace returns to an earlier content? Does every run end? | budgets 1 and 3, 4 reports, failing removal |
| `artifact_store` | Is what a store registered whole, are the stores together one map that is only added to, does what is half written heal? | 2 stores, 2 contents (one empty), all faults |
| `bounded_transport` | Is a passing result the whole output of an undisturbed container, is the shared budget kept, is the child gone before its output is collected, does the call return? | limit 3, chunk 2, 3 units written to each stream |
| `tool_session` | Do registry, trail and evidence tell one story when threads, sessions and a moving revision interleave and the clock may raise at any ledger call? Does every call return? | 2 threads, 2 sessions, 3 commands, 2 revisions |
| `proposal_pipeline` | Is what is applied what was shown? Does whatever an executor leaves arrive, when nobody interferes? Are the protected roots out of it? | 4 paths, 2 contents, patches of at most 1 changed file, 3 writes of others |
| `phase6` | What may an archive, a review, a verdict, a canary, a spent one-shot, a record of evidence be trusted for? | 2 invocations of each script, 2 chunks, 2 members, 2 process ids, 4 births, 2 user steps, 2 samples, 2 connections with 2 requests and those under way, 1 task of 2 cells, 2 candidates, 3 lines |
| `failure_record_missing` | finding 1 | 2 attempts, no faults |
| `unknown_evidence_fails_run` | finding 2 | 1 attempt, no faults |
| `stale_evidence_revives` | finding 3 | as `ledger_decisions` |
| `daemon_of_the_user_is_stopped` | finding 4 | 1 invocation, no user steps |

*Why the bounds are enough for the question.* Two revisions give a current one,
an earlier one, and a return to the earlier one; two items of one check give an
earlier and a latest; with five events every pair of appends occurs in both orders
around a change of revision. Two attempts are the first retry and the last
attempt of the budget; two contents let a generator change the tree, leave it
alone, and come back to an earlier tree. Three attempts add a middle attempt
and a revision whose content occurred two attempts
earlier. One tool check and one report check make both sources of
evidence required, so that neither alone can be accepted. Two stores are a writer and a
reader of its half-written object; an empty content is whole when it is created.
A limit of 3 with chunks of 2 makes a chunk that fits, one that fits in part and
one that does not fit at all, on either stream.
Two threads are enough for any pair of ledger calls to meet, and one session or
two for the lock to be shared or not; each command of the instance is denied or
refused in a different way, and one asks for two checks. A path with one below it
makes every change of kind in both directions, nested removals and additions
included; three writes change a tree, change it back, and touch the source. Two
process ids and four births let a service die and another come back under its id
before the runner looks again. Two invocations meet at each claim and at
each partial file; two cells leave a schedule half spent; three lines are the
fewest in which two authors who have read the same first line both supersede it.
Of two connections one may be in the middle of a request while the proxy stops and
the other be kept and asked again when everything has been stopped.

*Deadlock* is checked in the coordinator runs, where `Done` is the only step of a
finished run. `LedgerDecisions` stops when `MaxEvents` is reached and says so with
`CHECK_DEADLOCK FALSE`; `ProposalPipeline`, `LoadHealth` and `Phase6` stop when
the pipeline or the script at work has ended.

*Fairness.* `FairSpec` is weak fairness of `Step`, the disjunction of all
coordinator steps, and of no fault. The coordinator is a single thread that
waits for no other; the only calls that could stay away are the generator's and the
verifier's, and both run subprocesses under a time limit
(`P/cyxcode.py`, `P/docker_backend.py`). Nothing is assumed of *how* these
calls end: raising is a `Step` too. `Terminates` would not hold without it, and no
fault can delay a run for ever because each either ends it or leaves the next
step enabled. The stores' `FairSpec` lets a call that has begun go on, each store for
itself. The transport's lets the calling thread run and time pass, and assumes
nothing of the child, the container or the drain threads: `Returns` holds
because every wait of the calling thread has a time limit. The tool session's
is weak fairness of each thread: a thread waits only for the lock of its session,
whose holder goes on, and for a backend with a time limit. The runs of Phase 6
claim safety only.

## 4. Findings

1. **A failure may leave no record** (`failure_record_missing`). In
   `run_bounded_attempts` the proposal event is on the trail before verification
   and the proposal joins the exported list only after the decision. A verifier
   that raises in between makes `build_run_record` reject the failure record
   itself ("proposal records do not match ledger proposal events"), and the
   caller gets a bare `RunRecordError`. So does a digest after verification that
   raises, and a tool session that the coordinator refuses. `run_single_attempt`
   loses the record when the verifier raises after its session has recorded a tool
   event, and when the session it has kept is of another ledger or store. The implementation
   status notes promise `failed` records on runtime errors.
2. **An escalation for unknown evidence is never delivered**
   (`unknown_evidence_fails_run`). `decide` escalates a finding that cites
   unknown evidence; `build_run_record` rejects every such finding, so the run
   ends as failed.
3. **Returning to an earlier revision revives its evidence**
   (`stale_evidence_revives`). `record_revision` refuses only the current
   revision and `evidence_for` selects by name. The coordinators are safe, since
   their labels carry the attempt (`OnlyThisAttemptCounts` holds); a direct
   user of the ledger is not.

4. **The user's service is stopped** (`daemon_of_the_user_is_stopped`). A service
   that runs before the attempt makes the baseline fail, but the cleanup of that
   refusal has no root, captures one by name from the machine as it is, waits ten
   seconds and stops its tree by force. The decision of 2026-08-23 says that "only
   the process tree started for this activation may be stopped". Such an attempt
   is never accepted (`AcceptedOnItsOwn` includes that nothing of others was
   stopped).

What does hold of records is stated by two properties next to them:
`DecidedRunsAreRecorded` (a decided run has a record unless an artifact was lost
or a finding cites unknown evidence) and `UnrecordedIffCutShort`, which says of every
failed run whether it has a record: it has none exactly when it was cut short at
one of the places `CutShort` names, or when an artifact is lost that the record
refers to. All other failures (of the generator, of staging, of cleanup, a clock that
raises elsewhere) leave one.

## 5. What is proved

TLAPS proves these for all values of the constants, from the named assumptions
only:

* `LedgerDecisionsAssumption`: the initial revision is a revision; contracts and
  findings have their types.
* `CoordinatorAssumption`: the budgets are between 1 and `MaxAttempts`, the
  contract, the reports and the verifier's checks have their types, the identifiers
  a run can make are among the identifiers, and those of authorizations and
  observations carry the attempt of their action, as the f-strings they are made
  by do. Nothing is assumed of what is in a report, of which lapses occur, or of
  which checks are required.
* `ToolSessionAssumption`: a command has at least one check and no check twice, which
  `execute` refuses before anything else.
* `TreeAssumption` (a path is a nonempty sequence of names) and `PipelineAssumption`:
  protected roots are paths of one name, as `.cyxcode` and `.opencode` are; the
  trees of sources and executors have a directory above every entry, and a source
  has nothing an inventory raises on.
* `StoreAssumption` (empty contents are contents), `TransportAssumption` (the limit
  is a natural number, a chunk is not empty), `AcquisitionAssumption` (an archive
  has at least one chunk; "nobody" and "outside" are not names of acquirers),
  `StagingAssumption` (nor of stagers) and `ReviewAssumption` (candidates are
  members).
* `MinimumPocAssumption`: somebody may start the schedule, and it has a task;
  `load_tasks` (`T/phase6_minimum_poc.py:64`) refuses any number of tasks but
  three, and the model takes it that there is a first cell. `EvidenceAssumption`:
  there are instances and images to name. `ProxyAssumption`: connections are
  finitely many, and the bound on requests is a natural number.

TLC evaluates all of them in the runs. One theorem, `NoHalfAnswers`, has a
hypothesis of its own, `Unambiguous`: no two ids of evidence coincide. The ids are
f-strings with colons between their parts and the code lets a name have colons,
so it is the names of the actions that make it true. In the instance TLC checks
the ids are tuples, for which it holds.

| Theorem | Says | Argument |
|---|---|---|
| `TypeCorrect` | `Spec => []TypeOK` of the ledger | one lemma per append and clock failure in `DecisionProofs` |
| `IdsAgree` | id set and evidence list agree, ids are unique, also after clock failures | `TypeOK /\ EvidenceIdsAgree` is inductive: the refusal `id \in evidenceIds` is what keeps a new id apart from every item in the list, which needs the first conjunct |
| `ProposalsAgree` | every proposal id has exactly one event | `TypeOK /\ ProposalTrailAgrees` is inductive; an event of another kind does not touch it |
| `AcceptanceIsEarned` | for any well-typed ledger, contract and findings, `Decide` accepts iff `Earned` | `LargestExists`: a nonempty set of positions of a sequence has a largest member, so `LatestCurrent` is the last item, and `PassedMeansLastPassed` turns a status into the quantified form of `Earned`; then one case per early return |
| `AcceptsOnlyWhatIsEarned` | `Spec => []AcceptIffEarned` | `TypeCorrect` and `AcceptanceIsEarned` |
| `TrailReplays` | `[]AuditTrailReplays`: the trail alone gives every judgement, until a clock has raised | see below |
| `FeedbackSuffices`, `CitationsExist` | `[]FeedbackIsSufficient` and `[]CitationsHold` | `TypeCorrect` and the case analysis of `Decide`; the citations of an acceptance are the last items of its checks (`LargestExists`) |
| `AcceptanceStays` | `AcceptanceIsStable`, an action property | one case per append: an appended pass becomes the last item of its check, and is a pass; items of other checks and proposals leave every status alone |
| `CoordinatorTypes`, `LeavesNothing`, `AttemptsAreChained`, `EvidenceIsOfItsAttempt`, `OnlyOwnEvidenceCounts`, `TrailAgrees`, `MachineTrail` | types and places; `[]NothingLeftBehind`, `[]AttemptsChain`, `[]OnlyThisAttemptCounts`, `[]MachineTrailAgrees` of the coordinators | see below |
| `NoRetryAfterAHardStop`, `FeedbackIsComplete`, `VerdictsStand`, `AcceptanceIsProven`, `SessionsKeepTheTrail`, `StatesAreInPlace`, `FailuresAreRecordable`, `RecordsAreOwed`, `DecidedRunsRecorded` | the other invariants of `CoordinatorProperties`; `RecordsAreOwed` is `[]UnrecordedIffCutShort` | see below |
| `CoordinatorKeepsPromise` | `Spec => KeepsPromise`: the coordinators implement `Supervision` | see below |
| `LocksAreHeldInside`, `RunsAreAuthorized`, `SessionsAreInTheLedger`, `ActionsAreAdmittedOnce`, `EvidenceOfRuns`, `RegistryBacked`, `NoHalfAnswers` | `[]EvidenceComesFromRuns`, `[]RegistryIsBacked` and, if `Unambiguous`, `[]NotHalfAnswered`, for any number of threads, sessions and commands | see below |
| `AppliedPatchesShowAll`, `RootsAreRestored`, `UndisturbedProposalsArrive`, `DifferencesReplay` | the three invariants of `ProposalPipeline`, for any trees of any depth, any executor and any writes of others; any two trees have a patch that replays | see below |
| `RegisteredStaysWhole`, `StoredOnce` | `[]RegisteredIsWhole` and `WriteOnce`, for any number of stores, crashes and failed writes | `OneWriter` strengthens the invariant: at most one store is writing an object, and until it is done the object is as it was created. Exclusive creation establishes it; without it a second writer's file could be taken for a whole one |
| `StoresKeepOneMap` | `Spec => KeepsOneMap`: the stores implement `ContentMap` | a step that completes bytes is `Keep`, or a stutter if they were whole; what a call registers it has verified in the same step; the other steps leave what is asked for alone (`ProceedAsksTheSame`) or end it (`ReturnAsksNothing`) |
| `PassedIsWhole`, `WithinBudget`, `ChildHasEnded` | the three invariants of the transport, for any limit, chunk and amount of output | `Accounts` (every unit read is kept, in hand or dropped, and dropped only when the budget is used up), `Ends` (a thread that ended without an error saw the end of its stream), `Reasons` (the event is set by an error or a truncation only) and `Progress` (an abort has a reason; the child is gone before the joins). A passing result has no truncation and no error, so no reason for an abort |
| `WholeArchive`, `StagedArchive`, `GenuineReview` | `[]AcquiredIsWhole`, `[]StagedIsThePinnedArchive` and `[]ClassifiedIsGenuine`, for any number of runs and calls, any members and candidates, any writes of others | see below |
| `ArchiveOfPhase6` | the same three of all the scripts of Phase 6 together | `PhaseSpec => Spec`: a step of another script is a stutter of the pipeline |
| `AcceptanceIsItsOwn`, `OneShotsSpentOnce`, `CanaryAlwaysReleases`, `ReviewersAreInformed`, `EvidenceAlwaysStands` | four other invariants of Phase 6 and the action property `CanaryReleases`, for any number of invocations, processes, samples, connections, tasks, authors and reviews | see below |

*The argument of `TrailReplays`.* `Told`: the trail's evidence events are of items, of
their revision, in the order these were stored, whatever the clock did. `AllTold`
and `RevisionTold`: every item and the current revision have their event, until a
clock has raised. The last event of a check at the revision is then of the last
item, which is what `CheckStatus` reads; ids being unique (`IdsAgree`), an event names
one item. The coordinators' proofs use the same operators.

*The argument for the coordinators.* `TypeInv` is `TypeOK` with `Places`, which says
where a run is: how long its lists are at each `pc`, whether it has a proposal,
and that no failure is handled before one is raised. The steps are sorted into
families (a move of the machine, a ledger event, a failure, an ending), so that an
invariant needs a step for each family and not for each action. On `TypeInv` rest, each inductive with it alone: `LeakInv` (only staging for
a retry leaves a tree that nothing refers to, and only if it resists removal),
`ChainInv` (attempts follow each other at every step), `AttemptInv` (ids and
revisions carry the attempt; only a clock that raises in the middle of a retry
leaves the revision one attempt ahead), `TrailInv` (id set, list and trail) and
`MachineInv` (the machine's transitions and the trail's are one list but for the
one a clock lost). Then `HardStopInv` and `FeedbackInv` carry what a decision
looked at into the attempt it began, where the ledger has moved on, and
`VerdictInv` carries the last decision through export, cleanup and record to the
caller; there `AcceptanceIsEarned` turns "accepted" into what each check
earned, and `TrailInv` turns that into what a reader of the record's events
finds. The records need most: `ProposalsInv` and `SessionsInv` keep the lists and
the trail in step through every call (the exceptions, a proposal recorded and not
yet listed, a session not yet kept, are exactly finding 1), so that the
comparisons of `build_run_record` succeed. For a failed run both directions are
due. `StateInv` says where the state machine stands at each `pc`, so that the state a
failure left behind tells how far the attempt had come. `RecordInv` says, of any
run that is ending, that the lists a failure record is built from pass the builder's
checks if and only if the run was not cut short; it is proved once for each family of
failing steps, and kept by the cleanup, which touches no list. `OutcomeInv` adds
the artifacts.

*The refinement.* While a run goes on each step is a `Judge` of `Supervision`, which may
move any check, or a stutter; `Revise` is its `Retry`, and `Finish` is `Accept`,
`Refuse` or `Fail`. Two cases have something to show. After `Revise` nothing stands
(`NothingStands`), since by `AttemptInv` no evidence is of the new revision yet. What
`Finish` hands over is accepted only while every required check stands, and says
*revise* only when the budget is spent: both by `VerdictInv`.

*The argument for the tool sessions.* `LockInv`: a thread between two ledger calls
holds its session's lock. This is *not* what the rest relies on, since a lock does
not keep other sessions from the ledger. `ThreadInv` says what a thread at each
`pc` was given, has run and has counted. `BackedInv` says that the ledger has
these things and nothing else: each item is the policy's, or the answer of a run to
one of its checks. `OnceInv` follows from it: an action is admitted in the step that
appends its policy evidence, which the ledger refuses when the id is there, and by
`BackedInv` the id is there when the action was admitted anywhere. For
`NotHalfAnswered`, `HalfInv` says that a thread which stopped between two items
stopped because the revision had moved, and that the revision it answered for is
on the trail, so that coming back to it would be a return (`Returned`). That the
other reason for a refusal, an id already used, cannot be the reason is
`RefusedByRevision`; it needs `Unambiguous` and `OnceInv`.

*The argument for the proposals.* Three invariants on top of the types.
`ReplayIsDetermined`: from the last check to the end nobody writes in the copy, so it
is the staged tree with the patch's changes made, each from what the patch says was
there. A canonical patch changes something at each of its paths, hence it *is* the
difference its replay makes (`ReplayShowsAll`), however often the trees were
changed and changed back while it was extracted. `RootsStandGuarded`: from the
restoration to the inventory the protected part of the copy is that of the source; a
write outside of it leaves it alone because a path is protected if and only if its
first name is (`ProtectedByTop`). `NothingMoves`, for undisturbed runs, says what
each read has seen, so that every later comparison succeeds; that the replay then
goes through is `DifferencesReplay`. If a directory is to be removed and something
below it is not, the result still has an entry there, hence a directory above it,
and that is the one removed.

*The argument for the archive* (`Phase6Proofs`). Two comparisons of `stat` say that a file was
not replaced in between only if an identity that was left does not return.
`Taken` says of an identity that its write is over, and `AcquireLeavesTaken` that
a step which puts another file in the archive's place gives it another identity. On
this rest three layers, each proved with the one below in hand.
`AcquisitionInv`: the partial file is that of the run that created it, and holds
what this run was served so far (`OnePartial`). `StagingInv`: one call owns the
marked directory, and as long as the archive bears the identity that the call
looked at first, everything it wrote is whole (`Claims`). `ReviewInv`: what was
hashed under an identity is what bears it now (`ManifestHolds`); what happened
between the two looks at a file or a tool was genuine if the looks agree
(`BracketsHold`); so every row that was kept is (`RowsHold`). The three
properties are not inductive without these: a result is kept because two *later*
looks agree, and the conjuncts carry that over to what was read between them.

*The argument for the other scripts* (`Phase6Proofs`). `PhaseInv` says that each script
keeps an invariant of its own, whoever else has the occasion; only the machine's is
said on the occasion of the load alone.

* *Load.* `MachineInv`: a birth names a process, and there is one service at a time;
  only it holds the model. `SupervisedInv`: a command that has said how it exited is
  not running. `ClaimInv`: whoever has got past the claim is its author. On these
  rests `AttemptInv`. A single look at a process id says nothing, since ids are used
  again; but facts are learned in the order of the steps (`FactsInOrder`), the captured
  root stays the process it was (`RootKnown`), and when it is seen alive after the
  load command has ended, the model was loaded in it, because no other service could
  live beside it (`ModelPlaced`). Force is used by an attempt that has failed and by
  no other (`ForcedOnFailure`), and after the look that finds nothing, nothing is
  left (`NothingLeft`). `ResultInv` then says that an accepted result has all facts.
* *Schedule.* `FileBeforeCalls`: before a model is called there is a file, and it does
  not go away. Those who looked and found none had nobody before them. `FileShows`
  is not inductive alone: that what is written is a scheduled beginning is in
  `RowsCounted` and `RowsKept`, for each place in the loop.
* *Canary.* `ReleaseInOrder`: what is still to be asked lies below all that was asked.
  `HeldIsKnown`: as long as nothing has failed, what is held is what was acquired and
  not yet asked; so a run that notes no failure holds nothing in the end, and
  nobody listens behind the proxy. From then on no request can be forwarded, and
  `NoMoreIsAccepted`, a lemma on cardinalities for any set of connections, says of each
  other step of a handler that what is accepted and what is in hand do not grow
  together. `ProxyInv` has the types these need.
* *Candidates.* `ReviewsWhatWasRead`: what a review supersedes is the last line of its
  candidate in what its author had read. A ledger that validates has unique ids and
  every review supersedes the latest, so the two are one line, and nothing of the
  candidate was added in between. `EvidenceInv` says of every review and capture at
  which length of the ledger it was true; the first lines never change. Of two
  reviews the one of the longer prefix knew the other's candidate, so if they name
  the same instance a later line has renamed one.

The lemmas on the ledger's appends are stated on `EvidenceLedger` alone and do not mention
`LedgerDecisions`, so that the modules above it can cite them.

*Only model-checked, since out of the prover's reach*: `Terminates`,
`HalfWrittenHeals`, `Returns` and `EveryCallReturns`, which need fairness and
ENABLED. Every safety invariant and every action property of a passing run is
stated by a theorem. No module of the project declares a RECURSIVE operator.

## 6. What is not modelled

Inside the modelled parts:

* Field validation, parsing and layout of contracts, actions, records and
  envelopes: a wrong field is refused before any state changes. `PocVerifier`'s
  own checks are a choice among reports.
* Policy evaluation (`authorize`) is a pure function of one action: a property of
  the command in `ToolSession`, a choice in `ToolCalls`. What matters above it is
  that all its answers occur.
* *What the stores do not repair.* An object whose write was broken off stays
  half written under its digest, and every later store of those bytes is refused.
  `HalfWrittenHeals` excepts exactly this case.
* *What the transport does not know.* Whether the abort command succeeded: a
  container may outlive the call, though never behind a passing result. The
  building of the docker command line, artifact kinds and the redacted flag of a
  stored artifact are left out.
* The environment and command line of the CyxCode subprocess: what it does to the
  tree is any change.
* A `CoordinatorError` raised by a nested coordinator, which passes through with
  a foreign record.
* The mains of the two pilot runs (`T/run_cyxcode_pilot_*.py`) cannot get past their
  own gates at this commit (`PROVIDER_SUBMISSION_APPROVED` is False and the gate's
  status is another than the one they ask for). Of them the pipeline has what is
  reused: the capture of a proposal.

Whole components (`not_modelled` in `PROJECT.json`): some fifty validators of
committed JSON, which compare files with constants and keep no state; data
preparation that converts one file into another; smoke scripts and examples. They
are about half of the implementation's lines and have no steps to interleave.

*Seen while modelling, without a property of their own*: the child of
`T/cli_transport.py:64` is killed at its deadline, but the call goes on waiting
for pipes that a descendant holds; `T/monitored_process.py:64` waits for a killed
child with a limit that nobody catches; a `down` of the service
(`T/lm_studio_lifecycle.py:226`) is by name and may stop a later one; an `unlink`
that raises in the last cleanup (`T/run_local_model_load_health.py:574`,
`T/run_cli_exit_probe.py:177`) loses the result; a canary whose `start` raises
after it has acquired its resource leaves it; sources of a schedule are
digested once, at its start (`T/phase6_minimum_poc.py:83`); a change of the
workspace that is undone before the digest after verification is not drift
(`P/coordinator.py:436`); the proxy goes on taking requests on the connections it has
after its `stop` (`T/phase6_local_model_proxy.py:191`), where
`Thesis/Phase6_Local_Generator_V2_Decision.md:18` says of it that it "stops before
final cleanup checks": they reach no model any more (`CanaryReleases`), but they are
still counted. Each is a gap of what the code observes, with no
statement in the repository that the models clearly refute.

## 7. Plan

Written, in this order: `EvidenceLedger`, `Decision`, `LedgerDecisions` with
their proofs; `RunState`, `ToolCalls`, `Supervision`, `Coordinator`;
`ArtifactStore` and `BoundedTransport` with theirs; `ToolSession`;
`WorkspaceTree` and `ProposalPipeline`; the modules of Phase 6, from
`CliTransport` to `CandidateEvidence`, and their composition, with the proofs about
the archive; the rest of `LedgerDecisionsProofs`; `CoordinatorProofs`;
`ToolSessionProofs`; `ProposalPipelineProofs`; the rest of `Phase6Proofs`; `ContentMap` and
the refinement of the stores.

What is left are improvements of what is there: the artifact kinds and the
redacted flag in `ArtifactStore`, the wording of the longer proofs, and the
properties under "Seen while modelling" should the code come to promise them.
