------------------------------ MODULE ToolSession ------------------------------
(***************************************************************************)
(* sheath/tools.py, sheath/runner.py and the request side of               *)
(* sheath/docker_backend.py with threads: each thread calls                *)
(* ConstrainedRunner.execute once, on one of several ToolSessions over one *)
(* ledger, while another caller of the ledger moves its revision.          *)
(*                                                                         *)
(* A session's lock excludes only callers of the same session, and it is   *)
(* not the ledger's: between two ledger calls of one request_action or     *)
(* record_observation the ledger may change.  Each ledger call is a step.  *)
(***************************************************************************)
EXTENDS EvidenceLedger, FiniteSets

CONSTANTS
    Threads,
    Sessions,
    Wirings,           \* the sessions that the threads' runners may be made with
    Commands,          \* what a thread may ask for
    InitialRevision,
    PolicyCheck,       \* "policy.command"
    AuthorizationId,   \* of an action
    ObservationId,     \* of an action and a check
    Nobody,            \* holder of a free lock
    MaxRevisions       \* bound: revision events on the trail

\* Identities hashed from a file, and identities of a path in an image: the one
\* the backend runs or another.
HostIdentities == {"host_file"}

ContainerIdentities == {"container_image", "other_image"}

\* A CommandAction with the check ids to be answered, and what its argv[0],
\* limits and working directory are to the policy and to the backend.  execute
\* refuses check ids that are not unique before anything else.
Command ==
    [action : ActionIds, checks : Seq(CheckIds),
     executable : {"unlisted"} \cup HostIdentities \cup ContainerIdentities,
     within : BOOLEAN, place : {"inside", "missing", "outside"}]

ASSUME ToolSessionAssumption ==
    /\ InitialRevision \in Revisions
    /\ Wirings \subseteq [Threads -> Sessions]
    /\ Nobody \notin Threads
    /\ \A c \in Commands : /\ c \in Command /\ c.checks # <<>>
                          /\ \A m, n \in DOMAIN c.checks : c.checks[m] = c.checks[n] => m = n
    /\ MaxRevisions \in Nat
    /\ PolicyCheck \in CheckIds
    /\ AuthorizationId \in [ActionIds -> EvidenceIds]
    /\ ObservationId \in [ActionIds \X CheckIds -> EvidenceIds]

VARIABLES
    sessionOf,   \* the session of each thread's runner
    holder,      \* who holds each session's lock
    auths,       \* _actions and _authorizations of each session
    observed,    \* _observations of each session, by action
    backend,     \* what sandbox the runners were given
    intact,      \* which of the hashed sources still have their digest
    pc,          \* the next call of each thread
    command,     \* its arguments
    auth,        \* the authorization it was given
    passed,      \* result.passed
    answered,    \* how many checks it has appended evidence for
    outcome,     \* how execute ended
    ran,         \* history: what the backend ran, and how it went
    clockRaised  \* history: a clock has raised inside an append

threadVars == <<pc, command, auth, passed, answered, outcome>>

sessionVars == <<sessionOf, holder, auths, observed>>

hostVars == <<backend, intact, ran, clockRaised>>

vars == <<ledgerVars, sessionVars, threadVars, hostVars>>

Authorization == [action : ActionIds, revision : Revisions, allowed : BOOLEAN]

NoAuthorization == [action |-> NoRef, revision |-> InitialRevision, allowed |-> FALSE]

\* The executable on the host; the docker CLI with the sources whose digests make
\* up the environment digest of the backend's profile.
Hashed == {"executable", "environment"}

Init ==
    /\ LedgerInit(InitialRevision)
    /\ sessionOf \in Wirings
    /\ holder = [s \in Sessions |-> Nobody]
    /\ auths = [s \in Sessions |-> {}]
    /\ observed = [s \in Sessions |-> {}]
    /\ backend \in {"docker", "other"}
    /\ intact = Hashed
    /\ pc = [t \in Threads |-> "idle"]
    /\ command \in [Threads -> Commands]
    /\ auth = [t \in Threads |-> NoAuthorization]
    /\ passed = [t \in Threads |-> FALSE]
    /\ answered = [t \in Threads |-> 0]
    /\ outcome = [t \in Threads |-> "none"]
    /\ ran = {}
    /\ clockRaised = FALSE

-------------------------------------------------------------------------------
(* Helpers *)

Mine(t) == sessionOf[t]

Action(t) == command[t].action

ActionsOf(s) == {a.action : a \in auths[s]}

Goto(t, label) == pc' = [pc EXCEPT ![t] = label]

Finish(t, how) == Goto(t, "done") /\ outcome' = [outcome EXCEPT ![t] = how]

Acquire(t) == holder' = [holder EXCEPT ![Mine(t)] = t]

Release(t) == holder' = [holder EXCEPT ![Mine(t)] = Nobody]

\* An exception that execute does not catch, out of a locked section.
RaiseLocked(t) ==
    /\ Finish(t, "raised")
    /\ Release(t)
    /\ UNCHANGED <<sessionOf, auths, observed, command, auth, passed, answered, backend, intact,
                   ran>>

\* ExecutableIdentity.matches_source: nothing on the host can change a
\* container identity.
MatchesSource(c) == c.executable \in HostIdentities => "executable" \in intact

\* CommandPolicy.authorize, by its reason codes
Reasons(c) ==
    (IF c.executable = "unlisted" THEN {"executable_not_allowed"} ELSE {})
    \cup (IF MatchesSource(c) THEN {} ELSE {"executable_identity_changed"})
    \cup (IF c.within THEN {} ELSE {"limit_exceeded"})
    \cup (IF c.place = "inside" THEN {} ELSE {"cwd"})

-------------------------------------------------------------------------------
(* ToolSession.request_action *)

\* A duplicate is told before anything is read; else the revision is read, and
\* has_evidence is asked, which another session's evidence makes true.
EnterRequest(t) ==
    /\ pc[t] = "idle"
    /\ holder[Mine(t)] = Nobody
    /\ IF Action(t) \in ActionsOf(Mine(t)) \/ AuthorizationId[Action(t)] \in evidenceIds
         THEN /\ Finish(t, "raised")
              /\ UNCHANGED <<holder, auth>>
         ELSE /\ Acquire(t)
              /\ auth' = [auth EXCEPT ![t] =
                    [action |-> Action(t), revision |-> revision,
                     allowed |-> Reasons(command[t]) = {}]]
              /\ Goto(t, "append_request")
              /\ UNCHANGED outcome
    /\ UNCHANGED <<ledgerVars, sessionOf, auths, observed, command, passed, answered, hostVars>>

Register(t) == auths' = [auths EXCEPT ![Mine(t)] = @ \cup {auth[t]}]

\* Mutant: the action is registered with its request, before its evidence.
AppendRequestAndRegister(t) ==
    /\ pc[t] = "append_request"
    /\ RecordToolRequest(Action(t), auth[t].allowed)
    /\ Register(t)
    /\ Goto(t, "append_policy")
    /\ UNCHANGED <<sessionOf, holder, observed, command, auth, passed, answered, outcome, hostVars>>

AppendRequest(t) ==
    /\ pc[t] = "append_request"
    /\ RecordToolRequest(Action(t), auth[t].allowed)
    /\ Goto(t, "append_policy")
    /\ UNCHANGED <<sessionVars, command, auth, passed, answered, outcome, hostVars>>

PolicyItem(t) ==
    [id |-> AuthorizationId[Action(t)], check |-> PolicyCheck,
     revision |-> auth[t].revision, passed |-> auth[t].allowed]

\* The evidence, the registration, and what execute makes of a refusal.
AppendPolicy(t) ==
    /\ pc[t] = "append_policy"
    /\ RecordEvidence(PolicyItem(t))
    /\ Register(t)
    /\ Release(t)
    /\ IF auth[t].allowed
         THEN Goto(t, "dispatch") /\ UNCHANGED outcome
         ELSE Finish(t, "blocked")
    /\ UNCHANGED <<sessionOf, observed, command, auth, passed, answered, hostVars>>

\* The revision has moved, or another session has used the id: LedgerError.
PolicyRefused(t) ==
    /\ pc[t] = "append_policy"
    /\ EvidenceRefused(PolicyItem(t))
    /\ RaiseLocked(t)
    /\ UNCHANGED <<ledgerVars, clockRaised>>

-------------------------------------------------------------------------------
(* ConstrainedRunner.execute, from the authorization to the stored output *)

\* SandboxProfile: a backend may claim any of the guarantees.
Guarantees ==
    {"filesystem_isolated", "network_disabled", "process_isolated",
     "resource_limits_enforced", "executable_identity_enforced"}

\* A profile that cannot be read counts as one that claims nothing.  Then the
\* identity is compared once more.
Dispatch(t) ==
    /\ pc[t] = "dispatch"
    /\ \E claimed \in SUBSET Guarantees :
          Goto(t, IF claimed = Guarantees /\ MatchesSource(command[t]) THEN "run" ELSE "report")
    /\ UNCHANGED <<ledgerVars, sessionVars, command, auth, passed, answered, outcome, hostVars>>

EnvironmentIntact == "environment" \in intact

\* DockerCliBackend._validate_request
DockerRefuses(c) == ~EnvironmentIntact \/ c.executable # "container_image"

\* A command that was cut short has no exit code.
Observations ==
    {o \in [exit : {"zero", "nonzero", "none"}, timedOut : BOOLEAN, truncated : BOOLEAN] :
        o.timedOut <=> o.exit = "none"}

\* A SandboxResult is "ours" when it is of this action and profile and within
\* the output limit.
Results == [observed : Observations, ours : BOOLEAN]

Passes(o) == ~o.timedOut /\ ~o.truncated /\ o.exit = "zero"

\* The command runs; a result that is not of this request is reported.  Nothing
\* runs behind a backend that raises at once.
Run(t) ==
    /\ pc[t] = "run"
    /\ backend = "docker" => ~DockerRefuses(command[t])
    /\ \E r \in Results :
          /\ passed' = [passed EXCEPT ![t] = Passes(r.observed)]
          /\ ran' = ran \cup {[thread |-> t, auth |-> auth[t], passed |-> Passes(r.observed)]}
          /\ Goto(t, IF r.ours THEN "store" ELSE "report")
    /\ UNCHANGED <<ledgerVars, sessionVars, command, auth, answered, outcome, backend, intact,
                   clockRaised>>

\* Mutant: a backend that fails is asked again.
RunFailsAndRetries(t) ==
    /\ pc[t] = "run"
    /\ Goto(t, "dispatch")
    /\ UNCHANGED <<ledgerVars, sessionVars, command, auth, passed, answered, outcome, hostVars>>

RunFails(t) ==
    /\ pc[t] = "run"
    /\ Goto(t, "report")
    /\ UNCHANGED <<ledgerVars, sessionVars, command, auth, passed, answered, outcome, hostVars>>

\* The two store_bytes, which may find no room, and an exception nobody expects.
StoreOutput(t) ==
    /\ pc[t] = "store"
    /\ \/ Goto(t, "observe") /\ UNCHANGED outcome
       \/ Goto(t, "report") /\ UNCHANGED outcome
       \/ Finish(t, "raised")
    /\ UNCHANGED <<ledgerVars, sessionVars, command, auth, passed, answered, hostVars>>

\* The clock may raise here too, out of the exception handler.
ReportError(t) ==
    /\ pc[t] = "report"
    /\ \/ RecordToolError(Action(t), "error") /\ Finish(t, "runner_error")
       \/ UNCHANGED ledgerVars /\ Finish(t, "raised")
    /\ UNCHANGED <<sessionVars, command, auth, passed, answered, hostVars>>

-------------------------------------------------------------------------------
(* ToolSession.record_observation *)

ObservationRefused(t) ==
    \/ Action(t) \in observed[Mine(t)]
    \/ ~\E a \in auths[Mine(t)] :
           a.action = Action(t) /\ a.allowed /\ a.revision = revision
    \/ auth[t].revision # revision
    \/ \E c \in DOMAIN command[t].checks :
          ObservationId[<<Action(t), command[t].checks[c]>>] \in evidenceIds

\* ToolBoundaryError, which the runner reports.  An artifact that is gone by now
\* is refused in the same way.
EnterObservation(t) ==
    /\ pc[t] = "observe"
    /\ holder[Mine(t)] = Nobody
    /\ \/ ~ObservationRefused(t) /\ Acquire(t) /\ Goto(t, "append_observation")
       \/ Goto(t, "report") /\ UNCHANGED holder
    /\ UNCHANGED <<ledgerVars, sessionOf, auths, observed, command, auth, passed, answered, outcome,
                   hostVars>>

AppendObservation(t) ==
    /\ pc[t] = "append_observation"
    /\ RecordToolObservation(Action(t), passed[t])
    /\ Goto(t, "append_item")
    /\ UNCHANGED <<sessionVars, command, auth, passed, answered, outcome, hostVars>>

NextCheck(t) == command[t].checks[answered[t] + 1]

\* Mutant: each item is built when it is appended, with the revision of then.
ItemOfTheMoment(t) ==
    [id |-> ObservationId[<<Action(t), NextCheck(t)>>], check |-> NextCheck(t),
     revision |-> revision, passed |-> passed[t]]

Item(t) ==
    [id |-> ObservationId[<<Action(t), NextCheck(t)>>], check |-> NextCheck(t),
     revision |-> auth[t].revision, passed |-> passed[t]]

Observed(t) ==
    /\ observed' = [observed EXCEPT ![Mine(t)] = @ \cup {Action(t)}]
    /\ Release(t)
    /\ Finish(t, "observed")

\* Mutant: a command that failed answers only its first check.
AppendItemUntilFailure(t) ==
    /\ pc[t] = "append_item"
    /\ RecordEvidence(Item(t))
    /\ answered' = [answered EXCEPT ![t] = @ + 1]
    /\ IF passed[t] /\ answered[t] + 1 < Len(command[t].checks)
         THEN UNCHANGED <<holder, observed, pc, outcome>>
         ELSE Observed(t)
    /\ UNCHANGED <<sessionOf, auths, command, auth, passed, hostVars>>

\* One append per check; the observation is registered after the last.
AppendItem(t) ==
    /\ pc[t] = "append_item"
    /\ RecordEvidence(Item(t))
    /\ answered' = [answered EXCEPT ![t] = @ + 1]
    /\ IF answered[t] + 1 < Len(command[t].checks)
         THEN UNCHANGED <<holder, observed, pc, outcome>>
         ELSE Observed(t)
    /\ UNCHANGED <<sessionOf, auths, command, auth, passed, hostVars>>

\* LedgerError, which the runner does not catch.
ItemRefused(t) ==
    /\ pc[t] = "append_item"
    /\ EvidenceRefused(Item(t))
    /\ RaiseLocked(t)
    /\ UNCHANGED <<ledgerVars, clockRaised>>

-------------------------------------------------------------------------------
(* Clocks, hosts and other callers *)

\* A clock that raises in one of the appends of a locked section: the events of
\* requests and observations are built first, evidence is stored first.
ClockRaises(t) ==
    /\ \/ /\ pc[t] \in {"append_request", "append_observation"}
          /\ UNCHANGED ledgerVars
       \/ pc[t] = "append_policy" /\ RecordEvidenceClockFails(PolicyItem(t))
       \/ pc[t] = "append_item" /\ RecordEvidenceClockFails(Item(t))
    /\ clockRaised' = TRUE
    /\ RaiseLocked(t)

RevisionCount == Cardinality({i \in DOMAIN events : events[i].kind = "revision"})

Revise(r) ==
    /\ RevisionCount < MaxRevisions
    /\ RecordRevision(r)
    /\ UNCHANGED <<sessionVars, threadVars, hostVars>>

SourceChanges(source) ==
    /\ intact' = intact \ {source}
    /\ source \in intact
    /\ UNCHANGED <<ledgerVars, sessionVars, threadVars, backend, ran, clockRaised>>

Execute(t) ==
    \/ EnterRequest(t) \/ AppendRequest(t) \/ AppendPolicy(t) \/ PolicyRefused(t)
    \/ Dispatch(t) \/ Run(t) \/ RunFails(t) \/ StoreOutput(t) \/ ReportError(t)
    \/ EnterObservation(t) \/ AppendObservation(t) \/ AppendItem(t) \/ ItemRefused(t)

Done == (\A t \in Threads : pc[t] = "done") /\ UNCHANGED vars

Next ==
    \/ \E t \in Threads : Execute(t) \/ ClockRaises(t)
    \/ \E r \in Revisions : Revise(r)
    \/ \E source \in Hashed : SourceChanges(source)
    \/ Done

Spec == Init /\ [][Next]_vars

\* Every thread is scheduled, and waits only for the session's lock and for a
\* backend whose run has a time limit.
FairSpec == Spec /\ \A t \in Threads : WF_vars(Execute(t))

-------------------------------------------------------------------------------
\* The session and the ledger tell one story, whatever other sessions and
\* callers do between two ledger calls: an action is registered once, in one
\* session, with its request and its policy evidence; a registered observation
\* has its evidence for every check.
RegistryIsBacked ==
    /\ \A s, u \in Sessions : s # u => ActionsOf(s) \cap ActionsOf(u) = {}
    /\ \A s \in Sessions : \A a \in auths[s] :
          /\ \E i \in DOMAIN evidence :
                evidence[i] = [id |-> AuthorizationId[a.action], check |-> PolicyCheck,
                               revision |-> a.revision, passed |-> a.allowed]
          /\ \E i \in DOMAIN events :
                events[i].kind = "tool_request" /\ events[i].ref = a.action
    /\ \A t \in Threads : outcome[t] = "observed" =>
          /\ auth[t] \in auths[Mine(t)] /\ Action(t) \in observed[Mine(t)]
          /\ \A n \in DOMAIN command[t].checks :
                ObservationId[<<Action(t), command[t].checks[n]>>] \in evidenceIds

\* Evidence from a tool is of a run of its action that the policy allowed, in
\* the revision it was allowed for, and says how that run went.
EvidenceComesFromRuns ==
    \A i \in DOMAIN evidence : evidence[i].check # PolicyCheck =>
        \E run \in ran :
            /\ run.auth.allowed /\ run.auth \in auths[Mine(run.thread)]
            /\ evidence[i] = [id |-> ObservationId[<<run.auth.action, evidence[i].check>>],
                              check |-> evidence[i].check,
                              revision |-> run.auth.revision, passed |-> run.passed]

Answers(a, c) ==
    \E i \in DOMAIN evidence :
        evidence[i].id = ObservationId[<<a, c>>] /\ evidence[i].revision = revision

Returned ==
    \E i, j \in DOMAIN events :
        /\ i # j /\ events[i].kind = "revision" /\ events[j].kind = "revision"
        /\ events[i].revision = events[j].revision

\* A command that ran answers all its checks or none that counts: if the
\* revision moves between two items, the items there are stale with it.  A clock
\* that raises between them, or a return to the revision, is all that leaves half
\* an answer.
NotHalfAnswered ==
    ~clockRaised /\ ~Returned =>
        \A run \in ran : LET checks == command[run.thread].checks IN
            pc[run.thread] = "done" =>
                \A m, n \in DOMAIN checks :
                    Answers(run.auth.action, checks[m]) => Answers(run.auth.action, checks[n])

\* No thread waits for ever for a session, whatever raised while it was locked.
EveryCallReturns == \A t \in Threads : <>(pc[t] = "done")
===============================================================================
