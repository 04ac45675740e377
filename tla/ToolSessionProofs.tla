--------------------------- MODULE ToolSessionProofs ---------------------------
(***************************************************************************)
(* Any number of threads, sessions and actions, for any commands.  The     *)
(* sessions' locks keep nobody from the ledger between two of its calls;   *)
(* what makes the story hold is that the ledger takes no id twice and no   *)
(* evidence of a revision it has left.                                     *)
(***************************************************************************)
EXTENDS ToolSession, TLAPS

Locked == {"append_request", "append_policy", "append_observation", "append_item"}

\* A thread is here once its authorization is registered.
Admitting == {"dispatch", "run", "store", "report", "observe", "append_observation", "append_item"}

\* ... and here with a result that is its own.
Answering == {"store", "observe", "append_observation", "append_item"}

Labels == {"idle", "append_request", "append_policy", "done"} \cup Admitting

Outcomes == {"none", "raised", "blocked", "observed", "runner_error"}

TypeInv ==
    /\ LedgerTypeOK
    /\ sessionOf \in [Threads -> Sessions]
    /\ holder \in [Sessions -> Threads \cup {Nobody}]
    /\ auths \in [Sessions -> SUBSET Authorization]
    /\ observed \in [Sessions -> SUBSET ActionIds]
    /\ pc \in [Threads -> Labels]
    /\ command \in [Threads -> Commands]
    /\ auth \in [Threads -> Authorization \cup {NoAuthorization}]
    /\ passed \in [Threads -> BOOLEAN]
    /\ answered \in [Threads -> Nat]
    /\ outcome \in [Threads -> Outcomes]
    /\ ran \subseteq [thread : Threads, auth : Authorization, passed : BOOLEAN]
    /\ \A t \in Threads :
          /\ pc[t] \notin {"idle", "done"} =>
                auth[t] \in Authorization /\ auth[t].action = Action(t)
          /\ pc[t] \notin {"append_item", "done"} => answered[t] = 0
          /\ answered[t] <= Len(command[t].checks)
          /\ pc[t] = "append_item" => answered[t] < Len(command[t].checks)

\* A caller holds its session's lock from its entry to its exit, also when it
\* leaves by an exception.
LockInv ==
    /\ \A t \in Threads : pc[t] \in Locked => holder[Mine(t)] = t
    /\ \A s \in Sessions : holder[s] # Nobody =>
          pc[holder[s]] \in Locked /\ Mine(holder[s]) = s

\* The record of what a thread's backend ran.
RunOf(t) == [thread |-> t, auth |-> auth[t], passed |-> passed[t]]

\* Where a thread is says what it was given, what it ran and what it has answered.
ThreadInv ==
    /\ \A t \in Threads :
          /\ pc[t] \in Admitting => auth[t].allowed /\ auth[t] \in auths[Mine(t)]
          /\ pc[t] \in Answering => RunOf(t) \in ran
          /\ outcome[t] = "observed" =>
                /\ pc[t] = "done" /\ RunOf(t) \in ran
                /\ Action(t) \in observed[Mine(t)]
                /\ answered[t] = Len(command[t].checks)
    /\ \A run \in ran :
          /\ run = RunOf(run.thread) /\ run.auth.action = Action(run.thread)
          /\ run.auth.allowed /\ run.auth \in auths[Mine(run.thread)]
          /\ pc[run.thread] \in Answering \cup {"report", "done"}

-------------------------------------------------------------------------------
(* What the ledger has of the sessions *)

\* The evidence a run gives for its n-th check.
Answer(run, n) ==
    LET check == command[run.thread].checks[n]
    IN  [id |-> ObservationId[<<run.auth.action, check>>], check |-> check,
         revision |-> run.auth.revision, passed |-> run.passed]

\* Every item is the policy's or one that a run has given; only a clock that
\* raises lets an answer go uncounted.
SourceOf(item) ==
    \/ item.check = PolicyCheck /\ \E a \in ActionIds : item.id = AuthorizationId[a]
    \/ \E run \in ran : \E n \in DOMAIN command[run.thread].checks :
          item = Answer(run, n) /\ (n <= answered[run.thread] \/ clockRaised)

BackedInv ==
    /\ EvidenceIdsAgree
    /\ \A t \in Threads : pc[t] = "append_policy" =>
          \E n \in DOMAIN events : events[n].kind = "tool_request" /\ events[n].ref = Action(t)
    /\ \A s \in Sessions : \A a \in auths[s] :
          /\ \E i \in DOMAIN evidence :
                evidence[i] = [id |-> AuthorizationId[a.action], check |-> PolicyCheck,
                               revision |-> a.revision, passed |-> a.allowed]
          /\ \E n \in DOMAIN events :
                events[n].kind = "tool_request" /\ events[n].ref = a.action
    /\ \A run \in ran : \A n \in 1..answered[run.thread] :
          \E i \in DOMAIN evidence : evidence[i] = Answer(run, n)
    /\ \A i \in DOMAIN evidence : SourceOf(evidence[i])

\* An action is admitted once, in one session and to one thread.
Admitted(t) == pc[t] \in Admitting \/ \E run \in ran : run.thread = t

OnceInv ==
    /\ \A t, u \in Threads : Admitted(t) /\ Admitted(u) /\ Action(t) = Action(u) => t = u
    /\ \A s, u \in Sessions : s # u => ActionsOf(s) \cap ActionsOf(u) = {}

-------------------------------------------------------------------------------
(* What is left of an answer that was cut short *)

OnTrail(r) == \E n \in DOMAIN events : events[n].kind = "revision" /\ events[n].revision = r

HalfInv ==
    /\ OnTrail(InitialRevision) /\ OnTrail(revision)
    /\ \A t \in Threads : OnTrail(auth[t].revision)
    /\ \A t \in Threads :
          /\ ~clockRaised /\ ~Returned
          /\ pc[t] = "done" /\ answered[t] \in 1..(Len(command[t].checks) - 1)
          => revision # auth[t].revision

-------------------------------------------------------------------------------
(* The steps *)

ThreadStep(t) == Execute(t) \/ ClockRaises(t)

\* Nothing a session or a thread could notice.
Elsewhere == UNCHANGED <<ledgerVars, sessionVars, threadVars, ran, clockRaised>>

Revising == \E r \in Revisions : RecordRevision(r) /\ UNCHANGED <<sessionVars, threadVars, ran, clockRaised>>

LEMMA NextCases ==
    ASSUME Next
    PROVE  (\E t \in Threads : ThreadStep(t)) \/ Revising \/ Elsewhere
  BY DEF Next, ThreadStep, Revising, Elsewhere, Revise, SourceChanges, Done, vars, hostVars

\* A thread moves nobody else, and takes nothing back.
LEMMA OthersStay ==
    ASSUME TypeInv, NEW t \in Threads, ThreadStep(t)
    PROVE  /\ UNCHANGED <<sessionOf, command, revision, proposalIds>>
           /\ \A u \in Threads \ {t} :
                 /\ pc'[u] = pc[u] /\ auth'[u] = auth[u] /\ passed'[u] = passed[u]
                 /\ answered'[u] = answered[u] /\ outcome'[u] = outcome[u]
           /\ \A s \in Sessions : auths[s] \subseteq auths'[s] /\ observed[s] \subseteq observed'[s]
           /\ ran \subseteq ran' /\ \A run \in ran' \ ran : run.thread = t
           /\ clockRaised => clockRaised'
  <1> USE DEF TypeInv, Goto, Finish
  <1>1. CASE EnterRequest(t)
    BY <1>1 DEF EnterRequest, ledgerVars, hostVars
  <1>2. CASE AppendRequest(t)
    BY <1>2 DEF AppendRequest, RecordToolRequest, sessionVars, hostVars
  <1>3. CASE AppendPolicy(t)
    BY <1>3 DEF AppendPolicy, RecordEvidence, Register, hostVars
  <1>4. CASE PolicyRefused(t)
    BY <1>4 DEF PolicyRefused, RaiseLocked, ledgerVars
  <1>5. CASE Dispatch(t)
    BY <1>5 DEF Dispatch, ledgerVars, sessionVars, hostVars
  <1>6. CASE Run(t)
    BY <1>6 DEF Run, ledgerVars, sessionVars
  <1>7. CASE RunFails(t)
    BY <1>7 DEF RunFails, ledgerVars, sessionVars, hostVars
  <1>8. CASE StoreOutput(t)
    BY <1>8 DEF StoreOutput, ledgerVars, sessionVars, hostVars
  <1>9. CASE ReportError(t)
    BY <1>9 DEF ReportError, RecordToolError, ledgerVars, sessionVars, hostVars
  <1>10. CASE EnterObservation(t)
    BY <1>10 DEF EnterObservation, ledgerVars, hostVars
  <1>11. CASE AppendObservation(t)
    BY <1>11 DEF AppendObservation, RecordToolObservation, sessionVars, hostVars
  <1>12. CASE AppendItem(t)
    <2>1. /\ UNCHANGED <<sessionOf, auths, command, auth, passed, ran, clockRaised, revision,
                         proposalIds>>
          /\ answered' = [answered EXCEPT ![t] = @ + 1]
          /\ UNCHANGED <<observed, pc, outcome>> \/ Observed(t)
      BY <1>12 DEF AppendItem, RecordEvidence, hostVars
    <2>2. CASE UNCHANGED <<observed, pc, outcome>>
      BY <2>1, <2>2
    <2>3. CASE Observed(t)
      BY <2>1, <2>3 DEF Observed
    <2>4. QED
      BY <2>1, <2>2, <2>3
  <1>13. CASE ItemRefused(t)
    BY <1>13 DEF ItemRefused, RaiseLocked, ledgerVars
  <1>14. CASE ClockRaises(t)
    BY <1>14 DEF ClockRaises, RaiseLocked, RecordEvidenceClockFails, ledgerVars
  <1>15. QED
    BY <1>1, <1>2, <1>3, <1>4, <1>5, <1>6, <1>7, <1>8, <1>9, <1>10, <1>11, <1>12, <1>13, <1>14
       DEF ThreadStep, Execute

-------------------------------------------------------------------------------
(* Types *)

\* What a thread was told to do is a command of the instance.
LEMMA CommandTypes ==
    ASSUME TypeInv, NEW t \in Threads
    PROVE  /\ command[t] \in Command /\ Action(t) \in ActionIds
           /\ command[t].checks \in Seq(CheckIds) /\ Len(command[t].checks) \in Nat
           /\ Len(command[t].checks) >= 1
           /\ \A n \in 1..Len(command[t].checks) : command[t].checks[n] \in CheckIds
           /\ \A m, n \in DOMAIN command[t].checks :
                 command[t].checks[m] = command[t].checks[n] => m = n
           /\ Mine(t) \in Sessions
  <1>1. command[t] \in Commands /\ Mine(t) \in Sessions
    BY DEF TypeInv, Mine
  <1>2. /\ command[t] \in Command /\ command[t].checks # <<>>
        /\ \A m, n \in DOMAIN command[t].checks :
              command[t].checks[m] = command[t].checks[n] => m = n
    BY <1>1, ToolSessionAssumption
  <1>3. command[t].action \in ActionIds /\ command[t].checks \in Seq(CheckIds)
    BY <1>2 DEF Command
  <1>4. QED
    BY <1>1, <1>2, <1>3 DEF Action

\* The items a thread may append.
LEMMA ItemTypes ==
    ASSUME TypeInv, NEW t \in Threads
    PROVE  /\ pc[t] = "append_policy" => PolicyItem(t) \in Evidence
           /\ pc[t] = "append_item" => Item(t) \in Evidence
  <1>1. /\ Action(t) \in ActionIds /\ command[t].checks \in Seq(CheckIds)
        /\ Len(command[t].checks) \in Nat
        /\ \A n \in 1..Len(command[t].checks) : command[t].checks[n] \in CheckIds
    BY CommandTypes
  <1>2. /\ pc[t] \in {"append_policy", "append_item"} => auth[t] \in Authorization
        /\ passed[t] \in BOOLEAN /\ answered[t] \in Nat
    BY DEF TypeInv
  <1>3. /\ PolicyCheck \in CheckIds /\ AuthorizationId \in [ActionIds -> EvidenceIds]
        /\ ObservationId \in [ActionIds \X CheckIds -> EvidenceIds]
    BY ToolSessionAssumption
  <1>4. pc[t] = "append_policy" => PolicyItem(t) \in Evidence
    BY <1>1, <1>2, <1>3 DEF PolicyItem, Evidence, Authorization
  <1>5. ASSUME pc[t] = "append_item" PROVE Item(t) \in Evidence
    <2>1. answered[t] < Len(command[t].checks)
      BY <1>5 DEF TypeInv
    <2>2. NextCheck(t) \in CheckIds
      BY <1>1, <1>2, <2>1 DEF NextCheck
    <2>3. QED
      BY <1>1, <1>2, <1>3, <1>5, <2>2 DEF Item, Evidence, Authorization
  <1>6. QED
    BY <1>4, <1>5

\* An item goes into the ledger, with or without its event.
LEMMA EvidenceTypes ==
    ASSUME LedgerTypeOK, NEW e \in Evidence, RecordEvidence(e) \/ RecordEvidenceClockFails(e)
    PROVE  LedgerTypeOK'
  <1>1. EvidenceEvent(e) \in LedgerEvent
    BY DEF EvidenceEvent, Stamped, LedgerEvent, LedgerTypeOK, Evidence, EventKinds, EventStatuses
  <1>2. evidence' = Append(evidence, e) /\ evidenceIds' = evidenceIds \cup {e.id}
        /\ UNCHANGED <<revision, proposalIds>> /\ e.id \in EvidenceIds
    BY DEF RecordEvidence, RecordEvidenceClockFails, Evidence
  <1>3. events' \in Seq(LedgerEvent)
    BY <1>1 DEF RecordEvidence, RecordEvidenceClockFails, LedgerTypeOK
  <1>4. QED
    BY <1>2, <1>3 DEF LedgerTypeOK

\* An event of an action goes into the ledger, or a revision.
LEMMA EventTypes ==
    ASSUME LedgerTypeOK, NEW a \in ActionIds, NEW b \in BOOLEAN, NEW r \in Revisions,
           \/ RecordToolRequest(a, b) \/ RecordToolObservation(a, b)
           \/ RecordToolError(a, "error") \/ RecordRevision(r)
    PROVE  LedgerTypeOK'
  <1>1. \A kind \in EventKinds, status \in EventStatuses : Stamped(kind, a, status) \in LedgerEvent
    BY DEF Stamped, LedgerEvent, LedgerTypeOK
  <1>2. {"allowed", "blocked", "passed", "failed", "error"} \subseteq EventStatuses
        /\ {"tool_request", "tool_observation", "error"} \subseteq EventKinds
    BY DEF EventStatuses, EventKinds
  <1>3. [kind |-> "revision", revision |-> r, ref |-> NoRef, from |-> "none", status |-> "none"]
           \in LedgerEvent
    BY DEF LedgerEvent, EventKinds, EventStatuses
  <1>4. CASE RecordToolRequest(a, b)
    BY <1>1, <1>2, <1>4 DEF RecordToolRequest, LedgerTypeOK
  <1>5. CASE RecordToolObservation(a, b)
    BY <1>1, <1>2, <1>5 DEF RecordToolObservation, LedgerTypeOK
  <1>6. CASE RecordToolError(a, "error")
    BY <1>1, <1>2, <1>6 DEF RecordToolError, LedgerTypeOK
  <1>7. CASE RecordRevision(r)
    BY <1>3, <1>7 DEF RecordRevision, LedgerTypeOK
  <1>8. QED
    BY <1>4, <1>5, <1>6, <1>7

\* The ledger after a thread's step.
LEMMA LedgerTypes ==
    ASSUME TypeInv, NEW t \in Threads, ThreadStep(t)
    PROVE  LedgerTypeOK'
  <1>1. LedgerTypeOK /\ auth[t] \in Authorization \cup {NoAuthorization} /\ passed[t] \in BOOLEAN
    BY DEF TypeInv
  <1>2. Action(t) \in ActionIds /\ auth[t].allowed \in BOOLEAN
    <2>1. auth[t] \in Authorization => auth[t].allowed \in BOOLEAN
      BY Zenon DEF Authorization
    <2>2. NoAuthorization.allowed \in BOOLEAN
      BY DEF NoAuthorization
    <2>3. QED
      BY <1>1, <2>1, <2>2, CommandTypes
  <1>3. UNCHANGED ledgerVars => LedgerTypeOK'
    BY <1>1 DEF LedgerTypeOK, ledgerVars
  <1>4. \/ UNCHANGED ledgerVars
        \/ RecordToolRequest(Action(t), auth[t].allowed)
        \/ RecordToolObservation(Action(t), passed[t])
        \/ RecordToolError(Action(t), "error")
        \/ /\ pc[t] = "append_policy"
           /\ RecordEvidence(PolicyItem(t)) \/ RecordEvidenceClockFails(PolicyItem(t))
        \/ /\ pc[t] = "append_item"
           /\ RecordEvidence(Item(t)) \/ RecordEvidenceClockFails(Item(t))
    BY DEF ThreadStep, Execute, EnterRequest, AppendRequest, AppendPolicy, PolicyRefused, Dispatch,
           Run, RunFails, StoreOutput, ReportError, EnterObservation, AppendObservation, AppendItem,
           ItemRefused, ClockRaises
  <1>5. CASE \/ RecordToolRequest(Action(t), auth[t].allowed)
             \/ RecordToolObservation(Action(t), passed[t])
             \/ RecordToolError(Action(t), "error")
    <2>1. PICK r : r \in Revisions
      BY <1>1 DEF LedgerTypeOK
    <2>2. QED
      BY <1>1, <1>2, <1>5, <2>1, EventTypes
  <1>6. QED
    BY <1>1, <1>3, <1>4, <1>5, ItemTypes, EvidenceTypes

\* What a thread's step makes of its own variables and of its session.
LEMMA OwnTypes ==
    ASSUME TypeInv, NEW t \in Threads, ThreadStep(t)
    PROVE  /\ holder' \in [Sessions -> Threads \cup {Nobody}]
           /\ auths' \in [Sessions -> SUBSET Authorization]
           /\ observed' \in [Sessions -> SUBSET ActionIds]
           /\ pc' \in [Threads -> Labels]
           /\ auth' \in [Threads -> Authorization \cup {NoAuthorization}]
           /\ passed' \in [Threads -> BOOLEAN]
           /\ answered' \in [Threads -> Nat]
           /\ outcome' \in [Threads -> Outcomes]
           /\ ran' \subseteq [thread : Threads, auth : Authorization, passed : BOOLEAN]
           /\ pc'[t] \notin {"idle", "done"} =>
                 auth'[t] \in Authorization /\ auth'[t].action = Action(t)
           /\ pc'[t] \notin {"append_item", "done"} => answered'[t] = 0
           /\ answered'[t] <= Len(command[t].checks)
           /\ pc'[t] = "append_item" => answered'[t] < Len(command[t].checks)
  <1> USE DEF Labels, Admitting, Outcomes
  <1>1. /\ Mine(t) \in Sessions /\ Action(t) \in ActionIds
        /\ Len(command[t].checks) \in Nat /\ Len(command[t].checks) >= 1
    BY CommandTypes
  <1>2. /\ holder \in [Sessions -> Threads \cup {Nobody}]
        /\ auths \in [Sessions -> SUBSET Authorization]
        /\ observed \in [Sessions -> SUBSET ActionIds]
        /\ pc \in [Threads -> Labels]
        /\ auth \in [Threads -> Authorization \cup {NoAuthorization}]
        /\ passed \in [Threads -> BOOLEAN]
        /\ answered \in [Threads -> Nat]
        /\ outcome \in [Threads -> Outcomes]
        /\ ran \subseteq [thread : Threads, auth : Authorization, passed : BOOLEAN]
        /\ revision \in Revisions
    BY DEF TypeInv, LedgerTypeOK
  <1>3. /\ pc[t] \notin {"idle", "done"} => auth[t] \in Authorization /\ auth[t].action = Action(t)
        /\ pc[t] \notin {"append_item", "done"} => answered[t] = 0
        /\ answered[t] <= Len(command[t].checks)
        /\ pc[t] = "append_item" => answered[t] < Len(command[t].checks)
    BY DEF TypeInv
  <1>4. CASE EnterRequest(t)
    <2> DEFINE given == [action |-> Action(t), revision |-> revision,
                         allowed |-> Reasons(command[t]) = {}]
    <2>1. given \in Authorization /\ given.action = Action(t)
      BY <1>1, <1>2 DEF Authorization
    <2>2. \/ Finish(t, "raised") /\ UNCHANGED <<holder, auth>>
          \/ /\ Acquire(t) /\ auth' = [auth EXCEPT ![t] = given]
             /\ Goto(t, "append_request") /\ UNCHANGED outcome
      BY <1>4 DEF EnterRequest
    <2>3. pc[t] = "idle" /\ UNCHANGED <<auths, observed, passed, answered, ran>>
      BY <1>4 DEF EnterRequest, hostVars
    <2> HIDE DEF given
    <2>4. CASE Finish(t, "raised") /\ UNCHANGED <<holder, auth>>
      BY <1>1, <1>2, <1>3, <2>3, <2>4 DEF Finish, Goto
    <2>5. CASE /\ Acquire(t) /\ auth' = [auth EXCEPT ![t] = given]
               /\ Goto(t, "append_request") /\ UNCHANGED outcome
      <3>1. holder' \in [Sessions -> Threads \cup {Nobody}]
        BY <1>1, <1>2, <2>5 DEF Acquire
      <3>2. /\ pc' \in [Threads -> Labels] /\ pc'[t] = "append_request"
            /\ auth' \in [Threads -> Authorization \cup {NoAuthorization}] /\ auth'[t] = given
        BY <1>2, <2>1, <2>5 DEF Goto
      <3>3. QED
        BY <1>1, <1>2, <1>3, <2>1, <2>3, <2>5, <3>1, <3>2
    <2>6. QED
      BY <2>2, <2>4, <2>5
  <1>5. CASE AppendRequest(t)
    BY <1>1, <1>2, <1>3, <1>5 DEF AppendRequest, Goto, sessionVars, hostVars
  <1>6. CASE AppendPolicy(t)
    <2>1. auth[t] \in Authorization
      BY <1>3, <1>6 DEF AppendPolicy
    <2>2. auths' = [auths EXCEPT ![Mine(t)] = @ \cup {auth[t]}]
      BY <1>6 DEF AppendPolicy, Register
    <2>3. auths' \in [Sessions -> SUBSET Authorization]
      BY <1>1, <1>2, <2>1, <2>2
    <2>4. QED
      BY <1>1, <1>2, <1>3, <1>6, <2>3 DEF AppendPolicy, Goto, Finish, Release, hostVars
  <1>7. CASE PolicyRefused(t) \/ ItemRefused(t) \/ ClockRaises(t)
    <2>1. RaiseLocked(t)
      BY <1>7 DEF PolicyRefused, ItemRefused, ClockRaises
    <2>2. QED
      BY <1>1, <1>2, <1>3, <2>1 DEF RaiseLocked, Goto, Finish, Release
  <1>8. CASE Dispatch(t)
    BY <1>1, <1>2, <1>3, <1>8 DEF Dispatch, Goto, sessionVars, hostVars
  <1>9. CASE Run(t)
    <2>1. PICK r \in Results :
             /\ passed' = [passed EXCEPT ![t] = Passes(r.observed)]
             /\ ran' = ran \cup {[thread |-> t, auth |-> auth[t], passed |-> Passes(r.observed)]}
             /\ Goto(t, IF r.ours THEN "store" ELSE "report")
      BY <1>9 DEF Run
    <2>2. Passes(r.observed) \in BOOLEAN
      BY DEF Passes
    <2>3. auth[t] \in Authorization /\ pc[t] = "run"
          /\ UNCHANGED <<holder, auths, observed, auth, answered, outcome>>
      BY <1>3, <1>9 DEF Run, sessionVars
    <2>4. ran' \subseteq [thread : Threads, auth : Authorization, passed : BOOLEAN]
      BY <1>2, <2>1, <2>2, <2>3
    <2>5. pc' \in [Threads -> Labels] /\ pc'[t] \in {"store", "report"}
      BY <1>2, <2>1 DEF Goto
    <2>6. QED
      BY <1>1, <1>2, <1>3, <2>1, <2>2, <2>3, <2>4, <2>5
  <1>10. CASE RunFails(t) \/ StoreOutput(t) \/ ReportError(t)
    BY <1>1, <1>2, <1>3, <1>10
       DEF RunFails, StoreOutput, ReportError, Goto, Finish, sessionVars, hostVars
  <1>11. CASE EnterObservation(t)
    <2>1. holder' \in [Sessions -> Threads \cup {Nobody}]
      BY <1>1, <1>2, <1>11 DEF EnterObservation, Acquire
    <2>2. pc' \in [Threads -> Labels] /\ pc'[t] \in {"append_observation", "report"}
      BY <1>2, <1>11 DEF EnterObservation, Goto
    <2>3. QED
      BY <1>2, <1>3, <1>11, <2>1, <2>2 DEF EnterObservation, hostVars
  <1>12. CASE AppendObservation(t)
    BY <1>1, <1>2, <1>3, <1>12 DEF AppendObservation, Goto, sessionVars, hostVars
  <1>13. CASE AppendItem(t)
    <2>1. /\ pc[t] = "append_item" /\ UNCHANGED <<auths, auth, passed, ran>>
          /\ answered' = [answered EXCEPT ![t] = @ + 1]
          /\ IF answered[t] + 1 < Len(command[t].checks)
                THEN UNCHANGED <<holder, observed, pc, outcome>>
                ELSE Observed(t)
      BY <1>13 DEF AppendItem, hostVars
    <2>2. answered'[t] = answered[t] + 1 /\ answered' \in [Threads -> Nat]
      BY <1>2, <2>1
    <2>3. CASE answered[t] + 1 < Len(command[t].checks)
      BY <1>1, <1>2, <1>3, <2>1, <2>2, <2>3
    <2>4. CASE ~(answered[t] + 1 < Len(command[t].checks))
      <3>1. Observed(t)
        BY <2>1, <2>4
      <3>2. /\ observed' \in [Sessions -> SUBSET ActionIds]
            /\ holder' \in [Sessions -> Threads \cup {Nobody}]
            /\ pc' \in [Threads -> Labels] /\ pc'[t] = "done"
            /\ outcome' \in [Threads -> Outcomes]
        BY <1>1, <1>2, <3>1 DEF Observed, Release, Finish, Goto
      <3>3. QED
        BY <1>1, <1>2, <1>3, <2>1, <2>2, <2>4, <3>2
    <2>5. QED
      BY <2>3, <2>4
  <1>14. QED
    BY <1>4, <1>5, <1>6, <1>7, <1>8, <1>9, <1>10, <1>11, <1>12, <1>13 DEF ThreadStep, Execute

LEMMA TypePreserved ==
    ASSUME TypeInv, Next
    PROVE  TypeInv'
  <1>1. ASSUME NEW t \in Threads, ThreadStep(t) PROVE TypeInv'
    <2>1. UNCHANGED <<sessionOf, command>>
      BY <1>1, OthersStay
    <2>2. \A u \in Threads \ {t} :
             pc'[u] = pc[u] /\ auth'[u] = auth[u] /\ answered'[u] = answered[u]
      BY <1>1, OthersStay
    <2>3. \A u \in Threads : Action(u)' = Action(u)
      BY <2>1 DEF Action
    <2>4. \A u \in Threads :
             /\ pc'[u] \notin {"idle", "done"} =>
                   auth'[u] \in Authorization /\ auth'[u].action = Action(u)
             /\ pc'[u] \notin {"append_item", "done"} => answered'[u] = 0
             /\ answered'[u] <= Len(command[u].checks)
             /\ pc'[u] = "append_item" => answered'[u] < Len(command[u].checks)
      BY <1>1, <2>2, OwnTypes DEF TypeInv
    <2>5. LedgerTypeOK'
      BY <1>1, LedgerTypes
    <2>6. QED
      BY <1>1, <2>1, <2>3, <2>4, <2>5, OwnTypes DEF TypeInv
  <1>2. CASE Revising
    <2>1. PICK r \in Revisions : RecordRevision(r)
      BY <1>2 DEF Revising
    <2>2. LedgerTypeOK'
      <3>1. [kind |-> "revision", revision |-> r, ref |-> NoRef, from |-> "none", status |-> "none"]
               \in LedgerEvent
        BY DEF LedgerEvent, EventKinds, EventStatuses
      <3>2. QED
        BY <2>1, <3>1 DEF RecordRevision, LedgerTypeOK, TypeInv
    <2>3. QED
      BY <1>2, <2>2 DEF TypeInv, Revising, sessionVars, threadVars, Action
  <1>3. CASE Elsewhere
    BY <1>3 DEF TypeInv, Elsewhere, LedgerTypeOK, ledgerVars, sessionVars, threadVars, Action
  <1>4. QED
    BY <1>1, <1>2, <1>3, NextCases

LEMMA InitTypes == Init => TypeInv
  <1> SUFFICES ASSUME Init PROVE TypeInv
    OBVIOUS
  <1>1. InitialRevision \in Revisions /\ Wirings \subseteq [Threads -> Sessions]
    BY ToolSessionAssumption
  <1>2. LedgerTypeOK
    <2>1. [kind |-> "revision", revision |-> InitialRevision, ref |-> NoRef, from |-> "none",
           status |-> "none"] \in LedgerEvent
      BY <1>1 DEF LedgerEvent, EventKinds, EventStatuses
    <2>2. QED
      BY <1>1, <2>1 DEF Init, LedgerInit, LedgerTypeOK
  <1>3. command \in [Threads -> Commands] /\ sessionOf \in [Threads -> Sessions]
    BY <1>1 DEF Init
  <1>4. \A t \in Threads : Len(command[t].checks) \in Nat
    <2>1. \A c \in Commands : c.checks \in Seq(CheckIds)
      BY ToolSessionAssumption DEF Command
    <2>2. QED
      BY <1>3, <2>1
  <1>5. /\ \A t \in Threads : pc[t] = "idle" /\ answered[t] = 0 /\ auth[t] = NoAuthorization
        /\ pc \in [Threads -> Labels] /\ auth \in [Threads -> Authorization \cup {NoAuthorization}]
        /\ passed \in [Threads -> BOOLEAN] /\ answered \in [Threads -> Nat]
        /\ outcome \in [Threads -> Outcomes]
    BY DEF Init, Labels, Outcomes
  <1>6. /\ holder \in [Sessions -> Threads \cup {Nobody}]
        /\ auths \in [Sessions -> SUBSET Authorization]
        /\ observed \in [Sessions -> SUBSET ActionIds] /\ ran = {}
    BY DEF Init
  <1>7. QED
    BY <1>2, <1>3, <1>4, <1>5, <1>6 DEF TypeInv

\* Every variable of every run has the type and the place it is used with
\* (tools.ToolSession, runner.ConstrainedRunner.execute).
THEOREM ToolTypes == Spec => []TypeInv
  <1>1. TypeInv /\ UNCHANGED vars => TypeInv'
    BY DEF TypeInv, LedgerTypeOK, vars, ledgerVars, sessionVars, threadVars, hostVars, Action
  <1>2. TypeInv /\ [Next]_vars => TypeInv'
    BY <1>1, TypePreserved
  <1>3. QED
    BY <1>2, InitTypes, PTL DEF Spec

-------------------------------------------------------------------------------
(* Locks *)

\* A step enters its session's lock, leaves it, or stays on its side of it.
LEMMA LockSteps ==
    ASSUME TypeInv, NEW t \in Threads, ThreadStep(t)
    PROVE  \/ /\ holder[Mine(t)] = Nobody /\ Acquire(t)
              /\ pc[t] \notin Locked /\ pc'[t] \in Locked
           \/ pc[t] \in Locked /\ Release(t) /\ pc'[t] \notin Locked
           \/ UNCHANGED holder /\ (pc[t] \in Locked <=> pc'[t] \in Locked)
  <1> USE DEF Locked
  <1>1. \A label : Goto(t, label) => pc'[t] = label
    BY DEF TypeInv, Goto
  <1>2. \A how : Finish(t, how) => pc'[t] = "done"
    BY <1>1 DEF Finish
  <1>3. RaiseLocked(t) => Release(t) /\ pc'[t] \notin Locked
    BY <1>2 DEF RaiseLocked
  <1>4. CASE PolicyRefused(t) \/ ItemRefused(t) \/ ClockRaises(t)
    BY <1>3, <1>4 DEF PolicyRefused, ItemRefused, ClockRaises
  <1>5. CASE EnterRequest(t)
    BY <1>1, <1>2, <1>5 DEF EnterRequest
  <1>6. CASE EnterObservation(t)
    BY <1>1, <1>6 DEF EnterObservation
  <1>7. CASE AppendPolicy(t)
    BY <1>1, <1>2, <1>7 DEF AppendPolicy
  <1>8. CASE AppendItem(t)
    BY <1>2, <1>8 DEF AppendItem, Observed
  <1>9. CASE \/ AppendRequest(t) \/ Dispatch(t) \/ Run(t) \/ RunFails(t)
             \/ StoreOutput(t) \/ ReportError(t) \/ AppendObservation(t)
    BY <1>1, <1>2, <1>9
       DEF AppendRequest, Dispatch, Run, RunFails, StoreOutput, ReportError, AppendObservation,
           sessionVars
  <1>10. QED
    BY <1>4, <1>5, <1>6, <1>7, <1>8, <1>9 DEF ThreadStep, Execute

LEMMA LockPreserved ==
    ASSUME TypeInv, LockInv, Next
    PROVE  LockInv'
  <1>1. ASSUME NEW t \in Threads, ThreadStep(t) PROVE LockInv'
    <2>1. /\ \A u \in Threads \ {t} : pc'[u] = pc[u]
          /\ \A u \in Threads : Mine(u)' = Mine(u) /\ Mine(u) \in Sessions
      BY <1>1, OthersStay, CommandTypes DEF Mine
    <2>2. /\ holder \in [Sessions -> Threads \cup {Nobody}] /\ Nobody \notin Threads
      BY ToolSessionAssumption DEF TypeInv
    <2>3. CASE /\ holder[Mine(t)] = Nobody /\ Acquire(t)
               /\ pc[t] \notin Locked /\ pc'[t] \in Locked
      BY <2>1, <2>2, <2>3 DEF LockInv, Acquire
    <2>4. CASE pc[t] \in Locked /\ Release(t) /\ pc'[t] \notin Locked
      BY <2>1, <2>2, <2>4 DEF LockInv, Release
    <2>5. CASE UNCHANGED holder /\ (pc[t] \in Locked <=> pc'[t] \in Locked)
      BY <2>1, <2>2, <2>5 DEF LockInv
    <2>6. QED
      BY <1>1, <2>3, <2>4, <2>5, LockSteps
  <1>2. CASE Revising \/ Elsewhere
    BY <1>2 DEF Revising, Elsewhere, LockInv, sessionVars, threadVars, Mine
  <1>3. QED
    BY <1>1, <1>2, NextCases

\* At most one thread is between two ledger calls of a session, it holds that
\* session's lock, and every way out of the section gives the lock back
\* (tools.ToolSession._lock).
THEOREM LocksAreHeldInside == Spec => []LockInv
  <1>1. Init => LockInv
    BY DEF Init, LockInv, Locked, Mine
  <1>2. LockInv /\ UNCHANGED vars => LockInv'
    BY DEF LockInv, vars, sessionVars, threadVars, Mine
  <1>3. TypeInv /\ LockInv /\ [Next]_vars => LockInv'
    BY <1>2, LockPreserved
  <1>4. QED
    BY <1>1, <1>3, ToolTypes, PTL DEF Spec

-------------------------------------------------------------------------------
(* Threads and their runs *)

\* A step of a thread that gets no authorization, no result and no observation.
Passing(t) ==
    /\ UNCHANGED <<auth, passed, ran, auths, observed>>
    /\ pc[t] # "done"
    /\ pc'[t] \in Admitting => pc[t] \in Admitting
    /\ pc'[t] \in Answering => pc[t] \in Answering
    /\ pc[t] \in Answering \cup {"report"} => pc'[t] \in Answering \cup {"report", "done"}
    /\ outcome'[t] = outcome[t] \/ outcome'[t] # "observed"

LEMMA ThreadCases ==
    ASSUME TypeInv, NEW t \in Threads, ThreadStep(t)
    PROVE  \/ Passing(t)
           \/ /\ pc[t] = "idle" /\ pc'[t] = "append_request"
              /\ UNCHANGED <<ran, auths, observed, outcome>>
           \/ AppendPolicy(t) \/ Run(t)
           \/ AppendItem(t) /\ Observed(t) /\ answered'[t] = Len(command[t].checks)
  <1> USE DEF Admitting, Answering
  <1>1. \A label : Goto(t, label) => pc'[t] = label
    BY DEF TypeInv, Goto
  <1>2. \A how : Finish(t, how) => pc'[t] = "done" /\ outcome'[t] = how
    BY <1>1 DEF Finish, TypeInv
  <1>3. CASE PolicyRefused(t) \/ ItemRefused(t) \/ ClockRaises(t)
    <2>1. RaiseLocked(t) /\ pc[t] \in Locked
      BY <1>3 DEF PolicyRefused, ItemRefused, ClockRaises, Locked
    <2>2. QED
      BY <1>2, <2>1 DEF RaiseLocked, Passing, Locked
  <1>4. CASE EnterRequest(t)
    BY <1>1, <1>2, <1>4 DEF EnterRequest, Passing, hostVars
  <1>5. CASE AppendRequest(t) \/ Dispatch(t) \/ RunFails(t) \/ AppendObservation(t)
    BY <1>1, <1>5 DEF AppendRequest, Dispatch, RunFails, AppendObservation, Passing, sessionVars,
                      hostVars
  <1>6. CASE StoreOutput(t) \/ ReportError(t)
    BY <1>1, <1>2, <1>6 DEF StoreOutput, ReportError, Passing, sessionVars, hostVars
  <1>7. CASE EnterObservation(t)
    BY <1>1, <1>7 DEF EnterObservation, Passing, hostVars
  <1>8. CASE AppendItem(t)
    <2>1. answered'[t] = answered[t] + 1 /\ answered[t] \in Nat
          /\ answered[t] < Len(command[t].checks) /\ Len(command[t].checks) \in Nat
      BY <1>8, CommandTypes DEF AppendItem, TypeInv
    <2>2. CASE answered[t] + 1 < Len(command[t].checks)
      BY <1>8, <2>2 DEF AppendItem, Passing, hostVars
    <2>3. CASE ~(answered[t] + 1 < Len(command[t].checks))
      BY <1>8, <2>1, <2>3 DEF AppendItem
    <2>4. QED
      BY <2>2, <2>3
  <1>9. QED
    BY <1>3, <1>4, <1>5, <1>6, <1>7, <1>8 DEF ThreadStep, Execute

\* What ThreadInv says of one thread.
ThreadFits(t) ==
    /\ pc[t] \in Admitting => auth[t].allowed /\ auth[t] \in auths[Mine(t)]
    /\ pc[t] \in Answering => RunOf(t) \in ran
    /\ outcome[t] = "observed" =>
          /\ pc[t] = "done" /\ RunOf(t) \in ran
          /\ Action(t) \in observed[Mine(t)]
          /\ answered[t] = Len(command[t].checks)

RunFits(run) ==
    /\ run = RunOf(run.thread) /\ run.auth.action = Action(run.thread)
    /\ run.auth.allowed /\ run.auth \in auths[Mine(run.thread)]
    /\ pc[run.thread] \in Answering \cup {"report", "done"}

LEMMA ThreadInvSplits ==
    ThreadInv <=> (\A t \in Threads : ThreadFits(t)) /\ (\A run \in ran : RunFits(run))
  BY DEF ThreadInv, ThreadFits, RunFits

LEMMA OwnThread ==
    ASSUME TypeInv, ThreadInv, NEW t \in Threads, ThreadStep(t)
    PROVE  ThreadFits(t)' /\ \A run \in ran' : run.thread = t => RunFits(run)'
  <1> USE DEF Admitting, Answering
  <1>1. /\ UNCHANGED <<sessionOf, command>> /\ Mine(t)' = Mine(t) /\ Action(t)' = Action(t)
        /\ Mine(t) \in Sessions
    BY OthersStay, CommandTypes DEF Mine, Action
  <1>2. ThreadFits(t) /\ \A run \in ran : run.thread = t => RunFits(run)
    BY ThreadInvSplits
  <1>3. CASE Passing(t)
    <2>1. RunOf(t)' = RunOf(t)
      BY <1>3 DEF Passing, RunOf
    <2>2. outcome'[t] # "observed"
      BY <1>2, <1>3 DEF Passing, ThreadFits
    <2>3. ThreadFits(t)'
      BY <1>1, <1>2, <1>3, <2>1, <2>2 DEF Passing, ThreadFits
    <2>4. ASSUME NEW run \in ran', run.thread = t PROVE RunFits(run)'
      <3>1. RunFits(run) /\ run \in ran
        BY <1>2, <1>3, <2>4 DEF Passing
      <3>2. pc[t] \in Answering \cup {"report", "done"}
        BY <2>4, <3>1 DEF RunFits
      <3>3. QED
        BY <1>1, <1>3, <2>1, <2>4, <3>1, <3>2 DEF Passing, RunFits
    <2>5. QED
      BY <2>3, <2>4
  <1>4. CASE /\ pc[t] = "idle" /\ pc'[t] = "append_request"
             /\ UNCHANGED <<ran, auths, observed, outcome>>
    BY <1>2, <1>4 DEF ThreadFits, RunFits
  <1>5. CASE AppendPolicy(t)
    <2>1. /\ pc[t] = "append_policy" /\ UNCHANGED <<auth, passed, ran, observed>>
          /\ auths'[Mine(t)] = auths[Mine(t)] \cup {auth[t]}
          /\ \/ pc'[t] = "dispatch" /\ auth[t].allowed /\ outcome'[t] = outcome[t]
             \/ pc'[t] = "done" /\ outcome'[t] = "blocked"
      BY <1>1, <1>5 DEF AppendPolicy, Register, Goto, Finish, TypeInv, hostVars
    <2>2. \A run \in ran : run.thread # t
      BY <1>2, <2>1 DEF RunFits
    <2>3. QED
      BY <1>1, <1>2, <2>1, <2>2 DEF ThreadFits
  <1>6. CASE Run(t)
    <2>1. PICK p :
             /\ pc[t] = "run" /\ UNCHANGED <<auth, auths, observed, outcome>>
             /\ passed' = [passed EXCEPT ![t] = p]
             /\ ran' = ran \cup {[thread |-> t, auth |-> auth[t], passed |-> p]}
             /\ pc'[t] \in {"store", "report"}
      <3>1. PICK r \in Results :
             /\ passed' = [passed EXCEPT ![t] = Passes(r.observed)]
             /\ ran' = ran \cup {[thread |-> t, auth |-> auth[t], passed |-> Passes(r.observed)]}
             /\ Goto(t, IF r.ours THEN "store" ELSE "report")
        BY <1>6 DEF Run
      <3>2. pc'[t] \in {"store", "report"}
        BY <3>1 DEF Goto, TypeInv
      <3>3. QED
        BY <1>6, <3>1, <3>2 DEF Run, sessionVars
    <2>2. \A run \in ran : run.thread # t
      BY <1>2, <2>1 DEF RunFits
    <2>3. passed'[t] = p
      BY <2>1 DEF TypeInv
    <2>4. RunOf(t)' = [thread |-> t, auth |-> auth[t], passed |-> p]
      BY <2>1, <2>3 DEF RunOf
    <2>5. auth[t].allowed /\ auth[t] \in auths[Mine(t)] /\ auth[t].action = Action(t)
      BY <1>2, <2>1 DEF ThreadFits, TypeInv
    <2>6. ThreadFits(t)'
      BY <1>1, <1>2, <2>1, <2>4, <2>5 DEF ThreadFits
    <2>7. ASSUME NEW run \in ran', run.thread = t PROVE RunFits(run)'
      <3>1. run = RunOf(t)' /\ run.auth = auth[t]
        BY <2>1, <2>2, <2>4, <2>7
      <3>2. QED
        BY <1>1, <2>1, <2>5, <2>7, <3>1 DEF RunFits
    <2>8. QED
      BY <2>6, <2>7
  <1>7. CASE AppendItem(t) /\ Observed(t) /\ answered'[t] = Len(command[t].checks)
    <2>1. /\ pc[t] = "append_item" /\ pc'[t] = "done" /\ UNCHANGED <<auth, passed, ran, auths>>
          /\ Action(t) \in observed'[Mine(t)]
      BY <1>1, <1>7 DEF AppendItem, Observed, Finish, Goto, TypeInv, hostVars
    <2>2. RunOf(t)' = RunOf(t) /\ RunOf(t) \in ran
      BY <1>2, <2>1 DEF RunOf, ThreadFits
    <2>3. QED
      BY <1>1, <1>2, <1>7, <2>1, <2>2 DEF ThreadFits, RunFits
  <1>8. QED
    BY <1>3, <1>4, <1>5, <1>6, <1>7, ThreadCases

LEMMA ThreadPreserved ==
    ASSUME TypeInv, ThreadInv, Next
    PROVE  ThreadInv'
  <1>1. ASSUME NEW t \in Threads, ThreadStep(t) PROVE ThreadInv'
    <2>1. \A u \in Threads : /\ Mine(u)' = Mine(u) /\ Action(u)' = Action(u)
                             /\ Mine(u) \in Sessions /\ command'[u] = command[u]
      BY <1>1, OthersStay, CommandTypes DEF Mine, Action
    <2>2. \A u \in Threads \ {t} :
             /\ pc'[u] = pc[u] /\ auth'[u] = auth[u] /\ answered'[u] = answered[u]
             /\ outcome'[u] = outcome[u] /\ RunOf(u)' = RunOf(u)
      BY <1>1, OthersStay DEF RunOf
    <2>3. /\ \A s \in Sessions : auths[s] \subseteq auths'[s] /\ observed[s] \subseteq observed'[s]
          /\ ran \subseteq ran' /\ \A run \in ran' \ ran : run.thread = t
      BY <1>1, OthersStay
    <2>4. \A u \in Threads \ {t} : ThreadFits(u)'
      BY <2>1, <2>2, <2>3, ThreadInvSplits DEF ThreadFits
    <2>5. ASSUME NEW run \in ran', run.thread # t PROVE RunFits(run)'
      <3>1. run \in ran /\ RunFits(run) /\ run.thread \in Threads
        BY <2>3, <2>5, ThreadInvSplits DEF TypeInv
      <3>2. QED
        BY <2>1, <2>2, <2>3, <2>5, <3>1 DEF RunFits
    <2>6. (\A u \in Threads : ThreadFits(u)') /\ (\A run \in ran' : RunFits(run)')
      BY <1>1, <2>4, <2>5, OwnThread
    <2>7. QED
      BY <2>6 DEF ThreadInv, ThreadFits, RunFits
  <1>2. CASE Revising \/ Elsewhere
    BY <1>2 DEF Revising, Elsewhere, ThreadInv, sessionVars, threadVars, Mine, RunOf, Action
  <1>3. QED
    BY <1>1, <1>2, NextCases

\* An observation is made only of what the thread itself ran, on the strength of
\* an authorization its session has registered (runner.ConstrainedRunner.execute).
THEOREM RunsAreAuthorized == Spec => []ThreadInv
  <1>1. Init => ThreadInv
    BY DEF Init, ThreadInv, Admitting, Answering
  <1>2. ThreadInv /\ UNCHANGED vars => ThreadInv'
    BY DEF ThreadInv, vars, sessionVars, threadVars, hostVars, Mine, RunOf, Action
  <1>3. TypeInv /\ ThreadInv /\ [Next]_vars => ThreadInv'
    BY <1>2, ThreadPreserved
  <1>4. QED
    BY <1>1, <1>3, ToolTypes, PTL DEF Spec

-------------------------------------------------------------------------------
(* What a step leaves in the ledger *)

\* Each of the four is changed by one action only.
LEMMA OnlyChanges ==
    ASSUME TypeInv, NEW t \in Threads, ThreadStep(t)
    PROVE  /\ UNCHANGED answered \/ AppendItem(t)
           /\ UNCHANGED auths \/ AppendPolicy(t)
           /\ UNCHANGED ran \/ Run(t)
           /\ pc'[t] = "append_policy" => AppendRequest(t)
  <1>1. \A label : Goto(t, label) => pc'[t] = label
    BY DEF TypeInv, Goto
  <1>2. \A how : Finish(t, how) => pc'[t] = "done"
    BY <1>1 DEF Finish
  <1>3. CASE PolicyRefused(t) \/ ItemRefused(t) \/ ClockRaises(t)
    <2>1. RaiseLocked(t)
      BY <1>3 DEF PolicyRefused, ItemRefused, ClockRaises
    <2>2. QED
      BY <1>2, <2>1 DEF RaiseLocked
  <1>4. CASE EnterRequest(t) \/ EnterObservation(t)
    BY <1>1, <1>2, <1>4 DEF EnterRequest, EnterObservation, hostVars
  <1>5. CASE AppendRequest(t) \/ Dispatch(t) \/ RunFails(t) \/ AppendObservation(t)
    BY <1>1, <1>5 DEF AppendRequest, Dispatch, RunFails, AppendObservation, sessionVars, hostVars
  <1>6. CASE StoreOutput(t) \/ ReportError(t)
    BY <1>1, <1>2, <1>6 DEF StoreOutput, ReportError, sessionVars, hostVars
  <1>7. CASE AppendPolicy(t)
    BY <1>1, <1>2, <1>7 DEF AppendPolicy, hostVars
  <1>8. CASE Run(t)
    BY <1>1, <1>8 DEF Run, sessionVars
  <1>9. CASE AppendItem(t)
    BY <1>2, <1>9 DEF AppendItem, Observed, hostVars
  <1>10. QED
    BY <1>3, <1>4, <1>5, <1>6, <1>7, <1>8, <1>9 DEF ThreadStep, Execute

\* The item a step puts into the ledger is of a new id and of the revision of now.
Adds(e) ==
    /\ ~EvidenceRefused(e)
    /\ evidence' = Append(evidence, e) /\ evidenceIds' = evidenceIds \cup {e.id}

LEMMA EvidenceCases ==
    ASSUME TypeInv, NEW t \in Threads, ThreadStep(t)
    PROVE  \/ UNCHANGED <<evidence, evidenceIds>> /\ UNCHANGED <<answered, auths>>
           \/ /\ pc[t] = "append_policy" /\ Adds(PolicyItem(t)) /\ UNCHANGED answered
              /\ UNCHANGED auths \/ Register(t)
           \/ /\ pc[t] = "append_item" /\ Adds(Item(t)) /\ UNCHANGED auths
              /\ answered' = [answered EXCEPT ![t] = @ + 1] \/ clockRaised'
  <1>1. CASE AppendPolicy(t)
    BY <1>1 DEF AppendPolicy, RecordEvidence, Adds
  <1>2. CASE AppendItem(t)
    BY <1>2 DEF AppendItem, RecordEvidence, Adds
  <1>3. CASE ClockRaises(t)
    BY <1>3 DEF ClockRaises, RaiseLocked, RecordEvidenceClockFails, Adds, ledgerVars
  <1>4. CASE ~AppendPolicy(t) /\ ~AppendItem(t) /\ ~ClockRaises(t)
    <2>1. UNCHANGED <<answered, auths>>
      BY <1>4, OnlyChanges
    <2>2. UNCHANGED <<evidence, evidenceIds>>
      BY <1>4 DEF ThreadStep, Execute, EnterRequest, AppendRequest, PolicyRefused, Dispatch,
           Run, RunFails, StoreOutput, ReportError, EnterObservation, AppendObservation,
           ItemRefused, RecordToolRequest, RecordToolObservation, RecordToolError, ledgerVars
    <2>3. QED
      BY <2>1, <2>2
  <1>5. QED
    BY <1>1, <1>2, <1>3, <1>4

\* The trail is only appended to.
LEMMA TrailStays ==
    ASSUME TypeInv, Next
    PROVE  /\ events \in Seq(LedgerEvent)
           /\ \/ events' = events
              \/ \E x \in LedgerEvent : events' = Append(events, x)
           /\ \A n \in DOMAIN events : n \in DOMAIN events' /\ events'[n] = events[n]
  <1>1. events \in Seq(LedgerEvent) /\ events' \in Seq(LedgerEvent)
    BY TypePreserved DEF TypeInv, LedgerTypeOK
  <1>2. events' = events \/ \E x : events' = Append(events, x)
    <2>1. CASE \E t \in Threads : ThreadStep(t)
      BY <2>1 DEF ThreadStep, Execute, EnterRequest, AppendRequest, AppendPolicy, PolicyRefused,
           Dispatch, Run, RunFails, StoreOutput, ReportError, EnterObservation, AppendObservation,
           AppendItem, ItemRefused, ClockRaises, RecordEvidence, RecordEvidenceClockFails,
           RecordToolRequest, RecordToolObservation, RecordToolError, ledgerVars
    <2>2. CASE Revising \/ Elsewhere
      BY <2>2 DEF Revising, Elsewhere, RecordRevision, ledgerVars
    <2>3. QED
      BY <2>1, <2>2, NextCases
  <1>3. CASE events' = events
    BY <1>1, <1>3
  <1>4. ASSUME NEW x, events' = Append(events, x)
        PROVE  /\ x \in LedgerEvent
               /\ \A n \in DOMAIN events : n \in DOMAIN events' /\ events'[n] = events[n]
    <2>1. events'[Len(events) + 1] = x /\ Len(events) + 1 \in DOMAIN events'
      BY <1>1, <1>4
    <2>2. x \in LedgerEvent
      BY <1>1, <2>1
    <2>3. QED
      BY <1>1, <1>4, <2>2
  <1>5. QED
    BY <1>1, <1>2, <1>3, <1>4

\* An item stays where it is, and a new one comes after it.
LEMMA ItemsStay ==
    ASSUME TypeInv, NEW t \in Threads, ThreadStep(t)
    PROVE  /\ \A i \in DOMAIN evidence : i \in DOMAIN evidence' /\ evidence'[i] = evidence[i]
           /\ \A e : evidence' = Append(evidence, e) =>
                 /\ Len(evidence) + 1 \in DOMAIN evidence' /\ evidence'[Len(evidence) + 1] = e
                 /\ DOMAIN evidence' = DOMAIN evidence \cup {Len(evidence) + 1}
                 /\ Len(evidence) + 1 \notin DOMAIN evidence
  <1>1. evidence \in Seq(Evidence) /\ evidence' \in Seq(Evidence)
    BY LedgerTypes DEF TypeInv, LedgerTypeOK
  <1>2. \A e : evidence' = Append(evidence, e) =>
           /\ Len(evidence) + 1 \in DOMAIN evidence' /\ evidence'[Len(evidence) + 1] = e
           /\ DOMAIN evidence' = DOMAIN evidence \cup {Len(evidence) + 1}
           /\ Len(evidence) + 1 \notin DOMAIN evidence
           /\ \A i \in DOMAIN evidence : i \in DOMAIN evidence' /\ evidence'[i] = evidence[i]
    BY <1>1
  <1>3. evidence' = evidence \/ \E e : evidence' = Append(evidence, e)
    BY EvidenceCases DEF Adds
  <1>4. QED
    BY <1>2, <1>3

\* The ids stay in step with the items.
LEMMA IdsPreserved ==
    ASSUME TypeInv, EvidenceIdsAgree, NEW t \in Threads, ThreadStep(t)
    PROVE  EvidenceIdsAgree'
  <1>1. CASE UNCHANGED <<evidence, evidenceIds>>
    BY <1>1 DEF EvidenceIdsAgree
  <1>2. ASSUME NEW e, Adds(e) PROVE EvidenceIdsAgree'
    <2>1. e.id \notin evidenceIds /\ evidenceIds' = evidenceIds \cup {e.id}
      BY <1>2 DEF Adds, EvidenceRefused
    <2>2. /\ \A i \in DOMAIN evidence : evidence'[i] = evidence[i]
          /\ evidence'[Len(evidence) + 1] = e
          /\ DOMAIN evidence' = DOMAIN evidence \cup {Len(evidence) + 1}
      BY <1>2, ItemsStay DEF Adds
    <2>3. QED
      BY <2>1, <2>2 DEF EvidenceIdsAgree
  <1>3. QED
    BY <1>1, <1>2, EvidenceCases

\* An answer is the same answer after any step of a thread.
LEMMA AnswersStay ==
    ASSUME TypeInv, ThreadInv, NEW t \in Threads, ThreadStep(t)
    PROVE  /\ \A run, n : Answer(run, n)' = Answer(run, n)
           /\ \A run \in ran : run.thread \in Threads /\ answered[run.thread] \in Nat
           /\ \A u \in Threads : answered[u] \in Nat /\ answered'[u] \in Nat
                                 /\ answered[u] <= answered'[u]
           /\ \A run \in ran' \ ran : run.thread = t /\ answered'[t] = 0
  <1>1. UNCHANGED command /\ \A u \in Threads \ {t} : answered'[u] = answered[u]
    BY OthersStay
  <1>2. answered \in [Threads -> Nat] /\ ran \subseteq [thread : Threads, auth : Authorization, passed : BOOLEAN]
    BY DEF TypeInv
  <1>3. answered' = answered \/ answered' = [answered EXCEPT ![t] = @ + 1]
    BY OnlyChanges DEF AppendItem
  <1>4. \A u \in Threads : answered'[u] \in Nat /\ answered[u] <= answered'[u]
    BY <1>2, <1>3
  <1>5. ASSUME NEW run \in ran' \ ran PROVE run.thread = t /\ answered'[t] = 0
    <2>1. Run(t) /\ run.thread = t
      BY <1>5, OnlyChanges, OthersStay
    <2>2. pc[t] = "run" /\ answered'[t] = answered[t]
      BY <2>1 DEF Run
    <2>3. QED
      BY <2>1, <2>2 DEF TypeInv
  <1>6. \A run, n : Answer(run, n)' = Answer(run, n)
    BY <1>1 DEF Answer
  <1>7. QED
    BY <1>2, <1>4, <1>5, <1>6

\* The item a thread appends is the answer of its run to its next check.
LEMMA ItemIsAnswer ==
    ASSUME TypeInv, ThreadInv, NEW t \in Threads, pc[t] = "append_item"
    PROVE  /\ RunOf(t) \in ran /\ RunOf(t).thread = t
           /\ Item(t) = Answer(RunOf(t), answered[t] + 1)
           /\ answered[t] + 1 \in DOMAIN command[t].checks
  <1>1. RunOf(t) \in ran /\ auth[t].action = Action(t)
    BY DEF ThreadInv, Answering, TypeInv
  <1>2. answered[t] \in Nat /\ answered[t] < Len(command[t].checks)
    BY DEF TypeInv
  <1>3. answered[t] + 1 \in DOMAIN command[t].checks
    BY <1>2, CommandTypes
  <1>4. QED
    BY <1>1, <1>3 DEF RunOf, Item, Answer, NextCheck

Requested(a) == \E n \in DOMAIN events : events[n].kind = "tool_request" /\ events[n].ref = a

\* A request is on the trail before its policy evidence is.
LEMMA RequestsPreserved ==
    ASSUME TypeInv, BackedInv, NEW t \in Threads, ThreadStep(t), Next
    PROVE  /\ \A a : Requested(a) => Requested(a)'
           /\ \A u \in Threads : pc'[u] = "append_policy" => Requested(Action(u))'
  <1>1. \A a : Requested(a) => Requested(a)'
    BY TrailStays DEF Requested
  <1>2. \A u \in Threads : pc[u] = "append_policy" => Requested(Action(u))
    BY DEF BackedInv, Requested
  <1>3. ASSUME NEW u \in Threads, pc'[u] = "append_policy" PROVE Requested(Action(u))'
    <2>1. Action(u)' = Action(u)
      BY OthersStay DEF Action
    <2>2. CASE u # t
      BY <1>1, <1>2, <1>3, <2>1, <2>2, OthersStay DEF Requested
    <2>3. CASE u = t
      <3>1. RecordToolRequest(Action(t), auth[t].allowed)
        BY <1>3, <2>3, OnlyChanges DEF AppendRequest
      <3>2. PICK x : events' = Append(events, x) /\ x.kind = "tool_request" /\ x.ref = Action(t)
        BY <3>1 DEF RecordToolRequest, Stamped
      <3>3. events \in Seq(LedgerEvent)
        BY TrailStays
      <3>4. Len(events) + 1 \in DOMAIN events' /\ events'[Len(events) + 1] = x
        BY <3>2, <3>3
      <3>5. QED
        BY <2>1, <2>3, <3>2, <3>4 DEF Requested
    <2>4. QED
      BY <2>2, <2>3
  <1>4. QED
    BY <1>1, <1>3

Recorded(item) == \E i \in DOMAIN evidence : evidence[i] = item

PolicyEvidence(a) ==
    [id |-> AuthorizationId[a.action], check |-> PolicyCheck,
     revision |-> a.revision, passed |-> a.allowed]

\* An authorization is registered in the step that records its evidence.
LEMMA AuthsPreserved ==
    ASSUME TypeInv, BackedInv, NEW t \in Threads, ThreadStep(t), Next
    PROVE  \A s \in Sessions : \A a \in auths'[s] : Recorded(PolicyEvidence(a))' /\ Requested(a.action)'
  <1>1. \A s \in Sessions : \A a \in auths[s] : Recorded(PolicyEvidence(a)) /\ Requested(a.action)
    BY DEF BackedInv, Recorded, PolicyEvidence, Requested
  <1>2. /\ \A a : Recorded(PolicyEvidence(a)) => Recorded(PolicyEvidence(a))'
        /\ \A a : Requested(a.action) => Requested(a.action)'
    BY ItemsStay, RequestsPreserved DEF Recorded, PolicyEvidence
  <1>3. CASE UNCHANGED auths
    BY <1>1, <1>2, <1>3
  <1>4. CASE pc[t] = "append_policy" /\ Adds(PolicyItem(t)) /\ Register(t)
    <2>1. PICK given : given = auth[t]
      OBVIOUS
    <2>2. given.action = Action(t) /\ auths \in [Sessions -> SUBSET Authorization]
      BY <1>4, <2>1 DEF TypeInv
    <2>3. \A s \in Sessions : \A a \in auths'[s] : a \in auths[s] \/ a = given
      BY <1>4, <2>1, <2>2 DEF Register
    <2>4. PolicyItem(t) = PolicyEvidence(given)
      BY <2>1, <2>2 DEF PolicyItem, PolicyEvidence
    <2>5. Recorded(PolicyEvidence(given))'
      BY <1>4, <2>4, ItemsStay DEF Adds, Recorded, PolicyEvidence
    <2>6. Requested(given.action)'
      BY <1>2, <1>4, <2>2 DEF BackedInv, Requested
    <2>7. QED
      BY <1>1, <1>2, <2>3, <2>5, <2>6
  <1>5. QED
    BY <1>3, <1>4, EvidenceCases

\* What a thread counts as answered is in the ledger.
LEMMA AnswersPreserved ==
    ASSUME TypeInv, ThreadInv, BackedInv, NEW t \in Threads, ThreadStep(t)
    PROVE  \A run \in ran' : \A n \in 1..answered'[run.thread] : Recorded(Answer(run, n))'
  <1> SUFFICES ASSUME NEW run \in ran', NEW n \in 1..answered'[run.thread]
               PROVE  Recorded(Answer(run, n))'
    OBVIOUS
  <1>1. run \in ran /\ run.thread \in Threads
    BY AnswersStay
  <1>2. UNCHANGED Answer(run, n)
    BY AnswersStay
  <1>3. CASE n \in 1..answered[run.thread]
    <2>1. Recorded(Answer(run, n))
      BY <1>1, <1>3 DEF BackedInv, Recorded
    <2>2. QED
      BY <1>2, <2>1, ItemsStay DEF Recorded
  <1>4. CASE n \notin 1..answered[run.thread]
    <2>1. answered[run.thread] \in Nat /\ answered'[run.thread] # answered[run.thread]
      BY <1>1, <1>4, AnswersStay
    <2>2. run.thread = t
      BY <1>1, <2>1, OthersStay
    <2>3. AppendItem(t)
      BY <2>1, <2>2, OnlyChanges
    <2>4. pc[t] = "append_item" /\ Adds(Item(t)) /\ answered'[t] = answered[t] + 1
      BY <2>3 DEF AppendItem, RecordEvidence, Adds, TypeInv
    <2>5. n = answered[t] + 1
      BY <1>4, <2>1, <2>2, <2>4
    <2>6. run = RunOf(t)
      BY <1>1, <2>2 DEF ThreadInv
    <2>7. Item(t) = Answer(run, n)
      BY <2>4, <2>5, <2>6, ItemIsAnswer
    <2>8. QED
      BY <1>2, <2>4, <2>7, ItemsStay DEF Adds, Recorded
  <1>5. QED
    BY <1>3, <1>4

\* What is in the ledger was put there by a policy or is an answer of a run.
LEMMA SourcesPreserved ==
    ASSUME TypeInv, ThreadInv, BackedInv, NEW t \in Threads, ThreadStep(t)
    PROVE  (\A i \in DOMAIN evidence : SourceOf(evidence[i]))'
  <1>1. UNCHANGED command
    BY OthersStay
  <1>2. ASSUME NEW item, SourceOf(item) PROVE SourceOf(item)'
    <2>1. CASE \E run \in ran : \E n \in DOMAIN command[run.thread].checks :
                  item = Answer(run, n) /\ (n <= answered[run.thread] \/ clockRaised)
      <3>0. PICK run \in ran : \E n \in DOMAIN command[run.thread].checks :
                  item = Answer(run, n) /\ (n <= answered[run.thread] \/ clockRaised)
        BY <2>1
      <3>1. PICK n \in DOMAIN command[run.thread].checks :
                  item = Answer(run, n) /\ (n <= answered[run.thread] \/ clockRaised)
        BY <3>0
      <3>2. /\ run \in ran' /\ UNCHANGED Answer(run, n) /\ run.thread \in Threads
            /\ clockRaised => clockRaised'
        BY OthersStay, AnswersStay
      <3>3. command[run.thread].checks \in Seq(CheckIds) /\ n \in Nat
        BY <3>2, CommandTypes
      <3>4. n <= answered[run.thread] => n <= answered'[run.thread]
        BY <3>2, <3>3, AnswersStay
      <3>5. QED
        BY <1>1, <3>1, <3>2, <3>4 DEF SourceOf
    <2>2. QED
      BY <1>2, <2>1 DEF SourceOf
  <1>3. \A e : (\E i \in DOMAIN evidence : e = evidence[i]) => SourceOf(e)'
    BY <1>2 DEF BackedInv
  <1>4. ASSUME \A i \in DOMAIN evidence' : \E e : SourceOf(e)' /\ e = evidence'[i]
        PROVE  (\A i \in DOMAIN evidence : SourceOf(evidence[i]))'
    BY <1>4 DEF SourceOf
  <1>5. ASSUME NEW e, Adds(e), SourceOf(e)'
        PROVE  (\A i \in DOMAIN evidence : SourceOf(evidence[i]))'
    <2>1. \A i \in DOMAIN evidence' : i \in DOMAIN evidence \/ evidence'[i] = e
      BY <1>5, ItemsStay DEF Adds
    <2>2. \A i \in DOMAIN evidence : evidence'[i] = evidence[i]
      BY ItemsStay
    <2>3. QED
      BY <1>3, <1>4, <1>5, <2>1, <2>2
  <1>6. CASE pc[t] = "append_policy" /\ Adds(PolicyItem(t))
    <2>1. SourceOf(PolicyItem(t))
      BY CommandTypes DEF SourceOf, PolicyItem
    <2>2. PICK e : e = PolicyItem(t)
      OBVIOUS
    <2>3. QED
      BY <1>2, <1>5, <1>6, <2>1, <2>2
  <1>7. CASE /\ pc[t] = "append_item" /\ Adds(Item(t))
             /\ answered' = [answered EXCEPT ![t] = @ + 1] \/ clockRaised'
    <2>1. PICK run, n : run = RunOf(t) /\ n = answered[t] + 1
      OBVIOUS
    <2>2. run \in ran /\ run.thread = t /\ n \in DOMAIN command[t].checks /\ Item(t) = Answer(run, n)
      BY <1>7, <2>1, ItemIsAnswer
    <2>3. run \in ran' /\ UNCHANGED Answer(run, n)
      BY <2>2, OthersStay, AnswersStay
    <2>4. answered \in [Threads -> Nat]
      BY DEF TypeInv
    <2>5. n <= answered'[t] \/ clockRaised'
      BY <1>7, <2>1, <2>4
    <2>6. PICK e : e = Item(t)
      OBVIOUS
    <2>7. SourceOf(e)'
      BY <1>1, <2>2, <2>3, <2>5, <2>6 DEF SourceOf
    <2>8. QED
      BY <1>5, <1>7, <2>6, <2>7
  <1>8. CASE UNCHANGED evidence
    BY <1>3, <1>4, <1>8
  <1>9. QED
    BY <1>6, <1>7, <1>8, EvidenceCases

\* A step of nobody's takes nothing from what the sessions have in the ledger.
LEMMA BackedStays ==
    ASSUME BackedInv, UNCHANGED <<evidence, evidenceIds, sessionVars, threadVars, ran, clockRaised>>,
           \A a : Requested(a) => Requested(a)'
    PROVE  BackedInv'
  <1>1. UNCHANGED <<evidence, evidenceIds, auths, pc, command, answered, ran, clockRaised>>
    BY DEF sessionVars, threadVars
  <1>2. EvidenceIdsAgree'
    BY <1>1 DEF BackedInv, EvidenceIdsAgree
  <1>3. \A u \in Threads : pc'[u] = "append_policy" => Requested(Action(u))'
    BY <1>1 DEF BackedInv, Requested, Action
  <1>4. \A s \in Sessions : \A a \in auths'[s] : Recorded(PolicyEvidence(a))' /\ Requested(a.action)'
    BY <1>1 DEF BackedInv, Requested, Recorded, PolicyEvidence
  <1>5. \A run \in ran' : \A n \in 1..answered'[run.thread] : Recorded(Answer(run, n))'
    BY <1>1 DEF BackedInv, Recorded, Answer
  <1>6. (\A i \in DOMAIN evidence : SourceOf(evidence[i]))'
    <2>1. \A i \in DOMAIN evidence : SourceOf(evidence[i])
      BY DEF BackedInv
    <2>2. \A item : SourceOf(item)' <=> SourceOf(item)
      BY <1>1 DEF SourceOf, Answer
    <2>3. QED
      BY <1>1, <2>1, <2>2 DEF SourceOf, Answer
  <1>7. QED
    BY <1>2, <1>3, <1>4, <1>5, <1>6 DEF BackedInv, Requested, Recorded, PolicyEvidence

LEMMA BackedPreserved ==
    ASSUME TypeInv, ThreadInv, BackedInv, Next
    PROVE  BackedInv'
  <1>1. ASSUME NEW t \in Threads, ThreadStep(t) PROVE BackedInv'
    <2>1. EvidenceIdsAgree'
      BY <1>1, IdsPreserved DEF BackedInv
    <2>2. \A u \in Threads : pc'[u] = "append_policy" => Requested(Action(u))'
      BY <1>1, RequestsPreserved
    <2>3. \A s \in Sessions : \A a \in auths'[s] :
             Recorded(PolicyEvidence(a))' /\ Requested(a.action)'
      BY <1>1, AuthsPreserved
    <2>4. \A run \in ran' : \A n \in 1..answered'[run.thread] : Recorded(Answer(run, n))'
      BY <1>1, AnswersPreserved
    <2>5. (\A i \in DOMAIN evidence : SourceOf(evidence[i]))'
      BY <1>1, SourcesPreserved
    <2>6. QED
      BY <2>1, <2>2, <2>3, <2>4, <2>5 DEF BackedInv, Requested, Recorded, PolicyEvidence
  <1>2. CASE Revising \/ Elsewhere
    <2>1. UNCHANGED <<evidence, evidenceIds, sessionVars, threadVars, ran, clockRaised>>
      BY <1>2 DEF Revising, Elsewhere, RecordRevision, ledgerVars
    <2>2. \A n \in DOMAIN events : n \in DOMAIN events' /\ events'[n] = events[n]
      BY TrailStays
    <2>3. \A a : Requested(a) => Requested(a)'
      BY <2>2 DEF Requested
    <2>4. QED
      BY <2>1, <2>3, BackedStays
  <1>3. QED
    BY <1>1, <1>2, NextCases

\* The sessions' requests, policy evidence and answers are in the ledger, and the
\* ledger has no other evidence (tools.ToolSession, ledger.EvidenceLedger).
THEOREM SessionsAreInTheLedger == Spec => []BackedInv
  <1>1. Init => BackedInv
    BY DEF Init, LedgerInit, BackedInv, EvidenceIdsAgree
  <1>2. BackedInv /\ UNCHANGED vars => BackedInv'
    BY BackedStays DEF Requested, vars, ledgerVars, hostVars
  <1>3. TypeInv /\ ThreadInv /\ BackedInv /\ [Next]_vars => BackedInv'
    BY <1>2, BackedPreserved
  <1>4. QED
    BY <1>1, <1>3, ToolTypes, RunsAreAuthorized, PTL DEF Spec

\* Evidence from a tool is of a run of its action that the policy allowed, in the
\* revision it was allowed for, and says how that run went, whatever raised and
\* whoever moved the revision between the run and its evidence
\* (ToolSession.record_observation).
THEOREM EvidenceOfRuns == Spec => []EvidenceComesFromRuns
  <1>1. ASSUME ThreadInv, BackedInv PROVE EvidenceComesFromRuns
    <2> SUFFICES ASSUME NEW i \in DOMAIN evidence, evidence[i].check # PolicyCheck
                 PROVE  \E run \in ran :
                           /\ run.auth.allowed /\ run.auth \in auths[Mine(run.thread)]
                           /\ evidence[i] = [id |-> ObservationId[<<run.auth.action, evidence[i].check>>],
                                             check |-> evidence[i].check,
                                             revision |-> run.auth.revision, passed |-> run.passed]
      BY DEF EvidenceComesFromRuns
    <2>0. PICK run \in ran : \E n \in DOMAIN command[run.thread].checks : evidence[i] = Answer(run, n)
      BY <1>1 DEF BackedInv, SourceOf
    <2>1. PICK n \in DOMAIN command[run.thread].checks : evidence[i] = Answer(run, n)
      BY <2>0
    <2>2. run.auth.allowed /\ run.auth \in auths[Mine(run.thread)]
      BY <1>1 DEF ThreadInv
    <2>3. evidence[i].check = command[run.thread].checks[n]
      BY <2>1 DEF Answer
    <2>4. QED
      BY <2>1, <2>2, <2>3 DEF Answer
  <1>2. QED
    BY <1>1, RunsAreAuthorized, SessionsAreInTheLedger, PTL

-------------------------------------------------------------------------------
(* Actions are admitted once *)

\* An admitted action is registered in its thread's session, and so is its
\* policy evidence's id in the ledger.
LEMMA AdmittedIsRegistered ==
    ASSUME TypeInv, ThreadInv, BackedInv
    PROVE  /\ \A u \in Threads : Admitted(u) => Action(u) \in ActionsOf(Mine(u))
           /\ \A s \in Sessions : \A a \in ActionsOf(s) : AuthorizationId[a] \in evidenceIds
  <1>1. ASSUME NEW u \in Threads, Admitted(u) PROVE Action(u) \in ActionsOf(Mine(u))
    <2>1. CASE pc[u] \in Admitting
      <3>1. auth[u] \in auths[Mine(u)] /\ auth[u].action = Action(u)
        BY <2>1 DEF ThreadInv, TypeInv, Admitting
      <3>2. QED
        BY <3>1, Zenon DEF ActionsOf
    <2>2. CASE \E run \in ran : run.thread = u
      <3>1. PICK run \in ran : run.thread = u
        BY <2>2
      <3>2. run.auth \in auths[Mine(u)] /\ run.auth.action = Action(u)
        BY <3>1 DEF ThreadInv
      <3>3. QED
        BY <3>2, Zenon DEF ActionsOf
    <2>3. QED
      BY <1>1, <2>1, <2>2 DEF Admitted
  <1>2. ASSUME NEW s \in Sessions, NEW a \in auths[s] PROVE AuthorizationId[a.action] \in evidenceIds
    <2>1. PICK i \in DOMAIN evidence : evidence[i] =
              [id |-> AuthorizationId[a.action], check |-> PolicyCheck,
               revision |-> a.revision, passed |-> a.allowed]
      BY DEF BackedInv
    <2>2. evidence[i].id = AuthorizationId[a.action]
      BY <2>1
    <2>3. QED
      BY <2>2 DEF BackedInv, EvidenceIdsAgree
  <1>3. QED
    BY <1>1, <1>2 DEF ActionsOf

LEMMA OncePreserved ==
    ASSUME TypeInv, ThreadInv, BackedInv, OnceInv, Next
    PROVE  OnceInv'
  <1>1. ASSUME NEW t \in Threads, ThreadStep(t) PROVE OnceInv'
    <2>1. \A u \in Threads : Action(u)' = Action(u) /\ Mine(u) \in Sessions
      BY <1>1, OthersStay, CommandTypes DEF Action
    <2>2. \A u \in Threads \ {t} : Admitted(u)' => Admitted(u)
      BY <1>1, OthersStay DEF Admitted
    <2>3. CASE AppendPolicy(t)
      <3>1. /\ pc[t] = "append_policy" /\ auth[t].action = Action(t)
            /\ AuthorizationId[Action(t)] \notin evidenceIds
        BY <2>3 DEF AppendPolicy, RecordEvidence, EvidenceRefused, PolicyItem, TypeInv
      <3>2. \A s \in Sessions : Action(t) \notin ActionsOf(s)
        BY <3>1, AdmittedIsRegistered
      <3>3. \A u \in Threads \ {t} : Admitted(u) => Action(u) # Action(t)
        BY <2>1, <3>2, AdmittedIsRegistered
      <3>4. \A u, v \in Threads : Admitted(u)' /\ Admitted(v)' /\ Action(u) = Action(v) => u = v
        BY <2>2, <3>3 DEF OnceInv
      <3>5. \A s \in Sessions \ {Mine(t)} : ActionsOf(s)' = ActionsOf(s)
        BY <2>3 DEF AppendPolicy, Register, TypeInv, ActionsOf
      <3>6. ActionsOf(Mine(t))' = ActionsOf(Mine(t)) \cup {Action(t)}
        <4>1. auths'[Mine(t)] = auths[Mine(t)] \cup {auth[t]} /\ Mine(t)' = Mine(t)
          BY <1>1, <2>1, <2>3, OthersStay DEF AppendPolicy, Register, TypeInv, Mine
        <4>2. QED
          BY <3>1, <4>1 DEF ActionsOf
      <3>7. PICK mine \in Sessions : mine = Mine(t)
        BY <2>1
      <3>8. ActionsOf(mine)' = ActionsOf(mine) \cup {Action(t)}
        BY <1>1, <3>6, <3>7, OthersStay DEF Mine, ActionsOf
      <3>9. \A s, u \in Sessions : s # u => ActionsOf(s)' \cap ActionsOf(u)' = {}
        BY <3>2, <3>5, <3>7, <3>8 DEF OnceInv
      <3>10. QED
        BY <2>1, <3>4, <3>9 DEF OnceInv
    <2>4. CASE ~AppendPolicy(t)
      <3>1. UNCHANGED auths
        BY <1>1, <2>4, OnlyChanges
      <3>2. Admitted(t)' => Admitted(t)
        <4>1. CASE Passing(t)
          BY <4>1 DEF Passing, Admitted
        <4>2. CASE pc[t] = "idle" /\ pc'[t] = "append_request" /\ UNCHANGED ran
          BY <4>2 DEF Admitted, Admitting
        <4>3. CASE Run(t) \/ AppendItem(t)
          BY <4>3 DEF Run, AppendItem, Admitted, Admitting
        <4>4. QED
          BY <1>1, <2>4, <4>1, <4>2, <4>3, ThreadCases
      <3>3. \A u, v \in Threads : Admitted(u)' /\ Admitted(v)' /\ Action(u) = Action(v) => u = v
        BY <2>2, <3>2 DEF OnceInv
      <3>4. \A s, u \in Sessions : s # u => ActionsOf(s)' \cap ActionsOf(u)' = {}
        BY <3>1 DEF OnceInv, ActionsOf
      <3>5. QED
        BY <2>1, <3>3, <3>4 DEF OnceInv
    <2>5. QED
      BY <2>3, <2>4
  <1>2. CASE Revising \/ Elsewhere
    BY <1>2 DEF Revising, Elsewhere, OnceInv, Admitted, ActionsOf, Action, sessionVars, threadVars
  <1>3. QED
    BY <1>1, <1>2, NextCases

\* However many threads ask for an action, and in however many sessions over one
\* ledger, one of them gets it (ToolSession.request_action).
THEOREM ActionsAreAdmittedOnce == Spec => []OnceInv
  <1>1. Init => OnceInv
    BY DEF Init, OnceInv, Admitted, Admitting, ActionsOf
  <1>2. OnceInv /\ UNCHANGED vars => OnceInv'
    BY DEF OnceInv, Admitted, ActionsOf, Action, vars, sessionVars, threadVars, hostVars
  <1>3. TypeInv /\ ThreadInv /\ BackedInv /\ OnceInv /\ [Next]_vars => OnceInv'
    BY <1>2, OncePreserved
  <1>4. QED
    BY <1>1, <1>3, ToolTypes, RunsAreAuthorized, SessionsAreInTheLedger, PTL DEF Spec

\* An action is registered once, in one session, with its request and its policy
\* evidence, and a registered observation has its evidence for every check: so
\* the session and the ledger tell one story, whatever other sessions and
\* callers do between two ledger calls (tools.ToolSession).
THEOREM RegistryBacked == Spec => []RegistryIsBacked
  <1>1. ASSUME TypeInv, ThreadInv, BackedInv, OnceInv PROVE RegistryIsBacked
    <2>1. ASSUME NEW t \in Threads, outcome[t] = "observed"
          PROVE  /\ auth[t] \in auths[Mine(t)] /\ Action(t) \in observed[Mine(t)]
                 /\ \A n \in DOMAIN command[t].checks :
                       ObservationId[<<Action(t), command[t].checks[n]>>] \in evidenceIds
      <3>1. PICK run : run = RunOf(t)
        OBVIOUS
      <3>2. /\ run \in ran /\ run.thread = t /\ run.auth = auth[t]
            /\ Action(t) \in observed[Mine(t)] /\ answered[t] = Len(command[t].checks)
        BY <1>1, <2>1, <3>1 DEF ThreadInv, RunOf
      <3>3. run.auth \in auths[Mine(t)] /\ run.auth.action = Action(t)
        BY <1>1, <3>2 DEF ThreadInv
      <3>4. ASSUME NEW n \in DOMAIN command[t].checks
            PROVE  ObservationId[<<Action(t), command[t].checks[n]>>] \in evidenceIds
        <4>1. n \in 1..answered[t]
          BY <1>1, <3>2, CommandTypes
        <4>2. PICK i \in DOMAIN evidence : evidence[i] = Answer(run, n)
          BY <1>1, <3>2, <4>1 DEF BackedInv
        <4>3. evidence[i].id = ObservationId[<<Action(t), command[t].checks[n]>>]
          BY <3>2, <3>3, <4>2 DEF Answer
        <4>4. QED
          BY <1>1, <4>3 DEF BackedInv, EvidenceIdsAgree
      <3>5. QED
        BY <3>2, <3>3, <3>4
    <2>2. QED
      BY <1>1, <2>1 DEF RegistryIsBacked, BackedInv, OnceInv
  <1>2. QED
    BY <1>1, ToolTypes, RunsAreAuthorized, SessionsAreInTheLedger, ActionsAreAdmittedOnce, PTL

-------------------------------------------------------------------------------
(* Half an answer *)

\* The ids are f-strings, "authorization:{action}" and
\* "observation:observation:{action}:{check}".  They are told apart when no
\* action's name has a colon in it, which nothing in the code asks for.
Unambiguous ==
    /\ \A a, b \in ActionIds, c, d \in CheckIds :
          ObservationId[<<a, c>>] = ObservationId[<<b, d>>] => a = b /\ c = d
    /\ \A a, b \in ActionIds, c \in CheckIds : ObservationId[<<a, c>>] # AuthorizationId[b]

\* An item with the id of an action's answer is an answer of the one thread that
\* was admitted with the action.
LEMMA AnswerHasOneSource ==
    ASSUME Unambiguous, TypeInv, ThreadInv, BackedInv, OnceInv, ~clockRaised,
           NEW t \in Threads, Admitted(t), NEW c \in CheckIds,
           NEW i \in DOMAIN evidence, evidence[i].id = ObservationId[<<Action(t), c>>]
    PROVE  /\ RunOf(t) \in ran
           /\ \E n \in 1..answered[t] : command[t].checks[n] = c /\ evidence[i] = Answer(RunOf(t), n)
  <1>1. SourceOf(evidence[i]) /\ Action(t) \in ActionIds
    BY CommandTypes DEF BackedInv
  <1>2. ~\E a \in ActionIds : evidence[i].id = AuthorizationId[a]
    BY <1>1 DEF Unambiguous
  <1>3. PICK run \in ran : \E n \in DOMAIN command[run.thread].checks :
            evidence[i] = Answer(run, n) /\ n <= answered[run.thread]
    BY <1>1, <1>2 DEF SourceOf
  <1>4. PICK n \in DOMAIN command[run.thread].checks :
            evidence[i] = Answer(run, n) /\ n <= answered[run.thread]
    BY <1>3
  <1>5. /\ run.thread \in Threads /\ run.auth \in Authorization
        /\ run = RunOf(run.thread) /\ run.auth.action = Action(run.thread)
        /\ run.auth.action \in ActionIds
    BY CommandTypes DEF TypeInv, ThreadInv
  <1>6. n \in 1..Len(command[run.thread].checks) /\ command[run.thread].checks[n] \in CheckIds
    BY <1>5, CommandTypes
  <1>7. evidence[i].id = ObservationId[<<run.auth.action, command[run.thread].checks[n]>>]
    BY <1>4 DEF Answer
  <1>8. run.auth.action = Action(t) /\ command[run.thread].checks[n] = c
    <2>1. ObservationId[<<run.auth.action, command[run.thread].checks[n]>>]
             = ObservationId[<<Action(t), c>>]
      BY <1>7
    <2>2. PICK a \in ActionIds, b \in ActionIds, d \in CheckIds :
             /\ a = run.auth.action /\ b = Action(t) /\ d = command[run.thread].checks[n]
             /\ ObservationId[<<a, d>>] = ObservationId[<<b, c>>]
      BY <1>1, <1>5, <1>6, <2>1
    <2>3. a = b /\ d = c
      BY <2>2 DEF Unambiguous
    <2>4. QED
      BY <2>2, <2>3
  <1>9. run.thread = t
    BY <1>5, <1>8 DEF OnceInv, Admitted
  <1>10. answered[t] \in Nat
    BY DEF TypeInv
  <1>11. n \in 1..answered[t]
    BY <1>4, <1>6, <1>9, <1>10, CommandTypes
  <1>12. QED
    BY <1>4, <1>5, <1>8, <1>9, <1>11

\* A refusal between two items can only be of the revision.
LEMMA RefusedByRevision ==
    ASSUME Unambiguous, TypeInv, ThreadInv, BackedInv, OnceInv, ~clockRaised,
           NEW t \in Threads, pc[t] = "append_item", EvidenceRefused(Item(t))
    PROVE  revision # auth[t].revision
  <1>1. Item(t).id = ObservationId[<<Action(t), NextCheck(t)>>] /\ Item(t).revision = auth[t].revision
    BY DEF Item
  <1>2. answered[t] \in Nat /\ answered[t] + 1 \in DOMAIN command[t].checks
    BY ItemIsAnswer DEF TypeInv
  <1>3. NextCheck(t) \in CheckIds /\ Admitted(t)
    BY <1>2, CommandTypes DEF NextCheck, Admitted, Admitting
  <1>4. ASSUME Item(t).id \in evidenceIds PROVE FALSE
    <2>1. PICK i \in DOMAIN evidence : evidence[i].id = ObservationId[<<Action(t), NextCheck(t)>>]
      BY <1>1, <1>4 DEF BackedInv, EvidenceIdsAgree
    <2>2. PICK n \in 1..answered[t] : command[t].checks[n] = NextCheck(t)
      BY <1>3, <2>1, AnswerHasOneSource
    <2>3. n \in DOMAIN command[t].checks /\ n # answered[t] + 1
      BY <1>2, CommandTypes
    <2>4. QED
      BY <1>2, <2>2, <2>3, CommandTypes DEF NextCheck
  <1>5. QED
    BY <1>1, <1>4 DEF EvidenceRefused

\* Only a refusal leaves half an answer.
LEMMA CutShort ==
    ASSUME TypeInv, NEW t \in Threads, ThreadStep(t), ~clockRaised',
           pc'[t] = "done", answered'[t] \in 1..(Len(command[t].checks) - 1)
    PROVE  ItemRefused(t) /\ UNCHANGED auth
  <1>1. answered[t] \in Nat /\ Len(command[t].checks) \in Nat
    BY CommandTypes DEF TypeInv
  <1>2. CASE AppendItem(t)
    <2>1. answered'[t] = answered[t] + 1 /\ pc[t] = "append_item"
      BY <1>2 DEF AppendItem, TypeInv
    <2>2. CASE answered[t] + 1 < Len(command[t].checks)
      BY <1>2, <2>1, <2>2 DEF AppendItem
    <2>3. CASE ~(answered[t] + 1 < Len(command[t].checks))
      BY <1>1, <2>1, <2>3
    <2>4. QED
      BY <2>2, <2>3
  <1>3. CASE ~AppendItem(t)
    <2>1. answered'[t] = answered[t]
      BY <1>3, OnlyChanges
    <2>2. pc[t] \in {"append_item", "done"}
      BY <1>1, <2>1 DEF TypeInv
    <2>3. pc[t] # "done"
      BY DEF ThreadStep, Execute, EnterRequest, AppendRequest, AppendPolicy, PolicyRefused, Dispatch,
             Run, RunFails, StoreOutput, ReportError, EnterObservation, AppendObservation, AppendItem,
             ItemRefused, ClockRaises
    <2>4. ~ClockRaises(t)
      BY DEF ClockRaises
    <2>5. ItemRefused(t)
      BY <1>3, <2>2, <2>3, <2>4
         DEF ThreadStep, Execute, EnterRequest, AppendRequest, AppendPolicy, PolicyRefused, Dispatch,
             Run, RunFails, StoreOutput, ReportError, EnterObservation, AppendObservation
    <2>6. QED
      BY <2>5 DEF ItemRefused, RaiseLocked
  <1>4. QED
    BY <1>2, <1>3

\* A revision stays on the trail, and the second time it is there it has returned.
LEMMA RevisionsStay ==
    ASSUME TypeInv, Next
    PROVE  /\ \A r : OnTrail(r) => OnTrail(r)'
           /\ Returned => Returned'
           /\ \A r : RecordRevision(r) => OnTrail(r)'
           /\ \A r : RecordRevision(r) /\ OnTrail(r) => Returned'
  <1>1. /\ \A n \in DOMAIN events : n \in DOMAIN events' /\ events'[n] = events[n]
        /\ events \in Seq(LedgerEvent)
    BY TrailStays
  <1>2. \A r : OnTrail(r) => OnTrail(r)'
    BY <1>1 DEF OnTrail
  <1>3. Returned => Returned'
    BY <1>1 DEF Returned
  <1>4. ASSUME NEW r, RecordRevision(r)
        PROVE  OnTrail(r)' /\ (OnTrail(r) => Returned')
    <2>1. PICK x : events' = Append(events, x) /\ x.kind = "revision" /\ x.revision = r
      BY <1>4 DEF RecordRevision
    <2>2. /\ Len(events) + 1 \in DOMAIN events' /\ events'[Len(events) + 1] = x
          /\ Len(events) + 1 \notin DOMAIN events
      BY <1>1, <2>1
    <2>3. OnTrail(r)'
      BY <2>1, <2>2 DEF OnTrail
    <2>4. ASSUME OnTrail(r) PROVE Returned'
      <3>1. PICK n \in DOMAIN events : events[n].kind = "revision" /\ events[n].revision = r
        BY <2>4 DEF OnTrail
      <3>2. n \in DOMAIN events' /\ events'[n] = events[n] /\ n # Len(events) + 1
        BY <1>1, <2>2
      <3>3. QED
        BY <2>1, <2>2, <3>1, <3>2 DEF Returned
    <2>5. QED
      BY <2>3, <2>4
  <1>5. QED
    BY <1>2, <1>3, <1>4

LEMMA HalfPreserved ==
    ASSUME Unambiguous, TypeInv, ThreadInv, BackedInv, OnceInv, HalfInv, Next
    PROVE  HalfInv'
  <1>1. OnTrail(InitialRevision)'
    BY RevisionsStay DEF HalfInv
  <1>2. ASSUME NEW t \in Threads, ThreadStep(t) PROVE HalfInv'
    <2>1. UNCHANGED <<revision, command>> /\ OnTrail(revision)
      BY <1>2, OthersStay DEF HalfInv
    <2>2. \A u \in Threads : auth'[u].revision = auth[u].revision \/ auth'[u].revision = revision
      <3>1. auth \in [Threads -> Authorization \cup {NoAuthorization}]
        BY DEF TypeInv
      <3>2. CASE UNCHANGED auth
        BY <3>2
      <3>3. CASE auth' = [auth EXCEPT ![t] = [action |-> Action(t), revision |-> revision,
                                             allowed |-> Reasons(command[t]) = {}]]
        BY <3>1, <3>3
      <3>4. QED
        BY <1>2, <3>2, <3>3
           DEF ThreadStep, Execute, EnterRequest, AppendRequest, AppendPolicy, PolicyRefused, Dispatch,
             Run, RunFails, StoreOutput, ReportError, EnterObservation, AppendObservation, AppendItem,
             ItemRefused, ClockRaises, RaiseLocked
    <2>3. OnTrail(revision)' /\ \A u \in Threads : OnTrail(auth[u].revision)'
      <3>1. \A r : OnTrail(r) => OnTrail(r)'
        BY RevisionsStay
      <3>2. \A u \in Threads : \E r : OnTrail(r) /\ r = auth'[u].revision
        BY <2>1, <2>2 DEF HalfInv
      <3>3. \E r : OnTrail(r) /\ r = revision'
        BY <2>1
      <3>4. QED
        BY <3>1, <3>2, <3>3 DEF OnTrail
    <2>4. ASSUME NEW u \in Threads, ~clockRaised', ~Returned',
                 pc'[u] = "done", answered'[u] \in 1..(Len(command[u].checks) - 1)
          PROVE  revision # auth'[u].revision
      <3>1. ~clockRaised /\ ~Returned
        BY <1>2, <2>4, OthersStay, RevisionsStay
      <3>2. CASE u # t
        BY <1>2, <2>4, <3>1, <3>2, OthersStay DEF HalfInv
      <3>3. CASE u = t
        <4>1. ItemRefused(t) /\ UNCHANGED auth
          BY <1>2, <2>4, <3>3, CutShort
        <4>2. QED
          BY <3>1, <3>3, <4>1, RefusedByRevision DEF ItemRefused
      <3>4. QED
        BY <3>2, <3>3
    <2>5. QED
      BY <1>1, <2>1, <2>3, <2>4 DEF HalfInv
  <1>3. CASE Revising
    <2>1. PICK r \in Revisions : RecordRevision(r)
      BY <1>3 DEF Revising
    <2>2. UNCHANGED <<command, auth, pc, answered, clockRaised>>
      BY <1>3 DEF Revising, threadVars
    <2>3. OnTrail(revision)' /\ \A u \in Threads : OnTrail(auth[u].revision)'
      <3>1. revision' = r /\ OnTrail(r)'
        BY <2>1, RevisionsStay DEF RecordRevision
      <3>2. \A u \in Threads : OnTrail(auth[u].revision)'
        BY <2>2, RevisionsStay DEF HalfInv, OnTrail
      <3>3. QED
        BY <3>1, <3>2 DEF OnTrail
    <2>4. \A u \in Threads : ~Returned' => revision' # auth[u].revision
      BY <2>1, RevisionsStay DEF HalfInv, RecordRevision
    <2>5. QED
      BY <1>1, <2>2, <2>3, <2>4 DEF HalfInv
  <1>4. CASE Elsewhere
    BY <1>4 DEF Elsewhere, HalfInv, OnTrail, Returned, ledgerVars, threadVars
  <1>5. QED
    BY <1>2, <1>3, <1>4, NextCases

\* Half an answer that counts is half an answer in the revision of now.
LEMMA NoHalfCounts ==
    ASSUME Unambiguous, TypeInv, ThreadInv, BackedInv, OnceInv, HalfInv
    PROVE  NotHalfAnswered
  <1> SUFFICES ASSUME ~clockRaised, ~Returned, NEW run \in ran, pc[run.thread] = "done",
                      NEW m \in DOMAIN command[run.thread].checks,
                      NEW n \in DOMAIN command[run.thread].checks,
                      Answers(run.auth.action, command[run.thread].checks[m])
               PROVE  Answers(run.auth.action, command[run.thread].checks[n])
    BY DEF NotHalfAnswered
  <1>1. PICK t \in Threads : t = run.thread
    BY DEF TypeInv
  <1>2. run = RunOf(t) /\ run.auth = auth[t] /\ run.auth.action = Action(t) /\ Admitted(t)
    BY <1>1 DEF ThreadInv, RunOf, Admitted
  <1>3. /\ m \in 1..Len(command[t].checks) /\ n \in 1..Len(command[t].checks)
        /\ command[t].checks[m] \in CheckIds /\ Len(command[t].checks) \in Nat
    BY <1>1, CommandTypes
  <1>4. PICK i \in DOMAIN evidence :
           /\ evidence[i].id = ObservationId[<<Action(t), command[t].checks[m]>>]
           /\ evidence[i].revision = revision
    BY <1>1, <1>2 DEF Answers
  <1>5. PICK k \in 1..answered[t] : evidence[i] = Answer(RunOf(t), k)
    BY <1>2, <1>3, <1>4, AnswerHasOneSource
  <1>6. revision = auth[t].revision
    BY <1>2, <1>4, <1>5 DEF Answer
  <1>7. answered[t] = Len(command[t].checks)
    BY <1>1, <1>3, <1>5, <1>6 DEF HalfInv, TypeInv
  <1>8. PICK j \in DOMAIN evidence : evidence[j] = Answer(run, n)
    BY <1>1, <1>3, <1>7 DEF BackedInv
  <1>9. QED
    BY <1>1, <1>2, <1>6, <1>8 DEF Answers, Answer

\* A command that ran answers all its checks or none that counts: the revision
\* cannot move between two of its items and leave the first ones current.  A
\* clock that raises between them, or a return to the revision, is all that leaves
\* half an answer (ToolSession.record_observation's loop over record_evidence).
THEOREM NoHalfAnswers == Unambiguous => (Spec => []NotHalfAnswered)
  <1> DEFINE Inv == Unambiguous => HalfInv
  <1>1. Init => Inv
    <2> SUFFICES ASSUME Init PROVE HalfInv
      OBVIOUS
    <2>1. OnTrail(InitialRevision) /\ revision = InitialRevision
      BY DEF Init, LedgerInit, OnTrail
    <2>2. \A t \in Threads : auth[t].revision = InitialRevision /\ answered[t] = 0
      BY DEF Init, NoAuthorization
    <2>3. QED
      BY <2>1, <2>2 DEF HalfInv
  <1>2. Inv /\ UNCHANGED vars => Inv'
    BY DEF HalfInv, OnTrail, Returned, vars, ledgerVars, sessionVars, threadVars, hostVars
  <1>3. TypeInv /\ ThreadInv /\ BackedInv /\ OnceInv /\ Inv /\ [Next]_vars => Inv'
    BY <1>2, HalfPreserved
  <1>4. TypeInv /\ ThreadInv /\ BackedInv /\ OnceInv /\ Inv => (Unambiguous => NotHalfAnswered)
    BY NoHalfCounts
  <1>5. Spec => [](Unambiguous => NotHalfAnswered)
    <2> HIDE DEF Inv
    <2>1. QED
      BY <1>1, <1>3, <1>4, ToolTypes, RunsAreAuthorized, SessionsAreInTheLedger,
         ActionsAreAdmittedOnce, PTL DEF Spec
  <1>6. SUFFICES ASSUME Unambiguous PROVE Spec => []NotHalfAnswered
    OBVIOUS
  <1>7. QED
    BY <1>5, <1>6, PTL

===============================================================================
