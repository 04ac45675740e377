------------------------------- MODULE ToolCalls -------------------------------
(***************************************************************************)
(* sheath/tools.py and sheath/runner.py as their single-threaded callers   *)
(* see them: each public method of a ToolSession is one step on the        *)
(* session and the ledger it was bound to.                                 *)
(*                                                                         *)
(* One session at a time is in use, the one the running verifier created.  *)
(***************************************************************************)
EXTENDS EvidenceLedger

CONSTANTS
    PolicyCheck,       \* "policy.command", the check of authorization evidence
    AuthorizationId,   \* f"authorization:{action.id}" as a function of the action
    ObservationId      \* f"observation:...:{check_id}" as a function of action and check

VARIABLE session

Authorization == [action : ActionIds, revision : Revisions, allowed : BOOLEAN]

\* "live" tells a ToolSession from the None of a verifier that used none.
Session == [live : BOOLEAN, auths : SUBSET Authorization, observed : SUBSET ActionIds]

NoSession == [live |-> FALSE, auths |-> {}, observed |-> {}]

NewSession == [live |-> TRUE, auths |-> {}, observed |-> {}]

ActionsOf(s) == {a.action : a \in s.auths}

\* Blocking findings exist for exactly these actions.
DeniedActions(s) == {a.action : a \in {b \in s.auths : ~b.allowed}}

PolicyEvidence(action, allowed) ==
    [id |-> AuthorizationId[action], check |-> PolicyCheck,
     revision |-> revision, passed |-> allowed]

ObservationEvidence(action, check, passed) ==
    [id |-> ObservationId[<<action, check>>], check |-> check,
     revision |-> revision, passed |-> passed]

RequestRefused(action) ==
    \/ action \in ActionsOf(session)
    \/ AuthorizationId[action] \in evidenceIds

RequestEvent(action, allowed) ==
    Stamped("tool_request", action, IF allowed THEN "allowed" ELSE "blocked")

ObservationEvent(action, passed) ==
    Stamped("tool_observation", action, IF passed THEN "passed" ELSE "failed")

\* Mutant: a denied action is reported and not registered.
RequestActionUnregistered(action, allowed) ==
    LET item == PolicyEvidence(action, allowed)
    IN  /\ ~RequestRefused(action)
        /\ evidence' = Append(evidence, item)
        /\ evidenceIds' = evidenceIds \cup {item.id}
        /\ events' = events \o <<RequestEvent(action, allowed), EvidenceEvent(item)>>
        /\ session' = IF ~allowed THEN session
                      ELSE [session EXCEPT !.auths =
                               @ \cup {[action |-> action, revision |-> revision,
                                        allowed |-> TRUE]}]
        /\ UNCHANGED <<revision, proposalIds>>

\* request_action: the request event, the policy evidence, the registration.
RequestAction(action, allowed) ==
    LET item == PolicyEvidence(action, allowed)
    IN  /\ ~RequestRefused(action)
        /\ evidence' = Append(evidence, item)
        /\ evidenceIds' = evidenceIds \cup {item.id}
        /\ events' = events \o <<RequestEvent(action, allowed), EvidenceEvent(item)>>
        /\ session' = [session EXCEPT !.auths =
                          @ \cup {[action |-> action, revision |-> revision,
                                   allowed |-> allowed]}]
        /\ UNCHANGED <<revision, proposalIds>>

\* The clock raises in the second append: the request is on the trail, the
\* evidence is stored without its event, and the action is not registered.
\* What becomes of the session is up to the caller the exception reaches.
RequestActionClockFails(action, allowed) ==
    LET item == PolicyEvidence(action, allowed)
    IN  /\ ~RequestRefused(action)
        /\ evidence' = Append(evidence, item)
        /\ evidenceIds' = evidenceIds \cup {item.id}
        /\ events' = Append(events, RequestEvent(action, allowed))
        /\ UNCHANGED <<revision, proposalIds>>

\* What record_observation requires of the action it is told about.
ObservationRefused(action, check) ==
    \/ action \in session.observed
    \/ ~\E a \in session.auths :
           a.action = action /\ a.allowed /\ a.revision = revision
    \/ ObservationId[<<action, check>>] \in evidenceIds

\* record_observation for an action that answers one check.
RecordObservation(action, check, passed) ==
    LET item == ObservationEvidence(action, check, passed)
    IN  /\ ~ObservationRefused(action, check)
        /\ evidence' = Append(evidence, item)
        /\ evidenceIds' = evidenceIds \cup {item.id}
        /\ events' = events \o <<ObservationEvent(action, passed), EvidenceEvent(item)>>
        /\ session' = [session EXCEPT !.observed = @ \cup {action}]
        /\ UNCHANGED <<revision, proposalIds>>

RecordObservationClockFails(action, check, passed) ==
    LET item == ObservationEvidence(action, check, passed)
    IN  /\ ~ObservationRefused(action, check)
        /\ evidence' = Append(evidence, item)
        /\ evidenceIds' = evidenceIds \cup {item.id}
        /\ events' = Append(events, ObservationEvent(action, passed))
        /\ UNCHANGED <<revision, proposalIds>>

\* Every failure ConstrainedRunner.execute reports after the authorization
\* records one error event and raises RunnerError.
RunnerFails(action) ==
    /\ RecordToolError(action, "error")
    /\ UNCHANGED session
===============================================================================
