---------------------------- MODULE EvidenceLedger ----------------------------
(***************************************************************************)
(* The append-only, revision-aware store of sheath/ledger.py.              *)
(*                                                                         *)
(* EvidenceLedger holds an RLock around every method, so one call is one   *)
(* step.  Two things are kept: the evidence list with its set of ids, and  *)
(* the event log that run records are exported from.  Each append asks an  *)
(* injected clock for a timestamp while the lock is held.  A clock that    *)
(* raises leaves whatever the method had assigned before it asked, and     *)
(* that differs from method to method: the ...ClockFails operators.        *)
(*                                                                         *)
(* Identifiers are members of the constant sets; texts are not modelled.   *)
(***************************************************************************)
EXTENDS Naturals, Sequences

CONSTANTS
    Revisions,    \* logical repository revisions
    CheckIds,     \* the check an evidence item speaks about
    EvidenceIds,
    ProposalIds,
    ActionIds,
    NoRef         \* the reference of an event that names nothing

VARIABLES
    revision,     \* _revision
    evidence,     \* _evidence, in recording order
    evidenceIds,  \* _evidence_ids
    proposalIds,  \* _proposal_ids
    events        \* _events; an event's sequence number is its index - 1

ledgerVars == <<revision, evidence, evidenceIds, proposalIds, events>>

Evidence == [id : EvidenceIds, check : CheckIds, revision : Revisions, passed : BOOLEAN]

EventKinds ==
    {"revision", "evidence", "proposal", "state_transition",
     "tool_request", "tool_observation", "error"}

\* What state.py writes to the trail.
RunStates ==
    {"received", "contracted", "triaged", "proposed", "action_validation", "executed",
     "assessed", "revision_required", "blocked", "escalated", "verified", "exported"}

EventStatuses ==
    RunStates \cup {"none", "recorded", "allowed", "blocked", "passed", "failed", "error"}

\* "ref" stands for the id field the kind of event fills in.  An authorization
\* or observation id is a function of its action id, so the action id stands
\* for all three.  "from" and "status" are "none" where the code has None.
LedgerEvent ==
    [kind : EventKinds, revision : Revisions,
     ref : EvidenceIds \cup ProposalIds \cup ActionIds \cup {NoRef},
     from : RunStates \cup {"none"}, status : EventStatuses]

\* Mutant: the reference and the revision change places.
StampedSwapped(kind, ref, status) ==
    [kind |-> kind, revision |-> ref, ref |-> revision,
     from |-> "none", status |-> status]

\* An event stamped with the revision that is current when it is built.
Stamped(kind, ref, status) ==
    [kind |-> kind, revision |-> revision, ref |-> ref,
     from |-> "none", status |-> status]

EvidenceEvent(e) == Stamped("evidence", e.id, "none")

LedgerInit(initial) ==
    /\ revision = initial
    /\ evidence = <<>>
    /\ evidenceIds = {}
    /\ proposalIds = {}
    /\ events = <<[kind |-> "revision", revision |-> initial, ref |-> NoRef,
                   from |-> "none", status |-> "none"]>>

-------------------------------------------------------------------------------
(* The conditions under which a method raises LedgerError and changes nothing *)

RevisionRefused(r) == r = revision

\* Mutants: an id may be used again.
EvidenceRefusedByRevision(e) == e.revision # revision

ProposalNeverRefused(p) == FALSE

EvidenceRefused(e) == e.id \in evidenceIds \/ e.revision # revision

ProposalRefused(p) == p \in proposalIds

-------------------------------------------------------------------------------
\* Mutant: the event is stamped before the revision moves.
RecordRevisionStampedEarly(r) ==
    /\ ~RevisionRefused(r)
    /\ revision' = r
    /\ events' = Append(events, Stamped("revision", NoRef, "none"))
    /\ UNCHANGED <<evidence, evidenceIds, proposalIds>>

RecordRevision(r) ==
    /\ ~RevisionRefused(r)
    /\ revision' = r
    /\ events' = Append(events, [kind |-> "revision", revision |-> r, ref |-> NoRef,
                                 from |-> "none", status |-> "none"])
    /\ UNCHANGED <<evidence, evidenceIds, proposalIds>>

\* _revision is assigned before the clock is asked: the revision moves and the
\* trail never shows it, for recording it again is refused as unchanged.
RecordRevisionClockFails(r) ==
    /\ ~RevisionRefused(r)
    /\ revision' = r
    /\ UNCHANGED <<evidence, evidenceIds, proposalIds, events>>

RecordEvidence(e) ==
    /\ ~EvidenceRefused(e)
    /\ evidence' = Append(evidence, e)
    /\ evidenceIds' = evidenceIds \cup {e.id}
    /\ events' = Append(events, EvidenceEvent(e))
    /\ UNCHANGED <<revision, proposalIds>>

\* The item and its id are stored before the clock is asked.
RecordEvidenceClockFails(e) ==
    /\ ~EvidenceRefused(e)
    /\ evidence' = Append(evidence, e)
    /\ evidenceIds' = evidenceIds \cup {e.id}
    /\ UNCHANGED <<revision, proposalIds, events>>

\* Mutant: a new proposal discards the evidence gathered so far.
RecordProposalAndForget(p) ==
    /\ ~ProposalRefused(p)
    /\ proposalIds' = proposalIds \cup {p}
    /\ events' = Append(events, Stamped("proposal", p, "recorded"))
    /\ evidence' = <<>> /\ evidenceIds' = {}
    /\ UNCHANGED revision

\* Here the event is built first, so a clock that raises changes nothing.
RecordProposal(p) ==
    /\ ~ProposalRefused(p)
    /\ proposalIds' = proposalIds \cup {p}
    /\ events' = Append(events, Stamped("proposal", p, "recorded"))
    /\ UNCHANGED <<revision, evidence, evidenceIds>>

RecordStateTransition(from, to) ==
    /\ events' = Append(events, [kind |-> "state_transition", revision |-> revision,
                                 ref |-> NoRef, from |-> from, status |-> to])
    /\ UNCHANGED <<revision, evidence, evidenceIds, proposalIds>>

RecordToolRequest(action, allowed) ==
    /\ events' = Append(events, Stamped("tool_request", action,
                                        IF allowed THEN "allowed" ELSE "blocked"))
    /\ UNCHANGED <<revision, evidence, evidenceIds, proposalIds>>

RecordToolObservation(action, passed) ==
    /\ events' = Append(events, Stamped("tool_observation", action,
                                        IF passed THEN "passed" ELSE "failed"))
    /\ UNCHANGED <<revision, evidence, evidenceIds, proposalIds>>

RecordToolError(action, status) ==
    /\ events' = Append(events, Stamped("error", action, status))
    /\ UNCHANGED <<revision, evidence, evidenceIds, proposalIds>>

-------------------------------------------------------------------------------
(* evidence_for, as the positions it selects *)

\* Mutant: evidence of every revision counts.
EvidenceOfAnyRevision(c) == {i \in DOMAIN evidence : evidence[i].check = c}

CurrentEvidence(c) ==
    {i \in DOMAIN evidence : evidence[i].check = c /\ evidence[i].revision = revision}

EverRecorded(c) == \E i \in DOMAIN evidence : evidence[i].check = c

\* Mutant: current[0]
EarliestCurrent(c) ==
    CHOOSE i \in CurrentEvidence(c) : \A j \in CurrentEvidence(c) : i <= j

\* current[-1]
LatestCurrent(c) ==
    CHOOSE i \in CurrentEvidence(c) : \A j \in CurrentEvidence(c) : j <= i

-------------------------------------------------------------------------------
LedgerTypeOK ==
    /\ revision \in Revisions
    /\ evidence \in Seq(Evidence)
    /\ evidenceIds \subseteq EvidenceIds
    /\ proposalIds \subseteq ProposalIds
    /\ events \in Seq(LedgerEvent)

\* The id set and the list are two copies of one fact, updated by separate
\* statements: every id is of exactly one item, also after a clock failure.
EvidenceIdsAgree ==
    /\ evidenceIds = {evidence[i].id : i \in DOMAIN evidence}
    /\ \A i, j \in DOMAIN evidence : evidence[i].id = evidence[j].id => i = j

\* Proposal ids and proposal events are two copies as well, and one event
\* per id, whatever the clock does.
ProposalTrailAgrees ==
    /\ proposalIds = {events[i].ref : i \in {n \in DOMAIN events : events[n].kind = "proposal"}}
    /\ \A i, j \in DOMAIN events :
          /\ events[i].kind = "proposal" /\ events[j].kind = "proposal"
          /\ events[i].ref = events[j].ref
          => i = j
===============================================================================
