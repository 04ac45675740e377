------------------------- MODULE LedgerDecisionsProofs -------------------------
(***************************************************************************)
(* The ledger under any sequence of appends, any contract, any findings.   *)
(***************************************************************************)
EXTENDS LedgerDecisions, DecisionProofs

\* What one step of any such program does to the ledger.
LEMMA StepIsAnAppend ==
    ASSUME Next
    PROVE  \/ \E r \in Revisions : RecordRevision(r) \/ RecordRevisionClockFails(r)
           \/ \E e \in Evidence : RecordEvidence(e) \/ RecordEvidenceClockFails(e)
           \/ \E p \in ProposalIds : RecordProposal(p)
  BY DEF Next, AppendRevision, LoseRevision, AppendEvidence, LoseEvidence, AppendProposal

\* The ledger stays well typed (ledger.py, every append method).
THEOREM TypeCorrect == Spec => []TypeOK
  <1>1. Init => TypeOK
    <2> SUFFICES ASSUME Init PROVE TypeOK
      OBVIOUS
    <2>1. LedgerTypeOK
      BY InitType, LedgerDecisionsAssumption DEF Init
    <2>2. QED
      BY <2>1, LedgerDecisionsAssumption DEF Init, TypeOK
  <1>2. TypeOK /\ [Next]_vars => TypeOK'
    <2> SUFFICES ASSUME TypeOK, [Next]_vars PROVE TypeOK'
      OBVIOUS
    <2>1. CASE Next
      <3>1. LedgerTypeOK'
        BY <2>1, StepIsAnAppend, RevisionType, EvidenceType, ProposalType DEF TypeOK
      <3>2. contract' \in Contract /\ clockFailed' \in BOOLEAN
        BY <2>1 DEF TypeOK, Next, AppendRevision, LoseRevision, AppendEvidence,
                    LoseEvidence, AppendProposal
      <3>3. QED
        BY <3>1, <3>2 DEF TypeOK
    <2>2. CASE UNCHANGED vars
      BY <2>2 DEF TypeOK, LedgerTypeOK, vars, ledgerVars
    <2>3. QED
      BY <2>1, <2>2
  <1>3. QED
    BY <1>1, <1>2, PTL DEF Spec

\* The id set and the evidence list never part, also when a clock raises in
\* the middle of record_evidence.
THEOREM IdsAgree == Spec => []EvidenceIdsAgree
  <1>1. Init => EvidenceIdsAgree
    BY DEF Init, LedgerInit, EvidenceIdsAgree
  <1>2. TypeOK /\ EvidenceIdsAgree /\ [Next]_vars => EvidenceIdsAgree'
    <2> SUFFICES ASSUME TypeOK, EvidenceIdsAgree, [Next]_vars PROVE EvidenceIdsAgree'
      OBVIOUS
    <2>1. CASE \E e \in Evidence : RecordEvidence(e) \/ RecordEvidenceClockFails(e)
      BY <2>1, EvidenceKeepsIds DEF TypeOK
    <2>2. CASE UNCHANGED <<evidence, evidenceIds>>
      BY <2>2 DEF EvidenceIdsAgree
    <2>3. QED
      BY <2>1, <2>2, StepIsAnAppend
         DEF vars, ledgerVars, RecordRevision, RecordRevisionClockFails, RecordProposal
  <1>3. QED
    BY <1>1, <1>2, TypeCorrect, PTL DEF Spec

\* Each recorded proposal is told of by exactly one event of the trail.
THEOREM ProposalsAgree == Spec => []ProposalTrailAgrees
  <1>1. Init => ProposalTrailAgrees
    BY DEF Init, LedgerInit, ProposalTrailAgrees
  <1>2. TypeOK /\ ProposalTrailAgrees /\ [Next]_vars => ProposalTrailAgrees'
    <2> SUFFICES ASSUME TypeOK, ProposalTrailAgrees, [Next]_vars PROVE ProposalTrailAgrees'
      OBVIOUS
    <2>1. ASSUME NEW p \in ProposalIds, RecordProposal(p) PROVE ProposalTrailAgrees'
      BY <2>1, ProposalKeepsTrail DEF TypeOK
    <2>2. ASSUME NEW r \in Revisions, RecordRevision(r) PROVE ProposalTrailAgrees'
      <3> DEFINE event == [kind |-> "revision", revision |-> r, ref |-> NoRef,
                           from |-> "none", status |-> "none"]
      <3>1. event \in LedgerEvent
        BY DEF LedgerEvent, EventKinds, EventStatuses
      <3>2. event.kind # "proposal" /\ events' = Append(events, event) /\ UNCHANGED proposalIds
        BY <2>2 DEF RecordRevision
      <3> HIDE DEF event
      <3>3. QED
        BY <3>1, <3>2, OtherEventsKeepProposals DEF TypeOK, LedgerTypeOK
    <2>3. ASSUME NEW e \in Evidence, RecordEvidence(e) PROVE ProposalTrailAgrees'
      <3>1. EvidenceEvent(e) \in LedgerEvent
        BY StampedType DEF TypeOK, EvidenceEvent, EventKinds, EventStatuses, Evidence
      <3>2. /\ EvidenceEvent(e).kind # "proposal"
            /\ events' = Append(events, EvidenceEvent(e)) /\ UNCHANGED proposalIds
        BY <2>3 DEF RecordEvidence, EvidenceEvent, Stamped
      <3>3. QED
        BY <3>1, <3>2, OtherEventsKeepProposals DEF TypeOK, LedgerTypeOK
    <2>4. CASE UNCHANGED <<events, proposalIds>>
      BY <2>4 DEF ProposalTrailAgrees
    <2>5. QED
      BY <2>1, <2>2, <2>3, <2>4, StepIsAnAppend
         DEF vars, ledgerVars, RecordRevisionClockFails, RecordEvidenceClockFails
  <1>3. QED
    BY <1>1, <1>2, TypeCorrect, PTL DEF Spec

\* Whatever is appended and in whatever order, the policy accepts exactly when
\* acceptance is earned (decision.decide on a live ledger).
THEOREM AcceptsOnlyWhatIsEarned == Spec => []AcceptIffEarned
  <1>1. TypeOK => AcceptIffEarned
    BY AcceptanceIsEarned, LedgerDecisionsAssumption DEF TypeOK, AcceptIffEarned
  <1>2. QED
    BY <1>1, TypeCorrect, PTL

-------------------------------------------------------------------------------
(* What the trail tells a reader *)

\* The last revision event tells of the current revision.
RevisionTold ==
    \E n \in OfKind("revision") :
        /\ events[n].revision = revision
        /\ \A m \in OfKind("revision") : m <= n

\* The events tell of items in the order these were stored, whatever the clock
\* did; of every item and of the revision, as long as no clock has raised.
TrailInv ==
    /\ Told(evidence, events)
    /\ ~clockFailed => AllTold(evidence, events) /\ RevisionTold

LEMMA LastRevisionEvent ==
    ASSUME LedgerTypeOK, RevisionTold
    PROVE  TrailRevision = revision
  <1>1. PICK n \in OfKind("revision") :
           events[n].revision = revision /\ \A m \in OfKind("revision") : m <= n
    BY DEF RevisionTold
  <1>2. \A m \in OfKind("revision") : m \in Nat
    BY DEF OfKind, LedgerTypeOK
  <1>3. \A i \in OfKind("revision") : (\A j \in OfKind("revision") : j <= i) => i = n
    BY <1>1, <1>2
  <1>4. LatestOf(OfKind("revision")) = n
    BY <1>1, <1>3 DEF LatestOf
  <1>5. QED
    BY <1>1, <1>4 DEF TrailRevision

LEMMA TrailStarts == Init => TrailInv
  <1> SUFFICES ASSUME Init PROVE TrailInv
    OBVIOUS
  <1>1. DOMAIN evidence = {} /\ EvidenceEvents(events) = {}
    BY DEF Init, LedgerInit, EvidenceEvents
  <1>2. OfKind("revision") = {1} /\ events[1].revision = revision
    BY DEF Init, LedgerInit, OfKind
  <1>3. QED
    BY <1>1, <1>2 DEF TrailInv, Told, AllTold, RevisionTold

\* An event that is none of a revision leaves the last one where it is.
LEMMA OtherEventsKeepRevision ==
    ASSUME LedgerTypeOK, RevisionTold, NEW event, event.kind # "revision",
           events' = Append(events, event), UNCHANGED revision
    PROVE  RevisionTold'
  <1>1. /\ DOMAIN events' = DOMAIN events \cup {Len(events) + 1}
        /\ \A n \in DOMAIN events : events'[n] = events[n]
        /\ events'[Len(events) + 1] = event
    BY DEF LedgerTypeOK
  <1>2. OfKind("revision")' = OfKind("revision")
    BY <1>1 DEF OfKind
  <1>3. \A n \in OfKind("revision") : events'[n] = events[n]
    BY <1>1 DEF OfKind
  <1>4. QED
    BY <1>2, <1>3 DEF RevisionTold

LEMMA TrailGrows ==
    ASSUME TypeOK, EvidenceIdsAgree, TrailInv, [Next]_vars
    PROVE  TrailInv'
  <1>1. evidence \in Seq(Evidence) /\ events \in Seq(LedgerEvent)
    BY DEF TypeOK, LedgerTypeOK
  <1>2. ASSUME NEW r \in Revisions, RecordRevision(r), UNCHANGED clockFailed
        PROVE  TrailInv'
    <2> DEFINE event == [kind |-> "revision", revision |-> r, ref |-> NoRef,
                         from |-> "none", status |-> "none"]
    <2>1. event \in LedgerEvent /\ event.kind # "evidence"
      BY DEF LedgerEvent, EventKinds, EventStatuses
    <2>2. event.kind = "revision" /\ event.revision = r
      OBVIOUS
    <2>3. events' = Append(events, event) /\ evidence' = evidence /\ revision' = r
      BY <1>2 DEF RecordRevision
    <2> HIDE DEF event
    <2>4. /\ DOMAIN events' = DOMAIN events \cup {Len(events) + 1}
          /\ events'[Len(events) + 1] = event
          /\ \A n \in DOMAIN events : n <= Len(events) + 1
      BY <1>1, <2>3
    <2>5. RevisionTold'
      <3>1. Len(events) + 1 \in OfKind("revision")'
        BY <2>2, <2>4 DEF OfKind
      <3>2. \A m \in OfKind("revision")' : m <= Len(events) + 1
        BY <1>1, <2>4 DEF OfKind
      <3>3. QED
        BY <2>2, <2>3, <2>4, <3>1, <3>2 DEF RevisionTold
    <2>6. QED
      BY <1>1, <1>2, <2>1, <2>3, <2>5, OtherEventsTellNothing DEF TrailInv
  <1>3. ASSUME NEW e \in Evidence, RecordEvidence(e), UNCHANGED clockFailed
        PROVE  TrailInv'
    <2>1. EvidenceEvent(e).kind = "evidence"
      BY DEF EvidenceEvent, Stamped
    <2>2. events' = Append(events, EvidenceEvent(e)) /\ UNCHANGED revision
      BY <1>3 DEF RecordEvidence
    <2>3. RevisionTold => RevisionTold'
      BY <2>1, <2>2, OtherEventsKeepRevision DEF TypeOK
    <2>4. QED
      BY <1>3, <2>3, EvidenceIsTold DEF TrailInv, TypeOK
  <1>4. ASSUME NEW e \in Evidence, RecordEvidenceClockFails(e), clockFailed'
        PROVE  TrailInv'
    BY <1>4, EvidenceIsTold DEF TrailInv, TypeOK
  <1>5. ASSUME NEW r \in Revisions, RecordRevisionClockFails(r), clockFailed'
        PROVE  TrailInv'
    BY <1>5 DEF TrailInv, RecordRevisionClockFails
  <1>6. ASSUME NEW p \in ProposalIds, RecordProposal(p), UNCHANGED clockFailed
        PROVE  TrailInv'
    <2> DEFINE event == Stamped("proposal", p, "recorded")
    <2>1. event \in LedgerEvent /\ event.kind = "proposal"
      BY StampedType DEF TypeOK, EventKinds, EventStatuses, Stamped
    <2>2. events' = Append(events, event) /\ UNCHANGED <<evidence, revision>>
      BY <1>6 DEF RecordProposal
    <2> HIDE DEF event
    <2>3. RevisionTold => RevisionTold'
      BY <2>1, <2>2, OtherEventsKeepRevision DEF TypeOK
    <2>4. QED
      BY <1>1, <1>6, <2>1, <2>2, <2>3, OtherEventsTellNothing DEF TrailInv
  <1>7. CASE UNCHANGED vars
    BY <1>7 DEF vars, ledgerVars, TrailInv, RevisionTold, OfKind
  <1>8. QED
    BY <1>2, <1>3, <1>4, <1>5, <1>6, <1>7
       DEF Next, AppendRevision, LoseRevision, AppendEvidence, LoseEvidence, AppendProposal

\* An id leads a reader back to its only item.
LEMMA ItemOfItsId ==
    ASSUME EvidenceIdsAgree, NEW i \in DOMAIN evidence
    PROVE  ItemOf(evidence[i].id) = evidence[i]
  BY DEF EvidenceIdsAgree, ItemOf

\* What replaying the evidence events gives for one check: the position of the
\* last one that counts leads to the last item that counts.
LEMMA StatusIsReplayed ==
    ASSUME LedgerTypeOK, EvidenceIdsAgree, Told(evidence, events), AllTold(evidence, events),
           TrailRevision = revision, NEW c
    PROVE  TrailStatus(c) = CheckStatus(c)
  <1> DEFINE Now == TrailOf(c, {revision})
  <1>1. \A n \in OfKind("evidence") : \E i \in DOMAIN evidence :
           /\ evidence[i].id = events[n].ref /\ evidence[i].revision = events[n].revision
           /\ ItemOf(events[n].ref) = evidence[i]
    BY ItemOfItsId DEF Told, EvidenceEvents, OfKind
  <1>2. \A i \in DOMAIN evidence : \E n \in OfKind("evidence") :
           /\ events[n].ref = evidence[i].id /\ events[n].revision = evidence[i].revision
           /\ ItemOf(events[n].ref) = evidence[i]
    <2>1. ASSUME NEW i \in DOMAIN evidence
          PROVE  \E n \in OfKind("evidence") :
                    events[n].ref = evidence[i].id /\ events[n].revision = evidence[i].revision
      <3>1. PICK n \in OfKind("evidence") : events[n].ref = evidence[i].id
        BY DEF AllTold, EvidenceEvents, OfKind
      <3>2. PICK j \in DOMAIN evidence :
               evidence[j].id = events[n].ref /\ evidence[j].revision = events[n].revision
        BY <1>1
      <3>3. j = i
        BY <3>1, <3>2 DEF EvidenceIdsAgree
      <3>4. QED
        BY <3>1, <3>2, <3>3
    <2>2. QED
      BY <2>1, ItemOfItsId
  <1>3. Now # {} <=> CurrentEvidence(c) # {}
    BY <1>1, <1>2 DEF TrailOf, CurrentEvidence
  <1>4. TrailOf(c, Revisions) # {} <=> EverRecorded(c)
    <2>1. \A n \in OfKind("evidence") : events[n].revision \in Revisions
      <3>1. \A n \in OfKind("evidence") : events[n] \in LedgerEvent
        BY DEF OfKind, LedgerTypeOK
      <3>2. QED
        BY <3>1 DEF LedgerEvent
    <2>2. QED
      BY <1>1, <1>2, <2>1 DEF TrailOf, EverRecorded
  <1>5. CASE CurrentEvidence(c) = {}
    BY <1>3, <1>4, <1>5 DEF TrailStatus, CheckStatus
  <1>6. CASE CurrentEvidence(c) # {}
    <2> DEFINE i == LatestCurrent(c)
    <2>1. i \in CurrentEvidence(c) /\ \A j \in CurrentEvidence(c) : j <= i
      BY <1>6, LatestIsLast
    <2>2. i \in DOMAIN evidence /\ evidence[i].check = c /\ evidence[i].revision = revision
      BY <2>1 DEF CurrentEvidence
    <2> HIDE DEF i
    <2>3. PICK n \in OfKind("evidence") :
             /\ events[n].ref = evidence[i].id /\ events[n].revision = evidence[i].revision
             /\ ItemOf(events[n].ref) = evidence[i]
      BY <1>2, <2>2
    <2>4. n \in Now
      BY <2>2, <2>3 DEF TrailOf
    <2>5. \A m \in OfKind("evidence") : m \in Nat
      BY DEF OfKind, LedgerTypeOK
    <2>6. ASSUME NEW m \in Now PROVE m <= n
      <3>1. m \in OfKind("evidence") /\ events[m].revision = revision
            /\ ItemOf(events[m].ref).check = c
        BY DEF TrailOf
      <3>2. PICK j \in DOMAIN evidence :
               /\ evidence[j].id = events[m].ref /\ evidence[j].revision = events[m].revision
               /\ ItemOf(events[m].ref) = evidence[j]
        BY <1>1, <3>1
      <3>3. j \in CurrentEvidence(c)
        BY <3>1, <3>2 DEF CurrentEvidence
      <3>4. j <= i
        BY <2>1, <3>3
      <3>5. ~(n < m)
        <4>1. n < m => i < j
          BY <2>2, <2>3, <3>1, <3>2 DEF Told, EvidenceEvents, OfKind
        <4>2. i \in Nat /\ j \in Nat
          BY <2>2, <3>2 DEF LedgerTypeOK
        <4>3. QED
          BY <3>4, <4>1, <4>2
      <3>6. QED
        BY <2>3, <2>5, <3>1, <3>5
    <2>7. \A k \in Now : (\A m \in Now : m <= k) => k = n
      <3>1. \A m \in Now : m \in Nat
        BY <2>5 DEF TrailOf
      <3>2. QED
        BY <2>4, <2>6, <3>1
    <2>8. LatestOf(Now) = n
      BY <2>4, <2>6, <2>7 DEF LatestOf
    <2> HIDE DEF Now
    <2>9. TrailStatus(c) = IF evidence[i].passed THEN "passed" ELSE "failed"
      BY <1>3, <1>6, <2>3, <2>8 DEF TrailStatus, Now
    <2>10. QED
      BY <1>6, <2>9 DEF CheckStatus, i
  <1>7. QED
    BY <1>5, <1>6

\* Replaying the exported trail gives the judgement of every check, as long as
\* no clock has raised (ledger.events against ledger.evidence_for).
THEOREM TrailReplays == Spec => []AuditTrailReplays
  <1>1. TypeOK /\ EvidenceIdsAgree /\ TrailInv => AuditTrailReplays
    BY LastRevisionEvent, StatusIsReplayed DEF TypeOK, TrailInv, AuditTrailReplays
  <1>2. QED
    BY <1>1, TrailStarts, TrailGrows, TypeCorrect, IdsAgree, PTL DEF Spec

-------------------------------------------------------------------------------
\* The reason codes of a request for revision leave out nothing that stands
\* against acceptance (decision.decide, _finding_ids).
THEOREM FeedbackSuffices == Spec => []FeedbackIsSufficient
  <1>1. TypeOK => FeedbackIsSufficient
    <2> SUFFICES ASSUME TypeOK, NEW asked \in FindingSets,
                        Decide(contract, asked).verdict = "revise"
                 PROVE  LET decision == Decide(contract, asked)
                            named  == {reason[2] : reason \in
                                        {r \in decision.reasons : r[1] = "finding.revision"}}
                            checks == {reason[2] : reason \in
                                        {r \in decision.reasons :
                                            r[1] \in {"missing", "stale", "failed"}}}
                        IN  /\ \A f \in asked : f.id \in named
                                                  \/ f.severity \in {"info", "warning"}
                            /\ \A c \in contract.required \ checks : CheckStatus(c) = "passed"
      BY DEF FeedbackIsSufficient
    <2>1. \A f \in asked : f.severity \notin {"blocking", "escalation"} /\ f.severity \in Severities
      BY RevisionNamesAll, LedgerDecisionsAssumption DEF OfSeverity, Finding
    <2>2. \A f \in asked : f.severity = "revision" =>
             f.id \in {reason[2] : reason \in {r \in Decide(contract, asked).reasons :
                                                 r[1] = "finding.revision"}}
      BY RevisionFindingsNamed
    <2>3. \A f \in asked : f.severity \in {"info", "warning", "revision"}
      BY <2>1 DEF Severities
    <2>4. QED
      BY <2>2, <2>3, UnnamedChecksPassed
  <1>2. QED
    BY <1>1, TypeCorrect, PTL

\* Everything a decision cites exists, and an acceptance rests on passing items
\* of the current revision (Decision.evidence_ids).
THEOREM CitationsExist == Spec => []CitationsHold
  <1>1. TypeOK /\ EvidenceIdsAgree => CitationsHold
    <2> SUFFICES ASSUME TypeOK, EvidenceIdsAgree, NEW asked \in FindingSets
                 PROVE  /\ Decide(contract, asked).refs \subseteq evidenceIds
                        /\ Decide(contract, asked).verdict = "accept" =>
                             \A id \in Decide(contract, asked).refs :
                                ItemOf(id).passed /\ ItemOf(id).revision = revision
      BY DEF CitationsHold
    <2>1. Decide(contract, asked).refs \subseteq evidenceIds
      BY DecisionCites DEF TypeOK
    <2>2. ASSUME Decide(contract, asked).verdict = "accept",
                 NEW c \in contract.required, CurrentEvidence(c) # {}
          PROVE  /\ ItemOf(evidence[LatestCurrent(c)].id).passed
                 /\ ItemOf(evidence[LatestCurrent(c)].id).revision = revision
      <3>1. LatestCurrent(c) \in DOMAIN evidence /\ evidence[LatestCurrent(c)].revision = revision
        BY <2>2, LatestIsLast DEF CurrentEvidence, TypeOK
      <3>2. CheckStatus(c) = "passed"
        BY <2>2, AcceptanceCites
      <3>3. evidence[LatestCurrent(c)].passed
        BY <2>2, <3>2 DEF CheckStatus
      <3>4. QED
        BY <3>1, <3>3, ItemOfItsId
    <2>3. QED
      BY <2>1, <2>2, AcceptanceCites DEF CitedEvidence
  <1>2. QED
    BY <1>1, TypeCorrect, IdsAgree, PTL

\* Only failing evidence or a change of revision takes an acceptance away, never
\* one more passing item (decision.decide between two appends).
THEOREM AcceptanceStays == Spec => AcceptanceIsStable
  <1> DEFINE Lost(asked) == /\ Decide(contract, asked).verdict = "accept"
                            /\ Decide(contract, asked)'.verdict # "accept"
  <1>1. ASSUME TypeOK, AcceptIffEarned, AcceptIffEarned', [Next]_vars, NEW asked \in FindingSets,
               Lost(asked)
        PROVE  \/ revision' # revision
               \/ Len(evidence') > Len(evidence) /\ ~evidence'[Len(evidence')].passed
    <2>1. Earned(contract, asked) /\ ~Earned(contract, asked)'
      BY <1>1 DEF AcceptIffEarned
    <2>2. contract' = contract /\ evidence \in Seq(Evidence)
      BY <1>1 DEF TypeOK, LedgerTypeOK, Next, AppendRevision, LoseRevision, AppendEvidence,
                  LoseEvidence, AppendProposal, vars
    <2>3. ASSUME UNCHANGED <<revision, evidence, evidenceIds>> PROVE FALSE
      BY <2>1, <2>2, <2>3 DEF Earned
    <2>4. ASSUME NEW e \in Evidence, RecordEvidence(e) \/ RecordEvidenceClockFails(e)
          PROVE  Len(evidence') > Len(evidence) /\ ~evidence'[Len(evidence')].passed
      <3> DEFINE last == Len(evidence) + 1
      <3>1. /\ evidence' = Append(evidence, e) /\ e.revision = revision /\ revision' = revision
            /\ evidenceIds \subseteq evidenceIds'
        BY <2>4 DEF RecordEvidence, RecordEvidenceClockFails, EvidenceRefused
      <3>2. /\ DOMAIN evidence' = DOMAIN evidence \cup {last} /\ last \in Nat
            /\ \A i \in DOMAIN evidence : evidence'[i] = evidence[i] /\ i \in Nat /\ i < last
            /\ evidence'[last] = e /\ Len(evidence') = last /\ last > Len(evidence)
        BY <2>2, <3>1
      <3> HIDE DEF last
      <3>3. SUFFICES ASSUME e.passed PROVE FALSE
        BY <3>2
      <3>4. ASSUME NEW c \in contract.required
            PROVE  \E i \in DOMAIN evidence' :
                      /\ evidence'[i].passed /\ evidence'[i].check = c
                      /\ evidence'[i].revision = revision
                      /\ \A j \in DOMAIN evidence' :
                            j > i => ~(evidence'[j].check = c /\ evidence'[j].revision = revision)
        <4>1. PICK i \in DOMAIN evidence :
                 /\ evidence[i].passed /\ evidence[i].check = c /\ evidence[i].revision = revision
                 /\ \A j \in DOMAIN evidence :
                       j > i => ~(evidence[j].check = c /\ evidence[j].revision = revision)
          BY <2>1 DEF Earned
        <4>2. CASE e.check = c
          BY <3>1, <3>2, <3>3, <4>2
        <4>3. CASE e.check # c
          BY <3>2, <4>1, <4>3
        <4>4. QED
          BY <4>2, <4>3
      <3>5. Earned(contract, asked)'
        BY <2>1, <2>2, <3>1, <3>4 DEF Earned
      <3>6. QED
        BY <2>1, <3>5
    <2>5. QED
      BY <1>1, <2>3, <2>4, StepIsAnAppend
         DEF vars, ledgerVars, RecordRevision, RecordRevisionClockFails, RecordProposal,
             RevisionRefused
  <1>2. TypeOK /\ AcceptIffEarned /\ AcceptIffEarned' /\ [Next]_vars => AcceptanceIsKept
    BY <1>1 DEF AcceptanceIsKept
  <1>3. QED
    BY <1>2, TypeCorrect, AcceptsOnlyWhatIsEarned, PTL DEF Spec, AcceptanceIsStable
===============================================================================
