---------------------------- MODULE DecisionProofs ----------------------------
(***************************************************************************)
(* What each append of the ledger preserves, also when its clock raises,   *)
(* and what the decision policy makes of any ledger: it accepts exactly    *)
(* what is earned.  The lemmas are about single appends and single         *)
(* decisions, for any program built on the two.                            *)
(***************************************************************************)
EXTENDS Decision, WellFoundedInduction, TLAPS


\* Any event stamped with a known revision may be appended to the trail.
LEMMA StampedType ==
    ASSUME LedgerTypeOK,
           NEW kind \in EventKinds,
           NEW ref \in EvidenceIds \cup ProposalIds \cup ActionIds \cup {NoRef},
           NEW status \in EventStatuses
    PROVE  Stamped(kind, ref, status) \in LedgerEvent
  BY DEF LedgerTypeOK, LedgerEvent, Stamped

\* The initial ledger is well typed.
LEMMA InitType ==
    ASSUME NEW initial \in Revisions, LedgerInit(initial)
    PROVE  LedgerTypeOK
  <1>1. events[1] \in LedgerEvent /\ events = <<events[1]>>
    BY DEF LedgerInit, LedgerEvent, EventKinds, EventStatuses
  <1>2. QED
    BY <1>1 DEF LedgerInit, LedgerTypeOK

\* record_revision, with and without a clock that raises.
LEMMA RevisionType ==
    ASSUME LedgerTypeOK, NEW r \in Revisions,
           RecordRevision(r) \/ RecordRevisionClockFails(r)
    PROVE  LedgerTypeOK'
  <1>1. CASE RecordRevision(r)
    <2>1. [kind |-> "revision", revision |-> r, ref |-> NoRef,
           from |-> "none", status |-> "none"] \in LedgerEvent
      BY DEF LedgerEvent, EventKinds, EventStatuses
    <2>2. QED
      BY <1>1, <2>1 DEF RecordRevision, LedgerTypeOK
  <1>2. CASE RecordRevisionClockFails(r)
    BY <1>2 DEF RecordRevisionClockFails, LedgerTypeOK
  <1>3. QED
    BY <1>1, <1>2

\* record_evidence, with and without a clock that raises.
LEMMA EvidenceType ==
    ASSUME LedgerTypeOK, NEW e \in Evidence,
           RecordEvidence(e) \/ RecordEvidenceClockFails(e)
    PROVE  LedgerTypeOK'
  <1>1. e.id \in EvidenceIds
    BY DEF Evidence
  <1>2. CASE RecordEvidence(e)
    <2>1. EvidenceEvent(e) \in LedgerEvent
      BY <1>1, StampedType DEF EvidenceEvent, EventKinds, EventStatuses
    <2>2. QED
      BY <1>1, <1>2, <2>1 DEF RecordEvidence, LedgerTypeOK
  <1>3. CASE RecordEvidenceClockFails(e)
    BY <1>1, <1>3 DEF RecordEvidenceClockFails, LedgerTypeOK
  <1>4. QED
    BY <1>2, <1>3

\* record_proposal.
LEMMA ProposalType ==
    ASSUME LedgerTypeOK, NEW p \in ProposalIds, RecordProposal(p)
    PROVE  LedgerTypeOK'
  <1>1. Stamped("proposal", p, "recorded") \in LedgerEvent
    BY StampedType DEF EventKinds, EventStatuses
  <1>2. QED
    BY <1>1 DEF RecordProposal, LedgerTypeOK

-------------------------------------------------------------------------------
\* An append of an item with a new id keeps ids and items in step, whether or
\* not the event that should tell of it is written.
LEMMA EvidenceKeepsIds ==
    ASSUME LedgerTypeOK, EvidenceIdsAgree, NEW e \in Evidence,
           RecordEvidence(e) \/ RecordEvidenceClockFails(e)
    PROVE  EvidenceIdsAgree'
  <1>1. /\ e.id \notin evidenceIds
        /\ evidence' = Append(evidence, e)
        /\ evidenceIds' = evidenceIds \cup {e.id}
    BY DEF RecordEvidence, RecordEvidenceClockFails, EvidenceRefused
  <1>2. evidence \in Seq(Evidence)
    BY DEF LedgerTypeOK
  <1>3. /\ DOMAIN evidence' = DOMAIN evidence \cup {Len(evidence) + 1}
        /\ Len(evidence) + 1 \notin DOMAIN evidence
        /\ \A i \in DOMAIN evidence : evidence'[i] = evidence[i]
        /\ evidence'[Len(evidence) + 1] = e
    BY <1>1, <1>2
  <1>4. \A i \in DOMAIN evidence : evidence[i].id # e.id
    BY <1>1 DEF EvidenceIdsAgree
  <1>5. evidenceIds' = {evidence'[i].id : i \in DOMAIN evidence'}
    BY <1>1, <1>3 DEF EvidenceIdsAgree
  <1>6. \A i, j \in DOMAIN evidence' : evidence'[i].id = evidence'[j].id => i = j
    BY <1>3, <1>4 DEF EvidenceIdsAgree
  <1>7. QED
    BY <1>5, <1>6 DEF EvidenceIdsAgree

\* An event of another kind does not disturb the trail of proposals.
LEMMA OtherEventsKeepProposals ==
    ASSUME ProposalTrailAgrees, events \in Seq(LedgerEvent),
           NEW event \in LedgerEvent, event.kind # "proposal",
           events' = Append(events, event), UNCHANGED proposalIds
    PROVE  ProposalTrailAgrees'
  <1>1. /\ DOMAIN events' = DOMAIN events \cup {Len(events) + 1}
        /\ \A i \in DOMAIN events : events'[i] = events[i]
        /\ events'[Len(events) + 1].kind # "proposal"
    OBVIOUS
  <1>2. {n \in DOMAIN events' : events'[n].kind = "proposal"}
          = {n \in DOMAIN events : events[n].kind = "proposal"}
    BY <1>1
  <1>3. {events'[i].ref : i \in {n \in DOMAIN events' : events'[n].kind = "proposal"}}
          = {events[i].ref : i \in {n \in DOMAIN events : events[n].kind = "proposal"}}
    BY <1>1, <1>2
  <1>4. \A i, j \in DOMAIN events' :
           /\ events'[i].kind = "proposal" /\ events'[j].kind = "proposal"
           /\ events'[i].ref = events'[j].ref
           => i = j
    BY <1>1 DEF ProposalTrailAgrees
  <1>5. QED
    BY <1>3, <1>4 DEF ProposalTrailAgrees

\* A proposal that is not refused adds its id and its only event.
LEMMA ProposalKeepsTrail ==
    ASSUME LedgerTypeOK, ProposalTrailAgrees, NEW p \in ProposalIds, RecordProposal(p)
    PROVE  ProposalTrailAgrees'
  <1> DEFINE OnTrail == {n \in DOMAIN events : events[n].kind = "proposal"}
             new     == Len(events) + 1
  <1>1. /\ p \notin proposalIds
        /\ proposalIds' = proposalIds \cup {p}
        /\ events' = Append(events, Stamped("proposal", p, "recorded"))
    BY DEF RecordProposal, ProposalRefused
  <1>2. events \in Seq(LedgerEvent)
    BY DEF LedgerTypeOK
  <1>3. /\ DOMAIN events' = DOMAIN events \cup {new}
        /\ new \notin DOMAIN events
        /\ \A i \in DOMAIN events : events'[i] = events[i]
        /\ events'[new].kind = "proposal" /\ events'[new].ref = p
    BY <1>1, <1>2 DEF Stamped
  <1>4. \A i \in OnTrail : events[i].ref # p
    BY <1>1 DEF ProposalTrailAgrees
  <1>5. {n \in DOMAIN events' : events'[n].kind = "proposal"} = OnTrail \cup {new}
    BY <1>3
  <1>6. {events'[i].ref : i \in OnTrail \cup {new}} = {events[i].ref : i \in OnTrail} \cup {p}
    BY <1>3
  <1>7. \A i, j \in DOMAIN events' :
           /\ events'[i].kind = "proposal" /\ events'[j].kind = "proposal"
           /\ events'[i].ref = events'[j].ref
           => i = j
    BY <1>3, <1>4 DEF ProposalTrailAgrees
  <1>8. QED
    BY <1>1, <1>5, <1>6, <1>7 DEF ProposalTrailAgrees

-------------------------------------------------------------------------------
(* The evidence and the events that tell of it *)

EvidenceEvents(trail) == {n \in DOMAIN trail : trail[n].kind = "evidence"}

\* Each evidence event tells of an item and of its revision, in the order of the
\* items.
Told(items, trail) ==
    /\ \A n \in EvidenceEvents(trail) : \E i \in DOMAIN items :
          items[i].id = trail[n].ref /\ items[i].revision = trail[n].revision
    /\ \A m, n \in EvidenceEvents(trail) : \A i, j \in DOMAIN items :
          m < n /\ items[i].id = trail[m].ref /\ items[j].id = trail[n].ref => i < j

\* Each item is told of.
AllTold(items, trail) ==
    \A i \in DOMAIN items : \E n \in EvidenceEvents(trail) : trail[n].ref = items[i].id

\* An event of another kind does not disturb what is told.
LEMMA OtherEventsTellNothing ==
    ASSUME NEW items, NEW trail \in Seq(LedgerEvent), NEW event \in LedgerEvent,
           event.kind # "evidence"
    PROVE  /\ Told(items, trail) => Told(items, Append(trail, event))
           /\ AllTold(items, trail) => AllTold(items, Append(trail, event))
  <1> DEFINE after == Append(trail, event)
  <1>1. /\ DOMAIN after = DOMAIN trail \cup {Len(trail) + 1}
        /\ \A n \in DOMAIN trail : after[n] = trail[n]
        /\ after[Len(trail) + 1] = event
    OBVIOUS
  <1> HIDE DEF after
  <1>2. EvidenceEvents(after) = EvidenceEvents(trail)
    BY <1>1 DEF EvidenceEvents
  <1>3. \A n \in EvidenceEvents(trail) : after[n] = trail[n]
    BY <1>1 DEF EvidenceEvents
  <1>4. QED
    BY <1>2, <1>3 DEF Told, AllTold, after

\* An item with a new id that no event tells of yet.
LEMMA ItemIsUntold ==
    ASSUME NEW items \in Seq(Evidence), NEW trail \in Seq(LedgerEvent), NEW e \in Evidence,
           Told(items, trail), \A i \in DOMAIN items : items[i].id # e.id
    PROVE  /\ Told(Append(items, e), trail)
           /\ \A n \in EvidenceEvents(trail) : trail[n].ref # e.id
  <1> DEFINE after == Append(items, e)
  <1>1. /\ DOMAIN after = DOMAIN items \cup {Len(items) + 1}
        /\ \A i \in DOMAIN items : after[i] = items[i]
        /\ after[Len(items) + 1] = e
    OBVIOUS
  <1>2. \A n \in EvidenceEvents(trail) : trail[n].ref # e.id
    BY DEF Told
  <1> HIDE DEF after
  <1>3. \A n \in EvidenceEvents(trail) : \A i \in DOMAIN after :
           after[i].id = trail[n].ref => i \in DOMAIN items
    BY <1>1, <1>2
  <1>4. Told(after, trail)
    <2>1. \A n \in EvidenceEvents(trail) : \E i \in DOMAIN after :
             after[i].id = trail[n].ref /\ after[i].revision = trail[n].revision
      BY <1>1 DEF Told
    <2>2. \A m, n \in EvidenceEvents(trail) : \A i, j \in DOMAIN after :
             m < n /\ after[i].id = trail[m].ref /\ after[j].id = trail[n].ref => i < j
      BY <1>1, <1>3 DEF Told
    <2>3. QED
      BY <2>1, <2>2 DEF Told
  <1>5. QED
    BY <1>2, <1>4 DEF after

\* The event that tells of the item stored last.
LEMMA EventTellsOfLast ==
    ASSUME NEW items \in Seq(Evidence), NEW trail \in Seq(LedgerEvent), NEW e \in Evidence,
           Told(items, trail), \A i \in DOMAIN items : items[i].id # e.id,
           NEW event \in LedgerEvent, event.kind = "evidence", event.ref = e.id,
           event.revision = e.revision
    PROVE  /\ Told(Append(items, e), Append(trail, event))
           /\ AllTold(items, trail) => AllTold(Append(items, e), Append(trail, event))
  <1> DEFINE after == Append(items, e)
             longer == Append(trail, event)
             last == Len(items) + 1
             new == Len(trail) + 1
  <1>1. /\ DOMAIN after = DOMAIN items \cup {last} /\ last \in Nat
        /\ \A i \in DOMAIN items : after[i] = items[i] /\ i \in Nat /\ i < last
        /\ after[last] = e
    OBVIOUS
  <1>2. /\ DOMAIN longer = DOMAIN trail \cup {new} /\ new \in Nat
        /\ \A n \in DOMAIN trail : longer[n] = trail[n] /\ n \in Nat /\ n < new
        /\ longer[new] = event
    OBVIOUS
  <1>3. Told(after, trail) /\ \A n \in EvidenceEvents(trail) : trail[n].ref # e.id
    BY ItemIsUntold
  <1> HIDE DEF after, longer, last, new
  <1>4. EvidenceEvents(longer) = EvidenceEvents(trail) \cup {new}
    BY <1>2 DEF EvidenceEvents
  <1>5. \A n \in EvidenceEvents(trail) : longer[n] = trail[n] /\ n \in Nat /\ n < new
    BY <1>2 DEF EvidenceEvents
  <1>6. \A i \in DOMAIN after : after[i].id = e.id <=> i = last
    BY <1>1
  <1>7. Told(after, longer)
    <2>1. \A n \in EvidenceEvents(longer) : \E i \in DOMAIN after :
             after[i].id = longer[n].ref /\ after[i].revision = longer[n].revision
      BY <1>1, <1>2, <1>3, <1>4, <1>5 DEF Told
    <2>2. ASSUME NEW m \in EvidenceEvents(longer), NEW n \in EvidenceEvents(longer),
                 NEW i \in DOMAIN after, NEW j \in DOMAIN after,
                 m < n, after[i].id = longer[m].ref, after[j].id = longer[n].ref
          PROVE  i < j
      <3>1. m \in EvidenceEvents(trail)
        BY <1>2, <1>4, <1>5, <2>2
      <3>2. i \in DOMAIN items
        BY <1>1, <1>3, <1>5, <2>2, <3>1
      <3>3. CASE n \in EvidenceEvents(trail)
        BY <1>3, <1>5, <2>2, <3>1, <3>3 DEF Told
      <3>4. CASE n = new
        BY <1>1, <1>2, <1>6, <2>2, <3>2, <3>4
      <3>5. QED
        BY <1>4, <3>3, <3>4
    <2>3. QED
      BY <2>1, <2>2 DEF Told
  <1>8. AllTold(items, trail) => AllTold(after, longer)
    BY <1>1, <1>2, <1>4, <1>5 DEF AllTold
  <1>9. QED
    BY <1>7, <1>8 DEF after, longer

\* Two events at once are two appends.
LEMMA TwoEvents ==
    ASSUME NEW trail \in Seq(LedgerEvent), NEW a \in LedgerEvent, NEW b \in LedgerEvent
    PROVE  trail \o <<a, b>> = Append(Append(trail, a), b)
  OBVIOUS

\* record_evidence: the item is told of unless the clock raises.
LEMMA EvidenceIsTold ==
    ASSUME LedgerTypeOK, EvidenceIdsAgree, Told(evidence, events), NEW e \in Evidence,
           RecordEvidence(e) \/ RecordEvidenceClockFails(e)
    PROVE  /\ Told(evidence', events')
           /\ RecordEvidence(e) /\ AllTold(evidence, events) => AllTold(evidence', events')
  <1>1. /\ evidence' = Append(evidence, e) /\ e.revision = revision
        /\ \A i \in DOMAIN evidence : evidence[i].id # e.id
    BY DEF RecordEvidence, RecordEvidenceClockFails, EvidenceRefused, EvidenceIdsAgree
  <1>2. evidence \in Seq(Evidence) /\ events \in Seq(LedgerEvent)
    BY DEF LedgerTypeOK
  <1>3. ASSUME RecordEvidence(e)
        PROVE  /\ Told(evidence', events')
               /\ AllTold(evidence, events) => AllTold(evidence', events')
    <2> DEFINE event == EvidenceEvent(e)
    <2>1. event \in LedgerEvent
      BY StampedType DEF EvidenceEvent, EventKinds, EventStatuses, Evidence
    <2>2. /\ event.kind = "evidence" /\ event.ref = e.id /\ event.revision = e.revision
          /\ events' = Append(events, event)
      BY <1>1, <1>3 DEF RecordEvidence, EvidenceEvent, Stamped
    <2> HIDE DEF event
    <2>3. QED
      BY <1>1, <1>2, <2>1, <2>2, EventTellsOfLast
  <1>4. ASSUME RecordEvidenceClockFails(e), ~RecordEvidence(e) PROVE Told(evidence', events')
    BY <1>1, <1>2, <1>4, ItemIsUntold DEF RecordEvidenceClockFails
  <1>5. QED
    BY <1>3, <1>4

-------------------------------------------------------------------------------
(* What a tool session appends: an event of its own, and an item of evidence *)
(* whose event a clock that raises leaves out.                               *)

ToolAppend(event, e, told) ==
    /\ e.id \notin evidenceIds
    /\ evidence' = Append(evidence, e)
    /\ evidenceIds' = evidenceIds \cup {e.id}
    /\ events' = IF told THEN events \o <<event, EvidenceEvent(e)>> ELSE Append(events, event)
    /\ UNCHANGED <<revision, proposalIds>>

\* The first of the two events alone, and the two in a row.
LEMMA ToolAppendInTwo ==
    ASSUME LedgerTypeOK, NEW event \in LedgerEvent, NEW e \in Evidence, NEW told \in BOOLEAN,
           ToolAppend(event, e, told)
    PROVE  /\ EvidenceEvent(e) \in LedgerEvent /\ Append(events, event) \in Seq(LedgerEvent)
           /\ events' = IF told THEN Append(Append(events, event), EvidenceEvent(e))
                        ELSE Append(events, event)
  <1>1. events \in Seq(LedgerEvent)
    BY DEF LedgerTypeOK
  <1>2. EvidenceEvent(e) \in LedgerEvent
    BY StampedType DEF EvidenceEvent, EventKinds, EventStatuses, Evidence
  <1>3. events \o <<event, EvidenceEvent(e)>> = Append(Append(events, event), EvidenceEvent(e))
    BY <1>1, <1>2, TwoEvents
  <1>4. events' = IF told THEN events \o <<event, EvidenceEvent(e)>> ELSE Append(events, event)
    BY DEF ToolAppend
  <1>5. Append(events, event) \in Seq(LedgerEvent)
    BY <1>1
  <1> HIDE DEF ToolAppend
  <1>6. QED
    BY <1>2, <1>3, <1>4, <1>5, Zenon

LEMMA ToolAppendType ==
    ASSUME LedgerTypeOK, NEW event \in LedgerEvent, NEW e \in Evidence, NEW told \in BOOLEAN,
           ToolAppend(event, e, told)
    PROVE  LedgerTypeOK'
  <1>1. events' \in Seq(LedgerEvent)
    BY ToolAppendInTwo
  <1>2. e.id \in EvidenceIds /\ evidence \in Seq(Evidence)
    BY DEF Evidence, LedgerTypeOK
  <1>3. QED
    BY <1>1, <1>2 DEF ToolAppend, LedgerTypeOK

LEMMA ToolAppendKeepsTrail ==
    ASSUME LedgerTypeOK, EvidenceIdsAgree, ProposalTrailAgrees, Told(evidence, events),
           NEW event \in LedgerEvent, event.kind \notin {"evidence", "proposal"},
           NEW e \in Evidence, e.revision = revision, NEW told \in BOOLEAN,
           ToolAppend(event, e, told)
    PROVE  /\ EvidenceIdsAgree' /\ ProposalTrailAgrees' /\ Told(evidence', events')
           /\ told /\ AllTold(evidence, events) => AllTold(evidence', events')
  <1> DEFINE first == Append(events, event)
             second == EvidenceEvent(e)
  <1>1. /\ second \in LedgerEvent /\ first \in Seq(LedgerEvent)
        /\ events' = IF told THEN Append(first, second) ELSE first
    BY ToolAppendInTwo
  <1>2. /\ second.kind = "evidence" /\ second.ref = e.id /\ second.revision = e.revision
    BY DEF EvidenceEvent, Stamped
  <1>3. /\ evidence \in Seq(Evidence) /\ events \in Seq(LedgerEvent)
        /\ evidence' = Append(evidence, e)
        /\ \A i \in DOMAIN evidence : evidence[i].id # e.id
    BY DEF LedgerTypeOK, ToolAppend, EvidenceIdsAgree
  <1>4. /\ Told(evidence, first)
        /\ AllTold(evidence, events) => AllTold(evidence, first)
    BY <1>3, OtherEventsTellNothing
  <1>5. EvidenceIdsAgree'
    <2>1. /\ DOMAIN evidence' = DOMAIN evidence \cup {Len(evidence) + 1}
          /\ \A i \in DOMAIN evidence : evidence'[i] = evidence[i]
          /\ evidence'[Len(evidence) + 1] = e
      BY <1>3
    <2>2. evidenceIds' = evidenceIds \cup {e.id}
      BY DEF ToolAppend
    <2>3. QED
      BY <1>3, <2>1, <2>2 DEF EvidenceIdsAgree
  <1>6. ProposalTrailAgrees'
    <2>1. /\ DOMAIN first = DOMAIN events \cup {Len(events) + 1}
          /\ \A n \in DOMAIN events : first[n] = events[n]
          /\ first[Len(events) + 1] = event
      BY <1>3
    <2>2. Len(first) = Len(events) + 1
      BY <1>3
    <2> HIDE DEF first, second
    <2>3. /\ DOMAIN events \subseteq DOMAIN events'
          /\ \A n \in DOMAIN events : events'[n] = events[n]
          /\ \A n \in DOMAIN events' \ DOMAIN events : events'[n] \in {event, second}
      BY <1>1, <2>1, <2>2
    <2>4. \A n \in DOMAIN events' \ DOMAIN events : events'[n].kind # "proposal"
      BY <1>2, <2>3
    <2>5. {n \in DOMAIN events' : events'[n].kind = "proposal"}
            = {n \in DOMAIN events : events[n].kind = "proposal"}
      BY <2>3, <2>4
    <2>6. {events'[i].ref : i \in {n \in DOMAIN events' : events'[n].kind = "proposal"}}
            = {events[i].ref : i \in {n \in DOMAIN events : events[n].kind = "proposal"}}
      BY <2>3, <2>5
    <2>7. UNCHANGED proposalIds
      BY DEF ToolAppend
    <2>8. QED
      BY <2>3, <2>4, <2>6, <2>7 DEF ProposalTrailAgrees
  <1>7. CASE told
    <2> HIDE DEF first, second
    <2>1. /\ Told(Append(evidence, e), Append(first, second))
          /\ AllTold(evidence, first) => AllTold(Append(evidence, e), Append(first, second))
      BY <1>1, <1>2, <1>3, <1>4, EventTellsOfLast
    <2>2. QED
      BY <1>1, <1>3, <1>4, <1>5, <1>6, <1>7, <2>1
  <1>8. CASE ~told
    <2> HIDE DEF first, second
    <2>1. Told(Append(evidence, e), first)
      BY <1>1, <1>3, <1>4, ItemIsUntold
    <2>2. QED
      BY <1>1, <1>3, <1>5, <1>6, <1>8, <2>1
  <1>9. QED
    BY <1>7, <1>8

-------------------------------------------------------------------------------
\* A non-empty set of positions has a last one.
LEMMA LargestExists ==
    ASSUME NEW n \in Nat, NEW S \in SUBSET (1..n), S # {}
    PROVE  \E i \in S : \A j \in S : j <= i
  <1> DEFINE T == {n - i : i \in S}
  <1>1. T \subseteq Nat /\ T # {}
    <2>1. \A i \in S : i \in Int /\ n - i \in Nat
      OBVIOUS
    <2>2. \E i \in S : n - i \in T
      OBVIOUS
    <2>3. QED
      BY <2>1, <2>2
  <1>2. PICK x \in T : \A y \in T : ~(<<y, x>> \in OpToRel(<, Nat))
    <2> HIDE DEF T
    <2>1. QED
      BY <1>1, WFMin, NatLessThanWellFounded
  <1>3. \A y \in T : ~(y < x)
    <2> HIDE DEF T
    <2>1. QED
      BY <1>1, <1>2 DEF OpToRel
  <1>4. PICK i \in S : x = n - i
    OBVIOUS
  <1>5. \A j \in S : j <= i
    BY <1>3, <1>4
  <1>6. QED
    BY <1>5

\* current[-1] of evidence_for is the last current item of the check.
LEMMA LatestIsLast ==
    ASSUME LedgerTypeOK, NEW c, CurrentEvidence(c) # {}
    PROVE  /\ LatestCurrent(c) \in CurrentEvidence(c)
           /\ \A j \in CurrentEvidence(c) : j <= LatestCurrent(c)
  <1>1. Len(evidence) \in Nat /\ CurrentEvidence(c) \in SUBSET (1..Len(evidence))
    BY DEF LedgerTypeOK, CurrentEvidence
  <1>2. \E i \in CurrentEvidence(c) : \A j \in CurrentEvidence(c) : j <= i
    BY <1>1, LargestExists
  <1>3. QED
    BY <1>2 DEF LatestCurrent

\* The loop over the required checks finds "passed" exactly when the last
\* current item of the check is a passing one.
LEMMA PassedMeansLastPassed ==
    ASSUME LedgerTypeOK, NEW c
    PROVE  CheckStatus(c) = "passed"
           <=> \E i \in DOMAIN evidence :
                 /\ evidence[i].passed
                 /\ evidence[i].check = c
                 /\ evidence[i].revision = revision
                 /\ \A j \in DOMAIN evidence :
                       j > i => ~(evidence[j].check = c /\ evidence[j].revision = revision)
  <1> DEFINE LastPassing(i) ==
               /\ evidence[i].passed
               /\ evidence[i].check = c
               /\ evidence[i].revision = revision
               /\ \A j \in DOMAIN evidence :
                     j > i => ~(evidence[j].check = c /\ evidence[j].revision = revision)
  <1>1. DOMAIN evidence = 1..Len(evidence) /\ Len(evidence) \in Nat
    BY DEF LedgerTypeOK
  <1>2. CASE CurrentEvidence(c) = {}
    <2>1. CheckStatus(c) # "passed"
      BY <1>2 DEF CheckStatus
    <2>2. \A i \in DOMAIN evidence : ~LastPassing(i)
      BY <1>2 DEF CurrentEvidence
    <2>3. QED
      BY <2>1, <2>2
  <1>3. CASE CurrentEvidence(c) # {}
    <2>1. /\ LatestCurrent(c) \in CurrentEvidence(c)
          /\ \A j \in CurrentEvidence(c) : j <= LatestCurrent(c)
      BY <1>3, LatestIsLast
    <2>2. CheckStatus(c) = "passed" <=> evidence[LatestCurrent(c)].passed
      BY <1>3 DEF CheckStatus
    <2>3. evidence[LatestCurrent(c)].passed => LastPassing(LatestCurrent(c))
      BY <1>1, <2>1 DEF CurrentEvidence
    <2>4. \A i \in DOMAIN evidence : LastPassing(i) => i = LatestCurrent(c)
      BY <1>1, <2>1 DEF CurrentEvidence
    <2>5. LatestCurrent(c) \in DOMAIN evidence
      BY <2>1 DEF CurrentEvidence
    <2> HIDE DEF LastPassing
    <2>6. CheckStatus(c) = "passed" <=> \E i \in DOMAIN evidence : LastPassing(i)
      <3>1. ASSUME NEW i \in DOMAIN evidence, LastPassing(i)
            PROVE  evidence[LatestCurrent(c)].passed
        BY <2>4, <3>1 DEF LastPassing
      <3>2. QED
        BY <2>2, <2>3, <2>5, <3>1
    <2>7. QED
      BY <2>6 DEF LastPassing
  <1>4. QED
    BY <1>2, <1>3

\* decide returns accept for exactly what is earned (decision.decide).
THEOREM AcceptanceIsEarned ==
    ASSUME LedgerTypeOK, NEW contract \in Contract, NEW findings \in SUBSET Finding
    PROVE  Decide(contract, findings).verdict = "accept" <=> Earned(contract, findings)
  <1> DEFINE Objects == \E f \in findings : \/ ~(f.refs \subseteq evidenceIds)
                                            \/ f.severity \in {"blocking", "escalation", "revision"}
             reasons == ReasonsOf("finding.revision", OfSeverity(findings, "revision"))
                          \cup CheckReasons(contract)
  <1>1. Decide(contract, findings).verdict = "accept"
        <=> /\ Dangling(findings) = {}
            /\ OfSeverity(findings, "blocking") = {}
            /\ ~contract.unresolved
            /\ OfSeverity(findings, "escalation") = {}
            /\ contract.required # {}
            /\ reasons = {}
    BY DEF Decide, Outcome
  <1>2. reasons = {} <=> /\ OfSeverity(findings, "revision") = {}
                         /\ \A c \in contract.required : CheckStatus(c) = "passed"
    BY DEF ReasonsOf, CheckReasons, Obstacles
  <1>3. Objects <=> \/ Dangling(findings) # {}
                    \/ OfSeverity(findings, "blocking") # {}
                    \/ OfSeverity(findings, "escalation") # {}
                    \/ OfSeverity(findings, "revision") # {}
    BY DEF Dangling, OfSeverity
  <1>4. ~Objects <=> \A f \in findings :
                        f.severity \in {"info", "warning"} /\ f.refs \subseteq evidenceIds
    BY DEF Finding, Severities
  <1>5. (\A c \in contract.required : CheckStatus(c) = "passed")
        <=> \A c \in contract.required :
              \E i \in DOMAIN evidence :
                 /\ evidence[i].passed
                 /\ evidence[i].check = c
                 /\ evidence[i].revision = revision
                 /\ \A j \in DOMAIN evidence :
                       j > i => ~(evidence[j].check = c /\ evidence[j].revision = revision)
    BY PassedMeansLastPassed
  <1> HIDE DEF Objects, reasons
  <1>6. QED
    BY <1>1, <1>2, <1>3, <1>4, <1>5 DEF Earned

-------------------------------------------------------------------------------
\* A check has one of four standings.
LEMMA FourStandings ==
    ASSUME NEW c
    PROVE  CheckStatus(c) \in {"missing", "stale", "failed", "passed"}
  BY DEF CheckStatus

\* What decide returns, whatever it is asked.
LEMMA DecisionType ==
    ASSUME LedgerTypeOK, NEW contract \in Contract, NEW findings \in SUBSET Finding
    PROVE  /\ Decide(contract, findings).verdict \in Verdicts
           /\ Decide(contract, findings).refs \subseteq EvidenceIds
  <1>1. \A S \in SUBSET findings : FindingRefs(S) \subseteq EvidenceIds
    BY DEF FindingRefs, Finding
  <1>2. CitedEvidence(contract) \subseteq EvidenceIds
    <2>1. \A c \in contract.required : CurrentEvidence(c) # {} =>
             evidence[LatestCurrent(c)].id \in EvidenceIds
      <3>1. \A i \in DOMAIN evidence : evidence[i].id \in EvidenceIds
        <4>1. \A i \in DOMAIN evidence : evidence[i] \in Evidence
          BY DEF LedgerTypeOK
        <4>2. QED
          BY <4>1 DEF Evidence
      <3>2. \A c : CurrentEvidence(c) # {} => LatestCurrent(c) \in DOMAIN evidence
        BY LatestIsLast DEF CurrentEvidence
      <3>3. QED
        BY <3>1, <3>2
    <2>2. QED
      BY <2>1 DEF CitedEvidence
  <1>3. \A severity : OfSeverity(findings, severity) \in SUBSET findings
    BY DEF OfSeverity
  <1>4. QED
    BY <1>1, <1>2, <1>3 DEF Decide, Outcome, Verdicts

\* A request for revision names every finding that asks for one and every check
\* that does not stand passed; nothing harder stands against the attempt.
LEMMA RevisionNamesAll ==
    ASSUME NEW contract, NEW findings, Decide(contract, findings).verdict = "revise"
    PROVE  /\ Decide(contract, findings).reasons
                 = ReasonsOf("finding.revision", OfSeverity(findings, "revision"))
                     \cup CheckReasons(contract)
           /\ contract.required # {} /\ ~contract.unresolved
           /\ Dangling(findings) = {}
           /\ OfSeverity(findings, "blocking") = {} /\ OfSeverity(findings, "escalation") = {}
  BY DEF Decide, Outcome

\* A reason of one of the three kinds is about a check that has that standing.
LEMMA UnnamedChecksPassed ==
    ASSUME NEW contract, NEW findings, Decide(contract, findings).verdict = "revise",
           NEW c \in contract.required,
           c \notin {reason[2] : reason \in {r \in Decide(contract, findings).reasons :
                                              r[1] \in {"missing", "stale", "failed"}}}
    PROVE  CheckStatus(c) = "passed"
  <1>1. SUFFICES ASSUME CheckStatus(c) # "passed" PROVE FALSE
    OBVIOUS
  <1>2. <<CheckStatus(c), c>> \in Decide(contract, findings).reasons
    BY <1>1, RevisionNamesAll DEF CheckReasons, Obstacles
  <1>3. CheckStatus(c) \in {"missing", "stale", "failed"}
    BY <1>1, FourStandings
  <1>4. QED
    BY <1>2, <1>3

LEMMA RevisionFindingsNamed ==
    ASSUME NEW contract, NEW findings, Decide(contract, findings).verdict = "revise",
           NEW f \in findings, f.severity = "revision"
    PROVE  f.id \in {reason[2] : reason \in {r \in Decide(contract, findings).reasons :
                                               r[1] \in {"finding.revision"}}}
  <1>1. <<"finding.revision", f.id>> \in Decide(contract, findings).reasons
    BY RevisionNamesAll DEF ReasonsOf, OfSeverity
  <1>2. QED
    BY <1>1

\* Whatever a decision cites is in the ledger.
LEMMA DecisionCites ==
    ASSUME LedgerTypeOK, EvidenceIdsAgree, NEW contract, NEW findings
    PROVE  Decide(contract, findings).refs \subseteq evidenceIds
  <1>1. Dangling(findings) = {} =>
           \A severity : FindingRefs(OfSeverity(findings, severity)) \subseteq evidenceIds
    BY DEF Dangling, FindingRefs, OfSeverity
  <1>2. CitedEvidence(contract) \subseteq evidenceIds
    <2>1. \A c : CurrentEvidence(c) # {} => evidence[LatestCurrent(c)].id \in evidenceIds
      BY LatestIsLast DEF CurrentEvidence, EvidenceIdsAgree
    <2>2. QED
      BY <2>1 DEF CitedEvidence
  <1>3. QED
    BY <1>1, <1>2 DEF Decide, Outcome

\* An acceptance cites the last current item of each required check.
LEMMA AcceptanceCites ==
    ASSUME NEW contract, NEW findings, Decide(contract, findings).verdict = "accept"
    PROVE  /\ Decide(contract, findings).refs = CitedEvidence(contract)
           /\ \A c \in contract.required : CheckStatus(c) = "passed"
  <1>1. /\ Decide(contract, findings).refs = CitedEvidence(contract)
        /\ CheckReasons(contract) = {}
    BY DEF Decide, Outcome
  <1>2. QED
    BY <1>1 DEF CheckReasons, Obstacles
===============================================================================
