---------------------------- MODULE CandidateEvidence ----------------------------
(***************************************************************************)
(* review_candidate_artifacts.py and capture_source_snapshots.py with the  *)
(* validator of the latter.  Each takes the first lines of the ledger and  *)
(* other files at its start and names the digests of some of these files   *)
(* at its end; in between the ledger grows and the files are replaced.     *)
(* Neither asks whether the ledger is valid.                               *)
(***************************************************************************)
EXTENDS CandidateLedger

CONSTANTS
    Images,       \* references and digests of container images
    MaxReplaced   \* bound: replay evidence replaced by another one

ASSUME EvidenceAssumption == Instances # {} /\ Images # {}

VARIABLES
    replay,     \* the replay evidence: per candidate its instance and image
    replaced,   \* how often it was replaced
    capture,    \* the capture at work
    captured,   \* the record of the last one
    reviews     \* the cases of review records

candidateVars == <<ledgerFile, replay, replaced, capture, captured, reviews>>

ReplayFiles == [CandidateIds -> [instance : Instances, image : Images]]

NoRecord == [through |-> 0, replay |-> <<>>, cases |-> <<>>]

Idle == [through |-> 0, todo |-> {}, from |-> <<>>, cases |-> <<>>]

CandidatesInit ==
    /\ LedgerFileInit
    /\ replay = CHOOSE f \in ReplayFiles : \A c, d \in CandidateIds : f[c] = f[d]
    /\ replaced = 0
    /\ capture = Idle
    /\ captured = NoRecord
    /\ reviews = {}

-------------------------------------------------------------------------------
(* build_record of the review *)

\* Mutant: each candidate is compared with those of the same review.
ComparedWithChosen(events, chosen) == Known(events) \cap chosen

\* The inventory is all that the prefix knows.
Inventory(events, chosen) == Known(events)

\* The manual pass of the lineage conflicts with any other candidate whose task
\* is the same, or nearly so: two candidates of one instance.
Conflicts(events, c, chosen) ==
    \E other \in Inventory(events, chosen) \ {c} :
        Latest(events, other).instance = Latest(events, c).instance

ReviewOf(through, chosen) ==
    LET events == Prefix(through) IN
    /\ through \in DOMAIN lines /\ chosen \subseteq Known(events)
    /\ \A c \in chosen : ~Conflicts(events, c, chosen)
    /\ reviews' = reviews \cup
          {[candidate |-> c, instance |-> Latest(events, c).instance] : c \in chosen}
    /\ UNCHANGED <<ledgerFile, replay, replaced, capture, captured>>

-------------------------------------------------------------------------------
(* build of the capture *)

CaptureStarts(through, chosen) ==
    /\ capture = Idle
    /\ through \in DOMAIN lines /\ chosen # {} /\ chosen \subseteq Known(Prefix(through))
    /\ capture' = [through |-> through, todo |-> chosen, from |-> replay, cases |-> <<>>]
    /\ UNCHANGED <<ledgerFile, replay, replaced, captured, reviews>>

\* One container after the other, each for up to five minutes.
ProbeImage(c) ==
    LET event == Latest(Prefix(capture.through), c) IN
    /\ c \in capture.todo
    /\ event.instance = capture.from[c].instance
    /\ capture' = [capture EXCEPT !.todo = @ \ {c},
          !.cases = Append(@, [candidate |-> c, instance |-> event.instance,
                               image |-> capture.from[c].image])]
    /\ UNCHANGED <<ledgerFile, replay, replaced, captured, reviews>>

\* An instance that is not the event's, or a container that fails: no record.
CaptureFails ==
    /\ capture # Idle
    /\ capture' = Idle
    /\ UNCHANGED <<ledgerFile, replay, replaced, captured, reviews>>

\* The digest of the ledger is of the lines that were read, and stands for their
\* number; that of the replay evidence is of what is there now.
CaptureEnds ==
    /\ capture.cases # <<>> /\ capture.todo = {}
    /\ captured' = [through |-> capture.through, replay |-> replay, cases |-> capture.cases]
    /\ capture' = Idle
    /\ UNCHANGED <<ledgerFile, replay, replaced, reviews>>

ReplaysAgain(c, i, image) ==
    /\ replaced < MaxReplaced
    /\ replaced' = replaced + 1
    /\ replay' = [replay EXCEPT ![c] = [instance |-> i, image |-> image]]
    /\ UNCHANGED <<ledgerFile, capture, captured, reviews>>

-------------------------------------------------------------------------------
(* validate of validate_source_snapshots.py *)

CaseAgrees(case) ==
    /\ case.instance = replay[case.candidate].instance
    /\ case.image = replay[case.candidate].image

CaptureValid(record) ==
    /\ record.through \in DOMAIN lines
    /\ record.replay = replay
    /\ \A n \in DOMAIN record.cases : CaseAgrees(record.cases[n])

-------------------------------------------------------------------------------
ReviewNext ==
    \/ AuthorNext /\ UNCHANGED <<replay, replaced, capture, captured, reviews>>
    \/ \E n \in 1..MaxLines, chosen \in SUBSET CandidateIds : ReviewOf(n, chosen)

\* A capture asks a line for its candidate and instance, and not what its author
\* had read.
CaptureNext ==
    \/ /\ \E c \in CandidateIds, i \in Instances : Grows(c, i)
       /\ UNCHANGED <<replay, replaced, capture, captured, reviews>>
    \/ \E n \in 1..MaxLines, chosen \in SUBSET CandidateIds : CaptureStarts(n, chosen)
    \/ \E c \in CandidateIds : ProbeImage(c)
    \/ CaptureFails \/ CaptureEnds
    \/ \E c \in CandidateIds, i \in Instances, image \in Images : ReplaysAgain(c, i, image)

-------------------------------------------------------------------------------
Renamed(c) ==
    \E m, n \in Of(lines, c) : lines[m].instance # lines[n].instance

\* What two reviews have passed is not the same task twice, whichever prefixes
\* of the ledger they looked at, unless an event has since made a candidate
\* another one; and a capture that its validator accepts tells of each candidate
\* what the ledger it names and the replay evidence it names say, although the
\* one was read and the other replaced at different times.
EvidenceStands ==
    /\ \A r, s \in reviews :
           r.candidate # s.candidate /\ r.instance = s.instance
               => Renamed(r.candidate) \/ Renamed(s.candidate)
    /\ CaptureValid(captured) =>
           \A n \in DOMAIN captured.cases : LET case == captured.cases[n] IN
               /\ case.image = captured.replay[case.candidate].image
               /\ case.instance = Latest(Prefix(captured.through), case.candidate).instance
===============================================================================
