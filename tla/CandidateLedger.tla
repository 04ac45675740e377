----------------------------- MODULE CandidateLedger -----------------------------
(***************************************************************************)
(* candidate_events.jsonl and its validator, validate_candidate_events.py. *)
(* Lines are only added.  Each is written by somebody who has read the     *)
(* file at some time, and is merged below whatever came meanwhile, with or *)
(* without new numbers.  Nothing but the validator looks at the whole.     *)
(***************************************************************************)
EXTENDS Naturals, Sequences, FiniteSets

CONSTANTS
    Authors,     \* who add events
    CandidateIds,
    Instances,   \* benchmark rows with their source revision
    MaxLines     \* bound on the file

VARIABLES
    lines,   \* the file
    read,    \* per author: how many lines had been there when he read it
    basis    \* history: for each line, how many its author had read

ledgerFile == <<lines, read, basis>>

NotReading == MaxLines + 1

LedgerFileInit ==
    /\ lines = <<>>
    /\ read = [a \in Authors |-> NotReading]
    /\ basis = <<>>

Of(events, c) == {n \in DOMAIN events : events[n].candidate = c}

LastIn(numbers) == CHOOSE n \in numbers : \A m \in numbers : m <= n

\* latest: what a pass over the events leaves for a candidate.
Latest(events, c) == events[LastIn(Of(events, c))]

Known(events) == {events[n].candidate : n \in DOMAIN events}

Prefix(through) == SubSeq(lines, 1, through)

-------------------------------------------------------------------------------
(* The authors *)

ReadsFile(a) ==
    /\ read' = [read EXCEPT ![a] = Len(lines)]
    /\ read[a] = NotReading /\ Len(lines) < MaxLines
    /\ UNCHANGED <<lines, basis>>

NoEvent == <<"none", 0>>

\* Events are numbered by action: phase6-cal-reg-001, phase6-cal-review-001.
EventId(action, events) ==
    <<action, 1 + Cardinality({n \in DOMAIN events : events[n].action = action})>>

\* A registration, or a review of what the author takes for the latest event;
\* sound is whether its fields are, taken by themselves, what they should be.
\* Numbers are those of the copy, or of the file it is merged into.
Event(c, i, sound, copy, numbered) ==
    LET action == IF c \in Known(copy) THEN "reviewed" ELSE "registered" IN
    [candidate |-> c, action |-> action, instance |-> i, sound |-> sound,
     id |-> EventId(action, numbered), sequence |-> Len(numbered) + 1,
     supersedes |-> IF c \in Known(copy) THEN Latest(copy, c).id ELSE NoEvent]

AddsLine(a, c, i, sound, renumbered) ==
    /\ read[a] # NotReading /\ Len(lines) < MaxLines
    /\ LET copy == Prefix(read[a])
           event == Event(c, i, sound, copy, IF renumbered THEN lines ELSE copy)
       IN  lines' = Append(lines, event)
    /\ basis' = Append(basis, read[a])
    /\ read' = [read EXCEPT ![a] = NotReading]

\* What is added by somebody who has just read the file.
Grows(c, i) ==
    /\ Len(lines) < MaxLines
    /\ lines' = Append(lines, Event(c, i, TRUE, lines, lines))
    /\ basis' = Append(basis, Len(lines))
    /\ UNCHANGED read

AuthorNext ==
    \E a \in Authors :
        \/ ReadsFile(a)
        \/ \E c \in CandidateIds, i \in Instances, sound, renumbered \in BOOLEAN :
               AddsLine(a, c, i, sound, renumbered)

-------------------------------------------------------------------------------
(* load_and_validate *)

\* Mutant: a review may supersede any earlier event of its candidate.
Follows(events, n) ==
    LET before == Of(SubSeq(events, 1, n - 1), events[n].candidate) IN
    IF events[n].action = "registered"
      THEN before = {}
      ELSE \E m \in before : events[n].supersedes = events[m].id

\* A candidate is registered first and once, and each review supersedes its
\* latest event.
FollowsLatest(events, n) ==
    LET before == Of(SubSeq(events, 1, n - 1), events[n].candidate) IN
    IF events[n].action = "registered"
      THEN before = {}
      ELSE before # {} /\ events[n].supersedes = events[LastIn(before)].id

\* _validate_event: keys, types, digests and dates, reasons of the disposition,
\* and what an admission needs: rights, licence, replay and every review.
Sound(event) ==
    /\ event.sound
    /\ event.action \in {"registered", "reviewed"}
    /\ event.action = "registered" => event.supersedes = NoEvent
    /\ event.action = "reviewed" => event.supersedes # NoEvent

Valid(events) ==
    /\ events # <<>>
    /\ \A n \in DOMAIN events :
           /\ Sound(events[n]) /\ events[n].sequence = n
           /\ \A m \in 1..(n - 1) : events[m].id # events[n].id
           /\ FollowsLatest(events, n)

-------------------------------------------------------------------------------
\* In a ledger that the validator accepts nobody has spoken over another: the
\* author of each event had read all that the ledger says of the candidate, in
\* whatever order the lines were written and merged (load_and_validate).
ReviewsAreInformed ==
    Valid(lines) =>
        \A n \in DOMAIN lines : \A m \in 1..(n - 1) :
            lines[m].candidate = lines[n].candidate => m <= basis[n]
===============================================================================
