---------------------------- MODULE BoundedTransport ----------------------------
(***************************************************************************)
(* _BoundedProcessTransport.run of sheath/docker_backend.py: the thread    *)
(* that called it, the two threads that drain the child's output, and the  *)
(* child itself, a `docker run` in the foreground with its container.      *)
(*                                                                         *)
(* Output is counted, not spelled out.  A read of 65_536 bytes from a      *)
(* buffered pipe returns less only at the end of the stream, so a chunk is *)
(* ChunkSize or what is left.                                              *)
(***************************************************************************)
EXTENDS Naturals

CONSTANTS
    MaxOutput,    \* max_output_bytes, for both streams together
    ChunkSize,    \* 65_536
    MaxWritten    \* bound: what the child writes to one stream

ASSUME TransportAssumption ==
    /\ MaxOutput \in Nat
    /\ ChunkSize \in Nat \ {0}
    /\ MaxWritten \in Nat

Streams == {"stdout", "stderr"}

VARIABLES
    pc,             \* the next call of the calling thread
    late,           \* the deadline has passed
    timedOut,       \* timed_out
    aborted,        \* the abort command was run
    outcome,        \* what the caller got
    drain,          \* what each drain thread does next
    chunk,          \* what it has read and not yet added
    taken,          \* how much it has read in all
    held,           \* len(buffers[index])
    truncated,
    retained,
    exceeded,       \* the event output_exceeded
    streamErrors,   \* stream_errors is not empty
    child,          \* the docker CLI: "running" or its exit code's meaning
    container,
    written,        \* how much the child has written to each stream
    inherited       \* another process holds the write ends of the pipes

callVars == <<pc, late, timedOut, aborted, outcome>>

drainVars == <<drain, chunk, taken, held, truncated, retained, exceeded, streamErrors>>

childVars == <<child, container, written, inherited>>

vars == <<callVars, drainVars, childVars>>

None == [s \in Streams |-> 0]

\* The process has been started, and then the two threads.
Init ==
    /\ pc = "poll"
    /\ late = FALSE
    /\ timedOut = FALSE
    /\ aborted = FALSE
    /\ outcome = "running"
    /\ drain = [s \in Streams |-> "reading"]
    /\ chunk = None
    /\ taken = None
    /\ held = None
    /\ truncated = [s \in Streams |-> FALSE]
    /\ retained = 0
    /\ exceeded = FALSE
    /\ streamErrors = FALSE
    /\ child = "running"
    /\ container = "absent"
    /\ written = None
    /\ inherited \in BOOLEAN

-------------------------------------------------------------------------------
(* The child, its container, and whoever else holds the pipes *)

ContainerStarts ==
    /\ child = "running" /\ container = "absent"
    /\ container' = "running"
    /\ UNCHANGED <<callVars, drainVars, child, written, inherited>>

\* With --rm an ended container removes itself; its exit code is the CLI's.
ContainerEnds ==
    /\ container = "running"
    /\ container' \in {"ended_zero", "ended_other"}
    /\ UNCHANGED <<callVars, drainVars, child, written, inherited>>

ChildWrites(s) ==
    /\ child = "running" \/ inherited
    /\ written[s] < MaxWritten
    /\ written' = [written EXCEPT ![s] = @ + 1]
    /\ UNCHANGED <<callVars, drainVars, child, container, inherited>>

ChildExits ==
    /\ child = "running"
    /\ container \in {"ended_zero", "ended_other", "removed"}
    /\ child' = IF container = "ended_zero" THEN "zero" ELSE "other"
    /\ UNCHANGED <<callVars, drainVars, container, written, inherited>>

\* No image, no daemon, or the connection to it is lost: the CLI gives up
\* whatever its container does.
ChildGivesUp ==
    /\ child = "running"
    /\ child' = "other"
    /\ UNCHANGED <<callVars, drainVars, container, written, inherited>>

PipesReleased ==
    /\ inherited
    /\ inherited' = FALSE
    /\ UNCHANGED <<callVars, drainVars, child, container, written>>

-------------------------------------------------------------------------------
(* drain(stream, index) *)

InPipe(s) == written[s] - taken[s]

EndOfStream == child # "running" /\ ~inherited

ReadChunk(s) ==
    /\ drain[s] = "reading"
    /\ InPipe(s) >= ChunkSize \/ (EndOfStream /\ InPipe(s) > 0)
    /\ LET size == IF InPipe(s) >= ChunkSize THEN ChunkSize ELSE InPipe(s)
       IN  /\ chunk' = [chunk EXCEPT ![s] = size]
           /\ taken' = [taken EXCEPT ![s] = @ + size]
    /\ drain' = [drain EXCEPT ![s] = "adding"]
    /\ UNCHANGED <<callVars, childVars, held, truncated, retained, exceeded, streamErrors>>

ReadNothing(s) ==
    /\ drain[s] = "reading"
    /\ EndOfStream /\ InPipe(s) = 0
    /\ drain' = [drain EXCEPT ![s] = "ended"]
    /\ UNCHANGED <<callVars, childVars, chunk, taken, held, truncated, retained, exceeded,
                   streamErrors>>

ReadFails(s) ==
    /\ drain[s] = "reading"
    /\ drain' = [drain EXCEPT ![s] = "ended"]
    /\ streamErrors' = TRUE
    /\ exceeded' = TRUE
    /\ UNCHANGED <<callVars, childVars, chunk, taken, held, truncated, retained>>

\* Mutant: each stream has the whole budget.
BudgetOfStream(s) == MaxOutput - held[s]

Budget(s) == IF retained > MaxOutput THEN 0 ELSE MaxOutput - retained

DoesNotFit(s) == chunk[s] > Budget(s)

\* One critical section of the lock the two threads share.
AddChunk(s) ==
    LET accepted == IF chunk[s] <= Budget(s) THEN chunk[s] ELSE Budget(s)
    IN  /\ drain[s] = "adding"
        /\ held' = [held EXCEPT ![s] = @ + accepted]
        /\ retained' = retained + accepted
        /\ truncated' = [truncated EXCEPT ![s] = @ \/ DoesNotFit(s)]
        /\ exceeded' = (exceeded \/ DoesNotFit(s))
        /\ chunk' = [chunk EXCEPT ![s] = 0]
        /\ drain' = [drain EXCEPT ![s] = "reading"]
        /\ UNCHANGED <<callVars, childVars, taken, streamErrors>>

Drain(s) == ReadChunk(s) \/ ReadNothing(s) \/ AddChunk(s)

-------------------------------------------------------------------------------
(* The calling thread *)

Goto(label) ==
    /\ pc' = label
    /\ UNCHANGED <<late, timedOut, aborted, outcome>>

DeadlinePasses ==
    /\ ~late
    /\ late' = TRUE
    /\ UNCHANGED <<pc, timedOut, aborted, outcome, drainVars, childVars>>

\* while process.poll() is None
Poll ==
    /\ pc = "poll"
    /\ Goto(IF child = "running" THEN "deadline" ELSE "recheck")
    /\ UNCHANGED <<drainVars, childVars>>

CheckDeadline ==
    /\ pc = "deadline"
    /\ timedOut' = late
    /\ pc' = IF late THEN "recheck" ELSE "wait"
    /\ UNCHANGED <<late, aborted, outcome, drainVars, childVars>>

\* Mutant: the thread waits for the event alone, and looks at nothing else.
WaitForTheEvent ==
    /\ pc = "wait"
    /\ Goto(IF exceeded THEN "recheck" ELSE "wait")
    /\ UNCHANGED <<drainVars, childVars>>

\* output_exceeded.wait(...) returns when the event is set or time is up.
WaitForOutput ==
    /\ pc = "wait"
    /\ Goto(IF exceeded THEN "recheck" ELSE "poll")
    /\ UNCHANGED <<drainVars, childVars>>

\* Mutant: a child that writes too much is left to end by itself.
StoppedByDeadline == timedOut

MustStop == timedOut \/ exceeded

\* The child is polled once more: it may have ended since the loop was left.
Recheck ==
    /\ pc = "recheck"
    /\ Goto(IF child = "running" /\ MustStop THEN "abort" ELSE "join")
    /\ UNCHANGED <<drainVars, childVars>>

\* `docker rm --force`: it fails on a container that does not exist yet, may
\* fail otherwise, and its own time limit is 5 s; nobody asks how it went.
Abort ==
    /\ pc = "abort"
    /\ container' \in {container} \cup (IF container = "running" THEN {"removed"} ELSE {})
    /\ aborted' = TRUE
    /\ pc' = "stop"
    /\ UNCHANGED <<late, timedOut, outcome, drainVars, child, written, inherited>>

\* process.wait(timeout=5); a child that is still there is killed, and the
\* wait after that is over as soon as it is dead.
Stop ==
    /\ pc = "stop"
    /\ child' = IF child = "running" THEN "other" ELSE child
    /\ Goto("join")
    /\ UNCHANGED <<drainVars, container, written, inherited>>

Join ==
    /\ pc = "join"
    /\ \A s \in Streams : drain[s] = "ended"
    /\ Goto("result")
    /\ UNCHANGED <<drainVars, childVars>>

\* Both joins time out after 5 s and a thread is alive: the child is killed
\* if it still runs, and the call raises.
JoinTimesOut ==
    /\ pc = "join"
    /\ \E s \in Streams : drain[s] # "ended"
    /\ child' = IF child = "running" THEN "other" ELSE child
    /\ outcome' = "raised"
    /\ pc' = "done"
    /\ UNCHANGED <<late, timedOut, aborted, drainVars, container, written, inherited>>

\* Mutant: what the drain threads met is not looked at.
ResultRegardless ==
    /\ pc = "result"
    /\ outcome' = "result"
    /\ pc' = "done"
    /\ UNCHANGED <<late, timedOut, aborted, drainVars, childVars>>

GiveResult ==
    /\ pc = "result"
    /\ outcome' = IF streamErrors THEN "raised" ELSE "result"
    /\ pc' = "done"
    /\ UNCHANGED <<late, timedOut, aborted, drainVars, childVars>>

Call ==
    \/ Poll \/ CheckDeadline \/ WaitForOutput \/ Recheck \/ Abort \/ Stop
    \/ Join \/ JoinTimesOut \/ GiveResult

Environment ==
    \/ ContainerStarts \/ ContainerEnds \/ ChildExits \/ ChildGivesUp \/ PipesReleased
    \/ DeadlinePasses
    \/ \E s \in Streams : ChildWrites(s) \/ ReadFails(s)

Done == pc = "done" /\ UNCHANGED vars

Next == Call \/ (\E s \in Streams : Drain(s)) \/ Environment \/ Done

Spec == Init /\ [][Next]_vars

\* The calling thread is scheduled and time passes.  Nothing is assumed of the
\* child, of the container, or of the drain threads.
FairSpec == Spec /\ WF_vars(Call) /\ WF_vars(DeadlinePasses)

-------------------------------------------------------------------------------
CallTypeOK ==
    /\ pc \in {"poll", "deadline", "wait", "recheck", "abort", "stop", "join", "result",
               "done"}
    /\ late \in BOOLEAN /\ timedOut \in BOOLEAN /\ aborted \in BOOLEAN
    /\ outcome \in {"running", "result", "raised"}

DrainTypeOK ==
    /\ drain \in [Streams -> {"reading", "adding", "ended"}]
    /\ chunk \in [Streams -> Nat] /\ taken \in [Streams -> Nat] /\ held \in [Streams -> Nat]
    /\ truncated \in [Streams -> BOOLEAN]
    /\ retained \in Nat
    /\ exceeded \in BOOLEAN /\ streamErrors \in BOOLEAN

ChildTypeOK ==
    /\ child \in {"running", "zero", "other"}
    /\ container \in {"absent", "running", "ended_zero", "ended_other", "removed"}
    /\ written \in [Streams -> Nat]
    /\ inherited \in BOOLEAN

TypeOK == CallTypeOK /\ DrainTypeOK /\ ChildTypeOK

\* CliResult as Observation.passed reads it
Passed ==
    /\ outcome = "result"
    /\ ~timedOut /\ child = "zero"
    /\ \A s \in Streams : ~truncated[s]

\* A result that passes is the container's own, whole and undisturbed: the
\* container ended by itself with exit code zero, nobody was asked to remove
\* it, and every byte of both streams was kept.
PassedIsWholeAndUndisturbed ==
    Passed =>
        /\ container = "ended_zero"
        /\ ~aborted
        /\ \A s \in Streams : held[s] = written[s]

\* The two threads never keep more than the budget between them; a byte is
\* dropped only when the budget is used up; and a result says of each stream
\* whether any of it was dropped.
OutputWithinBudget ==
    /\ held["stdout"] + held["stderr"] <= MaxOutput
    /\ \A s \in Streams :
          held[s] + chunk[s] < taken[s] =>
              held["stdout"] + held["stderr"] = MaxOutput
    /\ outcome = "result" => \A s \in Streams : truncated[s] <=> held[s] < written[s]

\* What a stream holds is collected only from a child that has ended: the joins
\* never wait for a child that was told to stop, or should have been.
NoChildLeftRunning ==
    pc \in {"join", "result", "done"} => child # "running"

\* The call returns or raises whatever the child does.
Returns == <>(outcome # "running")
===============================================================================
