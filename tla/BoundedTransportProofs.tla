------------------------ MODULE BoundedTransportProofs ------------------------
(***************************************************************************)
(* One run of the bounded transport, for any output limit, any chunk size  *)
(* and any amount of output.                                               *)
(***************************************************************************)
EXTENDS BoundedTransport, TLAPS

\* What the drain threads know: every byte read is kept, in hand or dropped,
\* and one is dropped only when the budget both threads share is used up.
Accounts ==
    /\ retained = held["stdout"] + held["stderr"]
    /\ retained <= MaxOutput
    /\ \A s \in Streams :
          /\ drain[s] # "adding" => chunk[s] = 0
          /\ taken[s] <= written[s]
          /\ held[s] + chunk[s] <= taken[s]
          /\ truncated[s] <=> held[s] + chunk[s] < taken[s]
          /\ truncated[s] => retained = MaxOutput

\* When a thread has ended there was no more to read, unless it says otherwise.
Ends ==
    \A s \in Streams :
        drain[s] = "ended" /\ ~streamErrors => taken[s] = written[s] /\ EndOfStream

\* The event has one of two reasons.
Reasons == exceeded => streamErrors \/ \E s \in Streams : truncated[s]

\* What the calling thread knows where it stands.
Progress ==
    /\ timedOut => late
    /\ aborted \/ pc \in {"abort", "stop"} => timedOut \/ exceeded
    /\ pc = "recheck" => child # "running" \/ timedOut \/ exceeded
    /\ pc \in {"join", "result", "done"} => child # "running"
    /\ pc = "result" \/ outcome = "result" => \A s \in Streams : drain[s] = "ended"
    /\ outcome = "result" => ~streamErrors
    /\ outcome # "running" => pc = "done"
    /\ child = "zero" => container = "ended_zero"

Inv == TypeOK /\ Accounts /\ Ends /\ Reasons /\ Progress

\* The steps of the drain threads, and those that leave what they know alone.
DrainStep(s) == ReadChunk(s) \/ ReadNothing(s) \/ ReadFails(s) \/ AddChunk(s)

Aside ==
    \/ Call \/ ContainerStarts \/ ContainerEnds \/ ChildExits \/ ChildGivesUp
    \/ PipesReleased \/ DeadlinePasses \/ UNCHANGED vars
    \/ \E s \in Streams : ChildWrites(s)

\* Every step is one or the other.
LEMMA StepIsOneOf ==
    ASSUME [Next]_vars
    PROVE  (\E s \in Streams : DrainStep(s)) \/ Aside
  BY DEF Next, Environment, Drain, DrainStep, Aside, Done

\* A step aside adds output only while the stream is open, and opens none.
LEMMA AsideKeepsStreams ==
    ASSUME TypeOK, Aside
    PROVE  /\ UNCHANGED drainVars
           /\ written' \in [Streams -> Nat]
           /\ \A s \in Streams : written[s] <= written'[s]
           /\ EndOfStream => EndOfStream' /\ written' = written
  <1>1. CASE \E s \in Streams : ChildWrites(s)
    <2>1. PICK s \in Streams : ChildWrites(s)
      BY <1>1
    <2>2. /\ written' = [written EXCEPT ![s] = written[s] + 1]
          /\ ~EndOfStream
          /\ UNCHANGED drainVars
      BY <2>1 DEF ChildWrites, EndOfStream
    <2>3. QED
      BY <2>2 DEF TypeOK, ChildTypeOK
  <1>2. CASE Call
    <2>1. /\ UNCHANGED <<drainVars, written, inherited>>
          /\ child # "running" => child' = child
      BY <1>2 DEF Call, Poll, CheckDeadline, WaitForOutput, Recheck, Abort, Stop, Join,
                  JoinTimesOut, GiveResult, childVars
    <2>2. QED
      BY <2>1 DEF TypeOK, ChildTypeOK, EndOfStream
  <1>3. CASE \/ ContainerStarts \/ ContainerEnds \/ ChildExits \/ ChildGivesUp
             \/ PipesReleased \/ DeadlinePasses \/ UNCHANGED vars
    <2>1. /\ UNCHANGED <<drainVars, written>>
          /\ child # "running" => child' = child
          /\ ~inherited => ~inherited'
      BY <1>3 DEF ContainerStarts, ContainerEnds, ChildExits, ChildGivesUp, PipesReleased,
                  DeadlinePasses, vars, childVars
    <2>2. QED
      BY <2>1 DEF TypeOK, ChildTypeOK, EndOfStream
  <1>4. QED
    BY <1>1, <1>2, <1>3 DEF Aside
\* The types, action by action.
LEMMA TypePreserved ==
    ASSUME Inv, [Next]_vars
    PROVE  TypeOK'
  <1> USE DEF Inv, TypeOK
  <1>1. ASSUME NEW s \in Streams, DrainStep(s)
        PROVE  CallTypeOK' /\ ChildTypeOK'
    BY <1>1 DEF DrainStep, ReadChunk, ReadNothing, ReadFails, AddChunk, CallTypeOK,
                ChildTypeOK, callVars, childVars
  <1>2. ASSUME NEW s \in Streams, ReadChunk(s)
        PROVE  DrainTypeOK'
    <2>1. InPipe(s) \in Nat
      BY DEF DrainTypeOK, ChildTypeOK, Accounts, InPipe
    <2>2. QED
      BY <1>2, <2>1, TransportAssumption DEF DrainTypeOK, ReadChunk
  <1>3. ASSUME NEW s \in Streams, ReadNothing(s) \/ ReadFails(s)
        PROVE  DrainTypeOK'
    <2>1. drain' \in [Streams -> {"reading", "adding", "ended"}]
      BY <1>3 DEF DrainTypeOK, ReadNothing, ReadFails
    <2>2. UNCHANGED <<chunk, taken, held, truncated, retained>>
      BY <1>3 DEF ReadNothing, ReadFails
    <2>3. exceeded' \in BOOLEAN /\ streamErrors' \in BOOLEAN
      BY <1>3 DEF DrainTypeOK, ReadNothing, ReadFails
    <2>4. QED
      BY <2>1, <2>2, <2>3 DEF DrainTypeOK
  <1>4. ASSUME NEW s \in Streams, AddChunk(s)
        PROVE  DrainTypeOK'
    <2>1. Budget(s) \in Nat
      BY TransportAssumption DEF DrainTypeOK, Accounts, Budget
    <2>2. drain' \in [Streams -> {"reading", "adding", "ended"}]
      BY <1>4 DEF DrainTypeOK, AddChunk
    <2>3. /\ chunk' \in [Streams -> Nat] /\ taken' \in [Streams -> Nat]
          /\ held' \in [Streams -> Nat] /\ retained' \in Nat
      BY <1>4, <2>1 DEF DrainTypeOK, AddChunk
    <2>4. /\ truncated' \in [Streams -> BOOLEAN]
          /\ exceeded' \in BOOLEAN /\ streamErrors' \in BOOLEAN
      BY <1>4 DEF DrainTypeOK, AddChunk
    <2>5. QED
      BY <2>2, <2>3, <2>4 DEF DrainTypeOK
  <1>5. CASE Aside
    <2>1. UNCHANGED drainVars /\ written' \in [Streams -> Nat]
      BY <1>5, AsideKeepsStreams
    <2>2. DrainTypeOK'
      BY <2>1 DEF DrainTypeOK, drainVars
    <2>3. CallTypeOK'
      BY <1>5
         DEF CallTypeOK, Aside, Call, Poll, CheckDeadline, WaitForOutput, Recheck, Abort,
             Stop, Join, JoinTimesOut, GiveResult, Goto, ContainerStarts, ContainerEnds,
             ChildExits, ChildGivesUp, PipesReleased, ChildWrites, DeadlinePasses, vars,
             callVars
    <2>4. ChildTypeOK'
      BY <1>5, <2>1
         DEF ChildTypeOK, Aside, Call, Poll, CheckDeadline, WaitForOutput, Recheck, Abort,
             Stop, Join, JoinTimesOut, GiveResult, ContainerStarts, ContainerEnds,
             ChildExits, ChildGivesUp, PipesReleased, ChildWrites, DeadlinePasses, vars,
             childVars
    <2>5. QED
      BY <2>2, <2>3, <2>4
  <1>6. QED
    BY <1>1, <1>2, <1>3, <1>4, <1>5, StepIsOneOf DEF DrainStep

\* The accounts: two threads add to one budget, each in one critical section.
LEMMA AccountsPreserved ==
    ASSUME Inv, [Next]_vars
    PROVE  Accounts'
  <1>1. ASSUME NEW s \in Streams, ReadChunk(s)
        PROVE  Accounts'
    BY <1>1, TransportAssumption
       DEF Inv, TypeOK, DrainTypeOK, ChildTypeOK, Accounts, ReadChunk, InPipe, childVars
  <1>2. ASSUME NEW s \in Streams, ReadNothing(s) \/ ReadFails(s)
        PROVE  Accounts'
    BY <1>2
       DEF Inv, TypeOK, DrainTypeOK, ChildTypeOK, Accounts, ReadNothing, ReadFails,
           childVars
  <1>3. ASSUME NEW s \in Streams, AddChunk(s)
        PROVE  Accounts'
    <2> DEFINE accepted == IF chunk[s] <= Budget(s) THEN chunk[s] ELSE Budget(s)
    <2>1. /\ accepted \in Nat
          /\ accepted <= chunk[s] /\ accepted <= Budget(s)
          /\ DoesNotFit(s) <=> accepted < chunk[s]
          /\ DoesNotFit(s) => accepted = Budget(s)
      BY TransportAssumption DEF Inv, TypeOK, DrainTypeOK, Accounts, DoesNotFit, Budget
    <2>2. /\ held' = [held EXCEPT ![s] = held[s] + accepted]
          /\ retained' = retained + accepted
          /\ truncated' = [truncated EXCEPT ![s] = truncated[s] \/ DoesNotFit(s)]
          /\ chunk' = [chunk EXCEPT ![s] = 0]
          /\ UNCHANGED <<taken, written>>
      BY <1>3 DEF AddChunk, childVars
    <2> HIDE DEF accepted
    <2>3. retained' = held'["stdout"] + held'["stderr"] /\ retained' <= MaxOutput
      BY <2>1, <2>2, TransportAssumption
         DEF Inv, TypeOK, DrainTypeOK, Accounts, Budget, Streams
    <2>4. ASSUME NEW t \in Streams
          PROVE  /\ chunk'[t] = IF t = s THEN 0 ELSE chunk[t]
                 /\ held'[t] = IF t = s THEN held[t] + accepted ELSE held[t]
                 /\ truncated'[t] <=> truncated[t] \/ (t = s /\ DoesNotFit(s))
      BY <2>1, <2>2 DEF Inv, TypeOK, DrainTypeOK
    <2>5. ASSUME NEW t \in Streams
          PROVE  /\ drain'[t] # "adding" => chunk'[t] = 0
                 /\ taken'[t] <= written'[t]
                 /\ held'[t] + chunk'[t] <= taken'[t]
      BY <1>3, <2>1, <2>2, <2>4
         DEF Inv, TypeOK, DrainTypeOK, ChildTypeOK, Accounts, AddChunk
    <2>6. ASSUME NEW t \in Streams
          PROVE  /\ truncated'[t] <=> held'[t] + chunk'[t] < taken'[t]
                 /\ truncated'[t] => retained' = MaxOutput
      BY <2>1, <2>2, <2>4, TransportAssumption
         DEF Inv, TypeOK, DrainTypeOK, ChildTypeOK, Accounts, Budget
    <2>7. QED
      BY <2>3, <2>5, <2>6 DEF Accounts
  <1>4. CASE Aside
    BY <1>4, AsideKeepsStreams
       DEF Inv, TypeOK, DrainTypeOK, ChildTypeOK, Accounts, drainVars
  <1>5. QED
    BY <1>1, <1>2, <1>3, <1>4, StepIsOneOf DEF DrainStep

\* A thread ends at the end of its stream, and a stream that has ended stays so.
LEMMA EndsPreserved ==
    ASSUME Inv, [Next]_vars
    PROVE  Ends'
  <1>1. ASSUME NEW s \in Streams, ReadChunk(s) \/ AddChunk(s)
        PROVE  Ends'
    BY <1>1
       DEF Inv, TypeOK, DrainTypeOK, ChildTypeOK, Ends, EndOfStream, ReadChunk, AddChunk,
           childVars
  <1>2. ASSUME NEW s \in Streams, ReadNothing(s)
        PROVE  Ends'
    BY <1>2
       DEF Inv, TypeOK, DrainTypeOK, ChildTypeOK, Ends, EndOfStream, ReadNothing, InPipe,
           childVars
  <1>3. ASSUME NEW s \in Streams, ReadFails(s)
        PROVE  Ends'
    BY <1>3 DEF Ends, ReadFails
  <1>4. CASE Aside
    BY <1>4, AsideKeepsStreams DEF Inv, Ends, drainVars
  <1>5. QED
    BY <1>1, <1>2, <1>3, <1>4, StepIsOneOf DEF DrainStep

\* The event is set with its reason, and a reason is never taken back.
LEMMA ReasonsPreserved ==
    ASSUME Inv, [Next]_vars
    PROVE  Reasons'
  <1>1. ASSUME NEW s \in Streams, ReadChunk(s) \/ ReadNothing(s) \/ ReadFails(s)
        PROVE  Reasons'
    BY <1>1 DEF Inv, Reasons, ReadChunk, ReadNothing, ReadFails
  <1>2. ASSUME NEW s \in Streams, AddChunk(s)
        PROVE  Reasons'
    BY <1>2 DEF Inv, TypeOK, DrainTypeOK, Reasons, AddChunk
  <1>3. CASE Aside
    BY <1>3, AsideKeepsStreams DEF Inv, Reasons, drainVars
  <1>4. QED
    BY <1>1, <1>2, <1>3, StepIsOneOf DEF DrainStep

\* The calling thread, its deadline and the child.
LEMMA ProgressPreserved ==
    ASSUME Inv, [Next]_vars
    PROVE  Progress'
  <1>1. ASSUME NEW s \in Streams, DrainStep(s)
        PROVE  Progress'
    <2>1. /\ UNCHANGED <<callVars, childVars>>
          /\ exceeded => exceeded'
          /\ \A t \in Streams : drain[t] = "ended" => drain'[t] = "ended"
      BY <1>1
         DEF Inv, TypeOK, DrainTypeOK, DrainStep, ReadChunk, ReadNothing, ReadFails,
             AddChunk
    <2>2. (\A t \in Streams : drain[t] = "ended") => UNCHANGED streamErrors
      BY <1>1 DEF DrainStep, ReadChunk, ReadNothing, ReadFails, AddChunk
    <2>3. QED
      BY <2>1, <2>2 DEF Inv, Progress, callVars, childVars
  <1>2. CASE Call
    <2>1. UNCHANGED drainVars
      BY <1>2, AsideKeepsStreams DEF Inv, Aside
    <2>2. CASE Poll \/ CheckDeadline \/ WaitForOutput \/ Recheck
      BY <2>1, <2>2
         DEF Inv, TypeOK, CallTypeOK, ChildTypeOK, Progress, Poll, CheckDeadline,
             WaitForOutput, Recheck, MustStop, Goto, drainVars, childVars
    <2>3. CASE Abort \/ Stop
      BY <2>1, <2>3
         DEF Inv, TypeOK, CallTypeOK, ChildTypeOK, Progress, Abort, Stop, Goto, drainVars
    <2>4. CASE Join \/ JoinTimesOut \/ GiveResult
      BY <2>1, <2>4
         DEF Inv, TypeOK, CallTypeOK, ChildTypeOK, Progress, Join, JoinTimesOut,
             GiveResult, Goto, drainVars, childVars
    <2>5. QED
      BY <1>2, <2>2, <2>3, <2>4 DEF Call
  <1>3. CASE Aside /\ ~Call
    <2>1. UNCHANGED drainVars
      BY <1>3, AsideKeepsStreams DEF Inv
    <2>2. QED
      BY <1>3, <2>1
         DEF Inv, TypeOK, CallTypeOK, ChildTypeOK, Progress, Aside, ContainerStarts,
             ContainerEnds, ChildExits, ChildGivesUp, PipesReleased, ChildWrites,
             DeadlinePasses, vars, callVars, drainVars, childVars
  <1>4. QED
    BY <1>1, <1>2, <1>3, StepIsOneOf

\* The inductive invariant of one run of the transport.
LEMMA InvHolds == Spec => []Inv
  <1>1. Init => Inv
    <2> SUFFICES ASSUME Init PROVE Inv
      OBVIOUS
    <2>1. CallTypeOK /\ ChildTypeOK
      BY DEF Init, CallTypeOK, ChildTypeOK, None
    <2>2. DrainTypeOK
      BY DEF Init, DrainTypeOK, None
    <2>3. Accounts
      BY TransportAssumption DEF Init, Accounts, None, Streams
    <2>4. Ends /\ Reasons /\ Progress
      BY DEF Init, Ends, Reasons, Progress
    <2>5. QED
      BY <2>1, <2>2, <2>3, <2>4 DEF Inv, TypeOK
  <1>2. Inv /\ [Next]_vars => Inv'
    BY TypePreserved, AccountsPreserved, EndsPreserved, ReasonsPreserved, ProgressPreserved
       DEF Inv
  <1>3. QED
    BY <1>1, <1>2, PTL DEF Spec

\* A result that passes is the whole output of a container that ended by itself
\* (docker_backend.py, _BoundedProcessTransport.run).
THEOREM PassedIsWhole == Spec => []PassedIsWholeAndUndisturbed
  <1>1. Inv => PassedIsWholeAndUndisturbed
    <2> SUFFICES ASSUME Inv, Passed
                 PROVE  /\ container = "ended_zero"
                        /\ ~aborted
                        /\ \A s \in Streams : held[s] = written[s]
      BY DEF PassedIsWholeAndUndisturbed
    <2>1. container = "ended_zero" /\ ~streamErrors
      BY DEF Inv, Progress, Passed
    <2>2. ~aborted
      BY <2>1 DEF Inv, Progress, Reasons, Passed
    <2>3. ASSUME NEW s \in Streams
          PROVE  held[s] = written[s]
      BY <2>1 DEF Inv, TypeOK, DrainTypeOK, ChildTypeOK, Accounts, Ends, Progress, Passed
    <2>4. QED
      BY <2>1, <2>2, <2>3
  <1>2. QED
    BY <1>1, InvHolds, PTL

\* The two drain threads keep to one budget, use all of it before they drop a
\* byte, and a result says of each stream whether any was dropped.
THEOREM WithinBudget == Spec => []OutputWithinBudget
  <1>1. Inv => OutputWithinBudget
    <2> SUFFICES ASSUME Inv PROVE OutputWithinBudget
      OBVIOUS
    <2>1. held["stdout"] + held["stderr"] <= MaxOutput
      BY DEF Inv, Accounts
    <2>2. \A s \in Streams :
             held[s] + chunk[s] < taken[s] => held["stdout"] + held["stderr"] = MaxOutput
      BY DEF Inv, Accounts
    <2>3. ASSUME outcome = "result", NEW s \in Streams
          PROVE  truncated[s] <=> held[s] < written[s]
      BY <2>3 DEF Inv, TypeOK, DrainTypeOK, ChildTypeOK, Accounts, Ends, Progress
    <2>4. QED
      BY <2>1, <2>2, <2>3 DEF OutputWithinBudget
  <1>2. QED
    BY <1>1, InvHolds, PTL

\* Output is collected only from a child that has ended.
THEOREM ChildHasEnded == Spec => []NoChildLeftRunning
  <1>1. Inv => NoChildLeftRunning
    BY DEF Inv, Progress, NoChildLeftRunning
  <1>2. QED
    BY <1>1, InvHolds, PTL
===============================================================================
