------------------------------- MODULE MinimumPoc -------------------------------
(***************************************************************************)
(* run_phase6_minimum_poc.py: the frozen schedule of tasks and conditions  *)
(* is to be spent once.  The record on disk is what keeps it from being    *)
(* spent again: it is looked for at the start and written before the first *)
(* model call, after every cell and at the end.  An invocation may die     *)
(* anywhere, and the user may start another one at any time.               *)
(***************************************************************************)
EXTENDS Naturals, Sequences

CONSTANTS
    Launches,  \* the invocations of the script
    Tasks      \* the condition_order of each task of the manifest

Orders == {<<"A", "D0">>, <<"D0", "A">>}

ASSUME MinimumPocAssumption ==
    /\ Launches # {}
    /\ Tasks \in Seq(Orders) /\ Tasks # <<>>

VARIABLES
    pocRun,    \* per invocation: where main is
    rows,      \* per invocation: record["runs"]
    calls,     \* per invocation: the cells for which the generator was called
    seen,      \* per invocation: who had called the generator when it looked
    records,   \* the run records stored as manifests: <<invocation, cell>>
    output     \* the evidence file

pocVars == <<pocRun, rows, calls, seen, records, output>>

\* Task and condition, in the order of the two loops of main.
Cells == 2 * Len(Tasks)

Scheduled(n) ==
    LET task == (n + 1) \div 2 IN [task |-> task, condition |-> Tasks[task][2 - (n % 2)]]

Row(n, status, kept) == [cell |-> Scheduled(n), status |-> status, record |-> kept]

Output(status, content) == [status |-> status, rows |-> content]

NoOutput == Output("absent", <<>>)

\* Opened for writing, so truncated, and not written to its end.
Broken == Output("broken", <<>>)

PocInit ==
    /\ pocRun = [i \in Launches |-> "idle"]
    /\ rows = [i \in Launches |-> <<>>]
    /\ calls = [i \in Launches |-> {}]
    /\ seen = [i \in Launches |-> {}]
    /\ records = {}
    /\ output = NoOutput

PocAt(i, step) == pocRun[i] = step

PocGoes(i, step) == pocRun' = [pocRun EXCEPT ![i] = step]

Cell(i) == Len(rows[i]) + 1

\* main: the output is looked for, and found.
Blocked(i) ==
    /\ PocAt(i, "idle")
    /\ output # NoOutput
    /\ PocGoes(i, "ended")
    /\ UNCHANGED <<rows, calls, seen, records, output>>

\* Not found: repository, manifest, tools and store are looked at next, and any
\* of them may end the invocation before it has written anything.
Looks(i) ==
    /\ PocAt(i, "idle")
    /\ output = NoOutput
    /\ seen' = [seen EXCEPT ![i] = {j \in Launches : calls[j] # {}}]
    /\ PocGoes(i, "ready")
    /\ UNCHANGED <<rows, calls, records, output>>

\* Mutant: the record is held back until there is a row to write.
OpensWithFirstRow(i) ==
    \/ /\ PocAt(i, "ready") /\ PocGoes(i, "cell") /\ UNCHANGED <<rows, calls, seen, records, output>>
    \/ /\ \/ PocAt(i, "row") /\ PocGoes(i, "writing row")
          \/ PocAt(i, "all") /\ PocGoes(i, "writing all")
       /\ output' = Broken
       /\ UNCHANGED <<rows, calls, seen, records>>

\* _write opens the file: what it held is gone.
Opens(i) ==
    /\ \/ PocAt(i, "ready") /\ PocGoes(i, "writing start")
       \/ PocAt(i, "row") /\ PocGoes(i, "writing row")
       \/ PocAt(i, "all") /\ PocGoes(i, "writing all")
    /\ output' = Broken
    /\ UNCHANGED <<rows, calls, seen, records>>

Writing(i) == pocRun[i] \in {"writing start", "writing row", "writing all"}

\* Two that write at once may leave a mixture.
Holds(i, content) ==
    \/ output' = content
    \/ (\E j \in Launches \ {i} : Writing(j)) /\ output' = Broken

Writes(i) ==
    /\ \/ /\ PocAt(i, "writing start") \/ (PocAt(i, "writing row") /\ Cell(i) <= Cells)
          /\ PocGoes(i, "cell")
          /\ Holds(i, Output("incomplete", rows[i]))
       \/ /\ PocAt(i, "writing row") /\ Cell(i) > Cells
          /\ PocGoes(i, "all")
          /\ Holds(i, Output("incomplete", rows[i]))
       \/ /\ PocAt(i, "writing all")
          /\ PocGoes(i, "ended")
          /\ Holds(i, Output("complete", rows[i]))
    /\ UNCHANGED <<rows, calls, seen, records>>

\* _run_condition: copy, contract, generator and verifier are made, and a
\* coordinator calls the generator, in condition D0 perhaps twice.
Calls(i) ==
    /\ PocAt(i, "cell")
    /\ Cell(i) \notin calls[i]
    /\ calls' = [calls EXCEPT ![i] = @ \cup {Cell(i)}]
    /\ UNCHANGED <<pocRun, rows, seen, records, output>>

Appended(i, row) ==
    /\ rows' = [rows EXCEPT ![i] = Append(@, row)]
    /\ PocGoes(i, "row")

\* The run record is stored before the row names its digest.
Stores(i) == records' = records \cup {<<i, Cell(i)>>}

\* curate_run on the record of the run: a failed verdict is a failure of the
\* infrastructure, whatever else was decided is a result.
EndsRecorded(i, status) ==
    /\ PocAt(i, "cell")
    /\ Cell(i) \in calls[i]
    /\ Stores(i)
    /\ Appended(i, Row(Cell(i), status, TRUE))
    /\ UNCHANGED <<calls, seen, output>>

\* A CoordinatorError without a record, before the model was called or after.
EndsUnrecorded(i) ==
    /\ PocAt(i, "cell")
    /\ Appended(i, Row(Cell(i), "infrastructure_failure", FALSE))
    /\ UNCHANGED <<calls, seen, records, output>>

\* Refused before the record, an exception of another class, a file that cannot
\* be written, or the end of the process: the file stays as it is.
Dies(i) ==
    /\ pocRun[i] \notin {"idle", "ended"}
    /\ PocGoes(i, "ended")
    /\ UNCHANGED <<rows, calls, seen, records, output>>

PocNext ==
    \E i \in Launches :
        \/ Blocked(i) \/ Looks(i) \/ Opens(i) \/ Writes(i) \/ Calls(i)
        \/ \E status \in {"completed", "infrastructure_failure"} : EndsRecorded(i, status)
        \/ EndsUnrecorded(i) \/ Dies(i)

-------------------------------------------------------------------------------
\* Whoever calls the model had looked for the output before anybody had called
\* it: the schedule is spent twice only by invocations that overlap from their
\* start, and never by one that follows a crash, at whatever point.  And what
\* the file shows is what one invocation has gone through, in the order of the
\* schedule, all of it if it says complete, each digest with its run record in
\* the store ("automatic rerun is blocked", _run_condition, main).
ScheduleIsSpentOnce ==
    /\ \A i \in Launches : calls[i] # {} => seen[i] = {}
    /\ output.status = "complete" => Len(output.rows) = Cells
    /\ \E i \in Launches :
           /\ Len(output.rows) <= Len(rows[i])
           /\ \A n \in DOMAIN output.rows :
                  /\ output.rows[n] = rows[i][n] /\ output.rows[n].cell = Scheduled(n)
                  /\ output.rows[n].record => <<i, n>> \in records
===============================================================================
