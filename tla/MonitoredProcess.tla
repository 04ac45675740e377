---------------------------- MODULE MonitoredProcess ----------------------------
(***************************************************************************)
(* run_monitored_process of monitored_process.py around the load command:  *)
(* the loop samples sizes, polls, looks at the deadline and calls the      *)
(* monitor, while the child writes, loads the model and exits when it      *)
(* likes.  Time is not counted: a deadline may have passed at any look.    *)
(***************************************************************************)
EXTENDS LocalHost

VARIABLE supervised   \* the call: its next step, its child, and how it ended

Supervision0 == [step |-> "idle", child |-> 0, large |-> FALSE, exit |-> "none", outcome |-> "none"]

MonitorInit == supervised = Supervision0

SupervisedAt(step) == supervised.step = step

Supervise(step) == supervised' = [supervised EXCEPT !.step = step]

ChildProcess == {p \in processes : p.born = supervised.child /\ p.name = "lms"}

\* The output files are new, the child has started.
StartChild ==
    /\ SupervisedAt("idle")
    /\ Spawn("lms", 0, "attempt")
    /\ supervised' = [supervised EXCEPT !.step = "measure", !.child = births']
    /\ UNCHANGED <<loaded, userSteps>>

ChildDoesNotStart ==
    /\ SupervisedAt("idle")
    /\ supervised' = [supervised EXCEPT !.step = "ended", !.outcome = "error"]
    /\ UNCHANGED hostVars

GiveUpChild(outcome) == supervised' = [supervised EXCEPT !.step = "stop", !.outcome = outcome]

\* Both looks at the sizes in a round: only the sleep is between them.
Measure ==
    /\ SupervisedAt("measure")
    /\ IF supervised.large THEN GiveUpChild("output limit") ELSE Supervise("poll")
    /\ UNCHANGED hostVars

\* A child that has exited is not late, whatever the deadline.
Poll ==
    /\ SupervisedAt("poll")
    /\ IF supervised.exit # "none" THEN Supervise("collect")
       ELSE Supervise("monitor") \/ GiveUpChild("timeout")
    /\ UNCHANGED hostVars

MonitorCalled(passed) ==
    /\ SupervisedAt("monitor")
    /\ IF passed THEN Supervise("measure") ELSE GiveUpChild("check failed")

Collect ==
    /\ SupervisedAt("collect")
    /\ IF supervised.large THEN GiveUpChild("output limit") ELSE GiveUpChild(supervised.exit)
    /\ UNCHANGED hostVars

\* _stop_direct_child, and the removal of the output files in the finally of
\* the finally: a child that does not die in time raises through everything,
\* and a removal that fails takes the place of whatever was returned or raised.
StopChild ==
    /\ SupervisedAt("stop")
    /\ \E removed \in BOOLEAN :
       LET Told(outcome) == IF removed THEN outcome ELSE "not removed"
       IN  \/ /\ End(ChildProcess)
              /\ supervised' = [supervised EXCEPT !.step = "ended", !.large = FALSE,
                                  !.exit = IF ChildProcess = {} THEN @ ELSE "stopped",
                                  !.outcome = Told(@)]
           \/ /\ ChildProcess # {}
              /\ supervised' = [supervised EXCEPT !.step = "ended", !.outcome = Told("kill timeout")]
              /\ UNCHANGED <<processes, births, loaded>>
    /\ UNCHANGED userSteps

\* The child: it loads the model into the service, which starts a worker, it
\* writes more than the threshold, it exits.
ChildLoads ==
    /\ ChildProcess # {} /\ loaded = 0
    /\ \E s \in Services :
          /\ Spawn("worker", s.pid, "attempt")
          /\ loaded' = s.born
    /\ UNCHANGED <<supervised, userSteps>>

ChildWrites ==
    /\ ChildProcess # {} /\ ~supervised.large
    /\ supervised' = [supervised EXCEPT !.large = TRUE]
    /\ UNCHANGED hostVars

ChildExits(code) ==
    /\ ChildProcess # {}
    /\ code = "zero" => loaded # 0
    /\ End(ChildProcess)
    /\ supervised' = [supervised EXCEPT !.exit = code]
    /\ UNCHANGED userSteps

Child == ChildLoads \/ ChildWrites \/ \E code \in {"zero", "nonzero"} : ChildExits(code)

\* Every step of the loop but the call of the monitor, which is the caller's.
Loop == StartChild \/ ChildDoesNotStart \/ Measure \/ Poll \/ Collect \/ StopChild
===============================================================================
