------------------------------ MODULE CliExitProbe ------------------------------
(***************************************************************************)
(* main of run_cli_exit_probe.py: one --help of a temporary copy of the    *)
(* CLI, on a machine where nothing runs before and nothing is left after.  *)
(***************************************************************************)
EXTENDS LocalHost

VARIABLE probe    \* next step, what was noted, what was stopped, the verdict

\* runs: how often the command was run.  stoppedOthers: history.
ProbeInit ==
    probe = [step |-> "baseline", failed |-> FALSE, forced |-> FALSE, helped |-> FALSE,
             result |-> "none", stoppedOthers |-> FALSE]

ProbeAt(step) == probe.step = step

ProbeGoesOn(step) == probe' = [probe EXCEPT !.step = step]

ProbeFails(step) == probe' = [probe EXCEPT !.step = step, !.failed = TRUE]

\* PROCESS_NAMES of the probe has no llmster.
ProbeMatching == {p \in processes : p.name \in {"desktop", "service", "lms"}}

\* No result, no copy, no process, no listener, and the canonical CLI.
ProbeBaseline ==
    /\ ProbeAt("baseline")
    /\ \/ ProbeMatching = {} /\ ProbeGoesOn("help")
       \/ ProbeFails("clear")
    /\ UNCHANGED hostVars

\* The help ends with zero and some text, or not; the CLI may wake a service.
ProbeHelp ==
    /\ ProbeAt("help")
    /\ \E reply \in Replies :
          IF reply = "told" THEN probe' = [probe EXCEPT !.step = "clear", !.helped = TRUE]
                            ELSE ProbeFails("clear")
    /\ \/ UNCHANGED <<processes, births>>
       \/ Services = {} /\ Spawn("service", 0, "attempt")
    /\ UNCHANGED <<loaded, userSteps>>

\* The canonical CLI is looked at again, and the copy cannot be removed: that
\* raises out of the cleanup.
ProbeRaises ==
    /\ ProbeAt("clear")
    /\ ProbeGoesOn("ended")
    /\ UNCHANGED hostVars

\* taskkill of each with its tree, by pid; it succeeds if every command does.
TerminateTrees(found, stopped, success) ==
    LET trees == UNION {ProcessTree(RootOf(p)) : p \in found}
    IN  stopped \subseteq trees /\ success = (stopped = trees) /\ End(stopped)

\* The copy is removed; what is found is stopped, whoever started it.
ProbeClears ==
    /\ ProbeAt("clear")
    /\ \E stopped \in SUBSET processes, success \in BOOLEAN :
          /\ TerminateTrees(ProbeMatching, stopped, success)
          /\ probe' = [probe EXCEPT !.step = "look", !.forced = ProbeMatching # {},
                         !.failed = @ \/ ~success,
                         !.stoppedOthers = \E p \in stopped : p.by = "user"]
    /\ UNCHANGED userSteps

ProbeLooksAgain ==
    /\ ProbeAt("look")
    /\ IF ProbeMatching = {} THEN ProbeGoesOn("result") \/ ProbeFails("result") ELSE ProbeFails("result")
    /\ UNCHANGED hostVars

\* Written even where an earlier result made the probe refuse.
ProbeWritesResult ==
    /\ ProbeAt("result")
    /\ probe' = [probe EXCEPT !.step = "ended",
                   !.result = IF ~probe.failed /\ probe.helped /\ ~probe.forced THEN "accepted" ELSE "rejected"]
    /\ UNCHANGED hostVars

ProbeNext ==
    \/ ProbeBaseline \/ ProbeHelp \/ ProbeRaises \/ ProbeClears \/ ProbeLooksAgain
    \/ ProbeWritesResult

\* A probe that is accepted has run and has stopped nobody's process.
ProbeAcceptedAlone == probe.result = "accepted" => probe.helped /\ ~probe.stoppedOthers
===============================================================================
