------------------------------- MODULE LoadHealth -------------------------------
(***************************************************************************)
(* run_local_model_load_health.py: several invocations of the runner, the  *)
(* claim that lets one of them attempt, and the attempt with its cleanup.  *)
(* The result record is what is decided into it: a set of facts, whether   *)
(* anything was noted as a failure, and the verdict.                       *)
(***************************************************************************)
EXTENDS MonitoredProcess

CONSTANTS
    Invokers,   \* invocations of the runner
    Samples     \* how many samples follow the load

ASSUME LoadHealthAssumption == Samples \in Nat \ {0}

VARIABLES
    invoker,    \* per invocation: its next step
    disk,       \* cache directory, claim with its writer, result, temporary files
    attempt     \* the attempt: its next step and what AttemptState holds

loadHealthVars == <<supervised, invoker, disk, attempt>>

\* facts: what is known to have gone right.  failed: some label was noted.
\* loadedIn, unloadedFrom: history, the services the model was in.
\* stoppedOthers: history, whether a process of the user was forced to stop.
NewAttempt == [step |-> "none", root |-> NoServiceRoot, info |-> NoInfo, owned |-> {},
               taken |-> 0, loadStarted |-> FALSE, facts |-> {}, failed |-> FALSE,
               loadedIn |-> 0, unloadedFrom |-> 0, stoppedOthers |-> FALSE]

LoadHealthInit ==
    /\ MonitorInit
    /\ invoker = [i \in Invokers |-> "check"]
    /\ disk = [cache |-> FALSE, claim |-> "none", by |-> "nobody", result |-> "none", cli |-> FALSE]
    /\ attempt = NewAttempt

InvokerGoesTo(i, step) == invoker' = [invoker EXCEPT ![i] = step]

\* The authorization names the settings and the digests of the sources, and
\* neither a result nor a claim is there.  Who is blocked, here or below, has
\* left no more than the cache, or part of a claim, and may try again.
CheckClaim(i) ==
    /\ invoker[i] = "check"
    /\ disk.result = "none" /\ disk.claim = "none"
    /\ InvokerGoesTo(i, "cache")
    /\ UNCHANGED <<hostVars, supervised, disk, attempt>>

MakeCache(i) ==
    /\ invoker[i] = "cache"
    /\ IF disk.cache
       THEN InvokerGoesTo(i, "check") /\ UNCHANGED disk
       ELSE InvokerGoesTo(i, "claim") /\ disk' = [disk EXCEPT !.cache = TRUE]
    /\ UNCHANGED <<hostVars, supervised, attempt>>

\* Mutant: a claim that cannot be written does not stop the run.
WriteClaimOrGoOn(i) ==
    /\ invoker[i] = "claim"
    /\ InvokerGoesTo(i, "claimed")
    /\ \/ disk.claim = "none" /\ disk' = [disk EXCEPT !.claim = "whole", !.by = i]
       \/ UNCHANGED disk
    /\ UNCHANGED <<hostVars, supervised, attempt>>

\* open("x"), then the record; either may fail.
WriteClaim(i) ==
    /\ invoker[i] = "claim"
    /\ \/ /\ disk.claim = "none"
          /\ disk' = [disk EXCEPT !.claim = "whole", !.by = i]
          /\ InvokerGoesTo(i, "claimed")
       \/ /\ \/ UNCHANGED disk
             \/ disk.claim = "none" /\ disk' = [disk EXCEPT !.claim = "partial", !.by = i]
          /\ InvokerGoesTo(i, "check")
    /\ UNCHANGED <<hostVars, supervised, attempt>>

BeginAttempt(i) ==
    /\ invoker[i] = "claimed"
    /\ InvokerGoesTo(i, "attempt")
    /\ attempt' = [NewAttempt EXCEPT !.step = "baseline"]
    /\ UNCHANGED <<hostVars, supervised, disk>>

\* The process of an invocation dies and the machine stays as it is.  Before
\* the cache is made this is no different from being blocked; and the runner
\* may be started again after any death.
Crash(i) ==
    /\ invoker[i] \in {"claim", "claimed", "attempt"}
    /\ InvokerGoesTo(i, "check")
    /\ attempt' = IF invoker[i] = "attempt" THEN [NewAttempt EXCEPT !.step = "dead"] ELSE attempt
    /\ disk' = IF invoker[i] = "claim" /\ disk.claim = "none"
               THEN [disk EXCEPT !.claim = "partial", !.by = i] ELSE disk
    /\ UNCHANGED <<hostVars, supervised>>

Claiming(i) ==
    CheckClaim(i) \/ MakeCache(i) \/ WriteClaim(i) \/ BeginAttempt(i) \/ Crash(i)

-------------------------------------------------------------------------------
At(step) == attempt.step = step

Learns(fact) == IF attempt.failed THEN {} ELSE attempt.facts \cup {fact}

GoesOn(step, fact) == attempt' = [attempt EXCEPT !.step = step, !.facts = Learns(fact)]

\* Some label is noted: the verdict is settled, whatever else is known.
Fails(step) == attempt' = [attempt EXCEPT !.step = step, !.failed = TRUE, !.facts = {}, !.taken = 0]

Gates == {"baseline", "stage", "capture", "standalone", "load", "inventory", "samples"}

\* A gate that refuses, a measurement or a control that fails.
GateFails ==
    /\ attempt.step \in Gates
    /\ ~(At("load") /\ attempt.loadStarted)
    /\ Fails("cleanup")
    /\ \/ UNCHANGED disk
       \/ At("stage") /\ disk' = [disk EXCEPT !.cli = TRUE]
    /\ UNCHANGED <<hostVars, supervised, invoker>>

\* No leftover file, no runtime process, and every identity as frozen.
Baseline ==
    /\ At("baseline") /\ ~disk.cli /\ Matching = {}
    /\ attempt' = [attempt EXCEPT !.step = "stage"]
    /\ UNCHANGED <<hostVars, supervised, invoker, disk>>

StageCli ==
    /\ At("stage")
    /\ disk' = [disk EXCEPT !.cli = TRUE]
    /\ GoesOn("up", "staged")
    /\ UNCHANGED <<hostVars, supervised, invoker>>

\* The answer names the service; or nothing is known, whatever was done.
DaemonUp ==
    /\ At("up")
    /\ \E reply \in Replies :
       \/ /\ reply = "told" /\ ServiceIsUp
          /\ \E p \in processes' :
                /\ p.name \in ServiceRootNames
                /\ attempt' = [attempt EXCEPT !.step = "capture", !.info = UpInfo(p), !.facts = Learns("up")]
       \/ /\ reply # "told"
          /\ ServiceIsUp \/ UNCHANGED <<processes, births>>
          /\ Fails("capture")
    /\ UNCHANGED <<loaded, userSteps, supervised, invoker, disk>>

\* In the finally of the command: also after a failure, by name then.
CaptureRoot ==
    /\ At("capture")
    /\ Cardinality(RootCandidates(attempt.info.pid)) = 1
    /\ \E p \in RootCandidates(attempt.info.pid) :
          attempt' = [attempt EXCEPT !.root = RootOf(p), !.owned = @ \cup Identities(ProcessTree(RootOf(p))),
                        !.step = IF attempt.failed THEN "cleanup" ELSE "standalone"]
    /\ UNCHANGED <<hostVars, supervised, invoker, disk>>

\* require_standalone_start, and nothing is loaded yet.
RequireStandalone ==
    /\ At("standalone")
    /\ IsStandalone(attempt.info, attempt.root)
    /\ Models = {}
    /\ GoesOn("load", "standalone")
    /\ UNCHANGED <<hostVars, supervised, invoker, disk>>

BeginLoad ==
    /\ At("load") /\ ~attempt.loadStarted
    /\ attempt' = [attempt EXCEPT !.loadStarted = TRUE]
    /\ UNCHANGED <<hostVars, supervised, invoker, disk>>

Loading == At("load") /\ attempt.loadStarted

RunLoop == Loading /\ Loop /\ UNCHANGED <<invoker, disk, attempt>>

\* record_resource_sample needs the captured incarnation alive; what it owns
\* grows by its tree and by the load command, before any of its checks fails.
Sampled == [attempt EXCEPT !.owned = @ \cup Identities(ProcessTree(attempt.root) \cup ChildProcess)]

MonitorLoad ==
    /\ Loading
    /\ \/ /\ \E passed \in BOOLEAN : MonitorCalled(passed)
          /\ RootAlive(attempt.root) /\ attempt' = Sampled
       \/ MonitorCalled(FALSE) /\ UNCHANGED attempt
    /\ UNCHANGED <<hostVars, invoker, disk>>

\* What the monitored process raises is noted, but for the child that did not
\* die in time: that goes through the cleanup as it is.
LoadReturns ==
    /\ Loading /\ SupervisedAt("ended")
    /\ IF supervised.outcome = "zero"
       THEN attempt' = [attempt EXCEPT !.step = "inventory", !.facts = Learns("load exit"), !.loadedIn = loaded]
       ELSE IF supervised.outcome = "kill timeout" THEN attempt' = [attempt EXCEPT !.step = "cleanup"]
       ELSE Fails("cleanup")
    /\ UNCHANGED <<hostVars, supervised, invoker, disk>>

\* Exactly the model, under the identifier, with its context length.
LoadedIdentity ==
    /\ At("inventory") /\ Cardinality(Models) = 1
    /\ GoesOn("samples", "identity")
    /\ UNCHANGED <<hostVars, supervised, invoker, disk>>

SampleAfterLoad ==
    /\ At("samples") /\ RootAlive(attempt.root)
    /\ LET last == attempt.taken + 1 = Samples
       IN  attempt' = [Sampled EXCEPT !.taken = @ + 1,
                         !.step = IF last THEN "cleanup" ELSE "samples",
                         !.facts = IF last THEN Learns("samples") ELSE @]
    /\ UNCHANGED <<hostVars, supervised, invoker, disk>>

SampleFails ==
    /\ At("samples") /\ RootAlive(attempt.root)
    /\ attempt' = [Sampled EXCEPT !.step = "cleanup", !.failed = TRUE, !.facts = {}, !.taken = 0]
    /\ UNCHANGED <<hostVars, supervised, invoker, disk>>

-------------------------------------------------------------------------------
\* The finally: without a root, whoever is the one service of the machine.
FindRoot ==
    /\ At("cleanup")
    /\ attempt' = [attempt EXCEPT !.step = "alive",
                     !.root = IF attempt.root = NoServiceRoot /\ Cardinality(RootCandidates(0)) = 1
                              THEN RootOf(CHOOSE p \in RootCandidates(0) : TRUE) ELSE @]
    /\ UNCHANGED <<hostVars, supervised, invoker, disk>>

\* Nothing is asked of a root that is gone.
LookForRoot ==
    /\ At("alive")
    /\ attempt' = [attempt EXCEPT !.step =
                     CASE ~RootAlive(attempt.root) -> "final"
                       [] RootAlive(attempt.root) /\ ~disk.cli -> "wait"
                       [] OTHER -> IF attempt.loadStarted THEN "unload" ELSE "remaining"]
    /\ UNCHANGED <<hostVars, supervised, invoker, disk>>

UnloadModel ==
    /\ At("unload")
    /\ \E reply \in Replies :
          /\ Unload(reply)
          /\ IF reply \in ExitsZero
             THEN attempt' = [attempt EXCEPT !.step = "remaining", !.facts = Learns("unloaded"),
                                !.unloadedFrom = loaded]
             ELSE Fails("remaining")
    /\ UNCHANGED <<userSteps, supervised, invoker, disk>>

\* The inventory, and whether this daemon may be asked to go.
RemainingModels ==
    /\ At("remaining")
    /\ LET step == IF attempt.info.isDaemon THEN "status" ELSE "wait"
       IN  \/ Models = {} /\ attempt.info.isDaemon /\ GoesOn(step, "empty")
           \/ Fails(step)
    /\ UNCHANGED <<hostVars, supervised, invoker, disk>>

\* observe_standalone_shutdown: the status before, by pid.
StatusBefore ==
    /\ At("status")
    /\ \/ /\ IsStandalone(Status, attempt.root)
          /\ attempt' = [attempt EXCEPT !.step = "down"]
       \/ Fails("wait")
    /\ UNCHANGED <<hostVars, supervised, invoker, disk>>

DownCommand ==
    /\ At("down")
    /\ \E reply \in Replies :
          /\ Down(reply)
          /\ CASE reply = "nonzero" -> Fails("poll")
               [] reply \in Raises -> Fails("wait")
               [] OTHER -> GoesOn("poll", "down")
    /\ UNCHANGED <<userSteps, supervised, invoker, disk>>

\* Polls until the status is not-running; the last one may come too early.
PollStatus ==
    /\ At("poll")
    /\ \/ Status = NoInfo /\ GoesOn("wait", "stopped")
       \/ Fails("wait")
    /\ UNCHANGED <<hostVars, supervised, invoker, disk>>

\* The ten seconds in which the root may still go.
WaitForRoot ==
    /\ At("wait")
    /\ attempt' = IF RootAlive(attempt.root)
                  THEN [attempt EXCEPT !.step = "force", !.failed = TRUE]
                  ELSE [attempt EXCEPT !.step = "final"]
    /\ UNCHANGED <<hostVars, supervised, invoker, disk>>

\* force_owned_processes: the tree as it is now and what was owned before.
ForceOwned ==
    /\ At("force")
    /\ LET owned == attempt.owned \cup Identities(ProcessTree(attempt.root))
       IN  \E stopped \in SUBSET {p \in processes : RootOf(p) \in owned} :
              /\ ForceStop(owned, stopped)
              /\ attempt' = [attempt EXCEPT !.step = "final", !.owned = owned,
                               !.stoppedOthers = @ \/ \E p \in stopped : p.by = "user"]
    /\ UNCHANGED <<userSteps, supervised, invoker, disk>>

\* A snapshot or a control that raises out of the cleanup.
CleanupFails ==
    /\ attempt.step \in {"cleanup", "alive", "wait", "force"}
    /\ Fails("final")
    /\ UNCHANGED <<hostVars, supervised, invoker, disk>>

FinalSnapshot ==
    /\ At("final")
    /\ IF Matching = {} THEN GoesOn("files", "absent") \/ Fails("files") ELSE Fails("files")
    /\ UNCHANGED <<hostVars, supervised, invoker, disk>>

\* Identities after, and the temporary files.  A removal that raises leaves
\* the attempt without a result.
FinalFiles ==
    /\ At("files")
    /\ \/ disk' = [disk EXCEPT !.cli = FALSE] /\ (GoesOn("result", "files") \/ Fails("result"))
       \/ UNCHANGED disk /\ Fails("raised")
    /\ UNCHANGED <<hostVars, supervised, invoker>>

\* Mutant: no failure was noted, so all went well.
NothingNoted == ~attempt.failed

Accepted ==
    /\ ~attempt.failed
    /\ attempt.facts = {"staged", "up", "standalone", "load exit", "identity", "samples", "unloaded",
                        "empty", "down", "stopped", "absent", "files"}

WriteResult(i) ==
    /\ invoker[i] = "attempt"
    /\ \/ /\ At("result")
          /\ disk' = [disk EXCEPT !.result = IF Accepted THEN "accepted" ELSE "rejected"]
       \/ At("raised") /\ UNCHANGED disk
    /\ attempt' = [attempt EXCEPT !.step = "done"]
    /\ InvokerGoesTo(i, "ended")
    /\ UNCHANGED <<hostVars, supervised>>

Attempt ==
    \/ GateFails \/ Baseline \/ StageCli \/ DaemonUp \/ CaptureRoot \/ RequireStandalone
    \/ BeginLoad \/ RunLoop \/ MonitorLoad \/ LoadReturns \/ LoadedIdentity \/ SampleAfterLoad
    \/ SampleFails \/ FindRoot \/ LookForRoot \/ UnloadModel \/ RemainingModels \/ StatusBefore
    \/ DownCommand \/ PollStatus \/ WaitForRoot \/ ForceOwned \/ CleanupFails \/ FinalSnapshot
    \/ FinalFiles

\* What the load command and the user do is of interest while an attempt is
\* under way, and no later than its last look at the machine.
UnderWay == attempt.step \notin {"none", "files", "result", "raised", "done", "dead"}

LoadHealthNext ==
    \/ \E i \in Invokers : Claiming(i) \/ WriteResult(i)
    \/ Attempt
    \/ UnderWay /\ Child /\ UNCHANGED <<invoker, disk, attempt>>

HostNext == LoadHealthNext \/ (UnderWay /\ User /\ UNCHANGED loadHealthVars)

HostSpec == HostInit /\ LoadHealthInit /\ [][HostNext]_<<hostVars, loadHealthVars>>

-------------------------------------------------------------------------------
\* Of all invocations, crashed ones included, at most one ever comes to the
\* machine, and its claim is on the disk by then: whoever finds the machine
\* touched finds out by whom, and nobody comes after.
ClaimedBeforeContact ==
    \A i \in Invokers :
        invoker[i] \in {"attempt", "ended"} =>
            disk.claim = "whole" /\ disk.by = i

\* An accepted result is about one life of one daemon: the captured
\* incarnation held the model, was asked to unload it, and is gone, with the
\* load command, which ended by itself, although daemons may have died and
\* come up again, under the same pid too, between any two looks.
AcceptedIsOneLife ==
    disk.result = "accepted" =>
        /\ attempt.root # NoServiceRoot /\ ~RootAlive(attempt.root)
        /\ attempt.loadedIn = attempt.root.born
        /\ attempt.unloadedFrom = attempt.root.born
        /\ supervised.exit = "zero" /\ ChildProcess = {}
        /\ ~attempt.stoppedOthers

\* "only the process tree started for this activation may be stopped"
\* (Progress_Notes/2026-08-23_phase6_local_model_load_health_decision.md): no
\* process of the user is ever forced to stop.
OnlyOursIsStopped == ~attempt.stoppedOthers
===============================================================================
