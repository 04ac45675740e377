--------------------------------- MODULE Phase6 ---------------------------------
(***************************************************************************)
(* What Phase 6 does on the user's machine: fetch the archive of a local   *)
(* generator and review it, probe its CLI, load the model once, run the    *)
(* canary, and spend the schedule of the minimum proof of concept; and the  *)
(* evidence about the candidates for its tasks.  Each is started by hand   *)
(* and on an occasion of its own, with several invocations of it and the   *)
(* user beside it.                                                         *)
(***************************************************************************)
EXTENDS ArchiveReview, LoadHealth, CliExitProbe, LocalCanary, MinimumPoc,
        CandidateEvidence, TLC

CONSTANT Occasions

ASSUME OccasionsAssumption ==
    Occasions \subseteq {"archive", "probe", "load", "canary", "schedule", "review", "capture"}

VARIABLE occasion    \* rigid

phaseVars == <<vars, hostVars, loadHealthVars, probe, canaryVars, pocVars,
               candidateVars, occasion>>

PhaseInit ==
    /\ occasion \in Occasions
    /\ Init /\ HostInit /\ LoadHealthInit /\ ProbeInit /\ ProxyInit /\ CanaryInit /\ PocInit
    /\ CandidatesInit
    /\ occasion \notin {"load", "probe"} => processes = {}

Archive == Next /\ UNCHANGED <<hostVars, loadHealthVars, probe, canaryVars, pocVars, candidateVars>>

Load == HostNext /\ UNCHANGED <<vars, probe, canaryVars, pocVars, candidateVars>>

Probe ==
    /\ ProbeNext \/ (~ProbeAt("ended") /\ User /\ UNCHANGED probe)
    /\ UNCHANGED <<vars, loadHealthVars, canaryVars, pocVars, candidateVars>>

Canary == CanaryNext /\ UNCHANGED <<vars, hostVars, loadHealthVars, probe, pocVars, candidateVars>>

Schedule == PocNext /\ UNCHANGED <<vars, hostVars, loadHealthVars, probe, canaryVars, candidateVars>>

Candidacy(Step) == Step /\ UNCHANGED <<vars, hostVars, loadHealthVars, probe, canaryVars, pocVars>>

PhaseNext ==
    /\ \/ occasion = "archive" /\ Archive
       \/ occasion = "load" /\ Load
       \/ occasion = "probe" /\ Probe
       \/ occasion = "canary" /\ Canary
       \/ occasion = "schedule" /\ Schedule
       \/ occasion = "review" /\ Candidacy(ReviewNext)
       \/ occasion = "capture" /\ Candidacy(CaptureNext)
    /\ UNCHANGED occasion

\* Invocations are told apart by nothing but their names, which the programs
\* may share: they meet in no file.
Alike == Permutations(Acquirers \cup Stagers \cup Invokers \cup Launches \cup Authors)

PhaseSpec == PhaseInit /\ [][PhaseNext]_phaseVars

OneTask == << <<"A", "D0">> >>

-------------------------------------------------------------------------------
\* A verdict of acceptance is about what the runner itself did and saw, of the
\* probe as of the load.
AcceptedOnItsOwn == AcceptedIsOneLife /\ ProbeAcceptedAlone

\* What may be done once is marked as done before it is begun, and no crash or
\* later invocation undoes the mark: the claim of the load, the record of the
\* schedule.
OneShotsAreSpentOnce == ClaimedBeforeContact /\ ScheduleIsSpentOnce
===============================================================================
