------------------------------- MODULE LocalHost -------------------------------
(***************************************************************************)
(* The machine as the Phase 6 runners see it: the snapshots, the ownership *)
(* and the forced stops of lm_studio_windows.py, the control replies that  *)
(* lm_studio_lifecycle.py parses out of a cli_transport.py call, and, as   *)
(* far as those depend on it, LM Studio itself and its user.               *)
(* A control command is one step; snapshot and reply are of that step.     *)
(***************************************************************************)
EXTENDS CliTransport, Naturals, FiniteSets

CONSTANTS
    ServicePids,    \* process ids of services, few: they are used again
    MaxBirths,      \* bound on the processes that ever start
    MaxUserSteps    \* bound on what the user does

\* Other processes have a process id of their own.
OtherPid(birth) == 100 + birth

ASSUME HostAssumption ==
    /\ IsFiniteSet(ServicePids) /\ ServicePids \subseteq Nat \ {0} /\ 1 \in ServicePids
    /\ MaxBirths \in Nat /\ MaxUserSteps \in Nat
    /\ \A n \in 1..MaxBirths : OtherPid(n) \notin ServicePids

VARIABLES
    processes,    \* those alive: pid, born (the creation time), name, parent, by whom
    births,       \* how many were ever born
    loaded,       \* the birth of the service that holds the model, or 0
    userSteps

hostVars == <<processes, births, loaded, userSteps>>

\* PROCESS_NAMES.  "service" is LM Studio.exe --run-as-service, "desktop" is
\* LM Studio.exe without it; a worker of the service has some other name.
RuntimeNames == {"llmster", "service", "desktop", "lms"}

ServiceRootNames == {"llmster", "service", "desktop"}

HostInit ==
    /\ \E running \in {{}, {"llmster"}, {"desktop"}} :
          /\ processes = {[pid |-> 1, born |-> 1, name |-> n, parent |-> 0, by |-> "user"] : n \in running}
          /\ births = Cardinality(running)
    /\ loaded = 0
    /\ userSteps = 0

Matching == {p \in processes : p.name \in RuntimeNames}

\* LM Studio runs one service at a time.
Services == {p \in processes : p.name \in ServiceRootNames}

NoServiceRoot == [pid |-> 0, born |-> 0]

RootOf(p) == [pid |-> p.pid, born |-> p.born]

\* The candidates of capture_owned_root: by the pid the vendor reported, or,
\* without one, by name.
RootCandidates(pid) ==
    IF pid # 0 THEN {p \in Services : p.pid = pid}
               ELSE {p \in processes : p.name \in {"llmster", "service"}}

RootAlive(r) == \E p \in processes : RootOf(p) = r

\* process_tree: the root and whatever names a member as its parent, by pid.
\* Nothing where it raises because the root is gone.
ProcessTree(r) ==
    LET closed == {S \in SUBSET processes :
                      /\ \E p \in S : RootOf(p) = r
                      /\ \A p \in S, q \in processes : q.parent = p.pid => q \in S}
    IN  {p \in processes : RootAlive(r) /\ \A S \in closed : p \in S}

Identities(ps) == {RootOf(p) : p \in ps}

Born(name, pid, parent, by) ==
    [pid |-> pid, born |-> births + 1, name |-> name, parent |-> parent, by |-> by]

PidsFor(name) ==
    IF name \in ServiceRootNames THEN ServicePids \ {p.pid : p \in processes} ELSE {OtherPid(births + 1)}

Spawn(name, parent, by) ==
    /\ births < MaxBirths
    /\ births' = births + 1
    /\ \E pid \in PidsFor(name) : processes' = processes \cup {Born(name, pid, parent, by)}

\* Processes end; the model goes with its service.
End(ps) ==
    /\ processes' = processes \ ps
    /\ loaded' = IF \E p \in ps : p.born = loaded THEN 0 ELSE loaded
    /\ UNCHANGED births

-------------------------------------------------------------------------------
(* Controls: what a command does to the machine, and what it answers.      *)

\* daemon up: a service that runs is reported, else one is started, which may
\* turn out to be the desktop's.
ServiceIsUp ==
    \/ Services # {} /\ UNCHANGED <<processes, births>>
    \/ Services = {} /\ \E name \in {"llmster", "service"} : Spawn(name, 0, "attempt")

\* What parse_daemon_up reads from the answer.
UpInfo(p) == [pid |-> p.pid, isDaemon |-> p.name = "llmster"]

NoInfo == [pid |-> 0, isDaemon |-> FALSE]

\* What parse_daemon_status reads: whose service runs, if any.
Status == IF Services = {} THEN NoInfo ELSE UpInfo(CHOOSE p \in Services : TRUE)

\* A daemon of its own, not the desktop's, under the pid of the root.
IsStandalone(info, root) == info.isDaemon /\ info.pid = root.pid

\* What parse_inventory reads from the answer to ps.
Models == IF loaded = 0 THEN {} ELSE {loaded}

\* daemon down: LM Studio's desktop refuses; llmster stops, or says it will.
\* Whatever it prints is only noted.
Down(reply) ==
    \/ /\ reply # "nonzero"
       /\ \E p \in Services :
             /\ p.name = "llmster"
             /\ End({q \in processes : q = p \/ q.parent = p.pid}) \/ UNCHANGED <<processes, births, loaded>>
    \/ reply \notin ExitsZero /\ UNCHANGED <<processes, births, loaded>>

\* unload IDENTIFIER succeeds where the model is.
Unload(reply) ==
    /\ \/ reply # "nonzero" /\ loaded # 0 /\ loaded' = 0
       \/ reply \notin ExitsZero /\ UNCHANGED loaded
    /\ UNCHANGED <<processes, births>>

\* stop_owned_process for each target: the incarnation with that pid and
\* creation time, or nothing.  Some of the commands may fail.
ForceStop(targets, stopped) ==
    /\ stopped \subseteq {p \in processes : RootOf(p) \in targets}
    /\ End(stopped)

-------------------------------------------------------------------------------
(* The user, and services that end by themselves.                          *)

UserStarts ==
    /\ Services = {}
    /\ \E name \in {"llmster", "desktop"} : Spawn(name, 0, "user")
    /\ UNCHANGED loaded

ServiceEnds == \E p \in Services : End({p})

User ==
    /\ userSteps < MaxUserSteps
    /\ userSteps' = userSteps + 1
    /\ UserStarts \/ ServiceEnds
===============================================================================
