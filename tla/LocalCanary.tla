------------------------------- MODULE LocalCanary -------------------------------
(***************************************************************************)
(* execute_canary of phase6_local_canary_lifecycle.py.  The callbacks of   *)
(* its runtime are external, but for the proxy: each may return or raise,  *)
(* and one that raises may have done its work or not.                      *)
(***************************************************************************)
EXTENDS ModelProxy, Sequences

VARIABLE canary    \* next step, resources, what was noted, the observation

canaryVars == <<canary, proxyVars>>

\* What the steps acquire, in their order.
Resources == <<"daemon", "model", "server", "proxy">>

\* step: the step at hand; 0 is preflight, 1..4 acquire, then generation, the
\* release and the final check.  acquired: whose start returned.  held: what is
\* really there.  asked: whose stop was called, in order.
CanaryInit ==
    canary = [step |-> 0, phase |-> "start", acquired |-> {}, held |-> {}, asked |-> <<>>,
              failed |-> FALSE, cleanupFailed |-> FALSE, observation |-> "none", status |-> "none"]

InPhase(phase) == canary.phase = phase

Preflight ==
    /\ InPhase("start") /\ canary.step = 0
    /\ canary' = [canary EXCEPT !.step = 1]
    /\ UNCHANGED proxyVars

Becomes(k) == IF Resources[k] = "proxy" THEN StartServing ELSE UNCHANGED proxyVars

AcquireResource(k) ==
    /\ InPhase("start") /\ canary.step = k
    /\ Becomes(k)
    /\ canary' = [canary EXCEPT !.acquired = @ \cup {k}, !.held = @ \cup {k}, !.step = k + 1,
                    !.phase = IF k = Len(Resources) THEN "generate" ELSE "start"]

\* What raises goes to the release, with or without the resource.
RaiseInStart ==
    /\ InPhase("start")
    /\ \/ UNCHANGED proxyVars /\ canary' = [canary EXCEPT !.phase = "release", !.failed = TRUE]
       \/ /\ canary.step > 0 /\ Becomes(canary.step)
          /\ canary' = [canary EXCEPT !.phase = "release", !.failed = TRUE, !.held = @ \cup {canary.step}]

Generate ==
    /\ InPhase("generate")
    /\ \/ \E seen \in {"accepted", "not accepted"} :
             canary' = [canary EXCEPT !.phase = "release", !.observation = seen]
       \/ canary' = [canary EXCEPT !.phase = "release", !.failed = TRUE]
    /\ UNCHANGED proxyVars

AskedSet == {canary.asked[n] : n \in DOMAIN canary.asked}

ToRelease == canary.acquired \ AskedSet

\* The resource whose turn it is: the last acquired.
Last(ks) == CHOOSE k \in ks : \A j \in ks : j <= k

Asks(k) == [canary EXCEPT !.asked = Append(@, k)]

Ceases(k) == IF Resources[k] = "proxy" THEN StopServing ELSE UNCHANGED proxyVars

Released(k) ==
    /\ Ceases(k)
    /\ canary' = [Asks(k) EXCEPT !.held = @ \ {k}]

\* Mutant: the first stop that fails ends the release.
NotReleasedAndLeft(k) ==
    /\ Ceases(k) \/ UNCHANGED proxyVars
    /\ canary' = [Asks(k) EXCEPT !.failed = TRUE, !.cleanupFailed = TRUE, !.phase = "final"]

\* The proxy raises after it ended the serving: a thread is retained.
NotReleased(k) ==
    /\ Ceases(k) \/ UNCHANGED proxyVars
    /\ canary' = [Asks(k) EXCEPT !.failed = TRUE, !.cleanupFailed = TRUE]

Release ==
    /\ InPhase("release")
    /\ IF ToRelease = {}
       THEN canary' = [canary EXCEPT !.phase = "final"] /\ UNCHANGED proxyVars
       ELSE Released(Last(ToRelease)) \/ NotReleased(Last(ToRelease))

FinalCheck ==
    /\ InPhase("final")
    /\ \E passed \in BOOLEAN :
          LET failed == canary.failed \/ ~passed
          IN  canary' = [canary EXCEPT !.phase = "ended", !.failed = failed,
                           !.cleanupFailed = @ \/ ~passed,
                           !.status = CASE failed -> "infrastructure_failed"
                                        [] ~failed /\ canary.observation = "accepted" -> "passed"
                                        [] OTHER -> "task_failed"]
    /\ UNCHANGED proxyVars

\* The upstream of the proxy is the server that the canary has started.
Listening == \E k \in canary.held : Resources[k] = "server"

CanaryNext ==
    \/ Preflight \/ RaiseInStart \/ Generate \/ Release \/ FinalCheck
    \/ \E k \in DOMAIN Resources : AcquireResource(k)
    \/ \E c \in Connections : Handler(c, Listening) /\ UNCHANGED canary

-------------------------------------------------------------------------------
\* A run that notes no failure has passed, or its task has failed.
NothingFailed == canary.status \in {"passed", "task_failed"}

ReleasedAtTheEnd ==
    /\ canary.phase = "ended" => AskedSet = canary.acquired
    /\ \A m, n \in DOMAIN canary.asked : m < n => canary.asked[m] > canary.asked[n]
    /\ NothingFailed => canary.held = {} /\ ~serving

\* However many stops fail, each resource whose start returned is asked to
\* stop, once, and after everything that was started on top of it; a canary
\* that notes no failure has left nothing behind it and takes no new
\* connection.  Its proxy goes on taking requests on the connections it has,
\* but none of them reaches a model any more: what it counts as accepted
\* from then on was already in hand.
CanaryReleases ==
    [][/\ ReleasedAtTheEnd'
       /\ NothingFailed => accepted' + Cardinality(InHand') <= accepted + Cardinality(InHand)
      ]_canaryVars
===============================================================================
