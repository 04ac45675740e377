------------------------------- MODULE ModelProxy -------------------------------
(***************************************************************************)
(* LocalModelProxy of phase6_local_model_proxy.py: a thread per connection *)
(* that takes one request after another (HTTP/1.1), two counters behind a  *)
(* lock, and a stop that neither closes connections nor waits for threads. *)
(* A request is what the checks and the upstream make of it.               *)
(***************************************************************************)
EXTENDS Naturals, FiniteSets

CONSTANTS
    Connections,    \* the connections that clients may open
    MaxRequests     \* a bound: how many requests counted before the last comes

ASSUME ProxyAssumption == IsFiniteSet(Connections) /\ MaxRequests \in Nat

VARIABLES
    serving,    \* whether the server accepts connections
    handler,    \* per connection: where its thread is
    accepted,   \* the counters
    denied

proxyVars == <<serving, handler, accepted, denied>>

ProxyInit ==
    /\ serving = FALSE
    /\ handler = [c \in Connections |-> "absent"]
    /\ accepted = 0
    /\ denied = 0

Handles(c, from, to) == handler[c] = from /\ handler' = [handler EXCEPT ![c] = to]

\* What a client is told ends its request; the connection is kept or not.
RequestEnds(c, from) == Handles(c, from, "open") \/ Handles(c, from, "closed")

CountsNothing == UNCHANGED <<serving, accepted, denied>>

RecordDenied == denied' = denied + 1 /\ UNCHANGED <<serving, accepted>>

Connects(c) == serving /\ Handles(c, "absent", "open") /\ CountsNothing

\* It asks for no serving: a connection once made outlives the stop.
RequestComes(c) ==
    /\ accepted + denied < MaxRequests
    /\ Handles(c, "open", "checks")
    /\ CountsNothing

HangsUp(c) == Handles(c, "open", "closed") /\ CountsNothing

\* Path, token, method, length: in this order, each with its own status; or
\* nobody listens upstream.  It is counted before it is answered, and the
\* answer may be lost.
Deny(c) == RequestEnds(c, "checks") /\ RecordDenied

\* The body is read outside the try: a client that breaks off is not counted.
BodyLost(c) == Handles(c, "checks", "closed") /\ CountsNothing

Forward(c, listening) == listening /\ Handles(c, "checks", "upstream") /\ CountsNothing

UpstreamFails(c) == RequestEnds(c, "upstream") /\ RecordDenied

UpstreamAnswers(c) == Handles(c, "upstream", "answer") /\ CountsNothing

\* An answer beyond the bound is denied inside the try: a refusal that cannot
\* be sent is an OSError there, and is denied once more.
AnswerTooLarge(c) == Handles(c, "upstream", "refusing") /\ RecordDenied

Refused(c) == RequestEnds(c, "refusing") /\ (RecordDenied \/ CountsNothing)

AnswerLost(c) == RequestEnds(c, "answer") /\ RecordDenied

AnswerWritten(c) == Handles(c, "answer", "written") /\ CountsNothing

\* The client has its answer and the counter does not know it yet.
RecordAccepted(c) ==
    /\ RequestEnds(c, "written")
    /\ accepted' = accepted + 1
    /\ UNCHANGED <<serving, denied>>

\* listening: whether the upstream takes a connection.
Handler(c, listening) ==
    \/ Connects(c) \/ RequestComes(c) \/ HangsUp(c)
    \/ Deny(c) \/ BodyLost(c) \/ Forward(c, listening)
    \/ UpstreamFails(c) \/ UpstreamAnswers(c) \/ AnswerTooLarge(c) \/ Refused(c)
    \/ AnswerLost(c) \/ AnswerWritten(c) \/ RecordAccepted(c)

\* start: the server is bound, or the bind fails.  stop: no connection is
\* accepted any more; those that are open stay, with their threads.
StartServing == ~serving /\ serving' = TRUE /\ UNCHANGED <<handler, accepted, denied>>

StopServing == serving' = FALSE /\ UNCHANGED <<handler, accepted, denied>>

\* The connections whose request the upstream has, or has answered.
InHand == {c \in Connections : handler[c] \in {"upstream", "answer", "written"}}
===============================================================================
