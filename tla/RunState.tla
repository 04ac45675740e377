------------------------------- MODULE RunState -------------------------------
(***************************************************************************)
(* The workflow state of sheath/state.py.  RunStateMachine keeps the       *)
(* current state and its own list of transitions, and writes each of them  *)
(* to the ledger it shares with the rest of the run.                       *)
(***************************************************************************)
EXTENDS EvidenceLedger

VARIABLES
    state,        \* _state
    transitions   \* _transitions

machineVars == <<state, transitions>>

\* _ALLOWED
Allowed ==
    [s \in RunStates |->
        CASE s = "received"          -> {"contracted"}
          [] s = "contracted"        -> {"triaged"}
          [] s = "triaged"           -> {"proposed"}
          [] s = "proposed"          -> {"action_validation"}
          [] s = "action_validation" -> {"blocked", "executed"}
          [] s = "executed"          -> {"assessed"}
          [] s = "assessed"          -> {"revision_required", "blocked", "escalated", "verified"}
          [] s = "revision_required" -> {"proposed", "exported"}
          [] s \in {"blocked", "escalated", "verified"} -> {"exported"}
          [] s = "exported"          -> {}]

\* _DECISION_STATE, which records.py repeats as _TERMINAL_STATE
DecisionState ==
    [accept |-> "verified", revise |-> "revision_required",
     block |-> "blocked", escalate |-> "escalated"]

StateTransition ==
    [sequence : Nat, from : RunStates \cup {"none"}, to : RunStates]

\* A ledger and the machine created on it: the machine's constructor records
\* the entry into "received" as the ledger's second event.
MachineInit(initial) ==
    /\ revision = initial
    /\ evidence = <<>>
    /\ evidenceIds = {}
    /\ proposalIds = {}
    /\ events = <<[kind |-> "revision", revision |-> initial, ref |-> NoRef,
                   from |-> "none", status |-> "none"],
                  [kind |-> "state_transition", revision |-> initial, ref |-> NoRef,
                   from |-> "none", status |-> "received"]>>
    /\ state = "received"
    /\ transitions = <<[sequence |-> 1, from |-> "none", to |-> "received"]>>

\* Mutant: the sequence number is taken after the event was appended.
TransitionNumberedLate(to) ==
    /\ to \in Allowed[state]
    /\ RecordStateTransition(state, to)
    /\ state' = to
    /\ transitions' = Append(transitions, [sequence |-> Len(events'), from |-> state, to |-> to])

\* The event is recorded before the state moves, so a clock that raises
\* leaves the machine where it was.
Transition(to) ==
    /\ to \in Allowed[state]
    /\ RecordStateTransition(state, to)
    /\ state' = to
    /\ transitions' = Append(transitions, [sequence |-> Len(events), from |-> state, to |-> to])

ApplyDecision(decision) ==
    /\ state = "assessed"
    /\ Transition(DecisionState[decision.verdict])

-------------------------------------------------------------------------------
MachineTypeOK ==
    /\ state \in RunStates
    /\ transitions \in Seq(StateTransition)

\* The machine's own history and the ledger's are the same history: each
\* transition is the ledger event its sequence number names, the ledger has no
\* other, each one leaves the state the one before it entered, and the last
\* one entered the current state.
MachineTrailAgrees ==
    /\ transitions # <<>>
    /\ transitions[1].from = "none"
    /\ transitions[Len(transitions)].to = state
    /\ \A i \in 2..Len(transitions) :
          /\ transitions[i].from = transitions[i - 1].to
          /\ transitions[i].to \in Allowed[transitions[i].from]
    /\ {transitions[i].sequence + 1 : i \in DOMAIN transitions}
         = {n \in DOMAIN events : events[n].kind = "state_transition"}
    /\ \A i \in DOMAIN transitions :
          LET event == events[transitions[i].sequence + 1]
          IN  event.from = transitions[i].from /\ event.status = transitions[i].to
===============================================================================
