--------------------------- MODULE MCLedgerDecisions ---------------------------
(* A small instance of LedgerDecisions for TLC. *)
EXTENDS LedgerDecisions

MCContracts ==
    {[required |-> {"lint", "tests"}, unresolved |-> FALSE],
     [required |-> {"tests"}, unresolved |-> FALSE],
     [required |-> {"tests"}, unresolved |-> TRUE],
     [required |-> {}, unresolved |-> FALSE]}

\* One finding per severity, citing known or unknown evidence.
MCFindingSets ==
    LET finding(severity, refs) == [id |-> "f1", severity |-> severity, refs |-> refs]
        second(severity)        == [id |-> "f2", severity |-> severity, refs |-> {"e1"}]
    IN  {{}, {finding("info", {})}, {finding("warning", {"e1"})},
         {finding("revision", {}), second("info")},
         {finding("blocking", {}), second("escalation")},
         {finding("escalation", {}), second("revision")}}
===============================================================================
