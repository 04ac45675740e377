----------------------------- MODULE MCToolSession -----------------------------
(* A small instance of ToolSession for TLC. *)
EXTENDS ToolSession

\* Two threads on one session, or on a session each.
MCWirings == {w \in [Threads -> Sessions] : w["t1"] = "s1"}

Asked(action, checks, executable, within, place) ==
    [action |-> action, checks |-> checks, executable |-> executable,
     within |-> within, place |-> place]

\* Two commands of one id, and one command for each way to be denied or refused.
MCCommands ==
    {Asked("a1", <<"lint", "tests">>, "container_image", TRUE, "inside"),
     Asked("a1", <<"tests">>, "host_file", TRUE, "inside"),
     Asked("a2", <<"tests">>, "unlisted", FALSE, "outside")}

MCAuthorizationId == [a \in ActionIds |-> <<"authorization", a>>]

MCObservationId ==
    [pair \in ActionIds \X CheckIds |-> <<"observation", pair[1], pair[2]>>]

MCEvidenceIds ==
    {<<"authorization", a>> : a \in ActionIds}
    \cup {<<"observation", a, c>> : a \in ActionIds, c \in CheckIds}
===============================================================================
