------------------------------ MODULE CliTransport ------------------------------
(***************************************************************************)
(* run_cli of cli_transport.py, as its callers tell its results apart: the *)
(* runners of LM Studio and the Authenticode adapter.                      *)
(***************************************************************************)

\* The command ended and printed no more than it may.  "told": exit zero and
\* what it should print; "garbled": exit zero and something else.
Returns == {"told", "garbled", "nonzero"}

\* CliTransportTimeout, when the command itself was killed and nothing that it
\* had started; any other CliTransportError: not started, or too much printed.
Raises == {"timeout", "failed"}

Replies == Returns \cup Raises

ExitsZero == {"told", "garbled"}
===============================================================================
