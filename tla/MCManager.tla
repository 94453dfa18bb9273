------------------------------ MODULE MCManager ------------------------------
(* The bounds of the runs of Manager.                                         *)
EXTENDS Manager

\* One command or signal and one automation move in every mode; the blind goes out of
\* range, comes back and drops the link any number of times; Run shuts down at any time.
SafeBudget == [ops |-> 1, auto |-> 1, remote |-> 0, drops |-> TRUE, shutdown |-> TRUE]

\* A person with the remote, a command or a signal and an automation move.  What the run
\* shows ends with the cancellation.
ReliableBudget == [ops |-> 1, auto |-> 1, remote |-> 1, drops |-> FALSE, shutdown |-> FALSE]

\* One command.  Of the shutdown the run follows the cancellation of the goroutine.
LiveBudget == [ops |-> 1, auto |-> 0, remote |-> 0, drops |-> FALSE, shutdown |-> FALSE]
=============================================================================
