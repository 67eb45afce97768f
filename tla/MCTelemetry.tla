---------------------------- MODULE MCTelemetry ----------------------------
(* Telemetry for two ranks on one host. *)
EXTENDS Telemetry

MCHost == [r \in Rank |-> "host"]

\* Commands while rank 1 may leave; a run that ends with a command on its way; a slow client.
MCBounds ==
    {[commands |-> 2, frames |-> 1, lines |-> 0, sockets |-> FALSE, down |-> {1}],
     [commands |-> 1, frames |-> 1, lines |-> 0, sockets |-> FALSE, down |-> {0, 1}],
     [commands |-> 0, frames |-> 0, lines |-> 4, sockets |-> TRUE, down |-> {0}]}

\* Rank 1 sends one frame and its final one.
FinalBounds == {[commands |-> 0, frames |-> 1, lines |-> 0, sockets |-> FALSE, down |-> {1}]}
=============================================================================
