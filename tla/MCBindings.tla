----------------------------- MODULE MCBindings -----------------------------
(* Bindings for three nodes: a dummy, a lazy and an explicit one. *)
EXTENDS Bindings

MCMakes == [mt |-> <<"dummy", "lazy", "explicit">>, mp |-> <<"dummy", "explicit">>,
            results |-> <<"dummy", "seed", "seed">>]
MCCalls == [mt |-> <<0, 2, 1>>, mp |-> <<0, 2>>, results |-> <<0, 1, 1>>]

\* A seed, which is submitted and asked for its result, and an explicit node with it as parent.
LastUseMakes == [mt |-> <<"seed", "explicit">>]
LastUseCalls == [mt |-> <<2, 1>>]

\* Integers of either sign, one that needs more than 4 bytes, and floating-point numbers
\* below and above FLT_MIN with one that is NaN.
MCOffers == [I32 |-> {-1}, I64 |-> {-1, 2, 9}, F32 |-> {-2, 2, 3}]
=============================================================================
