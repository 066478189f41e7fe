---------------------------- MODULE MCLifecycle -----------------------------
(* Small instances of Lifecycle for TLC. *)
EXTENDS Lifecycle

BothSignals == {"SIGINT", "SIGTERM"}

(* No tries (the default), two without a delay, endless ones with a delay. *)
EndingTries ==
    {[tries |-> 0, zeroDelay |-> FALSE], [tries |-> 2, zeroDelay |-> TRUE],
     [tries |-> Inf, zeroDelay |-> FALSE]}

EndlessTries == {[tries |-> Inf, zeroDelay |-> TRUE]}
=============================================================================
