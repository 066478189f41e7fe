----------------------------- MODULE MCProcess ------------------------------
(* A small instance of Process for TLC. *)
EXTENDS Process

BothSignals == {"SIGINT", "SIGTERM"}

(* No tries (the default), or one after a delay. *)
FewTries == {[tries |-> 0, zeroDelay |-> FALSE], [tries |-> 1, zeroDelay |-> FALSE]}
=============================================================================
