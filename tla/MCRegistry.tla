----------------------------- MODULE MCRegistry -----------------------------
(* Small instances of Registry for TLC. *)
EXTENDS Registry

ThreeNames == 1 .. 3
=============================================================================
