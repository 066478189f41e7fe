---------------------------- MODULE MCSelections ----------------------------
(* Small instances of Selections for TLC. *)
EXTENDS Selections

BothTypes == {"Regular", "Primary"}
RegularOnly == {"Regular"}
NoCopies  == {}
FirstCopy == {1}
SecondCopy == {2}
=============================================================================
