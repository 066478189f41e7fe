---------------------------- MODULE Persistence ----------------------------
(***************************************************************************)
(* What wl-clip-persist promises, without offers, pipes, roundtrips and    *)
(* seats that come and go: it learns what applications copy, and takes a   *)
(* copy over with the data of that copy.  It only takes over the last copy *)
(* it was told of, never one that was cleared or replaced by another since,*)
(* nor its own, and none twice on one connection.                          *)
(***************************************************************************)
EXTENDS Naturals, Sequences

CONSTANTS
    Key,     \* a seat and a selection type
    Copy,    \* what applications copy
    None     \* no copy, or none to take over

VARIABLES
    told,    \* the copy that is the selection, as far as the client was told
    taken    \* the copies the connection took over, in order

vars == <<told, taken>>

Init ==
    /\ told = [k \in Key |-> None]
    /\ taken = [k \in Key |-> <<>>]

(* The selection changed: to another copy, or to nothing to take over. *)
Learn(k, copy) ==
    /\ told' = [told EXCEPT ![k] = copy]
    /\ UNCHANGED taken

TakeOver(k) ==
    /\ told[k] # None
    /\ \A i \in 1 .. Len(taken[k]) : taken[k][i] # told[k]
    /\ taken' = [taken EXCEPT ![k] = Append(@, told[k])]
    /\ UNCHANGED told

(* The connection is lost: the next one starts with nothing. *)
Forget ==
    /\ told' = [k \in Key |-> None]
    /\ taken' = [k \in Key |-> <<>>]

Next == \/ Forget
        \/ \E k \in Key : \/ \E copy \in Copy \cup {None} : Learn(k, copy)
                          \/ TakeOver(k)

Spec == Init /\ [][Next]_vars
=============================================================================
