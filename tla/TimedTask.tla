----------------------------- MODULE TimedTask ------------------------------
(***************************************************************************)
(* When a write task ends, whatever it writes and whoever reads: any time, *)
(* but not after its deadline, and once it has seen the shutdown not after *)
(* its extra time either.  WriteTask implements it with the data, and each *)
(* task of Process next to the others.                                     *)
(***************************************************************************)
EXTENDS Naturals

CONSTANTS
    Timeout,  \* settings.write_timeout, in ticks
    Extra     \* SHUTDOWN_EXTRA_WRITE_TIME, in ticks

VARIABLES
    phase,      \* none, or the select the task is in: writing or extra
    left,       \* ticks to the deadline
    extraLeft,  \* ticks to the end of the extra time
    token       \* cancel_write_tasks_token is cancelled

vars == <<phase, left, extraLeft, token>>

None == phase = "none" /\ left = 0 /\ extraLeft = 0

Fresh == phase = "writing" /\ left = Timeout /\ extraLeft = 0

Init == (None \/ Fresh) /\ token \in BOOLEAN

Start == None /\ Fresh' /\ UNCHANGED token

End == phase # "none" /\ None' /\ UNCHANGED token

Cancel == token' = TRUE /\ UNCHANGED <<phase, left, extraLeft>>

SeeCancel ==
    /\ phase = "writing"
    /\ token
    /\ phase' = "extra"
    /\ extraLeft' = Extra
    /\ UNCHANGED <<left, token>>

(* Time passes only if there is some left, and no select is late. *)
Tick ==
    /\ left > 0
    /\ left' = left - 1
    /\ \/ phase = "writing" /\ ~token /\ UNCHANGED extraLeft
       \/ phase = "extra" /\ extraLeft > 0 /\ extraLeft' = extraLeft - 1
    /\ UNCHANGED <<phase, token>>

Next == Start \/ End \/ Cancel \/ SeeCancel \/ Tick

Spec == Init /\ [][Next]_vars
=============================================================================
