----------------------------- MODULE WriteTask ------------------------------
(***************************************************************************)
(* One write task: the clipboard data that data_source_cb writes to the    *)
(* file descriptor of an application that pastes, through FdWrite, until   *)
(* all is written, the reader goes away, the write timeout is over, or a   *)
(* shutdown request and its extra time are.  Data is its length, and time  *)
(* passes in ticks; a timer that is due fires before the next tick.        *)
(***************************************************************************)
EXTENDS Naturals, FiniteSetsExt

CONSTANTS
    Size,      \* bytes of the data
    Capacity,  \* bytes the pipe holds
    Timeout,   \* settings.write_timeout
    Extra,     \* SHUTDOWN_EXTRA_WRITE_TIME
    MaxTime    \* bound: ticks of the clock, beyond every timer

ASSUME SizeAssumption == Size \in Nat /\ Capacity \in Nat \ {0}
ASSUME TimeAssumption == Timeout \in Nat \ {0} /\ Extra \in Nat \ {0}
ASSUME MaxTimeAssumption == MaxTime \in Nat /\ MaxTime > Timeout + Extra

VARIABLES
    now,         \* ticks since the task was spawned
    phase,       \* first or second select, or the WriteResult the task ended with
    offset,      \* position of the cursor in the data
    extraUntil,  \* end of the extra time
    piped,       \* bytes in the pipe
    received,    \* bytes the reader took out of it
    reader,      \* the reader's end is open
    token,       \* cancel_write_tasks_token is cancelled
    cancelledAt  \* history: when it was

vars == <<now, phase, offset, extraUntil, piped, received, reader, token, cancelledAt>>

(* The token may be cancelled while the Send event is dispatched. *)
Init ==
    /\ now = 0
    /\ phase = "writing"
    /\ offset = 0
    /\ extraUntil = 0
    /\ piped = 0
    /\ received = 0
    /\ reader = TRUE
    /\ token \in BOOLEAN
    /\ cancelledAt = 0

Active == phase \in {"writing", "extra"}

writeUntil == Timeout

TimeoutDue_Never == FALSE

(* sleep_until is a branch of the second select as well. *)
TimeoutDue_FirstOnly == phase = "writing" /\ now >= writeUntil

TimeoutDue == Active /\ now >= writeUntil

ExtraTimeDue == phase = "extra" /\ now >= extraUntil

-----------------------------------------------------------------------------
(* FdWrite::poll_write, on the rest of the data: what the pipe takes.      *)
Writable_Unbounded == Capacity - piped

Writable == Min({Capacity - piped, Size - offset})

(* write_all_buf: write again until nothing is left, and wait when the pipe*)
(* takes nothing.                                                          *)
Write ==
    /\ Active
    /\ reader
    /\ offset < Size
    /\ piped < Capacity
    /\ \E count \in 1 .. Writable :
          /\ offset' = offset + count
          /\ piped' = piped + count
    /\ UNCHANGED <<now, phase, extraUntil, received, reader, token, cancelledAt>>

WriteDone ==
    /\ Active
    /\ offset = Size
    /\ phase' = "ok"
    /\ UNCHANGED <<now, offset, extraUntil, piped, received, reader, token, cancelledAt>>

WriteFails ==
    /\ Active
    /\ ~reader
    /\ offset < Size
    /\ phase' = "ioError"
    /\ UNCHANGED <<now, offset, extraUntil, piped, received, reader, token, cancelledAt>>

TimesOut ==
    /\ TimeoutDue
    /\ phase' = "timeout"
    /\ UNCHANGED <<now, offset, extraUntil, piped, received, reader, token, cancelledAt>>

(* The first select ends with the token; the second goes on with the same  *)
(* cursor.                                                                 *)
ResumedAt_Start == 0

ResumedAt == offset

ExtraTimeEnd_AfterTimeout == writeUntil + Extra

ExtraTimeEnd == now + Extra

Cancelled ==
    /\ phase = "writing"
    /\ token
    /\ phase' = "extra"
    /\ extraUntil' = ExtraTimeEnd
    /\ offset' = ResumedAt
    /\ UNCHANGED <<now, piped, received, reader, token, cancelledAt>>

ExtraTimeOver ==
    /\ ExtraTimeDue
    /\ phase' = "cancelled"
    /\ UNCHANGED <<now, offset, extraUntil, piped, received, reader, token, cancelledAt>>

-----------------------------------------------------------------------------
(* The reader, the shutdown and the clock (external to the task). *)

Read ==
    /\ reader
    /\ piped > 0
    /\ \E count \in 1 .. piped :
          /\ piped' = piped - count
          /\ received' = received + count
    /\ UNCHANGED <<now, phase, offset, extraUntil, reader, token, cancelledAt>>

ReaderCloses ==
    /\ Active
    /\ reader
    /\ reader' = FALSE
    /\ UNCHANGED <<now, phase, offset, extraUntil, piped, received, token, cancelledAt>>

Cancel ==
    /\ Active
    /\ ~token
    /\ token' = TRUE
    /\ cancelledAt' = now
    /\ UNCHANGED <<now, phase, offset, extraUntil, piped, received, reader>>

Tick ==
    /\ Active
    /\ now < MaxTime
    /\ ~TimeoutDue
    /\ ~ExtraTimeDue
    /\ ~(phase = "writing" /\ token)
    /\ now' = now + 1
    /\ UNCHANGED <<phase, offset, extraUntil, piped, received, reader, token, cancelledAt>>

TaskStep == Write \/ WriteDone \/ WriteFails \/ TimesOut \/ Cancelled \/ ExtraTimeOver

Next == TaskStep \/ Read \/ ReaderCloses \/ Cancel \/ Tick

Spec == Init /\ [][Next]_vars /\ WF_vars(TaskStep) /\ WF_vars(Tick)

-----------------------------------------------------------------------------
(* Type invariant; the cursor never runs past the data.                    *)
TypeOK ==
    /\ now \in Nat
    /\ phase \in {"writing", "extra", "ok", "ioError", "timeout", "cancelled"}
    /\ offset \in 0 .. Size
    /\ extraUntil \in Nat
    /\ piped \in 0 .. Capacity
    /\ received \in Nat
    /\ reader \in BOOLEAN
    /\ token \in BOOLEAN
    /\ cancelledAt \in Nat

(* The reader gets every byte once: none is lost or written again when the *)
(* shutdown interrupts the write, and all of them if the task succeeds.    *)
WrittenOnce ==
    /\ received + piped = offset
    /\ phase = "ok" => received + piped = Size

(* A task is over by its write timeout, shutdown or not, and after a       *)
(* shutdown request by the end of the extra time as well: main waits that  *)
(* long for it and no longer.                                              *)
EndsInTime ==
    /\ now <= Timeout
    /\ token /\ Active => now <= cancelledAt + Extra

(* A reader that does not read does not keep a task alive. *)
TaskEnds == <>~Active

(* The task keeps the time TimedTask promises, on which Process builds. *)
Timed == INSTANCE TimedTask WITH
    phase     <- IF Active THEN phase ELSE "none",
    left      <- IF Active THEN writeUntil - now ELSE 0,
    extraLeft <- IF phase = "extra" THEN extraUntil - now ELSE 0

ImplementsTimedTask == Timed!Spec
=============================================================================
