----------------------------- MODULE PipeReader -----------------------------
(***************************************************************************)
(* Reading the data of one selection: the pipes of SeatSelectionState's    *)
(* GotPipes, one per mime type, with read_pipe_to_data,                    *)
(* read_pipes_to_data and handle_pipes_selection_state.                    *)
(*                                                                         *)
(* The reads run concurrently inside one future, which is dropped whenever *)
(* a Wayland event arrives and created again afterwards; what was read so  *)
(* far and its accounting stay in the selection state.  Data is its size.  *)
(***************************************************************************)
EXTENDS Naturals, FiniteSets, FiniteSetsExt

CONSTANTS
    Pipes,          \* the pipes, one per mime type
    Limit,          \* selection_size_limit_bytes, a number or NoLimit
    NoLimit,        \* no limit is set
    MimeBytes,      \* bytes of the mime types, which count towards the limit
    BufSize,        \* size of the read buffer
    MaxWritten      \* bound: bytes an application writes to a pipe

ASSUME PipesAssumption == Pipes # {} /\ IsFiniteSet(Pipes)
ASSUME LimitAssumption == Limit \in (Nat \ {0}) \cup {NoLimit} /\ NoLimit \notin Nat
(* should_ignore_offer lets no offer through whose mime types exceed it. *)
ASSUME MimeBytesAssumption == MimeBytes \in Nat /\ (Limit # NoLimit => MimeBytes <= Limit)
ASSUME SizesAssumption     == BufSize \in Nat \ {0} /\ MaxWritten \in Nat

VARIABLES
    ignoreOnError,  \* settings.ignore_selection_event_on_error, chosen by the user
    polling,    \* the future of handle_pipes_selection_state exists
    dataRead,   \* MimeTypeAndPipe::data_read, bytes in its buffer
    outcome,    \* of a pipe: reading, ok or error (read_finished if not reading)
    bytesRead,  \* GotPipes::bytes_read
    numOk,      \* GotPipes::num_pipes_successfully_read
    numError,   \* GotPipes::num_pipes_got_error
    result,     \* of the selection: reading, data, sizeLimit, ioError or empty
    written,    \* application: bytes written to the pipe
    writer      \* application: its end of the pipe: open, closed or broken

selection == <<dataRead, outcome, bytesRead, numOk, numError>>
vars      == <<ignoreOnError, polling, selection, result, written, writer>>

Init ==
    /\ ignoreOnError \in BOOLEAN
    /\ polling = FALSE
    /\ dataRead = [p \in Pipes |-> 0]
    /\ outcome = [p \in Pipes |-> "reading"]
    /\ bytesRead = MimeBytes
    /\ numOk = 0
    /\ numError = 0
    /\ result = "reading"
    /\ written = [p \in Pipes |-> 0]
    /\ writer = [p \in Pipes |-> "open"]

Total(f, S) == MapThenSumSet(LAMBDA p : f[p], S)

-----------------------------------------------------------------------------
(* read_pipe_to_data starts with an empty buffer the first time and goes on*)
(* with the one it has after an interruption.                              *)
Resumed_Afresh(p) == IF outcome[p] = "reading" THEN 0 ELSE dataRead[p]

Resumed(p) == dataRead[p]

(* The select polls the futures: of all pipes that are not finished. *)
Poll ==
    /\ result = "reading"
    /\ ~polling
    /\ polling' = TRUE
    /\ dataRead' = [p \in Pipes |-> Resumed(p)]
    /\ UNCHANGED <<ignoreOnError, outcome, bytesRead, numOk, numError, result, written, writer>>

(* Wayland events arrived: the futures are dropped. *)
Interrupt ==
    /\ result = "reading"
    /\ polling
    /\ polling' = FALSE
    /\ UNCHANGED <<ignoreOnError, selection, result, written, writer>>

Reading(p) == result = "reading" /\ polling /\ outcome[p] = "reading"

(* The future returns: the selection is handled, or ignored and reset. *)
Finish(r) ==
    /\ result' = r
    /\ polling' = FALSE

Unread(p) == written[p] - dataRead[p]

(* The limit is checked before the bytes are added to the buffer. *)
ExceedsLimit_HeldOnly(p, size) == Limit # NoLimit /\ dataRead[p] + size > Limit

ExceedsLimit(p, size) == Limit # NoLimit /\ bytesRead + size > Limit

ReadSome(p) ==
    /\ Reading(p)
    /\ writer[p] # "broken"
    /\ Unread(p) > 0
    /\ LET size == Min({Unread(p), BufSize})
       IN /\ bytesRead' = bytesRead + size
          /\ IF ExceedsLimit(p, size)
             THEN /\ outcome' = [outcome EXCEPT ![p] = "ok"]
                  /\ Finish("sizeLimit")
                  /\ UNCHANGED dataRead
             ELSE /\ dataRead' = [dataRead EXCEPT ![p] = @ + size]
                  /\ UNCHANGED <<outcome, polling, result>>
    /\ UNCHANGED <<ignoreOnError, numOk, numError, written, writer>>

(* Read returns 0: all ends of the application are closed. *)
AtEnd_Drained(p) == Unread(p) = 0

AtEnd(p) == Unread(p) = 0 /\ writer[p] = "closed"

ReadEnd(p) ==
    /\ Reading(p)
    /\ AtEnd(p)
    /\ outcome' = [outcome EXCEPT ![p] = "ok"]
    /\ numOk' = numOk + 1
    /\ UNCHANGED <<ignoreOnError, polling, dataRead, bytesRead, numError, result, written, writer>>

(* What was read from a pipe that fails no longer counts. *)
BytesAfterError_Kept(p) == bytesRead

BytesAfterError_AllWritten(p) == bytesRead - written[p]

BytesAfterError(p) == bytesRead - dataRead[p]

ReadFails(p) ==
    /\ Reading(p)
    /\ writer[p] = "broken"
    /\ bytesRead' = BytesAfterError(p)
    /\ IF ignoreOnError
       THEN /\ outcome' = [outcome EXCEPT ![p] = "ok"]
            /\ Finish("ioError")
            /\ UNCHANGED numError
       ELSE /\ outcome' = [outcome EXCEPT ![p] = "error"]
            /\ numError' = numError + 1
            /\ UNCHANGED <<polling, result>>
    /\ UNCHANGED <<ignoreOnError, dataRead, numOk, written, writer>>

(* handle_pipes_selection_state after all pipes: the mime types that were  *)
(* read make up the selection, if there are any.                           *)
AllFinished_NoErrors == \A p \in Pipes : outcome[p] = "ok"

AllFinished == \A p \in Pipes : outcome[p] # "reading"

Complete ==
    /\ result = "reading"
    /\ polling
    /\ AllFinished
    /\ Finish(IF \E p \in Pipes : outcome[p] = "ok" THEN "data" ELSE "empty")
    /\ UNCHANGED <<ignoreOnError, selection, written, writer>>

-----------------------------------------------------------------------------
(* The application that made the selection (external). *)

AppWrites(p) ==
    /\ writer[p] = "open"
    /\ written[p] < MaxWritten
    /\ \E total \in written[p] + 1 .. MaxWritten : written' = [written EXCEPT ![p] = total]
    /\ UNCHANGED <<ignoreOnError, polling, selection, result, writer>>

AppEnds(p) ==
    /\ writer[p] = "open"
    /\ \E end \in {"closed", "broken"} : writer' = [writer EXCEPT ![p] = end]
    /\ UNCHANGED <<ignoreOnError, polling, selection, result, written>>

-----------------------------------------------------------------------------
Next == \/ Poll \/ Interrupt \/ Complete
        \/ \E p \in Pipes : \/ ReadSome(p) \/ ReadEnd(p) \/ ReadFails(p)
                            \/ result = "reading" /\ (AppWrites(p) \/ AppEnds(p))

Spec == Init /\ [][Next]_vars

ReadStep == Complete \/ \E p \in Pipes : ReadSome(p) \/ ReadEnd(p) \/ ReadFails(p)

(* The select prefers events, so the reads get a turn only when none has   *)
(* arrived; the compositor is not assumed to fall silent for good, only to *)
(* leave a gap again and again, and a gap is enough for a read.            *)
Fairness == WF_vars(Poll) /\ SF_vars(ReadStep)

FairSpec == Spec /\ Fairness

-----------------------------------------------------------------------------
(* Type invariant; the byte count never underflows and no more is held than *)
(* was written.                                                            *)
TypeOK ==
    /\ ignoreOnError \in BOOLEAN
    /\ polling \in BOOLEAN
    /\ dataRead \in [Pipes -> Nat]
    /\ outcome \in [Pipes -> {"reading", "ok", "error"}]
    /\ bytesRead \in Nat
    /\ numOk \in Nat
    /\ numError \in Nat
    /\ result \in {"reading", "data", "sizeLimit", "ioError", "empty"}
    /\ written \in [Pipes -> 0 .. MaxWritten]
    /\ writer \in [Pipes -> {"open", "closed", "broken"}]
    /\ \A p \in Pipes : dataRead[p] <= written[p]

Counting == {p \in Pipes : outcome[p] # "error"}

(* bytes_read is the mime types plus all that is held of pipes that did not*)
(* fail, and the counters count the pipes that ended, whatever errors and  *)
(* interruptions came in between.                                          *)
BytesAccounted ==
    result \in {"reading", "data", "empty"} =>
        /\ bytesRead = MimeBytes + Total(dataRead, Counting)
        /\ numOk = Cardinality({p \in Pipes : outcome[p] = "ok"})
        /\ numError = Cardinality({p \in Pipes : outcome[p] = "error"})

(* The limit limits the memory: mime types and data held never exceed it.  *)
HeldWithinLimit ==
    Limit # NoLimit => MimeBytes + Total(dataRead, Counting) <= Limit

(* A selection is ignored for its size only if it is too large: pipes that *)
(* failed and reads that were interrupted do not count against it.         *)
LimitNotSpurious ==
    result = "sizeLimit" => MimeBytes + Total(written, Counting) > Limit

(* The data the clipboard is set to is all an application wrote: for every *)
(* mime type but those whose pipe failed, if these are tolerated at all.   *)
DataComplete ==
    result = "data" =>
        /\ \A p \in Pipes : \/ outcome[p] = "ok" /\ writer[p] = "closed" /\ dataRead[p] = written[p]
                            \/ outcome[p] = "error" /\ ~ignoreOnError
        /\ \E p \in Pipes : outcome[p] = "ok"

(* Interruptions that never stop do not keep the reads from ending: once   *)
(* the application has ended its writes, well or not, the selection is set *)
(* or ignored.                                                             *)
ReadsEnd == (\A p \in Pipes : writer[p] # "open") ~> (result # "reading")
=============================================================================
