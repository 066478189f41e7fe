-------------------------- MODULE WriteTaskProofs ---------------------------
(***************************************************************************)
(* Theorems about WriteTask, for every size of the data and of the pipe    *)
(* and every timeout and extra time.                                       *)
(***************************************************************************)
EXTENDS WriteTask, TLAPS

(* What write_all_buf may write at once. *)
LEMMA WritableBounds ==
    ASSUME piped \in 0 .. Capacity, offset \in 0 .. Size, piped < Capacity, offset < Size
    PROVE  /\ Writable \in Nat
           /\ Writable <= Capacity - piped
           /\ Writable <= Size - offset
<1>1. Capacity - piped \in Nat /\ Size - offset \in Nat
  BY SizeAssumption
<1>2. \E x \in {Capacity - piped, Size - offset} :
         \A y \in {Capacity - piped, Size - offset} : x <= y
  BY <1>1
<1> QED
  BY <1>1, <1>2 DEF Writable, Min

(* Every byte is in the pipe or with the reader, and a task that succeeds  *)
(* has written them all.                                                   *)
Accounted == /\ received + piped = offset
             /\ phase = "ok" => offset = Size

(* The two timers against the clock.  Between the cancellation and the     *)
(* second select no time passes, so the extra time counts from the former. *)
OnTime == /\ now <= Timeout
          /\ token => cancelledAt <= now
          /\ phase = "writing" /\ token => now = cancelledAt
          /\ phase = "extra" => token /\ now <= extraUntil /\ extraUntil = cancelledAt + Extra

IInv == TypeOK /\ Accounted /\ OnTime

LEMMA InitIInv == Init => IInv
BY SizeAssumption, TimeAssumption DEF Init, IInv, TypeOK, Accounted, OnTime

LEMMA NextIInv == IInv /\ [Next]_vars => IInv'
<1> SUFFICES ASSUME IInv, [Next]_vars
             PROVE  IInv'
  OBVIOUS
<1> USE SizeAssumption, TimeAssumption DEF IInv, TypeOK, Accounted, OnTime
<1>1. CASE Write
  <2>1. PICK count \in 1 .. Writable : offset' = offset + count /\ piped' = piped + count
    BY <1>1 DEF Write
  <2>2. Writable \in Nat /\ Writable <= Capacity - piped /\ Writable <= Size - offset
    BY <1>1, WritableBounds DEF Write
  <2>3. offset' \in 0 .. Size /\ piped' \in 0 .. Capacity /\ received + piped' = offset'
    BY <2>1, <2>2
  <2> QED
    BY <1>1, <2>3 DEF Write, Active
<1>2. CASE WriteDone
  BY <1>2 DEF WriteDone
<1>3. CASE WriteFails
  BY <1>3 DEF WriteFails
<1>4. CASE TimesOut
  BY <1>4 DEF TimesOut
<1>5. CASE Cancelled
  BY <1>5 DEF Cancelled, ExtraTimeEnd, ResumedAt
<1>6. CASE ExtraTimeOver
  BY <1>6 DEF ExtraTimeOver
<1>7. CASE Read
  BY <1>7 DEF Read
<1>8. CASE ReaderCloses
  BY <1>8 DEF ReaderCloses
<1>9. CASE Cancel
  BY <1>9 DEF Cancel, Active
<1>10. CASE Tick
  BY <1>10 DEF Tick, Active, TimeoutDue, ExtraTimeDue, writeUntil
<1>11. CASE UNCHANGED vars
  BY <1>11 DEF vars
<1> QED
  BY <1>1, <1>2, <1>3, <1>4, <1>5, <1>6, <1>7, <1>8, <1>9, <1>10, <1>11 DEF Next, TaskStep

LEMMA AlwaysIInv == Spec => []IInv
BY InitIInv, NextIInv, PTL DEF Spec

(* The state of a write task stays well typed and the cursor within the    *)
(* data, whatever the pipe takes at once and the reader reads.             *)
THEOREM TypeCorrect == Spec => []TypeOK
BY AlwaysIInv, PTL DEF IInv

(* The reader gets every byte once, over the shutdown that interrupts the  *)
(* write: the cursor is what is in the pipe and what was read.             *)
THEOREM EveryByteOnce == Spec => []WrittenOnce
<1>1. IInv => WrittenOnce
  BY DEF IInv, Accounted, WrittenOnce
<1> QED
  BY <1>1, AlwaysIInv, PTL

(* A write task is over by its write timeout, and after a shutdown request *)
(* when the extra time is.                                                 *)
THEOREM OverInTime == Spec => []EndsInTime
<1>1. IInv => now <= Timeout
  BY DEF IInv, OnTime
<1>2. IInv => (token /\ Active => now <= cancelledAt + Extra)
  BY TimeAssumption DEF IInv, TypeOK, OnTime, Active
<1>3. IInv => EndsInTime
  BY <1>1, <1>2 DEF EndsInTime
<1> QED
  BY <1>3, AlwaysIInv, PTL

-----------------------------------------------------------------------------
(* The refinement: the phase that TimedTask sees is none once the task is  *)
(* over, and what is left of its timers is what the clock is short of them.*)

LEMMA TimedInit == Init => Timed!Init
BY TimeAssumption DEF Init, Active, writeUntil, Timed!Init, Timed!Fresh

(* A step that ends the task, with whatever result. *)
LEMMA TimedEnd ==
    ASSUME Active, phase' \in {"ok", "ioError", "timeout", "cancelled"}, UNCHANGED token
    PROVE  Timed!End
BY DEF Active, Timed!End, Timed!None

(* A step of the data alone. *)
LEMMA TimedStutter ==
    ASSUME UNCHANGED <<now, phase, extraUntil, token>>
    PROVE  UNCHANGED Timed!vars
BY DEF Active, writeUntil, Timed!vars

LEMMA TimedNext == IInv /\ [Next]_vars => [Timed!Next]_(Timed!vars)
<1> SUFFICES ASSUME IInv, [Next]_vars
             PROVE  Timed!Next \/ UNCHANGED Timed!vars
  OBVIOUS
<1>1. CASE Write
  BY <1>1, TimedStutter DEF Write
<1>2. CASE WriteDone
  BY <1>2, TimedEnd DEF WriteDone, Timed!Next
<1>3. CASE WriteFails
  BY <1>3, TimedEnd DEF WriteFails, Timed!Next
<1>4. CASE TimesOut
  BY <1>4, TimedEnd DEF TimesOut, TimeoutDue, Timed!Next
<1>5. CASE Cancelled
  <2>1. extraUntil' - now' = Extra
    BY <1>5, TimeAssumption DEF Cancelled, ExtraTimeEnd, IInv, TypeOK
  <2> QED
    BY <1>5, <2>1 DEF Cancelled, Active, writeUntil, Timed!Next, Timed!SeeCancel
<1>6. CASE ExtraTimeOver
  BY <1>6, TimedEnd DEF ExtraTimeOver, ExtraTimeDue, Active, Timed!Next
<1>7. CASE Read
  BY <1>7, TimedStutter DEF Read
<1>8. CASE ReaderCloses
  BY <1>8, TimedStutter DEF ReaderCloses
<1>9. CASE Cancel
  BY <1>9 DEF Cancel, Active, writeUntil, Timed!Next, Timed!Cancel
<1>10. CASE Tick
  <2>1. /\ Active /\ Active' /\ phase' = phase
        /\ writeUntil - now > 0
        /\ writeUntil - now' = writeUntil - now - 1
    BY <1>10, TimeAssumption DEF Tick, TimeoutDue, Active, writeUntil, IInv, TypeOK
  <2>2. CASE phase = "writing"
    BY <1>10, <2>1, <2>2 DEF Tick, writeUntil, Timed!Next, Timed!Tick
  <2>3. CASE phase = "extra"
    <3>1. extraUntil' - now' = extraUntil - now - 1 /\ extraUntil - now > 0
      BY <1>10, <2>3 DEF Tick, ExtraTimeDue, IInv, TypeOK
    <3> QED
      BY <1>10, <2>1, <2>3, <3>1 DEF Tick, writeUntil, Timed!Next, Timed!Tick
  <2> QED
    BY <2>1, <2>2, <2>3 DEF Active
<1>11. CASE UNCHANGED vars
  BY <1>11, TimedStutter DEF vars
<1> QED
  BY <1>1, <1>2, <1>3, <1>4, <1>5, <1>6, <1>7, <1>8, <1>9, <1>10, <1>11 DEF Next, TaskStep

(* WriteTask implements TimedTask: whatever is written and read, the task  *)
(* ends by its deadline and its extra time, as Process takes for granted.  *)
THEOREM KeepsTime == Spec => ImplementsTimedTask
BY TimedInit, TimedNext, AlwaysIInv, PTL DEF Spec, ImplementsTimedTask, Timed!Spec
=============================================================================
