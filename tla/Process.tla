------------------------------ MODULE Process -------------------------------
(***************************************************************************)
(* The whole process over time: main and the signal task as Lifecycle has  *)
(* them, with write tasks that keep time.  Each has its deadline from the  *)
(* moment it is spawned and its extra time from the moment it sees the     *)
(* shutdown, as TimedTask says; what it writes is WriteTask's.  The        *)
(* applications that paste may never read, so only the timers end a task   *)
(* for certain.                                                            *)
(*                                                                         *)
(* Timers count down.  A clock tick waits for every step that is due: a    *)
(* timer that ran out, a token that a select waits for, tasks all ended.   *)
(***************************************************************************)
EXTENDS Naturals, FiniteSets

CONSTANTS
    Settings, Inf, Listeners, MaxSignals,   \* of Lifecycle
    Tasks,    \* bound: the write tasks there may be at a time
    Timeout,  \* settings.write_timeout, in ticks
    Extra     \* SHUTDOWN_EXTRA_WRITE_TIME, in ticks

(* Those of Lifecycle *)
ASSUME LifecycleAssumption ==
    /\ Inf \notin Nat
    /\ Settings \subseteq [tries : Nat \cup {Inf}, zeroDelay : BOOLEAN]
    /\ MaxSignals \in Nat
ASSUME TasksAssumption == IsFiniteSet(Tasks)
ASSUME TimeAssumption  == Timeout \in Nat \ {0} /\ Extra \in Nat \ {0}

VARIABLES
    settings, pc, isReconnect, tries, exit, token,      \* main, see Lifecycle
    listener, pending, sent,                            \* signals, see Lifecycle
    serverUp, failures,                                 \* see Lifecycle
    task,       \* each write task: its phase and what is left of its timers
    sinceEnd    \* history: ticks since the end began, not counting those of a connect

main == <<settings, pc, isReconnect, tries, exit, token, listener, pending, sent, serverUp, failures>>
vars == <<main, task, sinceEnd>>

Task(phase, left, extraLeft) == [phase |-> phase, left |-> left, extraLeft |-> extraLeft]

NoTask == Task("none", 0, 0)

InPhase(phase) == {i \in Tasks : task[i].phase = phase}

(* The process as Lifecycle sees it: of the write tasks their number only. *)
Life == INSTANCE Lifecycle WITH
    MaxTasks <- Cardinality(Tasks),
    writing  <- Cardinality(InPhase("writing")),
    extra    <- Cardinality(InPhase("extra"))

Init ==
    /\ task = [i \in Tasks |-> NoTask]
    /\ sinceEnd = 0
    /\ Life!Init

-----------------------------------------------------------------------------
(* main and the signal task. *)

StepOfMain(step) == UNCHANGED <<task, sinceEnd>> /\ step

MainStep   == StepOfMain(Life!MainStep)
Shutdown   == StepOfMain(Life!Shutdown)
SignalStep == StepOfMain(Life!SignalStep)
Outside    == StepOfMain(Life!ServerToggles \/ \E signal \in Listeners : Life!SendSignal(signal))

-----------------------------------------------------------------------------
(* The write tasks. *)

(* data_source_cb; the token may be cancelled already. *)
Spawn(i) ==
    /\ pc = "connected"
    /\ task[i] = NoTask
    /\ task' = [task EXCEPT ![i] = Task("writing", Timeout, 0)]
    /\ UNCHANGED <<main, sinceEnd>>

Ends(i) ==
    /\ task' = [task EXCEPT ![i] = NoTask]
    /\ UNCHANGED <<main, sinceEnd>>

(* All is written, or the reader is gone. *)
Written(i) == pc # "exited" /\ task[i] # NoTask /\ Ends(i)

TimeoutDue(i) == task[i] # NoTask /\ task[i].left = 0

ExtraDue(i) == task[i].phase = "extra" /\ task[i].extraLeft = 0

TimesOut(i) == pc # "exited" /\ TimeoutDue(i) /\ Ends(i)

ExtraOver(i) == pc # "exited" /\ ExtraDue(i) /\ Ends(i)

CancelSeen_Early(i) == task[i].phase = "writing"

CancelSeen(i) == task[i].phase = "writing" /\ token

(* The second select goes on with the deadline of the first. *)
LeftAfterCancel_Afresh(i) == Timeout

LeftAfterCancel(i) == task[i].left

ExtraAfterCancel_AfterTimeout(i) == task[i].left + Extra

ExtraAfterCancel(i) == Extra

Cancelled(i) ==
    /\ pc # "exited"
    /\ CancelSeen(i)
    /\ task' = [task EXCEPT ![i] = Task("extra", LeftAfterCancel(i), ExtraAfterCancel(i))]
    /\ UNCHANGED <<main, sinceEnd>>

TaskDue(i) == TimesOut(i) \/ ExtraOver(i) \/ Cancelled(i)

-----------------------------------------------------------------------------
(* The clock. *)

(* What has happened by the next tick. *)
Due ==
    \/ \E i \in Tasks : TimeoutDue(i) \/ ExtraDue(i) \/ CancelSeen(i)
    \/ token /\ pc \in {"sleep", "roundtrip", "connected"}
    \/ pc = "waitTasks" /\ task = [i \in Tasks |-> NoTask]

Ending == (token \/ pc = "waitTasks") /\ pc \notin {"connect", "failed"}

Less(n) == IF n = 0 THEN 0 ELSE n - 1

Tick ==
    /\ pc # "exited"
    /\ ~Due
    /\ task' = [i \in Tasks |-> Task(task[i].phase, Less(task[i].left), Less(task[i].extraLeft))]
    /\ sinceEnd' = IF Ending THEN sinceEnd + 1 ELSE sinceEnd
    /\ UNCHANGED main

-----------------------------------------------------------------------------
Next == \/ MainStep
        \/ SignalStep
        \/ Outside
        \/ \E i \in Tasks : Spawn(i) \/ Written(i) \/ TimesOut(i) \/ ExtraOver(i) \/ Cancelled(i)
        \/ Tick

Spec == Init /\ [][Next]_vars

(* main's steps that wait for nobody. *)
MainProceeds ==
    StepOfMain(\/ Life!Connect \/ Life!ConnectFails \/ Life!FirstConnectFailed
               \/ Life!GiveUp \/ Life!Retry \/ Life!SleepOver \/ Life!Exit)

(* That a write task ends is not assumed, as it is in Lifecycle: the clock *)
(* goes on and a task takes a branch that is due.                          *)
Fairness ==
    /\ WF_vars(MainProceeds)
    /\ SF_vars(Shutdown)
    /\ WF_vars(SignalStep)
    /\ \A i \in Tasks : WF_vars(TaskDue(i))
    /\ WF_vars(Tick)

FairSpec == Spec /\ Fairness

-----------------------------------------------------------------------------
(* Type invariant. *)
TypeOK ==
    /\ task \in [Tasks -> [phase : {"none", "writing", "extra"}, left : 0 .. Timeout, extraLeft : 0 .. Extra]]
    /\ sinceEnd \in Nat
    /\ Life!TypeOK

(* Once the end has begun, by a signal or because main gave up, the process*)
(* is gone when the extra time is over: however many write tasks there are,*)
(* from whichever connection, also one spawned after the token was         *)
(* cancelled, and whether the applications read or not.                    *)
ExitsInTime == sinceEnd <= Extra

(* Lifecycle's abstraction of the write tasks to their numbers is sound. *)
ImplementsLifecycle == Life!Spec

(* Each write task keeps the time that WriteTask keeps: it ends by its     *)
(* deadline and by its extra time, next to all the others.                 *)
Timed(i) == INSTANCE TimedTask WITH
    phase     <- task[i].phase,
    left      <- task[i].left,
    extraLeft <- task[i].extraLeft

ImplementsTimedTasks ==
    /\ \A i \in Tasks : Timed(i)!Init
    /\ [][\A i \in Tasks : Timed(i)!Next \/ UNCHANGED Timed(i)!vars]_vars

(* The first signal ends the process though no application reads what is   *)
(* written to it: Lifecycle assumes that write tasks end, here their       *)
(* timers see to it.                                                       *)
ShutdownCompletes == Life!ShutdownCompletes
=============================================================================
