--------------------------- MODULE ProcessProofs ----------------------------
(***************************************************************************)
(* Theorems about Process, for any finite number of write tasks and every  *)
(* timeout and extra time.                                                 *)
(***************************************************************************)
EXTENDS Process, FiniteSetTheorems, TLAPS

TaskRec == [phase : {"none", "writing", "extra"}, left : 0 .. Timeout, extraLeft : 0 .. Extra]

(* A task that is not there has no timers, and one in its first select no  *)
(* extra time.                                                             *)
TasksOK ==
    /\ task \in [Tasks -> TaskRec]
    /\ \A i \in Tasks : /\ task[i].phase = "none" => task[i] = NoTask
                        /\ task[i].phase = "writing" => task[i].extraLeft = 0

Place == {"connect", "failed", "sleep", "roundtrip", "connected", "waitTasks", "exited"}

(* The end, once time passes in it: main waits, the token is cancelled, so *)
(* no task is in its first select and none is spawned, and what an extra   *)
(* time has left it has had less since the end began.                      *)
EndOK ==
    /\ sinceEnd \in 0 .. Extra
    /\ pc \in Place
    /\ pc = "waitTasks" => token
    /\ sinceEnd > 0 =>
          /\ pc \in {"waitTasks", "exited"}
          /\ token
          /\ \A i \in Tasks : /\ task[i].phase # "writing"
                              /\ task[i].phase = "extra" => task[i].extraLeft + sinceEnd <= Extra

IInv == TasksOK /\ EndOK

LEMMA NoTaskType == NoTask \in TaskRec /\ NoTask.phase = "none" /\ NoTask.left = 0 /\ NoTask.extraLeft = 0
BY TimeAssumption DEF NoTask, Task, TaskRec

LEMMA FreshType ==
    /\ Task("writing", Timeout, 0) \in TaskRec
    /\ Task("writing", Timeout, 0).phase = "writing"
    /\ Task("writing", Timeout, 0).extraLeft = 0
BY TimeAssumption DEF Task, TaskRec

LEMMA InitIInv == Init => IInv
<1> SUFFICES ASSUME Init
             PROVE  IInv
  OBVIOUS
<1>1. TasksOK
  BY NoTaskType DEF Init, TasksOK
<1>2. EndOK
  BY TimeAssumption DEF Init, Life!Init, EndOK, Place
<1> QED
  BY <1>1, <1>2 DEF IInv

-----------------------------------------------------------------------------
(* What main, the signal task and the world outside may do to the end: a   *)
(* token stays cancelled, main waits for the tasks only after it cancelled *)
(* them, and does not come back.                                           *)
MainOnly ==
    /\ UNCHANGED <<task, sinceEnd>>
    /\ token => token'
    /\ pc' \in Place \cup {pc}
    /\ pc' = "waitTasks" => token' \/ pc = "waitTasks"
    /\ pc \in {"waitTasks", "exited"} => pc' \in {"waitTasks", "exited"}

LEMMA MainStepIsMainOnly ==
    ASSUME MainStep \/ SignalStep \/ Outside
    PROVE  MainOnly
<1>1. CASE MainStep
  BY <1>1 DEF MainStep, StepOfMain, MainOnly, Place, Life!MainStep, Life!Connect, Life!ConnectFails,
              Life!FirstConnectFailed, Life!GiveUp, Life!Retry, Life!SleepOver, Life!Shutdown, Life!Bind,
              Life!NoDataControlManager, Life!WaylandError, Life!TokenAfterError, Life!LastWaylandError, Life!Exit,
              Life!Return, Life!Cancellable
<1>2. CASE SignalStep
  BY <1>2 DEF SignalStep, StepOfMain, MainOnly, Place, Life!SignalStep, Life!ShutdownRequest, Life!ForceExit
<1>3. CASE Outside
  BY <1>3 DEF Outside, StepOfMain, MainOnly, Place, Life!ServerToggles, Life!SendSignal
<1> QED
  BY <1>1, <1>2, <1>3

LEMMA MainOnlyKeeps ==
    ASSUME IInv, MainOnly
    PROVE  IInv'
<1>1. TasksOK'
  BY DEF IInv, TasksOK, MainOnly
<1>2. EndOK'
  BY DEF IInv, EndOK, MainOnly
<1> QED
  BY <1>1, <1>2 DEF IInv

-----------------------------------------------------------------------------
(* The steps of one task. *)

LEMMA OneTask ==
    ASSUME TasksOK, NEW i \in Tasks, NEW t \in TaskRec, task' = [task EXCEPT ![i] = t],
           t.phase = "none" => t = NoTask,
           t.phase = "writing" => t.extraLeft = 0
    PROVE  /\ TasksOK'
           /\ task'[i] = t
           /\ \A j \in Tasks \ {i} : task'[j] = task[j]
BY DEF TasksOK

LEMMA SpawnKeeps ==
    ASSUME IInv, NEW i \in Tasks, Spawn(i)
    PROVE  IInv'
<1>1. TasksOK'
  BY FreshType, OneTask DEF Spawn, IInv
<1>2. sinceEnd = 0 /\ pc = "connected" /\ UNCHANGED <<pc, token, sinceEnd>>
  BY DEF Spawn, main, IInv, EndOK
<1> QED
  BY <1>1, <1>2 DEF IInv, EndOK

LEMMA EndsKeeps ==
    ASSUME IInv, NEW i \in Tasks, Ends(i)
    PROVE  IInv'
<1>1. /\ TasksOK'
      /\ task'[i] = NoTask
      /\ \A j \in Tasks \ {i} : task'[j] = task[j]
  BY NoTaskType, OneTask DEF Ends, IInv
<1>2. UNCHANGED <<pc, token, sinceEnd>>
  BY DEF Ends, main
<1> QED
  BY <1>1, <1>2, NoTaskType DEF IInv, EndOK

LEMMA CancelledKeeps ==
    ASSUME IInv, NEW i \in Tasks, Cancelled(i)
    PROVE  IInv'
<1> DEFINE t == Task("extra", task[i].left, Extra)
<1>1. t \in TaskRec /\ t.phase = "extra"
  BY TimeAssumption DEF IInv, TasksOK, Task, TaskRec
<1>2. TasksOK'
  BY <1>1, OneTask DEF Cancelled, IInv, LeftAfterCancel, ExtraAfterCancel
<1>3. sinceEnd = 0 /\ UNCHANGED <<pc, token, sinceEnd>>
  BY DEF Cancelled, CancelSeen, main, IInv, EndOK
<1> QED
  BY <1>2, <1>3 DEF IInv, EndOK

-----------------------------------------------------------------------------
(* The clock.  In the end it ticks only while some task has extra time left.*)

LEMMA LessType ==
    ASSUME NEW n \in Nat
    PROVE  Less(n) \in 0 .. n /\ (n > 0 => Less(n) = n - 1)
BY DEF Less

LEMMA TickTask ==
    ASSUME TasksOK, NEW i \in Tasks, Tick
    PROVE  /\ task'[i] \in TaskRec
           /\ task'[i].phase = task[i].phase
           /\ task'[i].left = Less(task[i].left)
           /\ task'[i].extraLeft = Less(task[i].extraLeft)
<1>1. task[i].left \in 0 .. Timeout /\ task[i].extraLeft \in 0 .. Extra
  BY DEF TasksOK, TaskRec
<1>2. task'[i] = Task(task[i].phase, Less(task[i].left), Less(task[i].extraLeft))
  BY DEF Tick
<1>3. Less(task[i].left) \in 0 .. Timeout /\ Less(task[i].extraLeft) \in 0 .. Extra
  BY <1>1, TimeAssumption DEF Less
<1> QED
  BY <1>2, <1>3 DEF TasksOK, TaskRec, Task

LEMMA TickKeeps ==
    ASSUME IInv, Tick
    PROVE  IInv'
<1>1. TasksOK'
  <2>1. task' \in [Tasks -> TaskRec]
    <3>1. task' = [i \in Tasks |-> task'[i]]
      BY DEF Tick
    <3> QED
      BY <3>1, TickTask DEF IInv
  <2>2. ASSUME NEW i \in Tasks, task'[i].phase = "none"
        PROVE  task'[i] = NoTask
    <3>1. task[i] = NoTask
      BY <2>2, TickTask DEF IInv, TasksOK
    <3> QED
      BY <3>1, NoTaskType DEF Tick, Less, NoTask
  <2>3. ASSUME NEW i \in Tasks, task'[i].phase = "writing"
        PROVE  task'[i].extraLeft = 0
    BY <2>3, TickTask DEF IInv, TasksOK, Less
  <2> QED
    BY <2>1, <2>2, <2>3 DEF TasksOK
<1>2. CASE ~Ending
  BY <1>1, <1>2, TickTask, LessType DEF Tick, main, Ending, IInv, EndOK
<1>3. CASE Ending
  <2>1. pc = "waitTasks" /\ token
    BY <1>3 DEF Ending, Tick, Due, IInv, EndOK, Place
  <2>2. \A i \in Tasks : task[i].phase # "writing"
    BY <2>1 DEF Tick, Due, CancelSeen
  <2>3. ASSUME NEW i \in Tasks, task[i].phase = "extra"
        PROVE  /\ task[i].extraLeft \in 1 .. Extra
               /\ task'[i].extraLeft = task[i].extraLeft - 1
               /\ task[i].extraLeft + sinceEnd <= Extra
    <3>1. task[i].extraLeft \in 0 .. Extra /\ task[i].extraLeft # 0
      BY <2>3 DEF Tick, Due, ExtraDue, IInv, TasksOK, TaskRec
    <3>2. task[i].extraLeft + sinceEnd <= Extra
      BY <2>3, <3>1, TimeAssumption DEF IInv, EndOK
    <3> QED
      BY <2>3, <3>1, <3>2, TickTask, LessType, TimeAssumption DEF IInv
  <2>4. PICK i \in Tasks : task[i].phase = "extra"
    <3>1. task # [i \in Tasks |-> NoTask]
      BY <2>1 DEF Tick, Due
    <3>2. \E i \in Tasks : task[i] # NoTask
      BY <3>1 DEF IInv, TasksOK
    <3> QED
      BY <2>2, <3>2 DEF IInv, TasksOK, TaskRec
  <2>5. sinceEnd' = sinceEnd + 1 /\ sinceEnd + 1 \in 0 .. Extra
    BY <1>3, <2>3, <2>4, TimeAssumption DEF Tick, IInv, EndOK
  <2>6. \A j \in Tasks : /\ task'[j].phase # "writing"
                         /\ task'[j].phase = "extra" => task'[j].extraLeft + sinceEnd' <= Extra
    BY <2>2, <2>3, <2>5, TickTask, TimeAssumption DEF IInv, EndOK
  <2> QED
    BY <1>1, <2>1, <2>5, <2>6 DEF IInv, EndOK, Tick, main
<1> QED
  BY <1>2, <1>3

LEMMA NextIInv == IInv /\ [Next]_vars => IInv'
<1> SUFFICES ASSUME IInv, [Next]_vars
             PROVE  IInv'
  OBVIOUS
<1>1. CASE MainStep \/ SignalStep \/ Outside
  BY <1>1, MainStepIsMainOnly, MainOnlyKeeps
<1>2. ASSUME NEW i \in Tasks, Spawn(i)
      PROVE  IInv'
  BY <1>2, SpawnKeeps
<1>3. ASSUME NEW i \in Tasks, Written(i) \/ TimesOut(i) \/ ExtraOver(i)
      PROVE  IInv'
  BY <1>3, EndsKeeps DEF Written, TimesOut, ExtraOver
<1>4. ASSUME NEW i \in Tasks, Cancelled(i)
      PROVE  IInv'
  BY <1>4, CancelledKeeps
<1>5. CASE Tick
  BY <1>5, TickKeeps
<1>6. CASE UNCHANGED vars
  BY <1>6 DEF vars, main, IInv, TasksOK, EndOK
<1> QED
  BY <1>1, <1>2, <1>3, <1>4, <1>5, <1>6 DEF Next

LEMMA AlwaysIInv == Spec => []IInv
BY InitIInv, NextIInv, PTL DEF Spec

(* The process is gone within one extra time of its end, however many write*)
(* tasks there are and whether anybody reads what they write.              *)
THEOREM GoneInTime == Spec => []ExitsInTime
<1>1. IInv => ExitsInTime
  BY TimeAssumption DEF IInv, EndOK, ExitsInTime
<1> QED
  BY <1>1, AlwaysIInv, PTL

-----------------------------------------------------------------------------
(* The refinement of Lifecycle: a step of one task is a step of the number *)
(* of tasks in its select.                                                 *)

Count(phase) == Cardinality(InPhase(phase))

LEMMA PhasesFinite ==
    ASSUME NEW phase
    PROVE  IsFiniteSet(InPhase(phase)) /\ Count(phase) \in Nat
<1>1. InPhase(phase) \in SUBSET Tasks
  BY DEF InPhase
<1> QED
  BY <1>1, TasksAssumption, FS_Subset, FS_CardinalityType DEF Count

LEMMA Leave ==
    ASSUME NEW i \in Tasks, NEW phase, TasksOK, task[i].phase = phase, task'[i].phase # phase,
           \A j \in Tasks \ {i} : task'[j] = task[j]
    PROVE  Count(phase)' = Count(phase) - 1 /\ Count(phase) > 0
<1>1. InPhase(phase)' = InPhase(phase) \ {i} /\ i \in InPhase(phase)
  BY DEF InPhase
<1> QED
  BY <1>1, PhasesFinite, FS_RemoveElement, FS_EmptySet DEF Count

LEMMA Enter ==
    ASSUME NEW i \in Tasks, NEW phase, TasksOK, task[i].phase # phase, task'[i].phase = phase,
           \A j \in Tasks \ {i} : task'[j] = task[j]
    PROVE  Count(phase)' = Count(phase) + 1
<1>1. InPhase(phase)' = InPhase(phase) \cup {i} /\ i \notin InPhase(phase)
  BY DEF InPhase
<1> QED
  BY <1>1, PhasesFinite, FS_AddElement DEF Count

LEMMA Stay ==
    ASSUME NEW i \in Tasks, NEW phase, task[i].phase # phase, task'[i].phase # phase,
           \A j \in Tasks \ {i} : task'[j] = task[j]
    PROVE  Count(phase)' = Count(phase)
<1>1. InPhase(phase)' = InPhase(phase)
  BY DEF InPhase
<1> QED
  BY <1>1 DEF Count

(* A place is free for a task that is not there. *)
LEMMA PlaceLeft ==
    ASSUME NEW i \in Tasks, task[i].phase = "none"
    PROVE  Count("writing") + Count("extra") < Cardinality(Tasks)
<1>1. InPhase("writing") \cup InPhase("extra") \in SUBSET (Tasks \ {i})
  BY DEF InPhase
<1>2. InPhase("writing") \cap InPhase("extra") = {}
  BY DEF InPhase
<1>3. IsFiniteSet(Tasks \ {i}) /\ Cardinality(Tasks \ {i}) = Cardinality(Tasks) - 1
  BY TasksAssumption, FS_RemoveElement
<1>4. Cardinality(InPhase("writing") \cup InPhase("extra")) <= Cardinality(Tasks) - 1
  BY <1>1, <1>3, FS_Subset
<1>5. Cardinality(InPhase("writing") \cup InPhase("extra")) = Count("writing") + Count("extra")
  <2>1. IsFiniteSet(InPhase("writing")) /\ IsFiniteSet(InPhase("extra"))
    BY PhasesFinite
  <2>2. Cardinality(InPhase("writing") \cup InPhase("extra")) =
            Cardinality(InPhase("writing")) + Cardinality(InPhase("extra"))
                - Cardinality(InPhase("writing") \cap InPhase("extra"))
    BY <2>1, FS_Union, Zenon
  <2>3. Cardinality(InPhase("writing") \cap InPhase("extra")) = 0
    BY <1>2, FS_EmptySet
  <2> QED
    BY <2>2, <2>3, PhasesFinite DEF Count
<1>6. Cardinality(Tasks) \in Nat
  BY TasksAssumption, FS_CardinalityType
<1> QED
  BY <1>4, <1>5, <1>6, PhasesFinite

LEMMA SpawnIsSpawnWrite ==
    ASSUME IInv, NEW i \in Tasks, Spawn(i)
    PROVE  Life!SpawnWrite
<1>1. /\ task[i].phase = "none" /\ task'[i].phase = "writing"
      /\ \A j \in Tasks \ {i} : task'[j] = task[j]
  BY NoTaskType, FreshType DEF Spawn, IInv, TasksOK
<1>2. Count("writing") + Count("extra") < Cardinality(Tasks)
  BY <1>1, PlaceLeft
<1>3. Count("writing")' = Count("writing") + 1
  BY <1>1, Enter DEF IInv
<1>4. Count("extra")' = Count("extra")
  BY <1>1, Stay
<1> QED
  BY <1>2, <1>3, <1>4 DEF Spawn, main, Count, Life!SpawnWrite, Life!signals

LEMMA EndsIsEnd ==
    ASSUME IInv, NEW i \in Tasks, Ends(i), task[i] # NoTask, pc # "exited"
    PROVE  Life!WriteEnds \/ Life!ExtraTimeEnds
<1>1. /\ task'[i].phase = "none"
      /\ \A j \in Tasks \ {i} : task'[j] = task[j]
  BY NoTaskType DEF Ends, IInv, TasksOK
<1>2. CASE task[i].phase = "writing"
  <2>1. Count("writing")' = Count("writing") - 1 /\ Count("writing") > 0
    BY <1>1, <1>2, Leave DEF IInv
  <2>2. Count("extra")' = Count("extra")
    BY <1>1, <1>2, Stay
  <2> QED
    BY <2>1, <2>2 DEF Ends, main, Count, Life!WriteEnds, Life!signals
<1>3. CASE task[i].phase = "extra"
  <2>1. Count("extra")' = Count("extra") - 1 /\ Count("extra") > 0
    BY <1>1, <1>3, Leave DEF IInv
  <2>2. Count("writing")' = Count("writing")
    BY <1>1, <1>3, Stay
  <2> QED
    BY <2>1, <2>2 DEF Ends, main, Count, Life!ExtraTimeEnds, Life!signals
<1> QED
  BY <1>2, <1>3 DEF IInv, TasksOK, TaskRec

LEMMA CancelledIsWriteCancelled ==
    ASSUME IInv, NEW i \in Tasks, Cancelled(i)
    PROVE  Life!WriteCancelled
<1>1. /\ task[i].phase = "writing" /\ task'[i].phase = "extra"
      /\ \A j \in Tasks \ {i} : task'[j] = task[j]
  BY DEF Cancelled, CancelSeen, Task, IInv, TasksOK
<1>2. Count("writing")' = Count("writing") - 1 /\ Count("writing") > 0
  BY <1>1, Leave DEF IInv
<1>3. Count("extra")' = Count("extra") + 1
  BY <1>1, Enter DEF IInv
<1> QED
  BY <1>1, <1>2, <1>3 DEF Cancelled, CancelSeen, main, Count, Life!WriteCancelled, Life!signals

LEMMA PhasesKept ==
    ASSUME \A i \in Tasks : task'[i].phase = task[i].phase
    PROVE  \A phase : Count(phase)' = Count(phase)
<1> TAKE phase
<1>1. InPhase(phase)' = InPhase(phase)
  BY DEF InPhase
<1> QED
  BY <1>1 DEF Count

LEMMA LifeInit == Init => Life!Init
<1> SUFFICES ASSUME Init
             PROVE  Cardinality(InPhase("writing")) = 0 /\ Cardinality(InPhase("extra")) = 0
  BY DEF Init, Life!Init
<1>1. InPhase("writing") = {} /\ InPhase("extra") = {}
  BY NoTaskType DEF Init, InPhase
<1> QED
  BY <1>1, FS_EmptySet

LEMMA LifeNext == IInv /\ [Next]_vars => [Life!Next]_(Life!vars)
<1> SUFFICES ASSUME IInv, [Next]_vars
             PROVE  Life!Next \/ UNCHANGED Life!vars
  OBVIOUS
<1>1. CASE MainStep \/ SignalStep \/ Outside
  BY <1>1 DEF MainStep, SignalStep, Outside, StepOfMain, Life!Next
<1>2. ASSUME NEW i \in Tasks, Spawn(i)
      PROVE  Life!Next
  BY <1>2, SpawnIsSpawnWrite DEF Life!Next
<1>3. ASSUME NEW i \in Tasks, Written(i) \/ TimesOut(i) \/ ExtraOver(i)
      PROVE  Life!Next
  <2>1. Ends(i) /\ task[i] # NoTask /\ pc # "exited"
    BY <1>3, NoTaskType DEF Written, TimesOut, TimeoutDue, ExtraOver, ExtraDue
  <2> QED
    BY <2>1, EndsIsEnd DEF Life!Next, Life!TaskStep
<1>4. ASSUME NEW i \in Tasks, Cancelled(i)
      PROVE  Life!Next
  BY <1>4, CancelledIsWriteCancelled DEF Life!Next, Life!TaskStep
<1>5. CASE Tick
  <2>1. Count("writing")' = Count("writing") /\ Count("extra")' = Count("extra")
    BY <1>5, TickTask, PhasesKept DEF IInv
  <2> QED
    BY <1>5, <2>1 DEF Tick, main, Count, Life!vars
<1>6. CASE UNCHANGED vars
  <2>1. Count("writing")' = Count("writing") /\ Count("extra")' = Count("extra")
    BY <1>6, PhasesKept DEF vars
  <2> QED
    BY <1>6, <2>1 DEF vars, main, Count, Life!vars
<1> QED
  BY <1>1, <1>2, <1>3, <1>4, <1>5, <1>6 DEF Next

(* Process implements Lifecycle, whatever the number of tasks: that        *)
(* Lifecycle only counts them loses nothing of what main and signals do.   *)
THEOREM RefinesLifecycle == Spec => ImplementsLifecycle
BY LifeInit, LifeNext, AlwaysIInv, PTL DEF Spec, ImplementsLifecycle, Life!Spec

-----------------------------------------------------------------------------
(* So what is proved of Lifecycle holds for the process in time, with each *)
(* write task by itself: the theorems are those of Lifecycle, for the      *)
(* numbers of tasks that are counted here.                                 *)

Proved == INSTANCE LifecycleProofs WITH
    MaxTasks <- Cardinality(Tasks),
    writing  <- Cardinality(InPhase("writing")),
    extra    <- Cardinality(InPhase("extra"))

LEMMA NumberOfTasks == Cardinality(Tasks) \in Nat
BY TasksAssumption, FS_CardinalityType

(* The instance with the proofs has the same steps. *)
LEMMA SameInit == Life!Init => Proved!Init
BY DEF Life!Init, Proved!Init

LEMMA SameNext == [Life!Next]_(Life!vars) => [Proved!Next]_(Proved!vars)
BY DEF Life!Connect, Proved!Connect, Life!ConnectFails, Proved!ConnectFails,
       Life!FirstConnectFailed, Proved!FirstConnectFailed, Life!CountedTries,
       Proved!CountedTries, Life!Exhausted, Proved!Exhausted, Life!GiveUp, Proved!GiveUp,
       Life!Retry, Proved!Retry, Life!SleepOver, Proved!SleepOver, Life!Cancellable,
       Proved!Cancellable, Life!Shutdown, Proved!Shutdown, Life!Bind, Proved!Bind,
       Life!NoDataControlManager, Proved!NoDataControlManager, Life!TriesAfterError,
       Proved!TriesAfterError, Life!TokenAfterError, Proved!TokenAfterError, Life!WaylandError,
       Proved!WaylandError, Life!LastWaylandError, Proved!LastWaylandError, Life!TasksEnded,
       Proved!TasksEnded, Life!Exit, Proved!Exit, Life!SpawnWrite, Proved!SpawnWrite,
       Life!WriteEnds, Proved!WriteEnds, Life!WriteCancelled, Proved!WriteCancelled,
       Life!ExtraTimeEnds, Proved!ExtraTimeEnds, Life!Remaining, Proved!Remaining,
       Life!ShutdownRequest, Proved!ShutdownRequest, Life!ForceExit, Proved!ForceExit,
       Life!SendSignal, Proved!SendSignal, Life!ServerToggles, Proved!ServerToggles,
       Life!MainStep, Proved!MainStep, Life!TaskStep, Proved!TaskStep, Life!SignalStep,
       Proved!SignalStep, Life!Return, Proved!Return, Life!Tries, Proved!Tries, Life!signals,
       Proved!signals, Life!tasks, Proved!tasks, Life!vars, Proved!vars, Life!Next, Proved!Next

LEMMA AlwaysProved == Spec => []Proved!IInv
<1>1. Proved!Init => Proved!IInv
  BY Proved!InitIInv, NumberOfTasks, LifecycleAssumption
<1>2. Proved!IInv /\ [Proved!Next]_(Proved!vars) => Proved!IInv'
  BY Proved!NextIInv, NumberOfTasks, LifecycleAssumption
<1> QED
  BY <1>1, <1>2, SameInit, SameNext, LifeInit, LifeNext, AlwaysIInv, PTL DEF Spec

LEMMA IsProved == Spec => Proved!Spec
BY SameInit, SameNext, LifeInit, LifeNext, AlwaysIInv, PTL DEF Spec, Proved!Spec

(* The process stays well typed, and the tries counted never exceed those  *)
(* granted.                                                                *)
THEOREM TypeCorrect == Spec => []TypeOK
<1>1. IInv /\ Proved!IInv => TypeOK
  BY DEF IInv, TasksOK, TaskRec, EndOK, TypeOK, Proved!IInv, Proved!TypeOK, Life!TypeOK, Proved!Tries, Life!Tries
<1> QED
  BY <1>1, AlwaysIInv, AlwaysProved, PTL

(* Whatever the write tasks do, only a second signal forces the exit, and  *)
(* not before the shutdown request of the first.                           *)
THEOREM SecondSignalForces == Spec => []Life!ForcedBySecondSignal
<1>1. Proved!Spec => []Proved!ForcedBySecondSignal
  BY Proved!SecondSignalForces, NumberOfTasks, LifecycleAssumption
<1>2. Proved!ForcedBySecondSignal => Life!ForcedBySecondSignal
  BY DEF Proved!ForcedBySecondSignal, Life!ForcedBySecondSignal
<1> QED
  BY <1>1, <1>2, IsProved, PTL

(* Each write task by itself keeps its time when a connection is lost: only*)
(* the shutdown request cuts it short before main is over.                 *)
THEOREM CutShortOnRequestOnly ==
    Spec => [](\A i \in Tasks : task[i].phase = "extra" => listener = "second" \/ pc \in {"waitTasks", "exited"})
<1>1. ASSUME Proved!IInv, NEW i \in Tasks, task[i].phase = "extra", pc \notin {"waitTasks", "exited"}
      PROVE  listener = "second"
  <2>1. InPhase("extra") # {}
    BY <1>1 DEF InPhase
  <2>2. Cardinality(InPhase("extra")) \in Nat /\ Cardinality(InPhase("extra")) # 0
    BY <2>1, PhasesFinite, FS_EmptySet, FS_CardinalityType
  <2> QED
    BY <1>1, <2>2 DEF Proved!IInv, Proved!Requested, Proved!EndsEarlyOnRequestOnly
<1>2. Proved!IInv =>
          \A i \in Tasks : task[i].phase = "extra" => listener = "second" \/ pc \in {"waitTasks", "exited"}
  BY <1>1
<1> QED
  BY <1>2, AlwaysProved, PTL

(* Every Wayland error grants the whole number of tries, and no more,      *)
(* however long connects and write tasks take.                             *)
THEOREM TriesAsGranted == Spec => Life!ReconnectBudget
<1>1. Proved!Spec => Proved!ReconnectBudget
  BY Proved!TriesAsGranted, NumberOfTasks, LifecycleAssumption
<1>2. Proved!ReconnectBudget => Life!ReconnectBudget
  <2>1. [pc = "failed" /\ isReconnect =>
            /\ pc' = "waitTasks" => failures = Proved!Tries
            /\ pc' \in {"connect", "sleep"} => failures # Proved!Tries]_(Proved!vars)
        => [pc = "failed" /\ isReconnect =>
            /\ pc' = "waitTasks" => failures = Life!Tries
            /\ pc' \in {"connect", "sleep"} => failures # Life!Tries]_(Life!vars)
    <3>1. Proved!Tries = Life!Tries
      BY DEF Proved!Tries, Life!Tries
    <3>2. Proved!vars = Life!vars /\ Proved!vars' = Life!vars'
      BY DEF Proved!vars, Life!vars
    <3> QED
      BY <3>1, <3>2
  <2> QED
    BY <2>1, PTL DEF Proved!ReconnectBudget, Life!ReconnectBudget
<1> QED
  BY <1>1, <1>2, IsProved

-----------------------------------------------------------------------------
(* Each task keeps the time of TimedTask: what is a step of another task or*)
(* of main is no step of it, or the cancellation of the token.             *)

TimedStep(i) == Timed(i)!Next \/ UNCHANGED Timed(i)!vars

LEMMA TokenSteps ==
    ASSUME MainStep \/ SignalStep \/ Outside
    PROVE  token' = token \/ token' = TRUE
<1>1. CASE MainStep
  BY <1>1 DEF MainStep, StepOfMain, Life!MainStep, Life!Connect, Life!ConnectFails,
              Life!FirstConnectFailed, Life!GiveUp, Life!Retry, Life!SleepOver, Life!Shutdown, Life!Bind,
              Life!NoDataControlManager, Life!WaylandError, Life!TokenAfterError, Life!LastWaylandError, Life!Exit,
              Life!Return
<1>2. CASE SignalStep
  BY <1>2 DEF SignalStep, StepOfMain, Life!SignalStep, Life!ShutdownRequest, Life!ForceExit
<1>3. CASE Outside
  BY <1>3 DEF Outside, StepOfMain, Life!ServerToggles, Life!SendSignal
<1> QED
  BY <1>1, <1>2, <1>3

LEMMA OtherTask ==
    ASSUME NEW i \in Tasks, task'[i] = task[i], token' = token \/ token' = TRUE
    PROVE  TimedStep(i)
BY DEF TimedStep, Timed!Next, Timed!Cancel, Timed!vars

LEMMA SpawnIsStart ==
    ASSUME IInv, NEW i \in Tasks, Spawn(i)
    PROVE  TimedStep(i)
<1>1. task[i] = NoTask /\ task'[i] = Task("writing", Timeout, 0) /\ UNCHANGED token
  BY DEF Spawn, main, IInv, TasksOK
<1> QED
  BY <1>1, NoTaskType DEF Task, TimedStep, Timed!Next, Timed!Start, Timed!None, Timed!Fresh

LEMMA EndsIsTimedEnd ==
    ASSUME IInv, NEW i \in Tasks, Ends(i), task[i] # NoTask
    PROVE  TimedStep(i)
<1>1. task[i].phase # "none" /\ task'[i] = NoTask /\ UNCHANGED token
  BY DEF Ends, main, IInv, TasksOK
<1> QED
  BY <1>1, NoTaskType DEF TimedStep, Timed!Next, Timed!End, Timed!None

LEMMA CancelledIsSeeCancel ==
    ASSUME IInv, NEW i \in Tasks, Cancelled(i)
    PROVE  TimedStep(i)
<1>1. /\ task[i].phase = "writing" /\ token
      /\ task'[i] = Task("extra", task[i].left, Extra)
      /\ UNCHANGED token
  BY DEF Cancelled, CancelSeen, LeftAfterCancel, ExtraAfterCancel, main, IInv, TasksOK
<1> QED
  BY <1>1 DEF Task, TimedStep, Timed!Next, Timed!SeeCancel

LEMMA TickIsTick ==
    ASSUME IInv, NEW i \in Tasks, Tick
    PROVE  TimedStep(i)
<1>1. /\ task[i].left \in Nat /\ task[i].extraLeft \in Nat
      /\ task'[i].phase = task[i].phase
      /\ task'[i].left = Less(task[i].left)
      /\ task'[i].extraLeft = Less(task[i].extraLeft)
      /\ UNCHANGED token
  BY TickTask, TimeAssumption DEF IInv, TasksOK, TaskRec, Tick, main
<1>2. CASE task[i].phase = "none"
  BY <1>1, <1>2, NoTaskType DEF IInv, TasksOK, Less, TimedStep, Timed!vars
<1>3. CASE task[i].phase = "writing"
  <2>1. ~token /\ task[i].left # 0 /\ task[i].extraLeft = 0
    BY <1>3, NoTaskType DEF Tick, Due, TimeoutDue, CancelSeen, IInv, TasksOK
  <2> QED
    BY <1>1, <1>3, <2>1 DEF Less, TimedStep, Timed!Next, Timed!Tick
<1>4. CASE task[i].phase = "extra"
  <2>1. task[i].left # 0 /\ task[i].extraLeft # 0
    BY <1>4, NoTaskType DEF Tick, Due, TimeoutDue, ExtraDue
  <2> QED
    BY <1>1, <1>4, <2>1 DEF Less, TimedStep, Timed!Next, Timed!Tick
<1> QED
  BY <1>2, <1>3, <1>4 DEF IInv, TasksOK, TaskRec

LEMMA AllKeepTime == IInv /\ [Next]_vars => \A i \in Tasks : TimedStep(i)
<1> SUFFICES ASSUME IInv, [Next]_vars, NEW i \in Tasks
             PROVE  TimedStep(i)
  OBVIOUS
<1>1. CASE MainStep \/ SignalStep \/ Outside
  <2>1. UNCHANGED task
    BY <1>1 DEF MainStep, SignalStep, Outside, StepOfMain
  <2> QED
    BY <1>1, <2>1, TokenSteps, OtherTask
<1>2. ASSUME NEW j \in Tasks, Spawn(j) \/ Written(j) \/ TimesOut(j) \/ ExtraOver(j) \/ Cancelled(j), j # i
      PROVE  TimedStep(i)
  <2>1. task'[i] = task[i] /\ token' = token
    BY <1>2 DEF Spawn, Written, TimesOut, ExtraOver, Ends, Cancelled, main, IInv, TasksOK
  <2> QED
    BY <2>1, OtherTask
<1>3. CASE Spawn(i) \/ Cancelled(i)
  BY <1>3, SpawnIsStart, CancelledIsSeeCancel
<1>4. CASE Written(i) \/ TimesOut(i) \/ ExtraOver(i)
  BY <1>4, EndsIsTimedEnd, NoTaskType DEF Written, TimesOut, TimeoutDue, ExtraOver, ExtraDue
<1>5. CASE Tick
  BY <1>5, TickIsTick
<1>6. CASE UNCHANGED vars
  BY <1>6, OtherTask DEF vars, main
<1> QED
  BY <1>1, <1>2, <1>3, <1>4, <1>5, <1>6 DEF Next

LEMMA AllStartTimed == Init => \A i \in Tasks : Timed(i)!Init
BY NoTaskType DEF Init, Life!Init, Timed!Init, Timed!None

(* Every task keeps the time of TimedTask next to all the others, which is *)
(* what WriteTask was shown to keep alone.                                 *)
THEOREM AllTasksKeepTime == Spec => ImplementsTimedTasks
<1>1. IInv /\ [Next]_vars => [\A i \in Tasks : Timed(i)!Next \/ UNCHANGED Timed(i)!vars]_vars
  BY AllKeepTime DEF TimedStep
<1> QED
  BY <1>1, AllStartTimed, AlwaysIInv, PTL DEF Spec, ImplementsTimedTasks
=============================================================================
