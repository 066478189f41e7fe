-------------------------- MODULE LifecycleProofs ---------------------------
(***************************************************************************)
(* Theorems about Lifecycle, for every number of tries, with or without a  *)
(* delay, every set of signals that are listened to and any number of      *)
(* write tasks.                                                            *)
(***************************************************************************)
EXTENDS Lifecycle, FiniteSetTheorems, TLAPS

Over == pc \in {"waitTasks", "exited"}

(* The tries counted are the connects that failed since the last connection*)
(* that worked.  They stay below the number granted until main gives up.   *)
Budget ==
    /\ ~isReconnect => tries = 0
    /\ isReconnect /\ Tries # Inf /\ ~Over =>
          /\ tries < Tries
          /\ pc \in {"connect", "sleep"} => failures = tries
          /\ pc = "failed" => failures = tries + 1
    /\ pc \in {"roundtrip", "connected"} => failures = 0
    /\ pc = "sleep" => isReconnect

(* main waits with an exit code of its own; a task that is cancelled goes  *)
(* from one select to the other.                                           *)
Waits ==
    /\ writing + extra <= MaxTasks
    /\ pc = "waitTasks" => exit \in {"0", "1"}

(* Before main is over, the token is cancelled by the first signal only.   *)
Requested ==
    /\ token /\ ~Over => listener = "second"
    /\ EndsEarlyOnRequestOnly

(* Signals the listener has received, for certain. *)
received ==
    IF exit = "forced" THEN 2 ELSE IF listener = "second" THEN 1 ELSE 0

(* Every signal that is pending or was received has been sent; the second  *)
(* one that was received came after the shutdown request.                  *)
Counted ==
    /\ IsFiniteSet(pending)
    /\ Cardinality(pending) + received <= sent
    /\ listener = "second" => token
    /\ exit = "forced" => pc = "exited" /\ listener = "second"

IInv == TypeOK /\ Budget /\ Waits /\ Requested /\ Counted

LEMMA InitIInv == Init => IInv
<1> SUFFICES ASSUME Init
             PROVE  IInv
  OBVIOUS
<1>1. Tries \in Nat \cup {Inf}
  BY SettingsAssumption DEF Init, Tries
<1>2. TypeOK
  <2>1. tries = 0 /\ tries \in Nat
    BY DEF Init
  <2>2. Tries # Inf => tries <= Tries
    BY <1>1, <2>1
  <2>3. listener \in {"off", "first", "second"} /\ pending \subseteq Listeners
    BY DEF Init
  <2>4. /\ settings \in Settings
        /\ isReconnect \in BOOLEAN /\ token \in BOOLEAN /\ serverUp \in BOOLEAN
        /\ pc = "connect" /\ exit = "none"
    BY DEF Init
  <2>5. writing \in 0 .. MaxTasks /\ extra \in 0 .. MaxTasks /\ sent \in 0 .. MaxSignals /\ failures \in Nat
    BY BoundsAssumption DEF Init
  <2> QED
    BY <2>1, <2>2, <2>3, <2>4, <2>5 DEF TypeOK
<1>3. Budget /\ Waits /\ Requested
  BY BoundsAssumption DEF Init, Budget, Waits, Requested, EndsEarlyOnRequestOnly, Over
<1>4. Counted
  BY FS_EmptySet DEF Init, Counted, received
<1> QED
  BY <1>2, <1>3, <1>4 DEF IInv

LEMMA TriesType == TypeOK => Tries \in Nat \cup {Inf}
BY SettingsAssumption DEF TypeOK, Tries

-----------------------------------------------------------------------------
(* The steps, for all of the invariant but the signals. *)

Main == TypeOK /\ Budget /\ Waits /\ Requested

LEMMA MainStepKeeps ==
    ASSUME IInv, MainStep
    PROVE  Main'
<1> USE TriesType, InfAssumption
    DEF IInv, Main, TypeOK, Budget, Waits, Requested, EndsEarlyOnRequestOnly, Over, Tries, signals, tasks
<1>1. CASE Connect
  BY <1>1 DEF Connect
<1>2. CASE ConnectFails
  BY <1>2 DEF ConnectFails
<1>3. CASE FirstConnectFailed
  BY <1>3 DEF FirstConnectFailed, Return
<1>4. CASE GiveUp
  BY <1>4 DEF GiveUp, Return, Exhausted, CountedTries
<1>5. CASE Retry
  BY <1>5 DEF Retry, Exhausted, CountedTries
<1>6. CASE SleepOver
  BY <1>6 DEF SleepOver
<1>7. CASE Shutdown
  BY <1>7 DEF Shutdown, Cancellable, Return
<1>8. CASE Bind
  BY <1>8 DEF Bind
<1>9. CASE NoDataControlManager
  BY <1>9 DEF NoDataControlManager, Return
<1>10. CASE WaylandError
  BY <1>10 DEF WaylandError, TriesAfterError, TokenAfterError
<1>11. CASE LastWaylandError
  BY <1>11 DEF LastWaylandError, Return
<1>12. CASE Exit
  BY <1>12 DEF Exit, TasksEnded
<1> QED
  BY <1>1, <1>2, <1>3, <1>4, <1>5, <1>6, <1>7, <1>8, <1>9, <1>10, <1>11, <1>12 DEF MainStep

LEMMA OtherStepKeeps ==
    ASSUME IInv,
           \/ SpawnWrite \/ TaskStep \/ SignalStep \/ ServerToggles
           \/ \E signal \in Listeners : SendSignal(signal)
           \/ UNCHANGED vars
    PROVE  Main'
<1> USE TriesType, InfAssumption, BoundsAssumption
    DEF IInv, Main, TypeOK, Budget, Waits, Requested, EndsEarlyOnRequestOnly, Over, Tries, signals, tasks
<1>1. CASE SpawnWrite
  BY <1>1 DEF SpawnWrite
<1>2. CASE WriteEnds
  BY <1>2 DEF WriteEnds
<1>3. CASE WriteCancelled
  BY <1>3 DEF WriteCancelled
<1>4. CASE ExtraTimeEnds
  BY <1>4 DEF ExtraTimeEnds
<1>5. ASSUME NEW signal \in Listeners, ShutdownRequest(signal)
      PROVE  Main'
  BY <1>5 DEF ShutdownRequest, Remaining
<1>6. ASSUME NEW signal \in Listeners, ForceExit(signal)
      PROVE  Main'
  BY <1>6 DEF ForceExit, Remaining
<1>7. ASSUME NEW signal \in Listeners, SendSignal(signal)
      PROVE  Main'
  BY <1>7 DEF SendSignal
<1>8. CASE ServerToggles
  BY <1>8 DEF ServerToggles
<1>9. CASE UNCHANGED vars
  BY <1>9 DEF vars
<1> QED
  BY <1>1, <1>2, <1>3, <1>4, <1>5, <1>6, <1>7, <1>8, <1>9 DEF TaskStep, SignalStep

-----------------------------------------------------------------------------
(* The signals. *)

LEMMA ReceiveOne ==
    ASSUME IInv, NEW signal \in pending
    PROVE  /\ IsFiniteSet(Remaining(signal))
           /\ Cardinality(Remaining(signal)) = Cardinality(pending) - 1
           /\ Cardinality(pending) \in Nat
BY FS_RemoveElement, FS_CardinalityType DEF Remaining, IInv, Counted

LEMMA CountedKeeps ==
    ASSUME IInv, [Next]_vars
    PROVE  Counted'
<1> USE DEF IInv, Counted
<1>1. ASSUME NEW signal \in Listeners, ShutdownRequest(signal)
      PROVE  Counted'
  BY <1>1, ReceiveOne DEF ShutdownRequest, received, TypeOK
<1>2. ASSUME NEW signal \in Listeners, ForceExit(signal)
      PROVE  Counted'
  BY <1>2, ReceiveOne DEF ForceExit, received, TypeOK
<1>3. ASSUME NEW signal \in Listeners, SendSignal(signal)
      PROVE  Counted'
  <2>1. /\ IsFiniteSet(pending')
        /\ Cardinality(pending') <= Cardinality(pending) + 1
        /\ Cardinality(pending) \in Nat /\ Cardinality(pending') \in Nat
    <3>1. pending' = pending \cup {signal}
      BY <1>3 DEF SendSignal
    <3>2. Cardinality(pending) \in Nat
      BY FS_CardinalityType
    <3>3. IsFiniteSet(pending') /\ (Cardinality(pending') = Cardinality(pending) \/ Cardinality(pending') = Cardinality(pending) + 1)
      BY <3>1, FS_AddElement
    <3> QED
      BY <3>2, <3>3
  <2> QED
    BY <1>3, <2>1 DEF SendSignal, received, TypeOK
<1>4. ASSUME UNCHANGED signals, token => token', exit' # "forced", exit # "forced"
      PROVE  Counted'
  BY <1>4 DEF signals, received
<1>5. ASSUME UNCHANGED <<signals, exit>>, token => token', pc = "exited" => pc' = "exited"
      PROVE  Counted'
  BY <1>5 DEF signals, received
<1>6. CASE MainStep
  <2>1. exit # "forced"
    BY <1>6 DEF MainStep, Connect, ConnectFails, FirstConnectFailed, GiveUp, Retry, SleepOver, Shutdown,
                Bind, NoDataControlManager, WaylandError, LastWaylandError, Exit, Cancellable
  <2>2. UNCHANGED signals /\ (token => token') /\ exit' # "forced"
    BY <1>6, <2>1 DEF MainStep, Connect, ConnectFails, FirstConnectFailed, GiveUp, Retry, SleepOver, Shutdown,
                Bind, NoDataControlManager, WaylandError, TokenAfterError, LastWaylandError, Exit, Return
  <2> QED
    BY <2>1, <2>2, <1>4
<1>7. CASE SpawnWrite \/ TaskStep \/ ServerToggles
  BY <1>5, <1>7 DEF TaskStep, SpawnWrite, WriteEnds, WriteCancelled, ExtraTimeEnds, ServerToggles
<1>8. CASE UNCHANGED vars
  BY <1>5, <1>8 DEF vars, signals
<1> QED
  BY <1>1, <1>2, <1>3, <1>6, <1>7, <1>8 DEF Next, SignalStep

LEMMA NextIInv == IInv /\ [Next]_vars => IInv'
BY MainStepKeeps, OtherStepKeeps, CountedKeeps DEF Next, IInv, Main

LEMMA AlwaysIInv == Spec => []IInv
BY InitIInv, NextIInv, PTL DEF Spec

-----------------------------------------------------------------------------
(* The process stays well typed, and the tries counted never exceed those  *)
(* granted.                                                                *)
THEOREM TypeCorrect == Spec => []TypeOK
BY AlwaysIInv, PTL DEF IInv

(* Only a second signal forces the exit, and not before the shutdown       *)
(* request of the first.                                                   *)
THEOREM SecondSignalForces == Spec => []ForcedBySecondSignal
<1>1. IInv => ForcedBySecondSignal
  <2> SUFFICES ASSUME IInv, exit = "forced"
               PROVE  sent >= 2 /\ token
    BY DEF ForcedBySecondSignal
  <2>1. Cardinality(pending) \in Nat
    BY FS_CardinalityType DEF IInv, Counted
  <2> QED
    BY <2>1 DEF IInv, Counted, TypeOK, received
<1> QED
  BY <1>1, AlwaysIInv, PTL

(* No write task is cut short, and no exit code 0 given, for anything but  *)
(* the shutdown request, however many connections are lost before.         *)
THEOREM OnRequestOnly == Spec => []EndsEarlyOnRequestOnly
BY AlwaysIInv, PTL DEF IInv, Requested

(* Every Wayland error grants the whole number of tries, and no more.      *)
THEOREM TriesAsGranted == Spec => ReconnectBudget
<1>1. ASSUME IInv, [Next]_vars, pc = "failed", isReconnect
      PROVE  /\ pc' = "waitTasks" => failures = Tries
             /\ pc' \in {"connect", "sleep"} => failures # Tries
  <2> USE <1>1, TriesType, InfAssumption DEF IInv, TypeOK, Budget, Over
  <2>1. CASE GiveUp
    BY <2>1 DEF GiveUp, Return, Exhausted, CountedTries
  <2>2. CASE Retry
    BY <2>2 DEF Retry, Exhausted, CountedTries
  <2>3. CASE ~GiveUp /\ ~Retry
    <3>1. pc' \in {"failed", "exited"}
      BY <2>3 DEF Next, MainStep, Connect, ConnectFails, FirstConnectFailed, SleepOver, Shutdown, Cancellable,
                  Bind, NoDataControlManager, WaylandError, LastWaylandError, Exit, SpawnWrite, TaskStep,
                  WriteEnds, WriteCancelled, ExtraTimeEnds, SignalStep, ShutdownRequest, ForceExit,
                  SendSignal, ServerToggles, vars
    <3> QED
      BY <3>1
  <2> QED
    BY <2>1, <2>2, <2>3
<1> QED
  BY <1>1, AlwaysIInv, PTL DEF Spec, ReconnectBudget
=============================================================================
