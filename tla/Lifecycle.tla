----------------------------- MODULE Lifecycle ------------------------------
(***************************************************************************)
(* The life of the wl-clip-persist process: main and its reconnect loop,   *)
(* the signal task that turns the first SIGINT or SIGTERM into a shutdown  *)
(* request and the second into an immediate exit, and the write tasks that *)
(* outlive the connection they were spawned for and that main waits for.   *)
(*                                                                         *)
(* What happens on a connection is left out here: it stays connected until *)
(* it fails or the shutdown token is cancelled.                            *)
(***************************************************************************)
EXTENDS Naturals

CONSTANTS
    Settings,    \* the settings the user may choose from, see SettingsAssumption
    Inf,         \* NumberOrInf::Inf
    Listeners,   \* the signals whose listeners could be set up
    MaxSignals,  \* bound: signals sent to the process
    MaxTasks     \* bound: write tasks at a time

ASSUME InfAssumption      == Inf \notin Nat
(* reconnect_tries, and whether reconnect_delay is zero *)
ASSUME SettingsAssumption == Settings \subseteq [tries : Nat \cup {Inf}, zeroDelay : BOOLEAN]
ASSUME BoundsAssumption   == MaxSignals \in Nat /\ MaxTasks \in Nat

VARIABLES
    settings,     \* chosen at startup
    pc,           \* main: connect, failed, sleep, roundtrip, connected, waitTasks, exited
    isReconnect,  \* is_reconnect
    tries,        \* connection_tries
    exit,         \* the exit code once it is known: none, 0, 1 or forced
    token,        \* shutdown_token is cancelled
    listener,     \* the signal task waits for the first or the second request
    pending,      \* signals delivered and not yet received by the listener
    writing,      \* number of write tasks in their first select
    extra,        \* number of write tasks in SHUTDOWN_EXTRA_WRITE_TIME
    serverUp,     \* the compositor accepts connections
    sent,         \* signals sent so far
    failures      \* history: failed connects since the last one that worked
                  \* (up to Tries + 1; not counted if Tries is Inf)

vars == <<settings, pc, isReconnect, tries, exit, token, listener, pending, writing, extra,
          serverUp, sent, failures>>

Tries == settings.tries

signals == <<listener, pending, sent>>
tasks   == <<writing, extra>>

Init ==
    /\ settings \in Settings
    /\ pc = "connect"
    /\ isReconnect = FALSE
    /\ tries = 0
    /\ exit = "none"
    /\ token = FALSE
    /\ listener = IF Listeners = {} THEN "off" ELSE "first"
    /\ pending = {}
    /\ writing = 0
    /\ extra = 0
    /\ serverUp \in BOOLEAN
    /\ sent = 0
    /\ failures = 0

-----------------------------------------------------------------------------
(* main: run returned, so cancel the write tasks, close the tracker and    *)
(* wait.                                                                   *)
Return_NoCancel(code) ==
    /\ pc' = "waitTasks"
    /\ exit' = code
    /\ token' = token

Return(code) ==
    /\ pc' = "waitTasks"
    /\ exit' = code
    /\ token' = TRUE

(* wayland::run: Connection::connect, which does not yield. *)
Connect ==
    /\ pc = "connect"
    /\ serverUp
    /\ pc' = "roundtrip"
    /\ failures' = 0
    /\ UNCHANGED <<settings, isReconnect, tries, exit, token, signals, tasks, serverUp>>

ConnectFails ==
    /\ pc = "connect"
    /\ ~serverUp
    /\ pc' = "failed"
    /\ failures' = IF Tries = Inf \/ failures > Tries THEN failures ELSE failures + 1
    /\ UNCHANGED <<settings, isReconnect, tries, exit, token, signals, tasks, serverUp>>

(* run, ConnectError on startup. *)
FirstConnectFailed ==
    /\ pc = "failed"
    /\ ~isReconnect
    /\ Return("1")
    /\ UNCHANGED <<settings, isReconnect, tries, signals, tasks, serverUp, failures>>

(* connection_tries counts only towards a number of tries. *)
CountedTries == IF Tries = Inf THEN tries ELSE tries + 1

Exhausted_OneMore == Tries # Inf /\ CountedTries = Tries + 1

Exhausted == CountedTries = Tries

(* run, ConnectError on a reconnect. *)
GiveUp ==
    /\ pc = "failed"
    /\ isReconnect
    /\ tries' = CountedTries
    /\ Exhausted
    /\ Return("1")
    /\ UNCHANGED <<settings, isReconnect, signals, tasks, serverUp, failures>>

Retry ==
    /\ pc = "failed"
    /\ isReconnect
    /\ tries' = CountedTries
    /\ ~Exhausted
    /\ pc' = IF settings.zeroDelay THEN "connect" ELSE "sleep"
    /\ UNCHANGED <<settings, isReconnect, exit, token, signals, tasks, serverUp, failures>>

SleepOver ==
    /\ pc = "sleep"
    /\ pc' = "connect"
    /\ UNCHANGED <<settings, isReconnect, tries, exit, token, signals, tasks, serverUp, failures>>

(* Where a select of the main task also waits for the shutdown token: the  *)
(* sleep before a reconnect, the first roundtrip and the connection.       *)
Cancellable_NoSleep == pc \in {"roundtrip", "connected"}

Cancellable == pc \in {"sleep", "roundtrip", "connected"}

Shutdown ==
    /\ Cancellable
    /\ token
    /\ Return("0")
    /\ UNCHANGED <<settings, isReconnect, tries, signals, tasks, serverUp, failures>>

(* The globals are there: a data control manager can be bound, or not. *)
Bind ==
    /\ pc = "roundtrip"
    /\ serverUp
    /\ pc' = "connected"
    /\ UNCHANGED <<settings, isReconnect, tries, exit, token, signals, tasks, serverUp, failures>>

NoDataControlManager ==
    /\ pc = "roundtrip"
    /\ serverUp
    /\ Return("1")
    /\ UNCHANGED <<settings, isReconnect, tries, signals, tasks, serverUp, failures>>

(* IoError or DataControlManagerGlobalRemoved ends the connection. *)
TriesAfterError_Kept == tries

TriesAfterError == 0

(* A connection is given a child of the token: its end leaves the token and*)
(* the write tasks that it spawned alone.                                  *)
TokenAfterError_Cancelled == TRUE

TokenAfterError == token

WaylandError ==
    /\ pc \in {"roundtrip", "connected"}
    /\ Tries # 0
    /\ isReconnect' = TRUE
    /\ tries' = TriesAfterError
    /\ token' = TokenAfterError
    /\ pc' = "connect"
    /\ UNCHANGED <<settings, exit, signals, tasks, serverUp, failures>>

LastWaylandError ==
    /\ pc \in {"roundtrip", "connected"}
    /\ Tries = 0
    /\ Return("1")
    /\ UNCHANGED <<settings, isReconnect, tries, signals, tasks, serverUp, failures>>

(* task_tracker.wait, and the exit. *)
TasksEnded_NotClosed == FALSE

TasksEnded == writing = 0 /\ extra = 0

Exit ==
    /\ pc = "waitTasks"
    /\ TasksEnded
    /\ pc' = "exited"
    /\ UNCHANGED <<settings, isReconnect, tries, exit, token, signals, tasks, serverUp, failures>>

-----------------------------------------------------------------------------
(* The write tasks of data_source_cb. *)

SpawnWrite ==
    /\ pc = "connected"
    /\ writing + extra < MaxTasks
    /\ writing' = writing + 1
    /\ UNCHANGED <<settings, pc, isReconnect, tries, exit, token, signals, extra, serverUp, failures>>

(* All is written, the write failed or it timed out. *)
WriteEnds ==
    /\ pc # "exited"
    /\ writing > 0
    /\ writing' = writing - 1
    /\ UNCHANGED <<settings, pc, isReconnect, tries, exit, token, signals, extra, serverUp, failures>>

WriteCancelled ==
    /\ pc # "exited"
    /\ writing > 0
    /\ token
    /\ writing' = writing - 1
    /\ extra' = extra + 1
    /\ UNCHANGED <<settings, pc, isReconnect, tries, exit, token, signals, serverUp, failures>>

ExtraTimeEnds ==
    /\ pc # "exited"
    /\ extra > 0
    /\ extra' = extra - 1
    /\ UNCHANGED <<settings, pc, isReconnect, tries, exit, token, signals, writing, serverUp, failures>>

-----------------------------------------------------------------------------
(* The task of shutdown_token. *)

Remaining_Keep(signal) == pending

(* recv takes the signal; several of one kind may have become one. *)
Remaining(signal) == pending \ {signal}

ShutdownRequest(signal) ==
    /\ pc # "exited"
    /\ listener = "first"
    /\ signal \in pending
    /\ pending' = Remaining(signal)
    /\ token' = TRUE
    /\ listener' = "second"
    /\ UNCHANGED <<settings, pc, isReconnect, tries, exit, sent, tasks, serverUp, failures>>

ForceExit(signal) ==
    /\ pc # "exited"
    /\ listener = "second"
    /\ signal \in pending
    /\ pending' = Remaining(signal)
    /\ pc' = "exited"
    /\ exit' = "forced"
    /\ UNCHANGED <<settings, isReconnect, tries, token, listener, sent, tasks, serverUp, failures>>

(* The user and the compositor (external). *)
SendSignal(signal) ==
    /\ pc # "exited"
    /\ sent < MaxSignals
    /\ sent' = sent + 1
    /\ pending' = pending \cup {signal}
    /\ UNCHANGED <<settings, pc, isReconnect, tries, exit, token, listener, tasks, serverUp, failures>>

ServerToggles ==
    /\ pc # "exited"
    /\ serverUp' = ~serverUp
    /\ UNCHANGED <<settings, pc, isReconnect, tries, exit, token, signals, tasks, failures>>

-----------------------------------------------------------------------------
MainStep == \/ Connect \/ ConnectFails \/ FirstConnectFailed \/ GiveUp \/ Retry
            \/ SleepOver \/ Shutdown \/ Bind \/ NoDataControlManager
            \/ WaylandError \/ LastWaylandError \/ Exit

TaskStep == WriteEnds \/ WriteCancelled \/ ExtraTimeEnds

SignalStep == \E signal \in Listeners : ShutdownRequest(signal) \/ ForceExit(signal)

Next == \/ MainStep
        \/ SpawnWrite
        \/ TaskStep
        \/ SignalStep
        \/ \E signal \in Listeners : SendSignal(signal)
        \/ ServerToggles

Spec == Init /\ [][Next]_vars

(* The main task and the signal task run; a write task ends, at the latest *)
(* with its timeout or its extra time.  A select that is entered again and *)
(* again with the token cancelled takes that branch: the sleep is not yet  *)
(* over then, and between branches that are both ready select! draws.      *)
Fairness ==
    /\ WF_vars(Connect \/ ConnectFails)
    /\ WF_vars(FirstConnectFailed \/ GiveUp \/ Retry)
    /\ WF_vars(SleepOver)
    /\ SF_vars(Shutdown)
    /\ WF_vars(Exit)
    /\ WF_vars(WriteEnds)
    /\ WF_vars(ExtraTimeEnds)
    /\ WF_vars(SignalStep)

FairSpec == Spec /\ Fairness

-----------------------------------------------------------------------------
(* Type invariant; the tries counted never exceed the number granted.      *)
TypeOK ==
    /\ settings \in Settings
    /\ pc \in {"connect", "failed", "sleep", "roundtrip", "connected", "waitTasks", "exited"}
    /\ isReconnect \in BOOLEAN
    /\ tries \in Nat
    /\ Tries # Inf => tries <= Tries
    /\ exit \in {"none", "0", "1", "forced"}
    /\ token \in BOOLEAN
    /\ listener \in {"off", "first", "second"}
    /\ pending \subseteq Listeners
    /\ writing \in 0 .. MaxTasks
    /\ extra \in 0 .. MaxTasks
    /\ serverUp \in BOOLEAN
    /\ sent \in 0 .. MaxSignals
    /\ failures \in Nat

(* With a number of tries, every Wayland error grants the whole number: the*)
(* process gives up after as many connects that failed in a row, neither   *)
(* earlier nor later, however often connections came and went before.      *)
ReconnectBudget ==
    [][pc = "failed" /\ isReconnect =>
          /\ pc' = "waitTasks" => failures = Tries
          /\ pc' \in {"connect", "sleep"} => failures # Tries]_vars

(* A lost connection is not a shutdown.  The write tasks it leaves behind  *)
(* keep their whole timeout over any number of reconnects: before main is  *)
(* over, only the first signal cuts them short.  And only that signal makes*)
(* the process exit with 0, whatever became of the connections.            *)
EndsEarlyOnRequestOnly ==
    /\ extra > 0 /\ pc \notin {"waitTasks", "exited"} => listener = "second"
    /\ exit = "0" => listener = "second"

(* One signal never forces the exit, and the shutdown request it was came  *)
(* first.                                                                  *)
ForcedBySecondSignal == exit = "forced" => sent >= 2 /\ token

(* The first signal is a graceful shutdown: the process ends, whatever the *)
(* compositor does and without a second signal.                            *)
ShutdownCompletes == (listener = "second") ~> (pc = "exited")
=============================================================================
