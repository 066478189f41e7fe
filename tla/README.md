# A TLA+ verification of wl-clip-persist

wl-clip-persist keeps what is on a Wayland clipboard when the application that
put it there exits. It watches the selections through a data control protocol
(`ext-data-control-v1` or `wlr-data-control-unstable-v1`), reads what is
copied, sets the selection to its own copy of the data, and writes that data
to whoever pastes. These modules model the program's control, check it with
TLC on small instances, and prove what matters most with TLAPS for any size.

Paths below are those of the repository under `src/`, so the Rust sources are
in `src/src/`.

## 1. Inventory

The main task runs `run` on the main thread; the signal task and the write
tasks run on one worker thread (`main.rs:24`). The client's state belongs to
the main task alone, which the compositor and the applications interleave with
at its `.await` points; between the tasks there is the shutdown token and the
tracker of write tasks.

| part | code | state | operations |
|---|---|---|---|
| process lifecycle, reconnecting | `main.rs`; `wayland.rs` `run`, `run_until_shutdown_request` | whether this is a reconnect, the tries counted, the exit code | connect, retry, sleep, give up, end with an error or a shutdown, cancel and await the write tasks |
| signal handling | `signal.rs` | first or second request, the shutdown token | the first SIGINT or SIGTERM cancels the token, the second exits |
| registry, choice of protocol | `wayland.rs` `run_with_*_protocol`, `wl_registry_cb` | bound manager, map of seats, "manager was removed" flag | bind a manager, add and remove seats, end the connection |
| connection loop, selection handling | `wayland.rs` `run_with_connection`, `data_control_device_cb`, `data_source_cb`, `handle_new_selection_state`, `set_clipboard`; `states.rs` | per seat and selection type: `SeatSelectionState`, "got new selection", data sources; per seat: pending offers | dispatch of events, roundtrips, storing, setting the clipboard |
| mime types of an offer, creation of pipes | `wayland.rs` `data_control_offer_cb`, `should_ignore_offer`, `create_pipes*`; `states.rs` `MimeTypes` | mime types and bytes of an offer, whether it is our own | collect, filter, request pipes |
| reading the pipes | `wayland.rs` `read_pipe_to_data`, `read_pipes_to_data`, `handle_pipes_selection_state` | buffer per pipe, bytes read, counters | read, fail, finish, be interrupted and resumed |
| write tasks | `wayland.rs` `data_source_cb` (Send); `async_io.rs` `FdWrite` | cursor, deadline, pipe | write, time out, be cancelled, use the extra time |
| settings | `settings.rs` | none that changes | parse the command line |
| protocol traits | `protocol_traits.rs` | none | present both protocols through one interface |
| logging, zeroizing | `logger.rs`, `zeroize.rs` | none | format a line; overwrite memory on drop |

How they interact:

* `main` calls `wayland::run` for each connection; its result is an error to
  reconnect after, an error to exit with, or a shutdown.
* Events arrive from the socket and are dispatched by callbacks that change the
  shared `State`; `run_with_connection` acts on that state between two
  dispatches. It drops the reads that are in progress when events arrive, and
  starts them again with the state they left.
* The client does not know whether an offer is its own. It requests a pipe and
  does a roundtrip: a `Send` event for its own source with the mime type it
  asked for shows that it talks to itself. During this roundtrip every other
  event is dispatched as well.
* The reconnect loop, the connection and the write tasks hold children of the
  shutdown token: all are cancelled by the first signal, or by main once `run`
  has returned. The write tasks outlive the connection that spawned them.

What is hard, and hard to test: everything that happens during the roundtrip;
an offer that is announced while the pipes of the one before are read; our own
offers coming back; seats that go in the middle; ownership of protocol objects
across all of these; the sharing of one size limit by concurrent, interrupted
reads; two timers and a token racing in a write task; shutdown while
reconnecting; what was copied before or while a connection was lost. `PROJECT.json` lists each at its line under "hazards" with the
properties that cover it, or why none does.

What makes each part correct:

* lifecycle: the tries are granted anew after each connection that worked and
  counted exactly; the first signal always ends the process; nothing else cuts
  a write task short while the program goes on.
* registry: the seats watched are those there are; the manager bound
  can do what was asked, and one is found if there is one, unless an older
  global of the same protocol comes first; the connection ends if and only if that manager goes.
* selections: only the last selection announced is ever taken over, never our
  own; nothing learnt of is left unhandled; what was read is not forgotten;
  protocol objects have exactly one owner; what stays is eventually ours.
* mime types: the byte count is exact, what is filtered is never requested, what
  is offered is what was announced.
* pipes: the limit is exact; the data is complete.
* write tasks: every byte once; the deadline and the extra time hold.

## 2. Modules

### Selections (the core)

The client's task, the compositor and the applications, over the connections
that the client makes one after the other. The client's task is a program
counter with five places:

| `pc` | code | next |
|---|---|---|
| `wait` | the biased select at `wayland.rs:301`: blocked for events, reads in progress | `Dispatch` of the first event, `PipesRead`, `PipesFailed` |
| `dispatch` | `dispatch_events` at 349, one callback per step | further events, `EndDispatch` |
| `handle` | a pass of `handle_new_selection_state`, 1013-1089 | `Handle` creates pipes and sends the sync request |
| `roundtrip` | the dispatch within the roundtrip, 1089 | callbacks, `RoundtripDone`/`Resolve`, then `handle` again or `store` |
| `store` | 360-401 | `Store(k)`, `Flush` |

| variable | code |
|---|---|
| `seats`, `state`, `gotNew`, `offers`, `sources` | `State::seats` and the fields of `Seat` (`states.rs:46-67`), keyed by seat and selection type as in `Seat::get_selection` |
| `pipes` | the local `selection_pipes` of `handle_new_selection_state` |
| `sel`, `status`, `bound` | the compositor's selection, the life of a seat's global, whether its device is valid |
| `wire`, `reqs` | events and requests in flight, both in order |
| `objects`, `latest`, `taken` | history: offer objects that exist, what the last `Selection` event said, what was taken over |

`Reconnect` is the loss of the connection at any await that can return an I/O
error: the client starts with a new `State`, and the compositor either drops
the client (`DropClient`: our selections go, the others stay, and its seats
have to be listed again, `ListSeat`) or was started again
(`RestartCompositor`).

One action per callback branch and per step of the loop; the compositor serves
one request per step. The actions name their functions in comments and
`PROJECT.json` maps every definition to its lines.

What is abstracted: an offer is identified with the source it stands for; its
mime types and whether it is filtered are the constant `Ignored`; that its
pipes cannot be created, fail, or are never closed is `Faulty`; the reading of
pipes is one step (`PipesRead`), detailed in PipeReader; pasting needs nothing
of this state and is in WriteTask.

### Persistence

The abstract promise: a copy is learnt of, and taken over at most once, while
it is the last one learnt of; a lost connection forgets both. No offers, pipes,
roundtrips or seats.
`Selections!ImplementsPersistence` is the refinement, with `told` mapped to the
last announced selection of an application that is not filtered.

### OfferMimes

The mime types of one offer, from `data_control_offer_cb` over
`should_ignore_offer`, `create_pipes_for_mime_types` and
`handle_pipes_selection_state` to the source made in `set_clipboard`. The
regular expression is the set `Matching`, the sort key the function `Rank`; the
iteration order of the hash set is any order, sorted by rank if that workaround is
active. `Selections!Ignored` and `Faulty` stand for its outcomes, and PipeReader
starts with its `bytesRead`.

### PipeReader

The reads of one selection. `Poll` and `Interrupt` are the creation and the
dropping of the future in the select at `wayland.rs:301`; `ReadSome`,
`ReadEnd`, `ReadFails` are what one poll of one pipe does, and `Complete` what
`handle_pipes_selection_state` does with all of them. `ignoreOnError` is a
setting, chosen in `Init`.

### WriteTask

One task spawned for a `Send` event (`wayland.rs:1552-1637`): its two selects,
`FdWrite`'s partial writes, and a clock in ticks where a due timer fires before
the next tick.

### TimedTask

What a write task promises about time and nothing else: a countdown to its
deadline from the spawn on, one of the extra time from the cancellation on, and
a tick of the clock only when none is at zero. `WriteTask!ImplementsTimedTask`
is the refinement, from absolute deadlines to countdowns.

### Lifecycle

`main`, its reconnect loop, the task of `shutdown_token`, and the number of
write tasks. The settings of reconnecting are chosen in `Init`. A connection is
opaque: it stays, fails, or is shut down.

### Process

The composition of Lifecycle with write tasks that keep time. main's and the
signal task's steps are Lifecycle's actions, instantiated with the numbers of
tasks that write and that use their extra time; each task has the countdowns of
TimedTask. Tasks are spawned by any connection (`Spawn`), before and after the
token is cancelled. `Tick` waits for whatever is due. `sinceEnd` counts the
ticks since the token was cancelled or main began to wait for the tasks, apart
from those spent in a `connect`, which looks at no token.

### Registry

The globals, of any kind and in any order, before and after the bind; both
protocols with their versions; the `Finished` event, before or after the removal
of its seat. The settings that matter (`clipboard_type`, `force_protocol`) are
chosen in `Init`. `Roundtrip` is the one in `run`: it leaves the connection with
the globals there are at that moment (`globals`), and more may come and go before
the bind. Of several globals of one interface `bind_singleton` looks at the
first only (`FirstAnnounced`) and fails if that one's version does not do, so
`FindsSufficientManager` says no more than that: with one global per protocol,
which is what compositors offer, the client fails only if none suffices; with
a version 1 before a version 2 of the wlr manager, and the primary selection
wanted, it fails although the second would do.

The MC modules hold only values for constants. WriteTask needs none. The proofs
are in `SelectionsProofs` (in four parts), `RegistryProofs`, `OfferMimesProofs`,
`PipeReaderProofs`, `LifecycleProofs`, `WriteTaskProofs` and `ProcessProofs`, see
section 4. `Collections` has the lemmas that they share: induction over the
numbers and over the subsets of a finite set, what the sum over a finite set is
and how it changes, and queues of messages, where what `Within`, `Once`,
`Followed`, `LastOf` and `Ahead` say is kept when the front is removed and when
messages are added at the end.

### Operators named `X_Variant`

Some definitions are followed or preceded by variants such as
`Flagged_OffersOnly` or `ExceedsLimit_HeldOnly`. They are plausible bugs of
the definition before the underscore: putting one in its place makes TLC find
the property violated that "mutants" in `PROJECT.json` names. They are used
nowhere else.

## 3. What is checked

Every run finishes in minutes; the state counts are distinct states.

| run | properties | instance, and why it suffices |
|---|---|---|
| `Selections_both_types` | `RoundtripKeepsReadMimes`, `NoForgottenData`, `OfferOwnership`, `SourcesMatchServer`, `NothingLeftBehind`, `PersistsLatestOnly` | one seat, both types, three copies, one clear, one lost connection, the first copy faulty, the second filtered; 655 000. Three copies are one being read, one in a roundtrip and one pending; two types share the seat's offers |
| `Selections_two_seats` | `TypeOK`, `Settled` | two seats that come and go, two copies, one type, one lost connection; 2 920 000. `Settled` is about the loop serving one seat while the other changes; with `Enabled` only regular it also checks that an inactive type stays untouched |
| `Selections_persistence` | `ImplementsPersistence` | one seat, both types, three copies, one lost connection, no copy faulty or filtered, so that as many as possible are taken over; 2 150 000 |
| `Selections_liveness` | `Persists` | one seat, both types, three copies of which one is filtered and one faulty, one lost connection; 348 000. A copy of one type may be stuck while one of the other is to be taken over |
| `Registry_seats` | `TypeOK`, `SeatsFollowGlobals`, `FindsSufficientManager` | three globals of every kind and all settings; 3 430 000. Three names allow two wlr managers in either order next to an ext manager or a seat |
| `Registry_manager` | `EndsWithManager` (violated) | see the findings |
| `OfferMimes` | `TypeOK`, `LimitExact`, `FilteredNotRequested`, `OfferedAsAnnounced`, `AllOrNothing`, `KeysUnshared` | up to four announcements of four mime types of 1 to 3 bytes under a limit of 5, one of the types filtered and one ignored as a workaround; all settings; 218 000. Four announcements allow a repetition next to three different types, and exceeding the limit with one to come |
| `PipeReader` | `TypeOK`, `BytesAccounted`, `HeldWithinLimit`, `LimitNotSpurious`, `DataComplete`, `ReadsEnd` | three pipes of up to 3 bytes, a buffer of 2, a limit of 6 of which mime types take 1: one full pipe fits and two do not, and a full pipe takes two reads; 281 000 |
| `WriteTask` | `TypeOK`, `WrittenOnce`, `EndsInTime`, `ImplementsTimedTask`, `TaskEnds` | 4 bytes through a pipe of 2, a timeout of 5 and extra time of 2, so that a shutdown can come with either of them first |
| `Lifecycle_ending` | `TypeOK`, `ForcedBySecondSignal`, `EndsEarlyOnRequestOnly`, `ReconnectBudget`, `ShutdownCompletes` | no tries (an error leads straight to the exit), two tries without a delay, or endless ones with a delay; three signals of two kinds, two write tasks |
| `Process` | `TypeOK`, `ExitsInTime`, `ImplementsLifecycle`, `ImplementsTimedTasks`, `ShutdownCompletes` | three write tasks with a timeout of 3 and extra time of 2, two signals, no tries or one after a delay; 144 000. The timeout is longer than the extra time, so that either can end a task first; three tasks are one before, one at and one after the cancellation |
| `Lifecycle_spin` | `ShutdownCompletes` (violated) | endless tries without a delay: see the findings |

`CHECK_DEADLOCK FALSE` is set everywhere because every instance may stop: the
bounded applications have copied all they may, the process has exited, the
task or the selection is done. That the client does not stop while it has work
to do is what `Persists`, `NoForgottenData`, `TaskEnds` and
`ShutdownCompletes` say.

Bounds: `MaxCopies`, `MaxClears`, `MaxLosses` (Selections), `Tasks` (Process), `MaxWritten` (PipeReader),
`MaxAnnounced` (OfferMimes),
`MaxTime` (WriteTask, beyond every timer), `MaxSignals`, `MaxTasks` and the
saturating `failures` (Lifecycle), one life per global name and connection
(Selections and Registry).

### Fairness

* Selections: weak fairness of the client's task and of the compositor, which
  serves requests and lists its seats on a new connection; each runs when it
  can. The reads of a selection end
  (`PipesRead`) unless the copy is faulty: an application that does not write
  and close its pipe keeps the program from taking it over, there is no read
  timeout. Nothing is assumed of copying, clearing, losing the connection, or of seats
  that come and go.
* Lifecycle: weak fairness of each step of the main task, of the signal task
  and of the write tasks. `Shutdown` has strong fairness: with a compositor
  that accepts and drops connections its select is entered again and again and
  tokio's unbiased `select!` draws among ready branches, so a cancelled token
  is not passed over for ever. None is assumed of the user and the compositor.
  In `connect`, the model lets the compositor be down for ever.
* WriteTask: weak fairness of the task and of the clock, none of the reader.
* Process: as Lifecycle, but that write tasks end is not assumed. Weak fairness
  of the clock and of a task's branches that are due takes its place.
* PipeReader: the client polls the reads when it waits (weak fairness of
  `Poll`), and strong fairness of `ReadStep`. The select at `wayland.rs:301` is
  biased towards events, so a compositor that sends them without a gap keeps
  the pipes from being read; assumed is only that it leaves a gap again
  and again, never that events stop.

### Findings

1. `Registry_manager` violates `EndsWithManager`. `wl_registry_cb`
   (`wayland.rs:443`) compares the name of the removed global with the object id
   of the bound manager. A name is chosen by the compositor, an id by the
   client. When the manager's global is removed the flag is not set, and the
   removal of an unrelated global whose name equals the id ends the connection.
   `states.rs:40` documents the flag as tracking "whether the data control
   manager global was removed".
2. `Lifecycle_spin` violates `ShutdownCompletes`. With `--reconnect-tries inf`
   and a delay of zero, a failed reconnect is retried without an await and
   without a look at the token (`main.rs:70-88`), and connecting fails before
   its first await. The signal task cancels the token, but while the compositor
   is down nobody looks at it, and a first signal does not end the process as
   `signal.rs:20` and `wayland.rs:47` say; a second one does. The trace is
   under the fairness above. A number of tries, or a delay, ends the loop
   (`Lifecycle_ending`).

## 4. What is proved

Every theorem holds for all values of the constants that satisfy the named
assumptions of its module, the bounds (`MaxCopies`, `Tasks`, ...) among them.
Every safety property that a passing run checks is proved, and so are the
refinements of Persistence, TimedTask and Lifecycle.

`SelectionsProofs`, from `EnabledAssumption` (`Enabled` are selection types),
`MaxCopiesAssumption` (a number), `NoneAssumption` (`None` is no source) and,
from the third part on, `NoCopyAssumption` (`None` is no copy). Its first part
is about the client alone:

* `TypeCorrect`: `Spec => []TypeOK`. `TypeOK` is inductive as it stands,
  because `StateOK` ties the tag of a selection state to its offer (a state
  that reads or holds data has one) and pins the types that are not activated
  to the initial state. The proof has a lemma per action group.
* `AlwaysSettled`: `Spec => []Settled`. `Settled` speaks of `wait` and `store`
  only, so it is strengthened with `RoundtripCovers` (during the roundtrip,
  every selection still to be handled has pipes waiting or its flag set, so
  that the loop at `wayland.rs:1096-1101` either resolves it or goes round
  again) and `GoneSeatsWait` (a seat that is not bound has its selections
  reset, so a seat that goes takes its unhandled selections with it).
* `UnreachableIsUnreachable`: `Spec => []RoundtripKeepsReadMimes`, the
  `unreachable!` at the end of `handle_new_selection_state`. A selection whose
  pipes are current (seat bound, no new selection flagged) is in `ReadMimes`
  with the offer they were made for, whatever was dispatched in between. The
  danger is a seat that is removed and bound again under the same name within
  one roundtrip: its flag would be reset while the old pipes are still there.
  `NamesFresh` says that cannot be: a name is announced once per connection, so
  an announcement still to be dispatched is of a seat that is not bound and
  has no pipes; a lost connection takes the announcements with it.

The second part says what both ends know of each other while messages are in
flight. It rests on the queues of `Collections` and on what each step sends
(`Talks`, `Requests`), so that its invariants have five cases: an event dispatched, the client on its own, a selection taken over, the outside
world, a lost connection.

* `DataIsNotForgotten`: `Spec => []NoForgottenData`. The invariant has three
  parts. `Paired(wire)`: each announced offer is followed by its selection,
  which every way of the compositor to put events on the wire keeps.
  `PendingTold`: the pending offers of a seat are the seat's, and their
  selections are still to come. `DataWaits`: where the client blocks, data
  waits only if offers are pending; `Flush` leaves none that could be stored,
  and `PipesRead` stores at once otherwise. `SelOfKey` (a selection is a source
  of its own key) is needed for what the compositor advertises.
* `SeatsAreAgreed`: `Spec => []SeatInv`. Where one side has a seat and the other
  has not, the request or event that settles it is under way; a seat that the
  client does not know yet comes with nothing said of it on this connection.
* `ClientIsTold`: `Spec => []ToldInv`. Of a seat both sides have, the last
  `Selection` event on the wire is what the selection is; with none on the
  wire the client knows it already. The client knows what an event says only
  if it has the event's offer, so the proof needs `Introduced`: a `Selection`
  event comes right behind the `DataOffer` event of its offer, or is the first
  on the wire with the offer pending.

The third part is about the client's own selections. At its centre is that the
client never reads its own pipes (`ReadsForeign`). `OwnDetected` is why: while the roundtrip goes on, for
each current pipe of an own offer, either the `receive` request is yet to be
served, or there is evidence ahead of the answer: a `Send` event for a source
the client keeps, or an event that outdates the pipe. When the request is
served the compositor's selection is the offer still, and then `OwnKept` has the
client keep the source, or it is not, and then `ToldInv` has an event say so.
That the client keeps its sources (`SetKept`, `OwnKept`) needs that no
`Cancelled` event is on the way for one that is or becomes the selection
(`CancelledGone`, `PendingNew`), which needs each to be new when it is set
(`Unused`, `NotTaken`), which needs what is taken over to be an application's,
`ReadsForeign` again. They are proved as one invariant, `SourceInv`.

* `SourcesAgree`: `Spec => []SourcesMatchServer`.
* `OffersAreOwned`: `Spec => []OfferOwnership`. A selection is told once
  (`ToldOnce`), so an offer whose `Selection` event is still to come is not one
  that is being read.
* `TakesLatestOnly`: `Spec => PersistsLatestOnly`.
* `Implements`: `Spec => ImplementsPersistence`. A dispatched `Selection` event
  maps to `Learn`, a take-over to `TakeOver` (of a copy not taken over before,
  by `NotTaken`), a lost connection to `Forget`, all else to a stutter.

The fourth part asks whether anything is left behind:

* `LeavesNothingBehind`: `Spec => []NothingLeftBehind`, the safety part of
  `Persists`: what a scheduler cannot mend is a state in which nobody has
  anything to do and the selection is not kept. Its invariant has three parts.
  `StateKnown`: a state without an offer says why there is none, so a client
  that waits for new offers has dealt with the last one (cleared, its own,
  filtered, failed or taken over). `OwnFlag`: a state that says its offer is
  the client's own is right. `TakenPending`: of a selection that was taken over
  and is still the application's, the request that replaces it is on its way.
  With nothing in flight, `ClientIsTold` makes the last offer the compositor's
  selection, `TakenPending` makes it ours if it was taken over,
  `DataIsNotForgotten` excludes `GotData` and `AlwaysSettled` the states still to
  be handled.

`RegistryProofs`, from `NamesAssumption` and `NoneAssumption`:

* `TypeCorrect`: `Spec => []TypeOK`; only seats are in the map of seats.
* `FindsManager`: `Spec => FindsSufficientManager`. Its invariant `Announced` says
  that until the bind every announcement is still on the wire, so that of
  several globals one is the first (`FirstOfSome`), and a failure is due to the
  version of that one.
* `SeatsFollowed`: `Spec => []SeatsFollowGlobals`. Its invariant `SeatInv` says
  of each seat what its events on the wire are still to tell: a live seat is
  watched or its `Global` event is on its way, a finished or gone seat that is
  watched has its `Finished` or `GlobalRemove` event on its way, and a `Global`
  event of a seat that is gone has a `GlobalRemove` event behind it. A seat
  whose device finishes too, before or after its global goes, is removed by the
  first of the two events and not missed by the second.

`OfferMimesProofs`, for any mime types of any size, any filter, any limit or
none:

* `TypeCorrect`, `LimitIsExact` (`LimitExact`), `OnlyFilteredRequested`
  (`FilteredNotRequested`), `OffersAsAnnounced` (`OfferedAsAnnounced`),
  `TakesAllOrNothing` (`AllOrNothing`), `KeysAreUnshared` (`KeysUnshared`).
  The invariant adds to `TypeOK` and `LimitExact` what is kept of the
  announcements (`Collected`: all of them, in order, unless the limit is
  exceeded, and nothing is requested unless the limit is kept and the filter
  passed) and which mime types the pipes and the data are still for (`Carried`:
  announced ones, and with errors not tolerated all that may be asked for).
* `OffersItsData`: what the source offers is what there is data for, each mime
  type as often as it was announced and in that order. `Picks` says so without
  recursion: by an increasing function from the places of the result to the
  places of the list that leaves out none.
* `ReadsStartWithinLimit`: the reads start with a count within the limit, which
  PipeReader assumes (`MimeBytesAssumption`).

`Among(list, S)`, the announced mime types that are in a set, is a recursive
function instead of `SelectSeq`, which takes an operator that no lemma can be
about.

`PipeReaderProofs`, for any finite set of pipes, any sizes, and any
interruptions of the reads:

* `TypeCorrect`, `AccountsExactly` (`BytesAccounted`), `HoldsWithinLimit`
  (`HeldWithinLimit`), `LimitIsExceeded` (`LimitNotSpurious`), `DataIsComplete`
  (`DataComplete`). The first four are inductive only together: that the bytes
  of a failed pipe can be taken back without going below zero needs them to be
  part of an exact count, and that the limit is reported only when it is
  exceeded needs the same count. `Ended` is for the last one: in a result that
  has data, each pipe is done, and was done only with its writer closed
  and all it wrote read.
* `ReadsLikeOneStep`: `Spec => [][ReadsOffer]_(Offer!vars)`. Seen from OfferMimes,
  with a pipe for each mime type, all of PipeReader is one `ReadPipes` or
  `DataExceedsLimit` step, and everything before it a stutter. With
  `ReadsStartWithinLimit` for what it starts from, this composes the two modules.
  The constants that the proof module declares are the parts of the offer that
  the reads leave alone.

The sums over pipes and mime types (`MapThenSumSet`) are folds, of which
`Collections` proves what they are for every finite set: the library's induction
theorems need an operator as an argument, so `NumberInduction` and
`SubsetInduction` take the set of those that satisfy the claim instead, and
rest on the fact that a set in a well-founded order has a minimal element.

`WriteTaskProofs`, from `SizeAssumption` and `TimeAssumption`:

* `TypeCorrect`, `EveryByteOnce` (`WrittenOnce`), `OverInTime` (`EndsInTime`),
  from one invariant: `Accounted` (every byte written is in the pipe or with the reader)
  and `OnTime` (the clock against both deadlines; between the cancellation and
  the second select no time passes).
* `KeepsTime`: `Spec => ImplementsTimedTask`, initial states to initial states
  and each step to a step or a stutter; the clock's tick needs `OnTime`.

`LifecycleProofs`:

* `TypeCorrect`, `SecondSignalForces` (`ForcedBySecondSignal`),
  `OnRequestOnly` (`EndsEarlyOnRequestOnly`), `TriesAsGranted`
  (`ReconnectBudget`), from an invariant that counts the signals sent and
  received, says that only a received one cancels the token before main is over
  (`Requested`), and ties the tries counted to the failures since the tries
  were last granted.

`ProcessProofs`, also from `TasksAssumption` (`Tasks` is finite):

* `GoneInTime`: `Spec => []ExitsInTime`. Its invariant `EndOK` says that while
  the process ends, no task has more left of its extra time than what is left
  of the process's: `Tick` moves both, a late task sees the token before the
  next tick, and the end is not begun twice.
* `RefinesLifecycle`: `Spec => ImplementsLifecycle`. A step of one task adds
  one to, or takes one from, the cardinality that stands for Lifecycle's
  number; the step lemmas on cardinalities rest on FiniteSetTheorems.
* `AllTasksKeepTime`: `Spec => ImplementsTimedTasks`, for all tasks at once.
* `TypeCorrect`, and `SecondSignalForces`, `CutShortOnRequestOnly`, `TriesAsGranted`:
  what `LifecycleProofs` proves is taken over through the refinement, with
  `INSTANCE LifecycleProofs`. Its assumptions hold of the numbers that Process
  puts in their place (`LifecycleAssumption`, `NumberOfTasks`). `TypeCorrect` also
  needs Lifecycle's invariant: that the tries counted never exceed those granted.

Only model-checked: liveness and fairness (`Persists`, `TaskEnds`, `ReadsEnd`,
`ShutdownCompletes`), which TLAPS cannot prove, and the two properties that the
code violates.

## 5. Assumptions

* A global's name is not used again in a connection, so a seat is announced at
  most once per name and connection.
* The connection delivers in order, both ways. The client library lists the
  globals it has heard of in the order of their announcement, and
  `bind_singleton` takes the first one of the interface.
* The compositor sends a device the current selection when it is bound, and
  `DataOffer` before its `Selection` event with nothing in between; the client
  may receive and dispatch them apart.
* A `receive` request for the selection that is our own source comes back as a
  `Send` event before the roundtrip's answer; one for a source that has been
  replaced in the meantime may.
* The compositor has ended the old connection, with the client's selections,
  before it serves the new one.
* The clock of Process and WriteTask does not run ahead of the program: a
  branch that is due is taken before the next tick.
* After the `Finished` event or the removal of a seat, events for its objects
  are dropped.
* An application closes its pipe when it has written all: a truncated write
  cannot be told from a complete one.

## 6. What is not modelled

* Logging, zeroizing and parsing of the command line: without state or without
  effect on it. Of the protocol traits, the events and requests they convert are
  the constructors in Selections; their delegations to the bindings of either
  protocol are not modelled.
* A flood of events without a gap: it keeps the pipes from being read, by the
  choice of a biased select. `ReadsEnd` holds with gaps.
* Limits of the operating system other than the failing of a pipe.

## 7. Plan

Done: Selections with lost connections, Persistence, OfferMimes, PipeReader,
WriteTask, TimedTask, Lifecycle, Process, Registry, and the proofs of every
safety property and refinement that is checked.

Left: OfferMimes in place of `Handle`'s pipes and of `PipesRead` for one selection
of Selections.
