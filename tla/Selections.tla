----------------------------- MODULE Selections -----------------------------
(***************************************************************************)
(* The selection state machine of wl-clip-persist: the client side of a    *)
(* connection (run_with_connection, the registry, device and source        *)
(* callbacks, handle_new_selection_state, set_clipboard, SeatSelectionState)*)
(* against a compositor and the applications that copy, and the loss of the*)
(* connection, after which main connects again with nothing of its state.  *)
(*                                                                         *)
(* The client is one task: it waits at a select, dispatches the events it  *)
(* received one after the other, opens pipes for the offers it wants, does *)
(* a roundtrip to learn whether an offer is its own, and takes over a      *)
(* selection once its pipes are read.  Between any two of these steps the  *)
(* compositor and the applications go on; their messages reach the client  *)
(* in order through wire, the client's reach the compositor through reqs.  *)
(***************************************************************************)
EXTENDS Naturals, Sequences

CONSTANTS
    Seats,      \* names of the wl_seat globals the compositor may announce
    Enabled,    \* the selection types the settings activate
    MaxCopies,  \* bound: copies applications make in a behaviour
    MaxClears,  \* bound: selections that get cleared in a behaviour
    MaxLosses,  \* bound: connections that are lost in a behaviour
    Ignored,    \* copies whose offers should_ignore_offer refuses
    Faulty,     \* copies whose pipes may fail, or are never closed by the app
    None        \* no offer, no source, no copy

SelectionType == {"Regular", "Primary"}
Key           == Seats \X SelectionType
Copy          == 1 .. MaxCopies

(* A data source: ours or an application's, for a key, with the data of a  *)
(* copy.  A source is offered to a device at most once, so the offer is    *)
(* identified with the source it stands for.                               *)
Source == [own : BOOLEAN, key : Key, copy : Copy]

ASSUME EnabledAssumption   == Enabled \subseteq SelectionType
ASSUME MaxCopiesAssumption == MaxCopies \in Nat
ASSUME NoneAssumption      == None \notin Source
ASSUME NoCopyAssumption    == None \notin Copy

VARIABLES
    pc,        \* where the client's task is
    seats,     \* State::seats, the seats bound by the client
    state,     \* Seat::{regular,primary}_selection
    gotNew,    \* Seat::got_new_{regular,primary}_selection
    offers,    \* Seat::selection_offers
    sources,   \* Seat::{regular,primary}_data_sources
    pipes,     \* selection_pipes of handle_new_selection_state
    replied,   \* the compositor answered the roundtrip
    objects,   \* history: data_control_offer objects the seats took and did not destroy
    latest,    \* history: what the last dispatched Selection event announced
    taken,     \* history: the copies the connection took over, in order
    sel,       \* compositor: the source that is the selection
    status,    \* compositor: life of the seat global
    bound,     \* compositor: the client's device for the seat is valid
    wire,      \* events sent to the client and not yet dispatched
    reqs,      \* requests sent to the compositor and not yet served
    copies,    \* copies made so far
    clears,    \* selections cleared so far
    losses     \* connections lost so far

client == <<pc, seats, state, gotNew, offers, sources, pipes, replied, objects, latest, taken>>
server == <<sel, status, bound>>
bounds == <<copies, clears, losses>>
vars   == <<client, server, wire, reqs, bounds>>

Own(k, copy)     == [own |-> TRUE, key |-> k, copy |-> copy]
Foreign(k, copy) == [own |-> FALSE, key |-> k, copy |-> copy]

-----------------------------------------------------------------------------
(* SeatSelectionState. own stands for fd_from_own_app: one of the pipes    *)
(* opened for the offer came back in a Send event of our own source.       *)

SelectionState(tag, offer) == [tag |-> tag, offer |-> offer, own |-> FALSE]

Waiting      == SelectionState("WaitingForNewOffers", None)
GotClear     == SelectionState("GotClear", None)
GotIgnored   == SelectionState("GotIgnoredEvent", None)
ReadMimes(o) == SelectionState("ReadMimes", o)
GotPipes(o)  == SelectionState("GotPipes", o)
GotData(o)   == SelectionState("GotData", o)

IsReading(k) == state[k].tag = "ReadMimes"

(* SeatSelectionState::destroy: the objects a state owns. *)
Held(k) == IF IsReading(k) THEN {state[k].offer} ELSE {}

(* The events and requests, as far as the client's state depends on them.  *)
DataOfferEv(o)    == [t |-> "DataOffer", offer |-> o]
SelectionEv(k, o) == [t |-> "Selection", key |-> k, offer |-> o]
SendEv(s)         == [t |-> "Send", offer |-> s]
CancelledEv(s)    == [t |-> "Cancelled", offer |-> s]
SeatEv(t, s)      == [t |-> t, seat |-> s]
DoneEv            == [t |-> "Done"]

RoundtripReq(os)  == [t |-> "Roundtrip", offers |-> os]
SetReq(s)         == [t |-> "SetSelection", source |-> s]
SeatReq(t, s)     == [t |-> t, seat |-> s]

(* What a device is told when src becomes the selection of k. *)
Advertise(k, src) ==
    IF src = None THEN <<SelectionEv(k, None)>>
                  ELSE <<DataOfferEv(src), SelectionEv(k, src)>>

(* Our source stops being the selection of k. *)
Replaced(k) ==
    IF sel[k] # None /\ sel[k].own THEN <<CancelledEv(sel[k])>> ELSE <<>>

Init ==
    /\ pc = "wait"
    /\ seats = {}
    /\ state = [k \in Key |-> Waiting]
    /\ gotNew = [k \in Key |-> FALSE]
    /\ offers = [s \in Seats |-> {}]
    /\ sources = [k \in Key |-> {}]
    /\ pipes = [k \in Key |-> None]
    /\ replied = FALSE
    /\ objects = {}
    /\ latest = [k \in Key |-> None]
    /\ taken = [k \in Key |-> <<>>]
    /\ sel = [k \in Key |-> None]
    /\ status = [s \in Seats |-> "new"]
    /\ bound = [s \in Seats |-> FALSE]
    /\ wire = <<>>
    /\ reqs = <<>>
    /\ copies = 0
    /\ clears = 0
    /\ losses = 0

-----------------------------------------------------------------------------
(* dispatch_events runs the callbacks, one event after the other, when the *)
(* main loop received events and again within the roundtrip.               *)

Receiving(t) ==
    /\ pc \in {"wait", "dispatch", "roundtrip"}
    /\ wire # <<>>
    /\ Head(wire).t = t

Received ==
    /\ wire' = Tail(wire)
    /\ pc' = IF pc = "roundtrip" THEN pc ELSE "dispatch"

event == Head(wire)

IsEnabled_AlwaysBound(k) == TRUE

(* The selection type is activated: the Option of Seat::bind is Some. *)
IsEnabled(k) == k[2] \in Enabled

(* Seat::destroy, or the fresh seat of Seat::bind: nothing is left of what *)
(* the old seat s held.                                                    *)
ResetSeat(s) ==
    /\ state' = [k \in Key |-> IF k[1] = s THEN Waiting ELSE state[k]]
    /\ gotNew' = [k \in Key |-> IF k[1] = s THEN FALSE ELSE gotNew[k]]
    /\ offers' = [offers EXCEPT ![s] = {}]
    /\ sources' = [k \in Key |-> IF k[1] = s THEN {} ELSE sources[k]]
    /\ objects' = objects \ (offers[s] \cup UNION {Held(k) : k \in {s} \X SelectionType})

(* wl_registry_cb, Global: bind the seat and get its device. *)
AddSeat ==
    /\ Receiving("Global")
    /\ Received
    /\ seats' = seats \cup {event.seat}
    /\ ResetSeat(event.seat)
    /\ reqs' = Append(reqs, SeatReq("Bind", event.seat))
    /\ UNCHANGED <<pipes, replied, latest, taken, server, bounds>>

(* wl_registry_cb, GlobalRemove, and data_control_device_cb, Finished. *)
RemoveSeat ==
    /\ Receiving("GlobalRemove") \/ Receiving("Finished")
    /\ Received
    /\ IF event.seat \in seats
       THEN /\ seats' = seats \ {event.seat}
            /\ ResetSeat(event.seat)
            /\ reqs' = Append(reqs, SeatReq("Destroy", event.seat))
       ELSE UNCHANGED <<seats, state, gotNew, offers, sources, objects, reqs>>
    /\ UNCHANGED <<pipes, replied, latest, taken, server, bounds>>

(* data_control_device_cb, DataOffer: it is unknown yet which selection it *)
(* becomes.                                                                *)
NewOffer ==
    /\ Receiving("DataOffer")
    /\ Received
    /\ LET o == event.offer
           s == o.key[1]
       IN IF s \in seats
          THEN /\ offers' = [offers EXCEPT ![s] = @ \cup {o}]
               /\ objects' = objects \cup {o}
          ELSE UNCHANGED <<offers, objects>>
    /\ UNCHANGED <<seats, state, gotNew, sources, pipes, replied, latest, taken, reqs, server, bounds>>

(* data_control_device_cb, Selection and PrimarySelection: the offer that  *)
(* the event moves out of selection_offers, if it is there.                *)
MaybeOffer(k, o) == IF o \in offers[k[1]] THEN o ELSE None

(* should_ignore_offer *)
ShouldIgnore(o) == o.copy \in Ignored

(* got_clear, got_ignored_event or read_mimes. *)
SelectedState(o) ==
    IF o = None THEN GotClear
    ELSE IF ShouldIgnore(o) THEN GotIgnored
    ELSE ReadMimes(o)

(* The event moves the offer out of selection_offers, of whichever type it *)
(* is.                                                                     *)
WithoutOffer_KeepIgnored(k, o) ==
    IF o # None /\ ShouldIgnore(o) THEN offers ELSE [offers EXCEPT ![k[1]] = @ \ {o}]

WithoutOffer(k, o) == [offers EXCEPT ![k[1]] = @ \ {o}]

(* got_new_selection is set whatever the event says, a cleared selection   *)
(* too.                                                                    *)
Flagged_OffersOnly(k, o) == IF o = None THEN gotNew ELSE [gotNew EXCEPT ![k] = TRUE]

Flagged(k, o) == [gotNew EXCEPT ![k] = TRUE]

(* The offer objects these destroy: the one of the state they replace and  *)
(* that of an ignored offer; of a type that is not enabled, the new one.   *)
DestroyedBySelection_KeepOld(k, o) ==
    IF IsEnabled(k) /\ (o = None \/ ~ShouldIgnore(o)) THEN {} ELSE {o}

DestroyedBySelection(k, o) ==
    IF ~IsEnabled(k) THEN {o}
    ELSE Held(k) \cup (IF o # None /\ ShouldIgnore(o) THEN {o} ELSE {})

NewSelection ==
    /\ Receiving("Selection")
    /\ Received
    /\ LET k == event.key
           s == k[1]
           o == MaybeOffer(k, event.offer)
       IN IF s \in seats
          THEN /\ offers' = WithoutOffer(k, o)
               /\ objects' = objects \ DestroyedBySelection(k, o)
               /\ latest' = [latest EXCEPT ![k] = o]
               /\ IF IsEnabled(k)
                  THEN /\ gotNew' = Flagged(k, o)
                       /\ state' = [state EXCEPT ![k] = SelectedState(o)]
                  ELSE UNCHANGED <<gotNew, state>>
          ELSE UNCHANGED <<offers, objects, latest, gotNew, state>>
    /\ UNCHANGED <<seats, sources, pipes, replied, taken, reqs, server, bounds>>

(* data_source_cb, Send: a file descriptor of our own pipes says that the  *)
(* offer we are reading is our own source.  (Any other is written to by a  *)
(* task and leaves the selection state alone.)                             *)
IsOwnPipe(k, s) == s \in sources[k] /\ IsReading(k) /\ state[k].offer = s

OwnPipe ==
    /\ Receiving("Send")
    /\ Received
    /\ LET k == event.offer.key
       IN state' = IF IsOwnPipe(k, event.offer)
                   THEN [state EXCEPT ![k].own = TRUE]
                   ELSE state
    /\ UNCHANGED <<seats, gotNew, offers, sources, pipes, replied, objects, latest, taken,
                   reqs, server, bounds>>

(* data_source_cb, Cancelled: destroy that source, unless it already is. *)
SourcesLeft_Keep(tracked, s) == tracked

SourcesLeft(tracked, s) == tracked \ {s}

SourceCancelled ==
    /\ Receiving("Cancelled")
    /\ Received
    /\ sources' = [sources EXCEPT ![event.offer.key] = SourcesLeft(@, event.offer)]
    /\ UNCHANGED <<seats, state, gotNew, offers, pipes, replied, objects, latest, taken,
                   reqs, server, bounds>>

(* The reply async_roundtrip waits for. *)
RoundtripDone ==
    /\ Receiving("Done")
    /\ Received
    /\ replied' = TRUE
    /\ UNCHANGED <<seats, state, gotNew, offers, sources, pipes, objects, latest, taken,
                   reqs, server, bounds>>

(* All the events that were received are dispatched; more may be on the    *)
(* wire.                                                                   *)
EndDispatch ==
    /\ pc = "dispatch"
    /\ pc' = "handle"
    /\ UNCHANGED <<seats, state, gotNew, offers, sources, pipes, replied, objects, latest, taken,
                   server, wire, reqs, bounds>>

-----------------------------------------------------------------------------
(* handle_new_selection_state *)

(* Keys whose pipes cannot be created: an I/O error or no mime type to ask *)
(* for.                                                                    *)
MayFail(k) == state[k].offer.copy \in Faulty

(* What creating the pipes leaves of the state of k. *)
Collected(k, failed) ==
    IF k \in failed \/ state[k].tag \in {"GotClear", "GotIgnoredEvent"} THEN Waiting ELSE state[k]

(* One iteration up to the roundtrip: create the pipes, reset what needs   *)
(* no roundtrip, return early if there are no pipes, clear the flags and   *)
(* send the receive requests and the sync.                                 *)
Handle ==
    /\ pc = "handle"
    /\ LET reading == {k \in Key : IsReading(k)}
       IN \E failed \in SUBSET {k \in reading : MayFail(k)} :
             LET got == reading \ failed
             IN /\ state' = [k \in Key |-> Collected(k, failed)]
                /\ objects' = objects \ {state[k].offer : k \in failed}
                /\ pipes' = [k \in Key |-> IF k \in got THEN state[k].offer ELSE None]
                /\ \/ /\ got = {}
                      /\ pc' = "store"
                      /\ UNCHANGED <<gotNew, reqs>>
                   \/ /\ got # {}
                      /\ pc' = "roundtrip"
                      /\ gotNew' = [k \in Key |-> FALSE]
                      /\ reqs' = Append(reqs, RoundtripReq({state[k].offer : k \in got}))
    /\ replied' = FALSE
    /\ UNCHANGED <<seats, offers, sources, latest, taken, server, wire, bounds>>

(* The pipes of k are still those of its selection: the seat is there and  *)
(* no newer selection came with the roundtrip.                             *)
PipesCurrent_SeatOnly(k) == pipes[k] # None /\ k[1] \in seats

PipesCurrent(k) == pipes[k] # None /\ k[1] \in seats /\ ~gotNew[k]

(* What the roundtrip told about k: the offer is ours, so ignore it, or it *)
(* is not, so read the pipes (got_pipes).                                  *)
Resolved_NoOwnCheck(k) ==
    IF PipesCurrent(k) /\ IsReading(k) THEN GotPipes(pipes[k]) ELSE state[k]

Resolved(k) ==
    IF ~(PipesCurrent(k) /\ IsReading(k)) THEN state[k]
    ELSE IF state[k].own THEN Waiting
    ELSE GotPipes(pipes[k])

Again_HandledOnly == \E k \in Key : pipes[k] # None /\ k[1] \in seats /\ gotNew[k]

(* Not only the selections with pipes: a seat that had none may have got a *)
(* selection during the roundtrip.                                         *)
Again == \E k \in Key : k[1] \in seats /\ gotNew[k]

(* The rest of the iteration, after the roundtrip. *)
Resolve ==
    /\ pc = "roundtrip"
    /\ replied
    /\ state' = [k \in Key |-> Resolved(k)]
    /\ objects' = objects \ UNION {Held(k) : k \in {j \in Key : PipesCurrent(j)}}
    /\ pipes' = [k \in Key |-> None]
    /\ pc' = IF Again THEN "handle" ELSE "store"
    /\ UNCHANGED <<seats, gotNew, offers, sources, replied, latest, taken, server, wire, reqs, bounds>>

-----------------------------------------------------------------------------
(* set_clipboard: a source of our own with the data that was read. *)
NextState_KeepData(k) == state[k]

(* set_clipboard ends with a reset. *)
NextState(k) == Waiting

SetClipboard(k) ==
    LET s == Own(k, state[k].offer.copy)
    IN /\ sources' = [sources EXCEPT ![k] = @ \cup {s}]
       /\ reqs' = Append(reqs, SetReq(s))
       /\ state' = [state EXCEPT ![k] = NextState(k)]
       /\ taken' = [taken EXCEPT ![k] = Append(@, s.copy)]

(* No offer of the seat waits to be told regular or primary. *)
NoPendingOffers(k) == offers[k[1]] = {}

(* The pipes of k are read while the client waits: set the clipboard, or   *)
(* keep the data until it is known what the pending offers are.            *)
PipesRead(k) ==
    /\ pc = "wait"
    /\ state[k].tag = "GotPipes"
    /\ IF NoPendingOffers(k)
       THEN SetClipboard(k)
       ELSE /\ state' = [state EXCEPT ![k] = GotData(state[k].offer)]
            /\ UNCHANGED <<sources, taken, reqs>>
    /\ UNCHANGED <<pc, seats, gotNew, offers, pipes, replied, objects, latest, server, wire, bounds>>

(* Reading failed, or the data exceeds the limit: ignore the selection. *)
PipesFailed(k) ==
    /\ pc = "wait"
    /\ state[k].tag = "GotPipes"
    /\ MayFail(k)
    /\ state' = [state EXCEPT ![k] = Waiting]
    /\ UNCHANGED <<pc, seats, gotNew, offers, sources, pipes, replied, objects, latest, taken,
                   server, wire, reqs, bounds>>

(* After the events, set the clipboards that had to wait. *)
Storable(k) == state[k].tag = "GotData" /\ NoPendingOffers(k)

Store(k) ==
    /\ pc = "store"
    /\ Storable(k)
    /\ SetClipboard(k)
    /\ UNCHANGED <<pc, seats, gotNew, offers, pipes, replied, objects, latest, server, wire, bounds>>

Flush ==
    /\ pc = "store"
    /\ \A k \in Key : ~Storable(k)
    /\ pc' = "wait"
    /\ UNCHANGED <<seats, state, gotNew, offers, sources, pipes, replied, objects, latest, taken,
                   server, wire, reqs, bounds>>

-----------------------------------------------------------------------------
(* An I/O error of receiving, flushing or the roundtrip, or the removal of *)
(* the manager's global, ends run_with_connection; main connects again and *)
(* run_until_shutdown_request makes a new State.                           *)
MayLoseConnection ==
    pc \in {"wait", "dispatch", "roundtrip"} \/ (pc = "store" /\ \A k \in Key : ~Storable(k))

NewState ==
    /\ pc' = "wait"
    /\ seats' = {}
    /\ state' = [k \in Key |-> Waiting]
    /\ gotNew' = [k \in Key |-> FALSE]
    /\ offers' = [s \in Seats |-> {}]
    /\ sources' = [k \in Key |-> {}]
    /\ pipes' = [k \in Key |-> None]
    /\ replied' = FALSE
    /\ objects' = {}
    /\ latest' = [k \in Key |-> None]
    /\ taken' = [k \in Key |-> <<>>]

(* What a compositor that goes on keeps of the client it lost: nothing; its*)
(* seats have to be listed in the new registry.                            *)
DropClient ==
    /\ sel' = [k \in Key |-> IF sel[k] # None /\ sel[k].own THEN None ELSE sel[k]]
    /\ status' = [s \in Seats |-> IF status[s] = "live" THEN "unlisted" ELSE status[s]]

(* A compositor that was started again has lost its applications too. *)
RestartCompositor ==
    /\ sel' = [k \in Key |-> None]
    /\ status' = [s \in Seats |-> "new"]

Reconnect ==
    /\ MayLoseConnection
    /\ losses < MaxLosses
    /\ losses' = losses + 1
    /\ NewState
    /\ DropClient \/ RestartCompositor
    /\ bound' = [s \in Seats |-> FALSE]
    /\ wire' = <<>>
    /\ reqs' = <<>>
    /\ UNCHANGED <<copies, clears>>

-----------------------------------------------------------------------------
(* The compositor and the applications (external). *)

(* src becomes the selection of k; the protocol leaves open whether the old *)
(* source learns of it before or after the devices do.                     *)
ChangeSelection(k, src) ==
    /\ sel' = [sel EXCEPT ![k] = src]
    /\ LET news == IF bound[k[1]] THEN Advertise(k, src) ELSE <<>>
       IN \/ wire' = wire \o Replaced(k) \o news
          \/ wire' = wire \o news \o Replaced(k)

(* The registry's Global event. *)
List(s) ==
    /\ status' = [status EXCEPT ![s] = "live"]
    /\ wire' = Append(wire, SeatEv("Global", s))
    /\ UNCHANGED <<client, sel, bound, reqs, bounds>>

AnnounceSeat(s) == status[s] = "new" /\ List(s)

(* A seat that is older than the connection. *)
ListSeat(s) == status[s] = "unlisted" /\ List(s)

WithdrawSeat(s) ==
    /\ status[s] = "live"
    /\ status' = [status EXCEPT ![s] = "gone"]
    /\ bound' = [bound EXCEPT ![s] = FALSE]
    /\ sel' = [k \in Key |-> IF k[1] = s THEN None ELSE sel[k]]
    /\ wire' = Append(wire, SeatEv("GlobalRemove", s))
    /\ UNCHANGED <<client, reqs, bounds>>

FinishDevice(s) ==
    /\ bound[s]
    /\ bound' = [bound EXCEPT ![s] = FALSE]
    /\ wire' = Append(wire, SeatEv("Finished", s))
    /\ UNCHANGED <<client, sel, status, reqs, bounds>>

AppCopy(k) ==
    /\ status[k[1]] \in {"live", "unlisted"}
    /\ copies < MaxCopies
    /\ copies' = copies + 1
    /\ ChangeSelection(k, Foreign(k, copies + 1))
    /\ UNCHANGED <<client, status, bound, reqs, clears, losses>>

(* An application clears the selection, or the one that owns it exits. *)
AppClear(k) ==
    /\ sel[k] # None
    /\ clears < MaxClears
    /\ clears' = clears + 1
    /\ ChangeSelection(k, None)
    /\ UNCHANGED <<client, status, bound, reqs, copies, losses>>

Requested(t) == reqs # <<>> /\ Head(reqs).t = t

ServeBind ==
    /\ Requested("Bind")
    /\ LET s == Head(reqs).seat
       IN IF status[s] = "live"
          THEN /\ bound' = [bound EXCEPT ![s] = TRUE]
               /\ wire' = wire \o Advertise(<<s, "Regular">>, sel[<<s, "Regular">>])
                               \o Advertise(<<s, "Primary">>, sel[<<s, "Primary">>])
          ELSE UNCHANGED <<bound, wire>>
    /\ reqs' = Tail(reqs)
    /\ UNCHANGED <<client, sel, status, bounds>>

(* Our sources of the seat go with it. *)
ServeDestroy ==
    /\ Requested("Destroy")
    /\ LET s == Head(reqs).seat
       IN /\ bound' = [bound EXCEPT ![s] = FALSE]
          /\ sel' = [k \in Key |-> IF k[1] = s /\ sel[k] # None /\ sel[k].own THEN None ELSE sel[k]]
    /\ reqs' = Tail(reqs)
    /\ UNCHANGED <<client, status, wire, bounds>>

(* A receive of our own source comes back to us.  One of an offer that is  *)
(* no longer the selection may be dropped.                                 *)
ServeReceive(o) ==
    /\ Requested("Roundtrip")
    /\ o \in Head(reqs).offers
    /\ reqs' = <<RoundtripReq(Head(reqs).offers \ {o})>> \o Tail(reqs)
    /\ \/ /\ o.own
          /\ wire' = Append(wire, SendEv(o))
       \/ /\ ~o.own \/ sel[o.key] # o
          /\ UNCHANGED wire
    /\ UNCHANGED <<client, server, bounds>>

ServeSync ==
    /\ Requested("Roundtrip")
    /\ Head(reqs).offers = {}
    /\ reqs' = Tail(reqs)
    /\ wire' = Append(wire, DoneEv)
    /\ UNCHANGED <<client, server, bounds>>

ServeSet ==
    /\ Requested("SetSelection")
    /\ LET s == Head(reqs).source
       IN IF bound[s.key[1]]
          THEN ChangeSelection(s.key, s)
          ELSE UNCHANGED <<sel, wire>>
    /\ reqs' = Tail(reqs)
    /\ UNCHANGED <<client, status, bound, bounds>>

-----------------------------------------------------------------------------
Dispatch == \/ AddSeat \/ RemoveSeat \/ NewOffer \/ NewSelection
            \/ OwnPipe \/ SourceCancelled \/ RoundtripDone

ClientStep == \/ Dispatch \/ EndDispatch \/ Handle \/ Resolve
              \/ \E k \in Key : Store(k)
              \/ Flush

Serve == \/ ServeBind \/ ServeDestroy \/ ServeSync \/ ServeSet
         \/ \E o \in Source : ServeReceive(o)

ServerStep == \/ Serve
              \/ \E s \in Seats : ListSeat(s)

Environment == \/ \E s \in Seats : AnnounceSeat(s) \/ WithdrawSeat(s) \/ FinishDevice(s)
               \/ \E k \in Key : AppCopy(k) \/ AppClear(k)

Next == \/ ClientStep
        \/ \E k \in Key : PipesRead(k) \/ PipesFailed(k)
        \/ ServerStep
        \/ Environment
        \/ Reconnect

Spec == Init /\ [][Next]_vars

(* The client's task runs, the compositor serves its requests, and an      *)
(* application that is not faulty writes its data and closes the pipe.     *)
Fairness ==
    /\ WF_vars(ClientStep)
    /\ WF_vars(ServerStep)
    /\ \A k \in Key : WF_vars(PipesRead(k) /\ ~MayFail(k))

FairSpec == Spec /\ Fairness

-----------------------------------------------------------------------------
Event ==
    [t : {"DataOffer", "Send", "Cancelled"}, offer : Source]
    \cup [t : {"Selection"}, key : Key, offer : Source \cup {None}]
    \cup [t : {"Global", "GlobalRemove", "Finished"}, seat : Seats]
    \cup [t : {"Done"}]

Request ==
    [t : {"Roundtrip"}, offers : SUBSET Source]
    \cup [t : {"SetSelection"}, source : Source]
    \cup [t : {"Bind", "Destroy"}, seat : Seats]

Tag == {"WaitingForNewOffers", "ReadMimes", "GotPipes", "GotData", "GotClear", "GotIgnoredEvent"}

StateRec == [tag : Tag, offer : Source \cup {None}, own : BOOLEAN]

(* The states that come with an offer have one, and a selection type that  *)
(* is not enabled never leaves the initial state (its Option is None).     *)
StateOK ==
    /\ state \in [Key -> StateRec]
    /\ \A k \in Key : state[k].tag \in {"ReadMimes", "GotPipes", "GotData"} => state[k].offer \in Source
    /\ \A k \in Key : k[2] \notin Enabled => state[k] = Waiting

(* Type invariant. *)
TypeOK ==
    /\ pc \in {"wait", "dispatch", "handle", "roundtrip", "store"}
    /\ seats \subseteq Seats
    /\ StateOK
    /\ gotNew \in [Key -> BOOLEAN]
    /\ offers \in [Seats -> SUBSET Source]
    /\ sources \in [Key -> SUBSET Source]
    /\ pipes \in [Key -> Source \cup {None}]
    /\ replied \in BOOLEAN
    /\ objects \subseteq Source
    /\ latest \in [Key -> Source \cup {None}]
    /\ taken \in [Key -> Seq(Copy)]
    /\ sel \in [Key -> Source \cup {None}]
    /\ status \in [Seats -> {"new", "unlisted", "live", "gone"}]
    /\ bound \in [Seats -> BOOLEAN]
    /\ wire \in Seq(Event)
    /\ reqs \in Seq(Request)
    /\ copies \in 0 .. MaxCopies
    /\ clears \in Nat
    /\ losses \in Nat

(* The branch that handle_new_selection_state declares unreachable: when   *)
(* the roundtrip is over, a selection whose pipes are not outdated is still*)
(* in ReadMimes, for the very offer the pipes were created for.            *)
RoundtripKeepsReadMimes ==
    pc = "roundtrip" =>
        \A k \in Key : PipesCurrent(k) => IsReading(k) /\ state[k].offer = pipes[k]

(* Wherever the client may block or store, every selection it learnt of has*)
(* been handled: none is left behind in ReadMimes, GotClear or GotIgnored  *)
(* by the loop of roundtrips, whatever came in during one.                 *)
Settled ==
    pc \in {"wait", "store"} =>
        \A k \in Key : state[k].tag \in {"WaitingForNewOffers", "GotPipes", "GotData"}

(* Data that was read is not forgotten: the client blocks on a selection in*)
(* GotData only while an offer of the seat is pending, whose Selection     *)
(* event will wake it up.                                                  *)
NoForgottenData ==
    pc = "wait" => \A k \in Key :
        state[k].tag = "GotData" =>
            \E o \in offers[k[1]] : \E i \in 1 .. Len(wire) : wire[i] = SelectionEv(o.key, o)

(* Every data_control_offer object of a seat that is bound has one owner:  *)
(* the seat's pending offers or the state that reads its mime types.  So   *)
(* none leaks and none is destroyed twice, with seats, types and flags     *)
(* coming and going.                                                       *)
OfferOwnership ==
    /\ objects = (UNION {offers[s] : s \in Seats}) \cup (UNION {Held(k) : k \in Key})
    /\ \A k \in Key : offers[k[1]] \cap Held(k) = {}

(* Our sources are the compositor's: one that is the selection has not been*)
(* destroyed by the client, and one the client still keeps is the          *)
(* selection, is about to become it, or its Cancelled event is on the way. *)
SourcesMatchServer ==
    \A k \in Key : bound[k[1]] =>
        /\ \/ sel[k] = None \/ ~sel[k].own
           \/ sel[k] \in sources[k]
           \/ \E i \in 1 .. Len(reqs) : reqs[i] = SeatReq("Destroy", k[1])
        /\ \A s \in sources[k] :
              \/ sel[k] = s
              \/ \E i \in 1 .. Len(reqs) : reqs[i] = SetReq(s)
              \/ \E i \in 1 .. Len(wire) : wire[i] = CancelledEv(s)

(* Whenever the client takes over a selection, it does so with the data of *)
(* the last selection it was told of for that seat and type, which is an   *)
(* application's and not filtered, and with no offer pending that might    *)
(* replace it (the data race GotData exists to avoid).                     *)
PersistsLatestOnly ==
    [][\A k \in Key : Len(taken'[k]) > Len(taken[k]) =>
          /\ IsEnabled(k)
          /\ latest[k] # None
          /\ ~latest[k].own
          /\ latest[k].key = k
          /\ ~ShouldIgnore(latest[k])
          /\ sources'[k] = sources[k] \cup {Own(k, latest[k].copy)}
          /\ offers[k[1]] = {}]_vars

(* What the program is for: a selection that an application made and that  *)
(* stays is eventually ours.                                               *)
Kept(k) ==
    \/ ~bound[k[1]] /\ k[1] \notin seats
    \/ sel[k] = None
    \/ sel[k].own
    \/ ShouldIgnore(sel[k])
    \/ sel[k].copy \in Faulty

Persists == <>[](\A k \in Key : IsEnabled(k) => Kept(k))

(* Whenever the client waits with nothing in flight, what it has not taken *)
(* over yet is being read: no selection that it ought to keep is left where*)
(* only another event would bring the client back to it.                   *)
AtRest == pc = "wait" /\ wire = <<>> /\ reqs = <<>>

NothingLeftBehind ==
    AtRest => \A k \in Key :
        IsEnabled(k) => Kept(k) \/ (state[k].tag = "GotPipes" /\ state[k].offer = sel[k])

-----------------------------------------------------------------------------
(* The client as Persistence promises it: told is what the last Selection  *)
(* event said about an application's copy that is not to be ignored.       *)
Told(k) ==
    IF latest[k] # None /\ ~latest[k].own /\ ~ShouldIgnore(latest[k]) /\ IsEnabled(k)
    THEN latest[k].copy
    ELSE None

Promise == INSTANCE Persistence WITH
    told <- [k \in Key |-> Told(k)]

(* The client implements what Persistence promises. *)
ImplementsPersistence == Promise!Spec
=============================================================================
