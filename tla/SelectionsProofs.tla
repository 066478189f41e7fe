-------------------------- MODULE SelectionsProofs --------------------------
(***************************************************************************)
(* Theorems about Selections, for every set of seats, every choice of      *)
(* selection types and copies that are ignored or faulty, and any number   *)
(* of copies.  In three parts:                                             *)
(*                                                                         *)
(* 1. What the client alone guarantees: types, the state after a dispatch, *)
(*    fresh offers and sources, steps that keep what has been read.        *)
(*                                                                         *)
(* 2. What the events and requests in flight between the client and the    *)
(*    compositor say of each other's state: about offers, about seats,     *)
(*    about roundtrips, and about the selection the client was last told   *)
(*    of; and that the client does not forget data it has read.            *)
(*                                                                         *)
(* 3. That the client takes over only the last selection it was told of,   *)
(*    that it implements Persistence, that its sources are the             *)
(*    compositor's and that its offers have one owner.                     *)
(***************************************************************************)
EXTENDS Selections, Collections

-----------------------------------------------------------------------------
(* Part 1: the client alone.                                               *)

(* What the state constructors and the helpers on one key return. *)
LEMMA StateTypes ==
    /\ Waiting \in StateRec /\ GotClear \in StateRec /\ GotIgnored \in StateRec
    /\ \A o \in Source : ReadMimes(o) \in StateRec /\ GotPipes(o) \in StateRec /\ GotData(o) \in StateRec
BY DEF StateRec, Tag, Waiting, GotClear, GotIgnored, ReadMimes, GotPipes, GotData, SelectionState

LEMMA KeyTypes ==
    /\ \A k \in Key : k[1] \in Seats /\ k[2] \in SelectionType /\ k = <<k[1], k[2]>>
    /\ \A s \in Seats, t \in SelectionType : <<s, t>> \in Key
BY DEF Key

LEMMA EventTypes ==
    /\ \A o \in Source : DataOfferEv(o) \in Event /\ SendEv(o) \in Event /\ CancelledEv(o) \in Event
    /\ \A k \in Key, o \in Source \cup {None} : SelectionEv(k, o) \in Event
    /\ \A t \in {"Global", "GlobalRemove", "Finished"}, s \in Seats : SeatEv(t, s) \in Event
    /\ DoneEv \in Event
BY DEF Event, DataOfferEv, SendEv, CancelledEv, SelectionEv, SeatEv, DoneEv

LEMMA RequestTypes ==
    /\ \A os \in SUBSET Source : RoundtripReq(os) \in Request
    /\ \A s \in Source : SetReq(s) \in Request
    /\ \A t \in {"Bind", "Destroy"}, s \in Seats : SeatReq(t, s) \in Request
BY DEF Request, RoundtripReq, SetReq, SeatReq

LEMMA WireAssociates == \A p, q, r \in Seq(Event) : (p \o q) \o r = p \o (q \o r)
BY ConcatAssociative

LEMMA AdvertiseType ==
    ASSUME NEW k \in Key, NEW src \in Source \cup {None}
    PROVE  Advertise(k, src) \in Seq(Event)
BY EventTypes DEF Advertise

LEMMA ReplacedType ==
    ASSUME NEW k \in Key, sel \in [Key -> Source \cup {None}]
    PROVE  Replaced(k) \in Seq(Event)
<1>1. CASE sel[k] # None /\ sel[k].own
  <2>1. sel[k] \in Source
    BY <1>1
  <2> QED
    BY <1>1, <2>1, EventTypes DEF Replaced
<1>2. CASE ~(sel[k] # None /\ sel[k].own)
  BY <1>2 DEF Replaced
<1> QED
  BY <1>1, <1>2

(* The offer field of an event in the tag it belongs to. *)
LEMMA EventFields ==
    ASSUME NEW e \in Event
    PROVE  /\ e.t \in {"DataOffer", "Send", "Cancelled"} => e.offer \in Source
           /\ e.t = "Selection" => e.key \in Key /\ e.offer \in Source \cup {None}
           /\ e.t \in {"Global", "GlobalRemove", "Finished"} => e.seat \in Seats
BY DEF Event

LEMMA RequestFields ==
    ASSUME NEW r \in Request
    PROVE  /\ r.t = "Roundtrip" => r.offers \subseteq Source
           /\ r.t = "SetSelection" => r.source \in Source
           /\ r.t \in {"Bind", "Destroy"} => r.seat \in Seats
BY DEF Request

LEMMA SourceFields ==
    ASSUME NEW o \in Source
    PROVE  o.own \in BOOLEAN /\ o.key \in Key /\ o.copy \in Copy /\ o # None
BY NoneAssumption DEF Source

-----------------------------------------------------------------------------
(* TypeOK is inductive. *)

LEMMA InitTypeOK == Init => TypeOK
<1> SUFFICES ASSUME Init PROVE TypeOK
  OBVIOUS
<1>1. state \in [Key -> StateRec] /\ \A k \in Key : state[k] = Waiting
  BY StateTypes DEF Init
<1>2. \A k \in Key : state[k].tag \notin {"ReadMimes", "GotPipes", "GotData"}
  BY <1>1 DEF Waiting, SelectionState
<1>3. copies \in 0 .. MaxCopies /\ clears \in Nat /\ losses \in Nat
  BY MaxCopiesAssumption DEF Init
<1>4. wire \in Seq(Event) /\ reqs \in Seq(Request) /\ taken \in [Key -> Seq(Copy)]
  BY DEF Init
<1> QED
  BY <1>1, <1>2, <1>3, <1>4 DEF Init, TypeOK, StateOK

LEMMA StateFacts ==
    ASSUME TypeOK, NEW k \in Key
    PROVE  /\ state[k] \in StateRec
           /\ state[k].tag \in {"ReadMimes", "GotPipes", "GotData"} => state[k].offer \in Source
           /\ k[2] \notin Enabled => state[k] = Waiting
BY DEF TypeOK, StateOK

(* Steps that leave each state alone, or reset it. *)
LEMMA ResetKeepsStateOK ==
    ASSUME StateOK, state' \in [Key -> StateRec],
           \A k \in Key : state'[k] = Waiting \/ state'[k] = state[k]
    PROVE  StateOK'
<1>1. Waiting.tag = "WaitingForNewOffers"
  BY DEF Waiting, SelectionState
<1> QED
  BY <1>1 DEF StateOK

LEMMA StateUnchanged == StateOK /\ state' = state => StateOK'
BY DEF StateOK

LEMMA WireStep ==
    ASSUME TypeOK, wire # <<>>
    PROVE  event \in Event /\ Tail(wire) \in Seq(Event)
BY HeadTailProperties DEF TypeOK, event

LEMMA ResetSeatTypes ==
    ASSUME TypeOK, NEW s \in Seats, ResetSeat(s)
    PROVE  /\ state' \in [Key -> StateRec]
           /\ \A k \in Key : state'[k] = Waiting \/ state'[k] = state[k]
           /\ gotNew' \in [Key -> BOOLEAN]
           /\ offers' \in [Seats -> SUBSET Source]
           /\ sources' \in [Key -> SUBSET Source]
           /\ objects' \subseteq Source
BY StateTypes DEF TypeOK, StateOK, ResetSeat

(* Only the wire, the requests and the compositor's state change. *)
LEMMA ServerStepTypeOK ==
    ASSUME TypeOK, UNCHANGED client,
           sel' \in [Key -> Source \cup {None}],
           status' \in [Seats -> {"new", "unlisted", "live", "gone"}],
           bound' \in [Seats -> BOOLEAN],
           wire' \in Seq(Event),
           reqs' \in Seq(Request),
           copies' \in 0 .. MaxCopies,
           clears' \in Nat,
           losses' \in Nat
    PROVE  TypeOK'
BY StateUnchanged DEF TypeOK, client

LEMMA ChangeSelectionTypes ==
    ASSUME TypeOK, NEW k \in Key, NEW src \in Source \cup {None}, ChangeSelection(k, src)
    PROVE  /\ sel' \in [Key -> Source \cup {None}]
           /\ wire' \in Seq(Event)
<1>1. Replaced(k) \in Seq(Event) /\ Advertise(k, src) \in Seq(Event)
  BY ReplacedType, AdvertiseType DEF TypeOK
<1>2. (IF bound[k[1]] THEN Advertise(k, src) ELSE <<>>) \in Seq(Event)
  BY <1>1
<1> DEFINE news == IF bound[k[1]] THEN Advertise(k, src) ELSE <<>>
<1>3. wire \in Seq(Event) /\ wire \o Replaced(k) \in Seq(Event) /\ wire \o news \in Seq(Event)
  BY <1>1, <1>2, ConcatProperties DEF TypeOK
<1>4. wire' \in Seq(Event)
  <2> HIDE DEF news
  <2>1. wire' = (wire \o Replaced(k)) \o news \/ wire' = (wire \o news) \o Replaced(k)
    BY DEF ChangeSelection, news
  <2>2. news \in Seq(Event)
    BY <1>2 DEF news
  <2> QED
    BY <1>1, <1>3, <2>1, <2>2, ConcatProperties
<1> QED
  BY <1>4 DEF ChangeSelection, TypeOK

(* set_clipboard *)
LEMMA SetClipboardTypes ==
    ASSUME TypeOK, NEW k \in Key, state[k].tag \in {"GotPipes", "GotData"}, SetClipboard(k)
    PROVE  /\ sources' \in [Key -> SUBSET Source]
           /\ reqs' \in Seq(Request)
           /\ state' \in [Key -> StateRec]
           /\ \A j \in Key : state'[j] = Waiting \/ state'[j] = state[j]
           /\ taken' \in [Key -> Seq(Copy)]
<1> DEFINE s == Own(k, state[k].offer.copy)
<1>1. state[k].offer \in Source
  BY StateFacts
<1>2. s \in Source /\ s.copy \in Copy
  BY <1>1, SourceFields DEF Own, Source
<1>3. reqs' \in Seq(Request) /\ taken' \in [Key -> Seq(Copy)]
  BY <1>2, RequestTypes, AppendProperties DEF SetClipboard, TypeOK
<1>4. state' \in [Key -> StateRec] /\ \A j \in Key : state'[j] = Waiting \/ state'[j] = state[j]
  BY StateTypes DEF SetClipboard, NextState, TypeOK, StateOK
<1> QED
  BY <1>2, <1>3, <1>4 DEF SetClipboard, TypeOK

LEMMA SelectedStateTypes ==
    ASSUME NEW o \in Source \cup {None}
    PROVE  /\ SelectedState(o) \in StateRec
           /\ SelectedState(o).tag \in {"ReadMimes", "GotPipes", "GotData"} => SelectedState(o).offer \in Source
<1>1. CASE o = None
  BY <1>1, StateTypes DEF SelectedState, GotClear, SelectionState
<1>2. CASE o \in Source
  BY <1>2, StateTypes, SourceFields DEF SelectedState, GotIgnored, ReadMimes, SelectionState
<1> QED
  BY <1>1, <1>2

LEMMA DispatchTypeOK == TypeOK /\ Dispatch => TypeOK'
<1> SUFFICES ASSUME TypeOK, Dispatch PROVE TypeOK'
  OBVIOUS
<1> USE DEF server, bounds
<1>1. event \in Event /\ Tail(wire) \in Seq(Event)
  BY WireStep DEF Dispatch, AddSeat, RemoveSeat, NewOffer, NewSelection, OwnPipe, SourceCancelled,
                  RoundtripDone, Receiving
<1>2. CASE AddSeat
  <2>1. event.seat \in Seats
    BY <1>1, <1>2, EventFields DEF AddSeat, Receiving, event
  <2>2. reqs' \in Seq(Request)
    BY <1>2, <2>1, RequestTypes, AppendProperties DEF AddSeat, TypeOK
  <2> QED
    BY <1>1, <1>2, <2>1, <2>2, ResetSeatTypes, ResetKeepsStateOK DEF TypeOK, AddSeat, Received
<1>3. CASE RemoveSeat
  <2>1. event.seat \in Seats
    BY <1>1, <1>3, EventFields DEF RemoveSeat, Receiving, event
  <2>2. CASE event.seat \in seats
    <3>1. reqs' = Append(reqs, SeatReq("Destroy", event.seat))
      BY <1>3, <2>2 DEF RemoveSeat
    <3>2. reqs' \in Seq(Request)
      BY <2>1, <3>1, RequestTypes, AppendProperties DEF TypeOK
    <3>3. /\ ResetSeat(event.seat)
          /\ seats' = seats \ {event.seat}
          /\ wire' = Tail(wire)
          /\ pc' \in {pc, "dispatch"}
          /\ UNCHANGED <<pipes, replied, latest, taken, server, bounds>>
      BY <1>3, <2>2 DEF RemoveSeat, Received
    <3> QED
      BY <1>1, <2>1, <3>2, <3>3, ResetSeatTypes, ResetKeepsStateOK DEF TypeOK
  <2>3. CASE event.seat \notin seats
    BY <1>1, <1>3, <2>3, StateUnchanged DEF TypeOK, RemoveSeat, Received
  <2> QED
    BY <2>2, <2>3
<1>4. CASE NewOffer
  <2>1. event.offer \in Source
    BY <1>1, <1>4, EventFields DEF NewOffer, Receiving, event
  <2>2. offers' \in [Seats -> SUBSET Source] /\ objects' \subseteq Source
    <3> DEFINE s == event.offer.key[1]
    <3>1. offers \in [Seats -> SUBSET Source] /\ objects \subseteq Source
      BY DEF TypeOK
    <3>2. CASE s \in seats
      <4>1. offers' = [offers EXCEPT ![s] = @ \cup {event.offer}] /\ objects' = objects \cup {event.offer}
        BY <1>4, <3>2 DEF NewOffer
      <4> HIDE DEF s
      <4> QED
        BY <2>1, <3>1, <4>1
    <3>3. CASE s \notin seats
      BY <1>4, <3>1, <3>3 DEF NewOffer
    <3> QED
      BY <3>2, <3>3
  <2> QED
    BY <1>1, <1>4, <2>2, StateUnchanged DEF TypeOK, NewOffer, Received
<1>5. CASE NewSelection
  <2> DEFINE k == event.key
             o == MaybeOffer(k, event.offer)
  <2>1. k \in Key /\ k[1] \in Seats /\ event.offer \in Source \cup {None}
    BY <1>1, <1>5, EventFields, KeyTypes DEF NewSelection, Receiving, event
  <2>2. o \in Source \cup {None}
    BY <2>1 DEF MaybeOffer
  <2>3. CASE k[1] \in seats
    <3>1. /\ offers' \in [Seats -> SUBSET Source]
          /\ objects' \subseteq Source
          /\ latest' \in [Key -> Source \cup {None}]
      <4>1. /\ offers' = [offers EXCEPT ![k[1]] = @ \ {o}]
            /\ objects' = objects \ DestroyedBySelection(k, o)
            /\ latest' = [latest EXCEPT ![k] = o]
        BY <1>5, <2>3 DEF NewSelection, WithoutOffer
      <4>2. /\ offers \in [Seats -> SUBSET Source]
            /\ objects \subseteq Source
            /\ latest \in [Key -> Source \cup {None}]
        BY DEF TypeOK
      <4> QED
        BY <2>1, <2>2, <4>1, <4>2
    <3>2. CASE IsEnabled(k)
      <4>1. gotNew' \in [Key -> BOOLEAN]
        BY <1>5, <2>1, <2>3, <3>2 DEF TypeOK, NewSelection, Flagged
      <4>2. state' = [state EXCEPT ![k] = SelectedState(o)]
        BY <1>5, <2>3, <3>2 DEF NewSelection
      <4>3. state' \in [Key -> StateRec]
        BY <2>1, <2>2, <4>2, SelectedStateTypes DEF TypeOK, StateOK
      <4>4. \A j \in Key : /\ state'[j].tag \in {"ReadMimes", "GotPipes", "GotData"} => state'[j].offer \in Source
                           /\ j[2] \notin Enabled => state'[j] = Waiting
        <5> SUFFICES ASSUME NEW j \in Key
                     PROVE  /\ state'[j].tag \in {"ReadMimes", "GotPipes", "GotData"} => state'[j].offer \in Source
                            /\ j[2] \notin Enabled => state'[j] = Waiting
          OBVIOUS
        <5>1. CASE j = k
          <6>1. state'[j] = SelectedState(o)
            BY <2>1, <4>2, <5>1 DEF TypeOK, StateOK
          <6> QED
            BY <2>2, <3>2, <5>1, <6>1, SelectedStateTypes DEF IsEnabled
        <5>2. CASE j # k
          <6>1. state'[j] = state[j]
            BY <2>1, <4>2, <5>2 DEF TypeOK, StateOK
          <6> QED
            BY <6>1, StateFacts
        <5> QED
          BY <5>1, <5>2
      <4> QED
        BY <1>1, <1>5, <3>1, <4>1, <4>3, <4>4 DEF TypeOK, StateOK, NewSelection, Received
    <3>3. CASE ~IsEnabled(k)
      BY <1>1, <1>5, <2>3, <3>1, <3>3, StateUnchanged DEF TypeOK, NewSelection, Received
    <3> QED
      BY <3>2, <3>3
  <2>4. CASE k[1] \notin seats
    BY <1>1, <1>5, <2>4, StateUnchanged DEF TypeOK, NewSelection, Received
  <2> QED
    BY <2>3, <2>4
<1>6. CASE OwnPipe
  <2> DEFINE k == event.offer.key
  <2>1. CASE IsOwnPipe(k, event.offer)
    <3>1. state' = [state EXCEPT ![k].own = TRUE] /\ state[k].tag = "ReadMimes"
      BY <1>6, <2>1 DEF OwnPipe, IsOwnPipe, IsReading
    <3>2. k \in Key
      BY <1>1, <1>6, EventFields, SourceFields DEF OwnPipe, Receiving, event
    <3>3. state' \in [Key -> StateRec]
      <4>1. state \in [Key -> StateRec]
        BY DEF TypeOK, StateOK
      <4> HIDE DEF k
      <4> QED
        BY <3>1, <3>2, <4>1 DEF StateRec
    <3>4. k[2] \in Enabled
      BY <3>1, <3>2, StateFacts DEF Waiting, SelectionState
    <3>5. \A j \in Key : /\ state'[j].tag = state[j].tag
                         /\ state'[j].offer = state[j].offer
                         /\ j # k => state'[j] = state[j]
      <4>1. state \in [Key -> StateRec]
        BY DEF TypeOK, StateOK
      <4> HIDE DEF k
      <4> QED
        BY <3>1, <3>2, <4>1 DEF StateRec
    <3>6. StateOK'
      BY <3>3, <3>4, <3>5 DEF TypeOK, StateOK
    <3> QED
      BY <1>1, <1>6, <3>6 DEF TypeOK, OwnPipe, Received
  <2>2. CASE ~IsOwnPipe(k, event.offer)
    BY <1>1, <1>6, <2>2, StateUnchanged DEF TypeOK, OwnPipe, Received
  <2> QED
    BY <2>1, <2>2
<1>7. CASE SourceCancelled
  BY <1>1, <1>7, StateUnchanged DEF TypeOK, SourceCancelled, Received, SourcesLeft
<1>8. CASE RoundtripDone
  BY <1>1, <1>8, StateUnchanged DEF TypeOK, RoundtripDone, Received
<1> QED
  BY <1>2, <1>3, <1>4, <1>5, <1>6, <1>7, <1>8 DEF Dispatch

LEMMA HandleTypeOK == TypeOK /\ Handle => TypeOK'
<1> SUFFICES ASSUME TypeOK, Handle PROVE TypeOK'
  OBVIOUS
<1> USE DEF server, bounds
<1> DEFINE reading == {k \in Key : IsReading(k)}
<1>1. PICK failed \in SUBSET {k \in reading : MayFail(k)} :
         LET got == reading \ failed
         IN /\ state' = [k \in Key |-> Collected(k, failed)]
            /\ objects' = objects \ {state[k].offer : k \in failed}
            /\ pipes' = [k \in Key |-> IF k \in got THEN state[k].offer ELSE None]
            /\ \/ /\ got = {}
                  /\ pc' = "store"
                  /\ UNCHANGED <<gotNew, reqs>>
               \/ /\ got # {}
                  /\ pc' = "roundtrip"
                  /\ gotNew' = [k \in Key |-> FALSE]
                  /\ reqs' = Append(reqs, RoundtripReq({state[k].offer : k \in got}))
  BY DEF Handle
<1> DEFINE got == reading \ failed
<1>2. \A k \in reading : k \in Key /\ state[k].offer \in Source
  BY StateFacts DEF IsReading
<1>3. StateOK'
  <2>1. state \in [Key -> StateRec]
    BY DEF TypeOK, StateOK
  <2>2. state' = [k \in Key |-> Collected(k, failed)]
    BY <1>1
  <2>3. \A k \in Key : state'[k] = Waiting \/ state'[k] = state[k]
    BY <2>2 DEF Collected
  <2>4. state' \in [Key -> StateRec]
    BY <2>1, <2>2, <2>3, StateTypes
  <2> QED
    BY <2>3, <2>4, ResetKeepsStateOK DEF TypeOK
<1>4. pipes' \in [Key -> Source \cup {None}]
  BY <1>1, <1>2
<1>5. reqs' \in Seq(Request) /\ gotNew' \in [Key -> BOOLEAN] /\ pc' \in {"store", "roundtrip"}
  <2> DEFINE r == RoundtripReq({state[k].offer : k \in got})
  <2>1. {state[k].offer : k \in got} \in SUBSET Source
    BY <1>2
  <2>2. r \in Request
    BY <2>1, RequestTypes
  <2>3. \/ pc' = "store" /\ gotNew' = gotNew /\ reqs' = reqs
        \/ /\ pc' = "roundtrip"
           /\ gotNew' = [k \in Key |-> FALSE]
           /\ reqs' = Append(reqs, r)
    BY <1>1
  <2>4. reqs \in Seq(Request) /\ gotNew \in [Key -> BOOLEAN]
    BY DEF TypeOK
  <2> HIDE DEF r
  <2>5. Append(reqs, r) \in Seq(Request)
    BY <2>2, <2>4, AppendProperties
  <2>6. [k \in Key |-> FALSE] \in [Key -> BOOLEAN]
    OBVIOUS
  <2> QED
    BY <2>3, <2>4, <2>5, <2>6
<1>6. objects' \subseteq Source
  BY <1>1 DEF TypeOK
<1> QED
  BY <1>3, <1>4, <1>5, <1>6 DEF TypeOK, Handle

LEMMA ResolveTypeOK == TypeOK /\ Resolve => TypeOK'
<1> SUFFICES ASSUME TypeOK, Resolve PROVE TypeOK'
  OBVIOUS
<1>1. StateOK'
  <2>1. state' = [k \in Key |-> Resolved(k)]
    BY DEF Resolve
  <2>2. \A k \in Key : \/ Resolved(k) = state[k]
                       \/ Resolved(k) = Waiting
                       \/ IsReading(k) /\ pipes[k] \in Source /\ Resolved(k) = GotPipes(pipes[k])
    BY DEF Resolved, PipesCurrent, TypeOK
  <2>3. \A k \in Key : Resolved(k) \in StateRec
    BY <2>2, StateTypes, StateFacts
  <2>4. state' \in [Key -> StateRec]
    BY <2>1, <2>3
  <2>5. \A k \in Key : state'[k].tag \in {"ReadMimes", "GotPipes", "GotData"} => state'[k].offer \in Source
    <3> SUFFICES ASSUME NEW k \in Key
                 PROVE  state'[k].tag \in {"ReadMimes", "GotPipes", "GotData"} => state'[k].offer \in Source
      OBVIOUS
    <3>1. state'[k] = Resolved(k)
      BY <2>1
    <3>2. Waiting.tag = "WaitingForNewOffers" /\ \A o : GotPipes(o).offer = o
      BY DEF Waiting, GotPipes, SelectionState
    <3> QED
      BY <2>2, <3>1, <3>2, StateFacts
  <2>6. \A k \in Key : k[2] \notin Enabled => state'[k] = Waiting
    <3> SUFFICES ASSUME NEW k \in Key, k[2] \notin Enabled
                 PROVE  state'[k] = Waiting
      OBVIOUS
    <3>1. state[k] = Waiting
      BY StateFacts
    <3>2. Waiting.tag = "WaitingForNewOffers"
      BY DEF Waiting, SelectionState
    <3> QED
      BY <2>1, <2>2, <3>1, <3>2 DEF IsReading
  <2> QED
    BY <2>4, <2>5, <2>6 DEF StateOK
<1>2. pipes' \in [Key -> Source \cup {None}] /\ objects' \subseteq Source /\ pc' \in {"handle", "store"}
  BY DEF Resolve, TypeOK
<1> QED
  BY <1>1, <1>2 DEF TypeOK, Resolve, server, bounds

LEMMA PipesReadTypeOK == ASSUME NEW k \in Key PROVE TypeOK /\ PipesRead(k) => TypeOK'
<1> SUFFICES ASSUME TypeOK, PipesRead(k) PROVE TypeOK'
  OBVIOUS
<1> USE DEF server, bounds
<1>1. CASE NoPendingOffers(k)
  <2>1. SetClipboard(k) /\ state[k].tag \in {"GotPipes", "GotData"}
    BY <1>1 DEF PipesRead
  <2> QED
    BY <2>1, SetClipboardTypes, ResetKeepsStateOK DEF TypeOK, PipesRead
<1>2. CASE ~NoPendingOffers(k)
  <2>1. state' = [state EXCEPT ![k] = GotData(state[k].offer)] /\ UNCHANGED <<sources, taken, reqs>>
    BY <1>2 DEF PipesRead
  <2>2. state[k].offer \in Source /\ k[2] \in Enabled
    BY StateFacts DEF PipesRead, Waiting, SelectionState
  <2>3. state \in [Key -> StateRec]
    BY DEF TypeOK, StateOK
  <2>4. state' \in [Key -> StateRec]
    BY <2>1, <2>2, <2>3, StateTypes
  <2>5. \A j \in Key : state'[j] = IF j = k THEN GotData(state[k].offer) ELSE state[j]
    BY <2>1, <2>3
  <2>6. GotData(state[k].offer).offer = state[k].offer
    BY DEF GotData, SelectionState
  <2>7. StateOK'
    BY <2>2, <2>4, <2>5, <2>6 DEF TypeOK, StateOK
  <2> QED
    BY <2>1, <2>7 DEF TypeOK, PipesRead
<1> QED
  BY <1>1, <1>2

LEMMA PipesFailedTypeOK == ASSUME NEW k \in Key PROVE TypeOK /\ PipesFailed(k) => TypeOK'
<1> SUFFICES ASSUME TypeOK, PipesFailed(k) PROVE TypeOK'
  OBVIOUS
<1>1. StateOK /\ state' = [state EXCEPT ![k] = Waiting]
  BY DEF TypeOK, PipesFailed
<1>2. state' \in [Key -> StateRec] /\ \A j \in Key : state'[j] = Waiting \/ state'[j] = state[j]
  BY <1>1, StateTypes DEF StateOK
<1> QED
  BY <1>1, <1>2, ResetKeepsStateOK DEF TypeOK, PipesFailed, server, bounds

LEMMA StoreTypeOK == ASSUME NEW k \in Key PROVE TypeOK /\ Store(k) => TypeOK'
<1> SUFFICES ASSUME TypeOK, Store(k) PROVE TypeOK'
  OBVIOUS
<1>1. SetClipboard(k) /\ state[k].tag \in {"GotPipes", "GotData"}
  BY DEF Store, Storable
<1> QED
  BY <1>1, SetClipboardTypes, ResetKeepsStateOK DEF TypeOK, Store, server, bounds

LEMMA ListTypeOK == ASSUME NEW s \in Seats PROVE TypeOK /\ List(s) => TypeOK'
<1> SUFFICES ASSUME TypeOK, List(s) PROVE TypeOK'
  OBVIOUS
<1>1. wire' \in Seq(Event)
  BY EventTypes, AppendProperties DEF List, TypeOK
<1>2. status' \in [Seats -> {"new", "unlisted", "live", "gone"}]
  BY DEF List, TypeOK
<1>3. UNCHANGED <<client, sel, bound, reqs, copies, clears, losses>>
  BY DEF List, bounds
<1> QED
  BY <1>1, <1>2, <1>3, ServerStepTypeOK DEF TypeOK

LEMMA EnvironmentTypeOK == TypeOK /\ Environment => TypeOK'
<1> SUFFICES ASSUME TypeOK, Environment PROVE TypeOK'
  OBVIOUS
<1>1. /\ wire \in Seq(Event) /\ reqs \in Seq(Request)
      /\ sel \in [Key -> Source \cup {None}]
      /\ status \in [Seats -> {"new", "unlisted", "live", "gone"}]
      /\ bound \in [Seats -> BOOLEAN]
      /\ copies \in 0 .. MaxCopies /\ clears \in Nat /\ losses \in Nat
  BY DEF TypeOK
<1>2. ASSUME NEW s \in Seats, AnnounceSeat(s) PROVE TypeOK'
  BY <1>2, ListTypeOK DEF AnnounceSeat
<1>3. ASSUME NEW s \in Seats, WithdrawSeat(s) PROVE TypeOK'
  <2>1. wire' \in Seq(Event)
    BY <1>1, <1>3, EventTypes, AppendProperties DEF WithdrawSeat
  <2> QED
    BY <1>1, <1>3, <2>1, ServerStepTypeOK DEF WithdrawSeat, bounds
<1>4. ASSUME NEW s \in Seats, FinishDevice(s) PROVE TypeOK'
  <2>1. wire' \in Seq(Event)
    BY <1>1, <1>4, EventTypes, AppendProperties DEF FinishDevice
  <2> QED
    BY <1>1, <1>4, <2>1, ServerStepTypeOK DEF FinishDevice, bounds
<1>5. ASSUME NEW k \in Key, AppCopy(k) PROVE TypeOK'
  <2>1. copies + 1 \in Copy /\ copies' \in 0 .. MaxCopies
    BY <1>1, <1>5, MaxCopiesAssumption DEF AppCopy, Copy
  <2>2. Foreign(k, copies + 1) \in Source
    BY <2>1 DEF Foreign, Source
  <2>3. sel' \in [Key -> Source \cup {None}] /\ wire' \in Seq(Event)
    BY <1>5, <2>2, ChangeSelectionTypes DEF AppCopy
  <2> QED
    BY <1>1, <1>5, <2>1, <2>3, ServerStepTypeOK DEF AppCopy
<1>6. ASSUME NEW k \in Key, AppClear(k) PROVE TypeOK'
  <2>1. sel' \in [Key -> Source \cup {None}] /\ wire' \in Seq(Event)
    BY <1>6, ChangeSelectionTypes DEF AppClear
  <2>2. clears' \in Nat
    BY <1>1, <1>6 DEF AppClear
  <2> QED
    BY <1>1, <1>6, <2>1, <2>2, ServerStepTypeOK DEF AppClear
<1> QED
  BY <1>2, <1>3, <1>4, <1>5, <1>6 DEF Environment

LEMMA ServeTypeOK == TypeOK /\ Serve => TypeOK'
<1> SUFFICES ASSUME TypeOK, Serve PROVE TypeOK'
  OBVIOUS
<1>1. /\ wire \in Seq(Event) /\ reqs \in Seq(Request)
      /\ sel \in [Key -> Source \cup {None}]
      /\ status \in [Seats -> {"new", "unlisted", "live", "gone"}]
      /\ bound \in [Seats -> BOOLEAN]
      /\ copies \in 0 .. MaxCopies /\ clears \in Nat /\ losses \in Nat
  BY DEF TypeOK
<1>2. reqs # <<>> /\ Head(reqs) \in Request /\ Tail(reqs) \in Seq(Request)
  BY <1>1, HeadTailProperties
     DEF Serve, ServeBind, ServeDestroy, ServeSync, ServeSet, ServeReceive, Requested
<1>3. CASE ServeBind
  <2> DEFINE s == Head(reqs).seat
  <2>1. s \in Seats
    BY <1>2, <1>3, RequestFields DEF ServeBind, Requested
  <2>2. CASE status[s] = "live"
    <3>1. /\ bound' = [bound EXCEPT ![s] = TRUE]
          /\ wire' = wire \o Advertise(<<s, "Regular">>, sel[<<s, "Regular">>])
                          \o Advertise(<<s, "Primary">>, sel[<<s, "Primary">>])
      BY <1>3, <2>2 DEF ServeBind
    <3>2. <<s, "Regular">> \in Key /\ <<s, "Primary">> \in Key
      BY <2>1, KeyTypes DEF SelectionType
    <3>3. /\ Advertise(<<s, "Regular">>, sel[<<s, "Regular">>]) \in Seq(Event)
          /\ Advertise(<<s, "Primary">>, sel[<<s, "Primary">>]) \in Seq(Event)
      BY <1>1, <3>2, AdvertiseType
    <3>4. wire' \in Seq(Event)
      BY <1>1, <3>1, <3>3, ConcatProperties
    <3>5. bound' \in [Seats -> BOOLEAN]
      BY <1>1, <3>1
    <3> QED
      BY <1>1, <1>2, <1>3, <3>4, <3>5, ServerStepTypeOK DEF ServeBind, bounds
  <2>3. CASE status[s] # "live"
    BY <1>1, <1>2, <1>3, <2>3, ServerStepTypeOK DEF ServeBind, bounds
  <2> QED
    BY <2>2, <2>3
<1>4. CASE ServeDestroy
  <2>1. sel' \in [Key -> Source \cup {None}] /\ bound' \in [Seats -> BOOLEAN]
    BY <1>1, <1>4 DEF ServeDestroy
  <2> QED
    BY <1>1, <1>2, <1>4, <2>1, ServerStepTypeOK DEF ServeDestroy, bounds
<1>5. CASE ServeSync
  <2>1. wire' \in Seq(Event)
    BY <1>1, <1>5, EventTypes, AppendProperties DEF ServeSync
  <2> QED
    BY <1>1, <1>2, <1>5, <2>1, ServerStepTypeOK DEF ServeSync, server, bounds
<1>6. CASE ServeSet
  <2> DEFINE s == Head(reqs).source
  <2>1. s \in Source /\ s.key \in Key
    BY <1>2, <1>6, RequestFields, SourceFields DEF ServeSet, Requested
  <2>2. \/ ChangeSelection(s.key, s)
        \/ UNCHANGED <<sel, wire>>
    BY <1>6 DEF ServeSet
  <2>3. sel' \in [Key -> Source \cup {None}] /\ wire' \in Seq(Event)
    BY <1>1, <2>1, <2>2, ChangeSelectionTypes
  <2> QED
    BY <1>1, <1>2, <1>6, <2>3, ServerStepTypeOK DEF ServeSet, bounds
<1>7. ASSUME NEW o \in Source, ServeReceive(o) PROVE TypeOK'
  <2> DEFINE r == RoundtripReq(Head(reqs).offers \ {o})
  <2>1. r \in Request
    BY <1>2, <1>7, RequestFields, RequestTypes DEF ServeReceive, Requested
  <2>2. reqs' = <<r>> \o Tail(reqs)
    BY <1>7 DEF ServeReceive
  <2>3. reqs' \in Seq(Request)
    <3> HIDE DEF r
    <3>1. <<r>> \in Seq(Request)
      BY <2>1
    <3> QED
      BY <1>2, <2>2, <3>1, ConcatProperties
  <2>4. wire' = wire \/ wire' = Append(wire, SendEv(o))
    BY <1>7 DEF ServeReceive
  <2>5. wire' \in Seq(Event)
    <3>1. SendEv(o) \in Event
      BY EventTypes
    <3> QED
      BY <1>1, <2>4, <3>1, AppendProperties
  <2> QED
    BY <1>1, <1>7, <2>3, <2>5, ServerStepTypeOK DEF ServeReceive, server, bounds
<1> QED
  BY <1>3, <1>4, <1>5, <1>6, <1>7 DEF Serve

LEMMA ReconnectTypeOK == TypeOK /\ Reconnect => TypeOK'
<1> SUFFICES ASSUME TypeOK, Reconnect PROVE TypeOK'
  OBVIOUS
<1>1. state' \in [Key -> StateRec] /\ \A k \in Key : state'[k] = Waiting
  BY StateTypes DEF Reconnect, NewState
<1>2. StateOK'
  BY <1>1, ResetKeepsStateOK DEF TypeOK
<1>3. sel' \in [Key -> Source \cup {None}] /\ status' \in [Seats -> {"new", "unlisted", "live", "gone"}]
  BY DEF Reconnect, DropClient, RestartCompositor, TypeOK
<1>4. wire' \in Seq(Event) /\ reqs' \in Seq(Request)
  BY DEF Reconnect
<1>5. taken' \in [Key -> Seq(Copy)]
  BY DEF Reconnect, NewState
<1>6. /\ gotNew' \in [Key -> BOOLEAN]
      /\ offers' \in [Seats -> SUBSET Source]
      /\ sources' \in [Key -> SUBSET Source]
      /\ pipes' \in [Key -> Source \cup {None}]
      /\ latest' \in [Key -> Source \cup {None}]
  BY DEF Reconnect, NewState
<1>7. /\ pc' = "wait" /\ seats' = {} /\ replied' = FALSE /\ objects' = {}
      /\ bound' \in [Seats -> BOOLEAN]
  BY DEF Reconnect, NewState
<1>8. copies' \in 0 .. MaxCopies /\ clears' \in Nat /\ losses' \in Nat
  BY DEF Reconnect, TypeOK
<1> QED
  BY <1>2, <1>3, <1>4, <1>5, <1>6, <1>7, <1>8 DEF TypeOK

LEMMA NextTypeOK == TypeOK /\ [Next]_vars => TypeOK'
<1> SUFFICES ASSUME TypeOK, [Next]_vars PROVE TypeOK'
  OBVIOUS
<1>1. CASE EndDispatch
  BY <1>1, StateUnchanged DEF TypeOK, EndDispatch, server, bounds
<1>2. CASE Flush
  BY <1>2, StateUnchanged DEF TypeOK, Flush, server, bounds
<1>3. CASE UNCHANGED vars
  BY <1>3, StateUnchanged DEF TypeOK, vars, client, server, bounds
<1>4. CASE ClientStep
  BY <1>1, <1>2, <1>4, DispatchTypeOK, HandleTypeOK, ResolveTypeOK, StoreTypeOK DEF ClientStep
<1> QED
  BY <1>3, <1>4, PipesReadTypeOK, PipesFailedTypeOK, ServeTypeOK, ListTypeOK, EnvironmentTypeOK,
     ReconnectTypeOK DEF Next, ServerStep, ListSeat

(* Every state the client, the compositor and the applications reach is    *)
(* well typed: the states with an offer have one, the states of a type     *)
(* that is not enabled stay as the seat was bound, and events and requests *)
(* name seats, keys and sources that exist.                                *)
THEOREM TypeCorrect == Spec => []TypeOK
<1>1. Init => TypeOK
  BY InitTypeOK
<1>2. TypeOK /\ [Next]_vars => TypeOK'
  BY NextTypeOK
<1> QED
  BY <1>1, <1>2, PTL DEF Spec

-----------------------------------------------------------------------------
(* Settled.  Where the client may block it has nothing of the loop left to *)
(* say, so the invariant is about the loop: during the roundtrip a         *)
(* selection is unsettled only if its pipes are there to resolve it, or if *)
(* it came meanwhile and is flagged, which makes the loop go around again. *)
(* A seat that is gone has nothing to settle and cannot ask for a turn.    *)

Unsettled(k) == state[k].tag \in {"ReadMimes", "GotClear", "GotIgnoredEvent"}

RoundtripCovers ==
    pc = "roundtrip" => \A k \in Key :
        Unsettled(k) => gotNew[k] \/ (IsReading(k) /\ pipes[k] # None)

GoneSeatsWait == \A k \in Key : k[1] \notin seats => state[k] = Waiting

SettledInv == Settled /\ RoundtripCovers /\ GoneSeatsWait

LEMMA WaitingSettled == Waiting.tag = "WaitingForNewOffers" /\ \A o : GotPipes(o).tag = "GotPipes"
BY DEF Waiting, GotPipes, SelectionState

LEMMA InitSettledInv == Init => SettledInv
BY WaitingSettled
   DEF Init, SettledInv, Settled, RoundtripCovers, GoneSeatsWait, Unsettled, IsReading

(* Steps that touch none of what SettledInv depends on, or only pc.        *)
LEMMA FrameSettled ==
    ASSUME SettledInv, UNCHANGED <<seats, state, gotNew, pipes>>,
           pc' = pc \/ pc' \in {"dispatch", "handle"}
    PROVE  SettledInv'
BY DEF SettledInv, Settled, RoundtripCovers, GoneSeatsWait, Unsettled, IsReading

(* Resetting selections where the client is at a place it may block.       *)
LEMMA ResetSettled ==
    ASSUME SettledInv, UNCHANGED <<pc, seats, pipes>>, pc \in {"wait", "store"},
           \A k \in Key : \/ state'[k] = state[k]
                          \/ state'[k] = Waiting
                          \/ k[1] \in seats /\ state'[k].tag = "GotData"
    PROVE  SettledInv'
BY WaitingSettled DEF SettledInv, Settled, RoundtripCovers, GoneSeatsWait

LEMMA ResetSeatSettled ==
    ASSUME SettledInv, Received, pc \in {"wait", "dispatch", "roundtrip"},
           UNCHANGED pipes, NEW s \in Seats, ResetSeat(s),
           seats' = seats \cup {s} \/ seats' = seats \ {s}
    PROVE  SettledInv'
<1>1. \A k \in Key : /\ state'[k] = IF k[1] = s THEN Waiting ELSE state[k]
                     /\ gotNew'[k] = IF k[1] = s THEN FALSE ELSE gotNew[k]
  BY DEF ResetSeat
<1>2. pc' = (IF pc = "roundtrip" THEN pc ELSE "dispatch") /\ pc' \notin {"wait", "store"}
  BY DEF Received
<1>3. RoundtripCovers'
  BY <1>1, <1>2, WaitingSettled DEF SettledInv, RoundtripCovers, Unsettled, IsReading
<1>4. GoneSeatsWait'
  BY <1>1 DEF SettledInv, GoneSeatsWait
<1> QED
  BY <1>2, <1>3, <1>4 DEF SettledInv, Settled

LEMMA DispatchSettled == TypeOK /\ SettledInv /\ Dispatch => SettledInv'
<1> SUFFICES ASSUME TypeOK, SettledInv, Dispatch PROVE SettledInv'
  OBVIOUS
<1>1. event \in Event /\ pc \in {"wait", "dispatch", "roundtrip"} /\ Received
  BY WireStep DEF Dispatch, AddSeat, RemoveSeat, NewOffer, NewSelection, OwnPipe, SourceCancelled,
                  RoundtripDone, Receiving
<1>2. pc' = (IF pc = "roundtrip" THEN pc ELSE "dispatch") /\ pc' \notin {"wait", "store"}
  BY <1>1 DEF Received
<1>3. CASE AddSeat
  <2>1. event.seat \in Seats
    BY <1>1, <1>3, EventFields DEF AddSeat, Receiving, event
  <2> QED
    BY <1>1, <1>3, <2>1, ResetSeatSettled DEF AddSeat
<1>4. CASE RemoveSeat
  <2>1. event.seat \in Seats
    BY <1>1, <1>4, EventFields DEF RemoveSeat, Receiving, event
  <2>2. CASE event.seat \in seats
    BY <1>1, <1>4, <2>1, <2>2, ResetSeatSettled DEF RemoveSeat
  <2>3. CASE event.seat \notin seats
    BY <1>2, <1>4, <2>3, FrameSettled DEF RemoveSeat
  <2> QED
    BY <2>2, <2>3
<1>5. CASE NewSelection
  <2> DEFINE k == event.key
             o == MaybeOffer(k, event.offer)
  <2>1. k \in Key
    BY <1>1, <1>5, EventFields DEF NewSelection, Receiving, event
  <2>2. CASE k[1] \in seats /\ IsEnabled(k)
    <3>1. /\ gotNew' = [gotNew EXCEPT ![k] = TRUE]
          /\ state' = [state EXCEPT ![k] = SelectedState(o)]
          /\ UNCHANGED <<seats, pipes>>
      BY <1>5, <2>2 DEF NewSelection, Flagged
    <3>2. state \in [Key -> StateRec] /\ gotNew \in [Key -> BOOLEAN]
      BY DEF TypeOK, StateOK
    <3>3. gotNew'[k] /\ \A j \in Key : j # k => state'[j] = state[j] /\ gotNew'[j] = gotNew[j]
      BY <2>1, <3>1, <3>2
    <3>4. RoundtripCovers'
      <4> SUFFICES ASSUME pc = "roundtrip", NEW j \in Key, Unsettled(j)'
                   PROVE  gotNew'[j] \/ (IsReading(j)' /\ pipes'[j] # None)
        BY <1>2 DEF RoundtripCovers
      <4>1. CASE j = k
        BY <3>3, <4>1
      <4>2. CASE j # k
        BY <3>1, <3>3, <4>2 DEF SettledInv, RoundtripCovers, Unsettled, IsReading
      <4> QED
        BY <4>1, <4>2
    <3>5. GoneSeatsWait'
      BY <2>2, <3>1, <3>3 DEF SettledInv, GoneSeatsWait
    <3> QED
      BY <1>2, <3>4, <3>5 DEF SettledInv, Settled
  <2>3. CASE ~(k[1] \in seats /\ IsEnabled(k))
    BY <1>2, <1>5, <2>3, FrameSettled DEF NewSelection
  <2> QED
    BY <2>2, <2>3
<1>6. CASE OwnPipe
  <2> DEFINE k == event.offer.key
  <2>1. CASE IsOwnPipe(k, event.offer)
    <3>1. /\ state' = [state EXCEPT ![k].own = TRUE] /\ IsReading(k)
          /\ UNCHANGED <<seats, gotNew, pipes>>
      BY <1>6, <2>1 DEF OwnPipe, IsOwnPipe
    <3>2. k \in Key
      BY <1>1, <1>6, EventFields, SourceFields DEF OwnPipe, Receiving, event
    <3>3. \A j \in Key : state'[j].tag = state[j].tag /\ (j # k => state'[j] = state[j])
      <4>1. state \in [Key -> StateRec]
        BY DEF TypeOK, StateOK
      <4> HIDE DEF k
      <4> QED
        BY <3>1, <3>2, <4>1 DEF StateRec
    <3>4. state[k] # Waiting
      BY <3>1, WaitingSettled DEF IsReading
    <3>5. GoneSeatsWait'
      BY <3>1, <3>2, <3>3, <3>4 DEF SettledInv, GoneSeatsWait
    <3>6. RoundtripCovers'
      BY <1>2, <3>1, <3>3 DEF SettledInv, RoundtripCovers, Unsettled, IsReading
    <3> QED
      BY <1>2, <3>5, <3>6 DEF SettledInv, Settled
  <2>2. CASE ~IsOwnPipe(k, event.offer)
    BY <1>2, <1>6, <2>2, FrameSettled DEF OwnPipe
  <2> QED
    BY <2>1, <2>2
<1>7. CASE NewOffer \/ SourceCancelled \/ RoundtripDone
  BY <1>2, <1>7, FrameSettled DEF NewOffer, SourceCancelled, RoundtripDone
<1> QED
  BY <1>3, <1>4, <1>5, <1>6, <1>7 DEF Dispatch

LEMMA HandleSettled == TypeOK /\ SettledInv /\ Handle => SettledInv'
<1> SUFFICES ASSUME TypeOK, SettledInv, Handle PROVE SettledInv'
  OBVIOUS
<1> DEFINE reading == {k \in Key : IsReading(k)}
<1>1. PICK failed \in SUBSET {k \in reading : MayFail(k)} :
         LET got == reading \ failed
         IN /\ state' = [k \in Key |-> Collected(k, failed)]
            /\ pipes' = [k \in Key |-> IF k \in got THEN state[k].offer ELSE None]
            /\ \/ got = {} /\ pc' = "store"
               \/ got # {} /\ pc' = "roundtrip"
  BY DEF Handle
<1>2. seats' = seats
  BY DEF Handle
<1>3. \A k \in Key : state'[k] = Waiting \/ state'[k] = state[k]
  BY <1>1 DEF Collected
<1>4. GoneSeatsWait'
  BY <1>2, <1>3 DEF SettledInv, GoneSeatsWait
<1>5. \A k \in Key : Unsettled(k)' => k \in reading \ failed /\ IsReading(k)'
  BY <1>1, WaitingSettled DEF Collected, Unsettled, IsReading
<1>6. \A k \in reading \ failed : pipes'[k] # None
  <2>1. \A k \in reading \ failed : pipes'[k] = state[k].offer
    BY <1>1
  <2> QED
    BY <2>1, StateFacts, NoneAssumption DEF IsReading
<1>7. RoundtripCovers'
  BY <1>5, <1>6 DEF RoundtripCovers
<1>8. Settled'
  <2>1. pc' \in {"wait", "store"} => \A k \in Key : ~Unsettled(k)'
    BY <1>1, <1>5
  <2>2. \A k \in Key : state'[k] \in StateRec
    BY HandleTypeOK, StateFacts DEF TypeOK, StateOK
  <2> QED
    BY <2>1, <2>2 DEF Settled, Unsettled, StateRec, Tag
<1> QED
  BY <1>4, <1>7, <1>8 DEF SettledInv

LEMMA ResolveSettled == TypeOK /\ SettledInv /\ Resolve => SettledInv'
<1> SUFFICES ASSUME TypeOK, SettledInv, Resolve PROVE SettledInv'
  OBVIOUS
<1>1. /\ state' = [k \in Key |-> Resolved(k)]
      /\ pc = "roundtrip"
      /\ pc' = IF Again THEN "handle" ELSE "store"
      /\ seats' = seats
  BY DEF Resolve
<1>2. GoneSeatsWait'
  BY <1>1 DEF SettledInv, GoneSeatsWait, Resolved, PipesCurrent
<1>3. ASSUME ~Again, NEW k \in Key, Unsettled(k) PROVE state'[k] \in {Waiting, GotPipes(pipes[k])}
  <2>1. k[1] \in seats
    BY <1>3, WaitingSettled DEF SettledInv, GoneSeatsWait, Unsettled
  <2>2. ~gotNew[k]
    BY <1>3, <2>1 DEF Again
  <2>3. IsReading(k) /\ pipes[k] # None
    BY <1>1, <1>3, <2>2 DEF SettledInv, RoundtripCovers
  <2> QED
    BY <1>1, <2>1, <2>2, <2>3 DEF Resolved, PipesCurrent
<1>4. \A k \in Key : ~Unsettled(k) => state'[k] = state[k]
  BY <1>1 DEF Resolved, Unsettled, IsReading
<1>5. ASSUME ~Again, NEW k \in Key
      PROVE  state'[k].tag \in {"WaitingForNewOffers", "GotPipes", "GotData"}
  <2>1. CASE Unsettled(k)
    BY <1>3, <1>5, <2>1, WaitingSettled
  <2>2. CASE ~Unsettled(k)
    BY <1>4, <2>2, StateFacts DEF Unsettled, StateRec, Tag
  <2> QED
    BY <2>1, <2>2
<1>6. Settled'
  BY <1>1, <1>5 DEF Settled
<1> QED
  BY <1>1, <1>2, <1>6 DEF SettledInv, RoundtripCovers

LEMMA TakeSettled ==
    ASSUME TypeOK, SettledInv, NEW k \in Key
    PROVE  PipesRead(k) \/ PipesFailed(k) \/ Store(k) => SettledInv'
<1>1. state \in [Key -> StateRec]
  BY DEF TypeOK, StateOK
<1>2. ASSUME PipesRead(k) PROVE SettledInv'
  <2>1. k[1] \in seats
    BY <1>2, WaitingSettled DEF PipesRead, SettledInv, GoneSeatsWait
  <2>2. state' = [state EXCEPT ![k] = Waiting] \/ state' = [state EXCEPT ![k] = GotData(state[k].offer)]
    BY <1>2 DEF PipesRead, SetClipboard, NextState
  <2>3. GotData(state[k].offer).tag = "GotData"
    BY DEF GotData, SelectionState
  <2>4. \A j \in Key : \/ state'[j] = state[j]
                       \/ state'[j] = Waiting
                       \/ j[1] \in seats /\ state'[j].tag = "GotData"
    BY <1>1, <2>1, <2>2, <2>3
  <2> QED
    BY <1>2, <2>4, ResetSettled DEF PipesRead
<1>3. ASSUME PipesFailed(k) PROVE SettledInv'
  <2>1. \A j \in Key : state'[j] = state[j] \/ state'[j] = Waiting
    BY <1>1, <1>3 DEF PipesFailed
  <2> QED
    BY <1>3, <2>1, ResetSettled DEF PipesFailed
<1>4. ASSUME Store(k) PROVE SettledInv'
  <2>1. \A j \in Key : state'[j] = state[j] \/ state'[j] = Waiting
    BY <1>1, <1>4 DEF Store, SetClipboard, NextState
  <2> QED
    BY <1>4, <2>1, ResetSettled DEF Store
<1> QED
  BY <1>2, <1>3, <1>4

LEMMA OthersSettled ==
    ASSUME SettledInv, ServerStep \/ Environment \/ UNCHANGED vars
    PROVE  SettledInv'
<1>1. UNCHANGED client
  BY DEF ServerStep, Serve, ServeBind, ServeDestroy, ServeSync, ServeSet, ServeReceive, ListSeat, List,
         Environment, AnnounceSeat, WithdrawSeat, FinishDevice, AppCopy, AppClear, vars
<1> QED
  BY <1>1, FrameSettled DEF client

(* A new State has nothing unsettled, and no seats. *)
LEMMA ReconnectSettled == Reconnect => SettledInv'
BY WaitingSettled
   DEF Reconnect, NewState, SettledInv, Settled, RoundtripCovers, GoneSeatsWait

LEMMA NextSettled == TypeOK /\ SettledInv /\ [Next]_vars => SettledInv'
<1> SUFFICES ASSUME TypeOK, SettledInv, [Next]_vars PROVE SettledInv'
  OBVIOUS
<1>1. CASE EndDispatch
  BY <1>1, FrameSettled DEF EndDispatch
<1>2. CASE Flush
  BY <1>2 DEF Flush, SettledInv, Settled, RoundtripCovers, GoneSeatsWait
<1>3. CASE ClientStep
  BY <1>1, <1>2, <1>3, DispatchSettled, HandleSettled, ResolveSettled, TakeSettled DEF ClientStep
<1> QED
  BY <1>3, TakeSettled, OthersSettled, ReconnectSettled DEF Next

(* Wherever the client may block or store the clipboard, the loop of       *)
(* roundtrips has left no selection unhandled, whichever selections, of    *)
(* whichever seats, came in during its roundtrips.                         *)
THEOREM AlwaysSettled == Spec => []Settled
<1>1. Init => TypeOK /\ SettledInv
  BY InitTypeOK, InitSettledInv
<1>2. TypeOK /\ SettledInv /\ [Next]_vars => (TypeOK /\ SettledInv)'
  BY NextTypeOK, NextSettled
<1>3. SettledInv => Settled
  BY DEF SettledInv
<1> QED
  BY <1>1, <1>2, <1>3, PTL DEF Spec

-----------------------------------------------------------------------------
(* RoundtripKeepsReadMimes.  Pipes whose seat was removed in the roundtrip *)
(* would look current again if a seat of that name were bound before it    *)
(* ends, in WaitingForNewOffers.  That a name is announced once rules it   *)
(* out: a Global event on the wire finds neither its seat nor pipes of it. *)
(* On the next connection the names are announced again, to a new State.   *)

Unbound(s) == s \notin seats /\ \A t \in SelectionType : pipes[<<s, t>>] = None

Announces(e, s) == e.t = "Global" /\ e.seat = s

(* The compositor may announce a seat with these. *)
Unannounced == {"new", "unlisted"}

NamesFresh ==
    /\ \A s \in Seats : status[s] \in Unannounced => Unbound(s)
    /\ \A s \in Seats, i \in 1 .. Len(wire) :
          Announces(wire[i], s) => Unbound(s) /\ status[s] \notin Unannounced
    /\ \A s \in Seats, i, j \in 1 .. Len(wire) : Announces(wire[i], s) /\ Announces(wire[j], s) => i = j

(* Events other than the announcement of a seat. *)
OtherEvent == {e \in Event : e.t # "Global"}

LEMMA OtherEventTypes ==
    /\ \A o \in Source : DataOfferEv(o) \in OtherEvent /\ SendEv(o) \in OtherEvent /\ CancelledEv(o) \in OtherEvent
    /\ \A k \in Key, o \in Source \cup {None} : SelectionEv(k, o) \in OtherEvent
    /\ \A t \in {"GlobalRemove", "Finished"}, s \in Seats : SeatEv(t, s) \in OtherEvent
    /\ DoneEv \in OtherEvent
BY EventTypes DEF OtherEvent, DataOfferEv, SendEv, CancelledEv, SelectionEv, SeatEv, DoneEv

LEMMA AdvertiseOther ==
    ASSUME NEW k \in Key, NEW src \in Source \cup {None}
    PROVE  Advertise(k, src) \in Seq(OtherEvent)
BY OtherEventTypes DEF Advertise

LEMMA ReplacedOther ==
    ASSUME NEW k \in Key, sel \in [Key -> Source \cup {None}]
    PROVE  Replaced(k) \in Seq(OtherEvent)
<1>1. CASE sel[k] # None /\ sel[k].own
  <2>1. sel[k] \in Source
    BY <1>1
  <2> QED
    BY <1>1, <2>1, OtherEventTypes DEF Replaced
<1>2. CASE ~(sel[k] # None /\ sel[k].own)
  BY <1>2 DEF Replaced
<1> QED
  BY <1>1, <1>2

(* The compositor's messages go to the end of the wire. *)
Sends(news) == news \in Seq(OtherEvent) /\ wire' = wire \o news

LEMMA SendsOne ==
    ASSUME TypeOK, NEW e \in OtherEvent, wire' = Append(wire, e)
    PROVE  Sends(<<e>>)
<1>1. wire \in Seq(Event)
  BY DEF TypeOK
<1> QED
  BY <1>1 DEF Sends

LEMMA SendsNothing == TypeOK /\ wire' = wire => Sends(<<>>)
<1> SUFFICES ASSUME TypeOK, wire' = wire PROVE Sends(<<>>)
  OBVIOUS
<1>1. wire \in Seq(Event)
  BY DEF TypeOK
<1> QED
  BY <1>1, ConcatEmptySeq DEF Sends

LEMMA SelectionSends ==
    ASSUME TypeOK, NEW k \in Key, NEW src \in Source \cup {None}, ChangeSelection(k, src)
    PROVE  \E news : Sends(news)
<1> DEFINE told == IF bound[k[1]] THEN Advertise(k, src) ELSE <<>>
<1>1. wire \in Seq(Event) /\ Replaced(k) \in Seq(OtherEvent)
  BY ReplacedOther DEF TypeOK
<1>2. told \in Seq(OtherEvent)
  BY AdvertiseOther
<1>3. wire' = (wire \o Replaced(k)) \o told \/ wire' = (wire \o told) \o Replaced(k)
  BY DEF ChangeSelection
<1> HIDE DEF told
<1>4. Replaced(k) \in Seq(Event) /\ told \in Seq(Event)
  BY <1>1, <1>2, SeqMonotonic DEF OtherEvent
<1>5. wire' = wire \o (Replaced(k) \o told) \/ wire' = wire \o (told \o Replaced(k))
  <2>1. (wire \o Replaced(k)) \o told = wire \o (Replaced(k) \o told)
    BY <1>1, <1>4, WireAssociates
  <2>2. (wire \o told) \o Replaced(k) = wire \o (told \o Replaced(k))
    BY <1>1, <1>4, WireAssociates
  <2> QED
    BY <1>3, <2>1, <2>2
<1>6. Replaced(k) \o told \in Seq(OtherEvent) /\ told \o Replaced(k) \in Seq(OtherEvent)
  BY <1>1, <1>2, ConcatProperties
<1> QED
  BY <1>5, <1>6 DEF Sends

(* The compositor talks, of anything but a new seat. *)
LEMMA SendsFresh ==
    ASSUME TypeOK, NamesFresh, NEW news, Sends(news), UNCHANGED <<seats, pipes>>,
           \A s \in Seats : status'[s] \in Unannounced => status[s] \in Unannounced
    PROVE  NamesFresh'
<1>1. wire \in Seq(Event) /\ news \in Seq(Event)
  BY SeqMonotonic DEF TypeOK, Sends, OtherEvent
<1>2. \A i \in 1 .. Len(wire') : /\ wire'[i].t = "Global" => i \in 1 .. Len(wire)
                                 /\ i \in 1 .. Len(wire) => wire'[i] = wire[i]
  <2> SUFFICES ASSUME NEW i \in 1 .. Len(wire')
               PROVE  /\ wire'[i].t = "Global" => i \in 1 .. Len(wire)
                      /\ i \in 1 .. Len(wire) => wire'[i] = wire[i]
    OBVIOUS
  <2>1. /\ Len(wire) \in Nat /\ Len(news) \in Nat
        /\ i \in 1 .. Len(wire) + Len(news)
        /\ wire'[i] = IF i <= Len(wire) THEN wire[i] ELSE news[i - Len(wire)]
    BY <1>1, ConcatProperties, LenProperties DEF Sends
  <2>2. CASE i <= Len(wire)
    BY <2>1, <2>2
  <2>3. CASE ~(i <= Len(wire))
    <3>1. i - Len(wire) \in 1 .. Len(news)
      BY <2>1, <2>3
    <3>2. news[i - Len(wire)] \in OtherEvent
      BY <3>1, ElementOfSeq DEF Sends
    <3> QED
      BY <2>1, <2>3, <3>2 DEF OtherEvent
  <2> QED
    BY <2>2, <2>3
<1>3. \A s \in Seats : Unbound(s)' <=> Unbound(s)
  BY DEF Unbound
<1> QED
  BY <1>2, <1>3 DEF NamesFresh, Announces

LEMMA ListFresh ==
    ASSUME TypeOK, NamesFresh, NEW s \in Seats, status[s] \in Unannounced, List(s)
    PROVE  NamesFresh'
<1>1. wire \in Seq(Event) /\ status \in [Seats -> {"new", "unlisted", "live", "gone"}]
  BY DEF TypeOK
<1>2. /\ status' = [status EXCEPT ![s] = "live"]
      /\ wire' = Append(wire, SeatEv("Global", s))
      /\ UNCHANGED <<seats, pipes>>
  BY DEF List, client
<1>3. SeatEv("Global", s) \in Event /\ \A z : Announces(SeatEv("Global", s), z) <=> z = s
  BY EventTypes DEF SeatEv, Announces
<1> DEFINE e == SeatEv("Global", s)
<1> HIDE DEF e
<1>4. /\ Len(wire) \in Nat /\ Len(wire') = Len(wire) + 1
      /\ \A i \in 1 .. Len(wire) : wire'[i] = wire[i]
      /\ wire'[Len(wire) + 1] = e
  BY <1>1, <1>2, <1>3, AppendProperties, LenProperties DEF e
<1>5. \A i \in 1 .. Len(wire) : ~Announces(wire[i], s)
  BY <1>2 DEF NamesFresh
<1>6. \A z \in Seats : Unbound(z)' <=> Unbound(z)
  BY <1>2 DEF Unbound
<1>7. \A z \in Seats : status'[z] = IF z = s THEN "live" ELSE status[z]
  BY <1>1, <1>2
<1>8. \A i \in 1 .. Len(wire') : i \in 1 .. Len(wire) \/ i = Len(wire) + 1
  BY <1>4
<1>9. \A z \in Seats : Announces(e, z) <=> z = s
  BY <1>3 DEF e
<1>10. Unbound(s)
  BY <1>2 DEF NamesFresh
<1>11. \A z \in Seats, i \in 1 .. Len(wire') :
          Announces(wire'[i], z) <=> (i \in 1 .. Len(wire) /\ Announces(wire[i], z)) \/ (i = Len(wire) + 1 /\ z = s)
  BY <1>4, <1>8, <1>9
<1>12. \A z \in Seats : status'[z] \in Unannounced => Unbound(z)'
  BY <1>6, <1>7 DEF NamesFresh, Unannounced
<1>13. \A z \in Seats, i \in 1 .. Len(wire') : Announces(wire'[i], z) => Unbound(z)' /\ status'[z] \notin Unannounced
  BY <1>6, <1>7, <1>10, <1>11 DEF NamesFresh, Unannounced
<1>14. \A z \in Seats, i, j \in 1 .. Len(wire') : Announces(wire'[i], z) /\ Announces(wire'[j], z) => i = j
  BY <1>5, <1>11 DEF NamesFresh
<1> QED
  BY <1>12, <1>13, <1>14 DEF NamesFresh

(* The client takes an event off the wire. *)
LEMMA ReceivedFresh ==
    ASSUME TypeOK, NamesFresh, wire # <<>>, wire' = Tail(wire), status' = status,
           \A s \in Seats : Unbound(s) => Unbound(s)' \/ Announces(event, s)
    PROVE  NamesFresh'
<1>1. wire \in Seq(Event)
  BY DEF TypeOK
<1>2. /\ Len(wire) \in Nat /\ Len(wire) >= 1 /\ Len(wire') = Len(wire) - 1
      /\ \A i \in 1 .. Len(wire') : wire'[i] = wire[i + 1]
      /\ event = wire[1]
  BY <1>1, HeadTailProperties, EmptySeq, LenProperties DEF event
<1>3. \A i \in 1 .. Len(wire') : i + 1 \in 1 .. Len(wire) /\ i + 1 # 1
  BY <1>2
<1>4. 1 \in 1 .. Len(wire)
  BY <1>2
<1>5. \A s \in Seats, i \in 1 .. Len(wire') : Announces(wire'[i], s) => Announces(wire[i + 1], s)
  BY <1>2
<1>6. \A s \in Seats, i \in 1 .. Len(wire') :
         Announces(wire'[i], s) => Unbound(s) /\ status[s] \notin Unannounced /\ ~Announces(event, s)
  BY <1>2, <1>3, <1>4, <1>5 DEF NamesFresh
<1>7. \A s \in Seats : status[s] \in Unannounced => Unbound(s) /\ ~Announces(event, s)
  BY <1>2, <1>4 DEF NamesFresh
<1>8. \A s \in Seats, i, j \in 1 .. Len(wire') : Announces(wire'[i], s) /\ Announces(wire'[j], s) => i = j
  <2> SUFFICES ASSUME NEW s \in Seats, NEW i \in 1 .. Len(wire'), NEW j \in 1 .. Len(wire'),
                      Announces(wire'[i], s), Announces(wire'[j], s)
               PROVE  i = j
    OBVIOUS
  <2>1. i + 1 = j + 1
    BY <1>3, <1>5 DEF NamesFresh
  <2> QED
    BY <1>2, <2>1
<1> QED
  BY <1>6, <1>7, <1>8 DEF NamesFresh

(* Steps off the wire that bind no seat and open no pipes of one that is   *)
(* not bound.                                                              *)
LEMMA FrameFresh ==
    ASSUME NamesFresh, UNCHANGED <<wire, status>>, \A s \in Seats : Unbound(s) => Unbound(s)'
    PROVE  NamesFresh'
BY DEF NamesFresh

LEMMA InitFresh == Init => NamesFresh
<1> SUFFICES ASSUME Init PROVE NamesFresh
  OBVIOUS
<1>1. wire = <<>> /\ Len(wire) = 0
  BY DEF Init
<1>2. \A s \in Seats : Unbound(s)
  BY KeyTypes DEF Init, Unbound
<1> QED
  BY <1>1, <1>2 DEF NamesFresh

LEMMA DispatchFresh == TypeOK /\ NamesFresh /\ Dispatch => NamesFresh'
<1> SUFFICES ASSUME TypeOK, NamesFresh, Dispatch PROVE NamesFresh'
  OBVIOUS
<1>1. wire # <<>> /\ wire' = Tail(wire) /\ status' = status /\ pipes' = pipes
  BY DEF Dispatch, AddSeat, RemoveSeat, NewOffer, NewSelection, OwnPipe, SourceCancelled, RoundtripDone,
         Receiving, Received, server
<1>2. CASE AddSeat
  <2>1. event.t = "Global" /\ seats' = seats \cup {event.seat}
    BY <1>2 DEF AddSeat, Receiving, event
  <2> QED
    BY <1>1, <2>1, ReceivedFresh DEF Unbound, Announces
<1>3. CASE RemoveSeat
  <2>1. seats' \subseteq seats
    BY <1>3 DEF RemoveSeat
  <2> QED
    BY <1>1, <2>1, ReceivedFresh DEF Unbound
<1>4. CASE NewOffer \/ NewSelection \/ OwnPipe \/ SourceCancelled \/ RoundtripDone
  <2>1. seats' = seats
    BY <1>4 DEF NewOffer, NewSelection, OwnPipe, SourceCancelled, RoundtripDone
  <2> QED
    BY <1>1, <2>1, ReceivedFresh DEF Unbound
<1> QED
  BY <1>2, <1>3, <1>4 DEF Dispatch

LEMMA HandleFresh == TypeOK /\ SettledInv /\ NamesFresh /\ Handle => NamesFresh'
<1> SUFFICES ASSUME TypeOK, SettledInv, NamesFresh, Handle PROVE NamesFresh'
  OBVIOUS
<1>1. /\ UNCHANGED <<seats, status, wire>>
      /\ \A k \in Key : ~IsReading(k) => pipes'[k] = None
  BY DEF Handle, server
<1>2. \A s \in Seats, t \in SelectionType : s \notin seats => ~IsReading(<<s, t>>)
  BY KeyTypes, WaitingSettled DEF SettledInv, GoneSeatsWait, IsReading
<1>3. \A s \in Seats : Unbound(s) => Unbound(s)'
  BY <1>1, <1>2, KeyTypes DEF Unbound
<1> QED
  BY <1>1, <1>3, FrameFresh

LEMMA ServeFresh == TypeOK /\ NamesFresh /\ Serve => NamesFresh'
<1> SUFFICES ASSUME TypeOK, NamesFresh, Serve PROVE NamesFresh'
  OBVIOUS
<1>1. /\ wire \in Seq(Event) /\ reqs \in Seq(Request)
      /\ sel \in [Key -> Source \cup {None}]
  BY DEF TypeOK
<1>2. reqs # <<>> /\ Head(reqs) \in Request
  BY <1>1, HeadTailProperties
     DEF Serve, ServeBind, ServeDestroy, ServeSync, ServeSet, ServeReceive, Requested
<1>3. UNCHANGED <<seats, pipes, status>>
  BY DEF Serve, ServeBind, ServeDestroy, ServeSync, ServeSet, ServeReceive, client, server
<1>4. CASE ServeBind
  <2> DEFINE s == Head(reqs).seat
             r == Advertise(<<s, "Regular">>, sel[<<s, "Regular">>])
             p == Advertise(<<s, "Primary">>, sel[<<s, "Primary">>])
  <2>1. s \in Seats
    BY <1>2, <1>4, RequestFields DEF ServeBind, Requested
  <2>2. <<s, "Regular">> \in Key /\ <<s, "Primary">> \in Key
    BY <2>1, KeyTypes DEF SelectionType
  <2>3. r \in Seq(OtherEvent) /\ p \in Seq(OtherEvent)
    BY <1>1, <2>2, AdvertiseOther
  <2>4. wire' = wire \o r \o p \/ wire' = wire
    BY <1>4 DEF ServeBind
  <2> HIDE DEF s, r, p
  <2>5. r \in Seq(Event) /\ p \in Seq(Event) /\ r \o p \in Seq(OtherEvent)
    BY <2>3, SeqMonotonic, ConcatProperties DEF OtherEvent
  <2>6. (wire \o r) \o p = wire \o (r \o p)
    BY <1>1, <2>5, WireAssociates
  <2>7. CASE wire' = wire \o r \o p
    BY <1>3, <2>5, <2>6, <2>7, SendsFresh DEF Sends
  <2>8. CASE wire' = wire
    BY <1>3, <2>8, SendsNothing, SendsFresh
  <2> QED
    BY <2>4, <2>7, <2>8
<1>5. CASE ServeDestroy
  BY <1>3, <1>5, SendsNothing, SendsFresh DEF ServeDestroy
<1>6. CASE ServeSync
  <2>1. Sends(<<DoneEv>>)
    BY <1>6, SendsOne, OtherEventTypes DEF ServeSync
  <2> QED
    BY <1>3, <2>1, SendsFresh
<1>7. CASE ServeSet
  <2> DEFINE s == Head(reqs).source
  <2>1. s \in Source /\ s.key \in Key
    BY <1>2, <1>7, RequestFields, SourceFields DEF ServeSet, Requested
  <2>2. ChangeSelection(s.key, s) \/ wire' = wire
    BY <1>7 DEF ServeSet
  <2>3. \E news : Sends(news)
    BY <2>1, <2>2, SelectionSends, SendsNothing
  <2> QED
    BY <1>3, <2>3, SendsFresh
<1>8. ASSUME NEW o \in Source, ServeReceive(o) PROVE NamesFresh'
  <2>1. wire' = wire \/ wire' = Append(wire, SendEv(o))
    BY <1>8 DEF ServeReceive
  <2>2. \E news : Sends(news)
    BY <2>1, SendsOne, SendsNothing, OtherEventTypes
  <2> QED
    BY <1>3, <2>2, SendsFresh
<1> QED
  BY <1>4, <1>5, <1>6, <1>7, <1>8 DEF Serve

LEMMA EnvironmentFresh == TypeOK /\ NamesFresh /\ Environment => NamesFresh'
<1> SUFFICES ASSUME TypeOK, NamesFresh, Environment PROVE NamesFresh'
  OBVIOUS
<1>1. UNCHANGED <<seats, pipes>>
  BY DEF Environment, AnnounceSeat, List, WithdrawSeat, FinishDevice, AppCopy, AppClear, client
<1>2. ASSUME NEW s \in Seats, WithdrawSeat(s) PROVE NamesFresh'
  <2>1. Sends(<<SeatEv("GlobalRemove", s)>>)
    BY <1>2, SendsOne, OtherEventTypes DEF WithdrawSeat
  <2>2. \A z \in Seats : status'[z] \in Unannounced => status[z] \in Unannounced
    BY <1>2 DEF WithdrawSeat, TypeOK, Unannounced
  <2> QED
    BY <1>1, <2>1, <2>2, SendsFresh
<1>3. ASSUME NEW s \in Seats, FinishDevice(s) PROVE NamesFresh'
  <2>1. Sends(<<SeatEv("Finished", s)>>) /\ status' = status
    BY <1>3, SendsOne, OtherEventTypes DEF FinishDevice
  <2> QED
    BY <1>1, <2>1, SendsFresh
<1>4. ASSUME NEW k \in Key, AppCopy(k) PROVE NamesFresh'
  <2>1. copies + 1 \in Copy
    BY <1>4, MaxCopiesAssumption DEF AppCopy, Copy, TypeOK
  <2>2. Foreign(k, copies + 1) \in Source
    BY <2>1 DEF Foreign, Source
  <2>3. (\E news : Sends(news)) /\ status' = status
    BY <1>4, <2>2, SelectionSends DEF AppCopy
  <2> QED
    BY <1>1, <2>3, SendsFresh
<1>5. ASSUME NEW k \in Key, AppClear(k) PROVE NamesFresh'
  <2>1. (\E news : Sends(news)) /\ status' = status
    BY <1>5, SelectionSends DEF AppClear
  <2> QED
    BY <1>1, <2>1, SendsFresh
<1> QED
  BY <1>2, <1>3, <1>4, <1>5, ListFresh DEF Environment, AnnounceSeat, Unannounced

LEMMA ReconnectFresh == Reconnect => NamesFresh'
<1> SUFFICES ASSUME Reconnect PROVE NamesFresh'
  OBVIOUS
<1>1. wire' = <<>> /\ Len(wire') = 0
  BY DEF Reconnect
<1>2. \A s \in Seats : Unbound(s)'
  BY KeyTypes DEF Reconnect, NewState, Unbound
<1> QED
  BY <1>1, <1>2 DEF NamesFresh

LEMMA NextFresh == TypeOK /\ SettledInv /\ NamesFresh /\ [Next]_vars => NamesFresh'
<1> SUFFICES ASSUME TypeOK, SettledInv, NamesFresh, [Next]_vars PROVE NamesFresh'
  OBVIOUS
<1>1. CASE \/ EndDispatch \/ Flush \/ UNCHANGED vars
           \/ \E k \in Key : Store(k) \/ PipesRead(k) \/ PipesFailed(k)
  <2>1. UNCHANGED <<seats, pipes, wire, status>>
    BY <1>1 DEF EndDispatch, Flush, Store, PipesRead, PipesFailed, vars, client, server
  <2> QED
    BY <2>1, FrameFresh DEF Unbound
<1>2. CASE Resolve
  <2>1. UNCHANGED <<seats, wire, status>> /\ \A k \in Key : pipes'[k] = None
    BY <1>2 DEF Resolve, server
  <2> QED
    BY <2>1, KeyTypes, FrameFresh DEF Unbound
<1>3. CASE ClientStep
  BY <1>1, <1>2, <1>3, DispatchFresh, HandleFresh DEF ClientStep
<1> QED
  BY <1>1, <1>3, ServeFresh, ListFresh, EnvironmentFresh, ReconnectFresh
     DEF Next, ServerStep, ListSeat, Unannounced

LEMMA DispatchKeeps ==
    ASSUME TypeOK, NamesFresh, RoundtripKeepsReadMimes, Dispatch
    PROVE  RoundtripKeepsReadMimes'
<1>1. /\ wire # <<>> /\ event \in Event /\ pipes' = pipes
      /\ pc' = "roundtrip" => pc = "roundtrip"
  BY WireStep
     DEF Dispatch, AddSeat, RemoveSeat, NewOffer, NewSelection, OwnPipe, SourceCancelled, RoundtripDone,
         Receiving, Received
<1> SUFFICES ASSUME pc = "roundtrip", NEW k \in Key, PipesCurrent(k)'
             PROVE  IsReading(k)' /\ state'[k].offer = pipes'[k]
  BY <1>1 DEF RoundtripKeepsReadMimes
<1>2. /\ state \in [Key -> StateRec] /\ gotNew \in [Key -> BOOLEAN]
      /\ pipes[k] # None /\ k[1] \in seats' /\ ~gotNew'[k]
  BY <1>1 DEF TypeOK, StateOK, PipesCurrent
<1>3. SUFFICES /\ PipesCurrent(k)
               /\ state'[k].tag = state[k].tag
               /\ state'[k].offer = state[k].offer
  BY <1>1 DEF RoundtripKeepsReadMimes, IsReading
<1>4. CASE AddSeat
  <2>1. /\ event.t = "Global" /\ event.seat \in Seats
        /\ seats' = seats \cup {event.seat} /\ ResetSeat(event.seat)
    BY <1>1, <1>4, EventFields DEF AddSeat, Receiving, event
  <2>2. Unbound(event.seat)
    <3>1. wire \in Seq(Event)
      BY DEF TypeOK
    <3>2. 1 \in 1 .. Len(wire) /\ wire[1] = event
      BY <1>1, <3>1, EmptySeq, HeadTailProperties DEF event
    <3> QED
      BY <2>1, <3>2 DEF NamesFresh, Announces
  <2>3. k[1] # event.seat
    BY <1>2, <2>2, KeyTypes DEF Unbound
  <2> QED
    BY <1>2, <2>1, <2>3 DEF ResetSeat, PipesCurrent
<1>5. CASE RemoveSeat
  <2>1. CASE event.seat \in seats
    <3>1. seats' = seats \ {event.seat} /\ ResetSeat(event.seat)
      BY <1>5, <2>1 DEF RemoveSeat
    <3> QED
      BY <1>2, <3>1 DEF ResetSeat, PipesCurrent
  <2>2. CASE event.seat \notin seats
    BY <1>2, <1>5, <2>2 DEF RemoveSeat, PipesCurrent
  <2> QED
    BY <2>1, <2>2
<1>6. CASE NewSelection
  <2> DEFINE j == event.key
             o == MaybeOffer(j, event.offer)
  <2>1. j \in Key /\ seats' = seats
    BY <1>1, <1>6, EventFields DEF NewSelection, Receiving, event
  <2>2. CASE j[1] \in seats /\ IsEnabled(j)
    <3>1. gotNew' = [gotNew EXCEPT ![j] = TRUE] /\ state' = [state EXCEPT ![j] = SelectedState(o)]
      BY <1>6, <2>2 DEF NewSelection, Flagged
    <3>2. j # k
      BY <1>2, <2>1, <3>1
    <3> QED
      BY <1>2, <2>1, <3>1, <3>2 DEF PipesCurrent
  <2>3. CASE ~(j[1] \in seats /\ IsEnabled(j))
    BY <1>2, <1>6, <2>1, <2>3 DEF NewSelection, PipesCurrent
  <2> QED
    BY <2>2, <2>3
<1>7. CASE OwnPipe
  <2> DEFINE j == event.offer.key
  <2>1. PipesCurrent(k)
    BY <1>2, <1>7 DEF OwnPipe, PipesCurrent
  <2>2. state' = state \/ state' = [state EXCEPT ![j].own = TRUE]
    BY <1>7 DEF OwnPipe
  <2>3. j \in Key
    BY <1>1, <1>7, EventFields, SourceFields DEF OwnPipe, Receiving, event
  <2> HIDE DEF j
  <2>4. state'[k].tag = state[k].tag /\ state'[k].offer = state[k].offer
    BY <1>2, <2>2, <2>3 DEF StateRec
  <2> QED
    BY <2>1, <2>4
<1>8. CASE NewOffer \/ SourceCancelled \/ RoundtripDone
  BY <1>2, <1>8 DEF NewOffer, SourceCancelled, RoundtripDone, PipesCurrent
<1> QED
  BY <1>4, <1>5, <1>6, <1>7, <1>8 DEF Dispatch

LEMMA HandleKeeps == TypeOK /\ Handle => RoundtripKeepsReadMimes'
<1> SUFFICES ASSUME TypeOK, Handle, NEW k \in Key, pipes'[k] # None
             PROVE  IsReading(k)' /\ state'[k].offer = pipes'[k]
  BY DEF RoundtripKeepsReadMimes, PipesCurrent
<1>1. PICK failed : /\ state'[k] = Collected(k, failed)
                    /\ pipes'[k] = IF IsReading(k) /\ k \notin failed THEN state[k].offer ELSE None
  BY DEF Handle
<1>2. IsReading(k) /\ k \notin failed
  BY <1>1
<1> QED
  BY <1>1, <1>2 DEF Collected, IsReading

LEMMA NextKeeps ==
    TypeOK /\ NamesFresh /\ RoundtripKeepsReadMimes /\ [Next]_vars => RoundtripKeepsReadMimes'
<1> SUFFICES ASSUME TypeOK, NamesFresh, RoundtripKeepsReadMimes, [Next]_vars
             PROVE  RoundtripKeepsReadMimes'
  OBVIOUS
<1>1. CASE ServerStep \/ Environment \/ UNCHANGED vars
  <2>1. UNCHANGED client
    BY <1>1 DEF ServerStep, Serve, ServeBind, ServeDestroy, ServeSync, ServeSet, ServeReceive, ListSeat,
                List, Environment, AnnounceSeat, WithdrawSeat, FinishDevice, AppCopy, AppClear, vars
  <2> QED
    BY <2>1 DEF client, RoundtripKeepsReadMimes, PipesCurrent, IsReading
<1>2. CASE \/ EndDispatch \/ Resolve \/ Flush \/ Reconnect
           \/ \E k \in Key : Store(k) \/ PipesRead(k) \/ PipesFailed(k)
  <2>1. pc' # "roundtrip"
    BY <1>2 DEF EndDispatch, Resolve, Flush, Store, PipesRead, PipesFailed, Reconnect, NewState
  <2> QED
    BY <2>1 DEF RoundtripKeepsReadMimes
<1>3. CASE ClientStep
  BY <1>2, <1>3, DispatchKeeps, HandleKeeps DEF ClientStep
<1> QED
  BY <1>1, <1>2, <1>3 DEF Next

(* The unreachable! of handle_new_selection_state is not reached: whatever *)
(* comes in during the roundtrip, a selection whose pipes are not outdated *)
(* when it ends is still in ReadMimes, for the offer its pipes are of.     *)
THEOREM UnreachableIsUnreachable == Spec => []RoundtripKeepsReadMimes
<1>1. Init => TypeOK /\ SettledInv /\ NamesFresh /\ RoundtripKeepsReadMimes
  <2>1. Init => RoundtripKeepsReadMimes
    BY DEF Init, RoundtripKeepsReadMimes
  <2> QED
    BY <2>1, InitTypeOK, InitSettledInv, InitFresh
<1>2. TypeOK /\ SettledInv /\ NamesFresh /\ RoundtripKeepsReadMimes /\ [Next]_vars
         => (TypeOK /\ SettledInv /\ NamesFresh /\ RoundtripKeepsReadMimes)'
  BY NextTypeOK, NextSettled, NextFresh, NextKeeps
<1> QED
  BY <1>1, <1>2, PTL DEF Spec

-----------------------------------------------------------------------------
(* Part 2: events and requests in flight.                                  *)

-----------------------------------------------------------------------------
(* Offers: the compositor tells which selection an offer is for after it   *)
(* has announced the offer.  So an offer that holds up data in GotData     *)
(* comes with an event on the wire that takes it out of selection_offers.  *)

(* Each offer that seq announces is followed by its selection. *)
Paired(seq) ==
    /\ seq \in Seq(Event)
    /\ \A i \in 1 .. Len(seq) : seq[i].t = "DataOffer" =>
          \E j \in 1 .. Len(seq) : j > i /\ seq[j] = SelectionEv(seq[i].offer.key, seq[i].offer)

OnWire(e) == \E i \in 1 .. Len(wire) : wire[i] = e

(* The pending offers of a seat are the seat's, and their selections are to*)
(* come.                                                                   *)
PendingTold ==
    \A s \in Seats : \A o \in offers[s] :
        s \in seats /\ o.key[1] = s /\ OnWire(SelectionEv(o.key, o))

(* Data waits only for offers that are pending. *)
DataWaits == pc = "wait" => \A k \in Key : state[k].tag = "GotData" => offers[k[1]] # {}

DataInv == Paired(wire) /\ PendingTold /\ DataWaits

-----------------------------------------------------------------------------
LEMMA PairedConcat ==
    ASSUME NEW a, NEW b, Paired(a), Paired(b)
    PROVE  Paired(a \o b)
<1>1. /\ a \in Seq(Event) /\ b \in Seq(Event)
      /\ a \o b \in Seq(Event)
      /\ Len(a) \in Nat /\ Len(b) \in Nat
      /\ Len(a \o b) = Len(a) + Len(b)
      /\ \A i \in 1 .. Len(a) + Len(b) :
            (a \o b)[i] = IF i <= Len(a) THEN a[i] ELSE b[i - Len(a)]
  BY ConcatProperties, LenProperties DEF Paired
<1> SUFFICES ASSUME NEW i \in 1 .. Len(a) + Len(b), (a \o b)[i].t = "DataOffer"
             PROVE  \E j \in 1 .. Len(a) + Len(b) :
                       j > i /\ (a \o b)[j] = SelectionEv((a \o b)[i].offer.key, (a \o b)[i].offer)
  BY <1>1 DEF Paired
<1>2. CASE i <= Len(a)
  <2>1. i \in 1 .. Len(a) /\ (a \o b)[i] = a[i]
    BY <1>1, <1>2
  <2>2. PICK j \in 1 .. Len(a) : j > i /\ a[j] = SelectionEv(a[i].offer.key, a[i].offer)
    BY <2>1 DEF Paired
  <2>3. j \in 1 .. Len(a) + Len(b) /\ (a \o b)[j] = a[j]
    BY <1>1, <2>2
  <2> QED
    BY <2>1, <2>2, <2>3
<1>3. CASE ~(i <= Len(a))
  <2>1. i - Len(a) \in 1 .. Len(b) /\ (a \o b)[i] = b[i - Len(a)]
    BY <1>1, <1>3
  <2>2. PICK j \in 1 .. Len(b) :
           j > i - Len(a) /\ b[j] = SelectionEv(b[i - Len(a)].offer.key, b[i - Len(a)].offer)
    BY <2>1 DEF Paired
  <2>3. j + Len(a) \in 1 .. Len(a) + Len(b) /\ j + Len(a) > i /\ (a \o b)[j + Len(a)] = b[j]
    BY <1>1, <2>1, <2>2
  <2> QED
    BY <2>1, <2>2, <2>3
<1> QED
  BY <1>2, <1>3

LEMMA PairedEmpty == Paired(<<>>)
BY DEF Paired

LEMMA PairedOne ==
    ASSUME NEW e \in Event, e.t # "DataOffer"
    PROVE  Paired(<<e>>)
BY DEF Paired

LEMMA PairedAdvertise ==
    ASSUME NEW k \in Key, NEW src \in Source \cup {None}, src # None => src.key = k
    PROVE  Paired(Advertise(k, src))
<1>1. CASE src = None
  <2>1. SelectionEv(k, None) \in Event /\ SelectionEv(k, None).t = "Selection"
    BY EventTypes DEF SelectionEv
  <2> QED
    BY <1>1, <2>1, PairedOne DEF Advertise
<1>2. CASE src # None
  <2> DEFINE d == DataOfferEv(src)
             e == SelectionEv(k, src)
  <2>1. d \in Event /\ e \in Event /\ d.offer = src /\ e.t = "Selection" /\ src.key = k
    BY <1>2, EventTypes DEF DataOfferEv, SelectionEv
  <2> HIDE DEF d
  <2>2. /\ <<d, e>> \in Seq(Event)
        /\ Len(<<d, e>>) = 2 /\ <<d, e>>[1] = d /\ <<d, e>>[2] = e
    BY <2>1
  <2>3. ASSUME NEW i \in 1 .. 2, <<d, e>>[i].t = "DataOffer"
        PROVE  \E j \in 1 .. 2 : j > i /\ <<d, e>>[j] = SelectionEv(<<d, e>>[i].offer.key, <<d, e>>[i].offer)
    <3>1. i = 1
      BY <2>1, <2>2, <2>3
    <3> QED
      BY <2>1, <2>2, <3>1
  <2>4. Paired(<<d, e>>)
    BY <2>2, <2>3 DEF Paired
  <2> QED
    BY <1>2, <2>4 DEF Advertise, d
<1> QED
  BY <1>1, <1>2

LEMMA PairedReplaced ==
    ASSUME NEW k \in Key, sel \in [Key -> Source \cup {None}]
    PROVE  Paired(Replaced(k))
<1>1. CASE sel[k] # None /\ sel[k].own
  <2>1. CancelledEv(sel[k]) \in Event /\ CancelledEv(sel[k]).t # "DataOffer"
    BY <1>1, EventTypes DEF CancelledEv
  <2> QED
    BY <1>1, <2>1, PairedOne DEF Replaced
<1>2. CASE ~(sel[k] # None /\ sel[k].own)
  BY <1>2, PairedEmpty DEF Replaced
<1> QED
  BY <1>1, <1>2

-----------------------------------------------------------------------------
(* The compositor tells of the selection of a key its own sources only. *)
SelOfKey == \A k \in Key : sel[k] # None => sel[k].key = k

(* What the compositor and the applications do leaves the client alone and *)
(* puts whole announcements at the end of the wire.                        *)
LEMMA MoreOnWire ==
    ASSUME TypeOK, DataInv, UNCHANGED client, NEW news, Paired(news), wire' = wire \o news
    PROVE  DataInv'
<1>1. Paired(wire')
  BY PairedConcat DEF DataInv
<1>2. ASSUME NEW e, OnWire(e)
      PROVE  OnWire(e)'
  <2>1. PICK i \in 1 .. Len(wire) : wire[i] = e
    BY <1>2 DEF OnWire
  <2>2. /\ wire \in Seq(Event) /\ news \in Seq(Event)
        /\ Len(wire) \in Nat /\ Len(news) \in Nat
        /\ Len(wire') = Len(wire) + Len(news)
    BY ConcatProperties, LenProperties DEF Paired, DataInv
  <2>3. i \in 1 .. Len(wire') /\ wire'[i] = wire[i]
    BY <2>2, ConcatProperties
  <2> QED
    BY <2>1, <2>3 DEF OnWire
<1> QED
  BY <1>1, <1>2 DEF DataInv, PendingTold, DataWaits, client

LEMMA ChangeSelectionData ==
    ASSUME TypeOK, DataInv, SelOfKey, UNCHANGED client,
           NEW k \in Key, NEW src \in Source \cup {None}, src # None => src.key = k,
           ChangeSelection(k, src)
    PROVE  DataInv' /\ SelOfKey'
<1> DEFINE news == IF bound[k[1]] THEN Advertise(k, src) ELSE <<>>
<1>1. sel \in [Key -> Source \cup {None}] /\ wire \in Seq(Event)
  BY DEF TypeOK
<1>2. Paired(Replaced(k)) /\ Paired(news)
  BY <1>1, PairedReplaced, PairedAdvertise, PairedEmpty
<1>3. wire' = (wire \o Replaced(k)) \o news \/ wire' = (wire \o news) \o Replaced(k)
  BY DEF ChangeSelection
<1> HIDE DEF news
<1>4. wire' = wire \o (Replaced(k) \o news) \/ wire' = wire \o (news \o Replaced(k))
  <2>1. Replaced(k) \in Seq(Event) /\ news \in Seq(Event)
    BY <1>2 DEF Paired
  <2>2. (wire \o Replaced(k)) \o news = wire \o (Replaced(k) \o news)
    BY <1>1, <2>1, WireAssociates
  <2>3. (wire \o news) \o Replaced(k) = wire \o (news \o Replaced(k))
    BY <1>1, <2>1, WireAssociates
  <2> QED
    BY <1>3, <2>2, <2>3
<1>5. DataInv'
  BY <1>2, <1>4, PairedConcat, MoreOnWire
<1>6. SelOfKey'
  BY <1>1 DEF ChangeSelection, SelOfKey
<1> QED
  BY <1>5, <1>6

LEMMA SendOneData ==
    ASSUME TypeOK, DataInv, UNCHANGED client, NEW e \in Event, e.t # "DataOffer",
           wire' = Append(wire, e) \/ wire' = wire
    PROVE  DataInv'
<1>1. wire \in Seq(Event)
  BY DEF TypeOK
<1>2. CASE wire' = Append(wire, e)
  <2>1. wire' = wire \o <<e>>
    BY <1>1, <1>2
  <2> QED
    BY <2>1, PairedOne, MoreOnWire
<1>3. CASE wire' = wire
  <2>1. wire' = wire \o <<>>
    BY <1>1, <1>3, ConcatEmptySeq
  <2> QED
    BY <2>1, PairedEmpty, MoreOnWire
<1> QED
  BY <1>2, <1>3

LEMMA ServeData == TypeOK /\ DataInv /\ SelOfKey /\ Serve => DataInv' /\ SelOfKey'
<1> SUFFICES ASSUME TypeOK, DataInv, SelOfKey, Serve
             PROVE  DataInv' /\ SelOfKey'
  OBVIOUS
<1>1. /\ wire \in Seq(Event) /\ reqs \in Seq(Request)
      /\ sel \in [Key -> Source \cup {None}]
  BY DEF TypeOK
<1>2. reqs # <<>> /\ Head(reqs) \in Request
  BY <1>1, HeadTailProperties
     DEF Serve, ServeBind, ServeDestroy, ServeSync, ServeSet, ServeReceive, Requested
<1>3. UNCHANGED client /\ DoneEv \in Event /\ DoneEv.t # "DataOffer"
  BY EventTypes DEF Serve, ServeBind, ServeDestroy, ServeSync, ServeSet, ServeReceive, DoneEv
<1>4. CASE ServeBind
  <2> DEFINE s == Head(reqs).seat
             r == Advertise(<<s, "Regular">>, sel[<<s, "Regular">>])
             p == Advertise(<<s, "Primary">>, sel[<<s, "Primary">>])
  <2>1. <<s, "Regular">> \in Key /\ <<s, "Primary">> \in Key
    BY <1>2, <1>4, RequestFields, KeyTypes DEF ServeBind, Requested, SelectionType
  <2>2. Paired(r) /\ Paired(p)
    BY <1>1, <2>1, PairedAdvertise DEF SelOfKey
  <2>3. wire' = wire \o r \o p \/ wire' = wire
    BY <1>4 DEF ServeBind
  <2>4. SelOfKey'
    BY <1>4 DEF ServeBind, SelOfKey
  <2> HIDE DEF s, r, p
  <2>5. (wire \o r) \o p = wire \o (r \o p) /\ Paired(r \o p)
    <3>1. r \in Seq(Event) /\ p \in Seq(Event)
      BY <2>2 DEF Paired
    <3>2. (wire \o r) \o p = wire \o (r \o p)
      BY <1>1, <3>1, WireAssociates
    <3> QED
      BY <2>2, <3>2, PairedConcat
  <2>6. CASE wire' = wire \o r \o p
    BY <1>3, <2>4, <2>5, <2>6, MoreOnWire
  <2>7. CASE wire' = wire
    BY <1>3, <2>4, <2>7, SendOneData
  <2> QED
    BY <2>3, <2>6, <2>7
<1>5. CASE ServeDestroy
  <2>1. wire' = wire /\ \A k \in Key : sel'[k] \in {sel[k], None}
    BY <1>5 DEF ServeDestroy
  <2> QED
    BY <1>3, <2>1, SendOneData DEF SelOfKey
<1>6. CASE ServeSync
  <2>1. wire' = Append(wire, DoneEv) /\ sel' = sel
    BY <1>6 DEF ServeSync, server
  <2> QED
    BY <1>3, <2>1, SendOneData DEF SelOfKey
<1>7. CASE ServeSet
  <2> DEFINE s == Head(reqs).source
  <2>1. s \in Source /\ s.key \in Key
    BY <1>2, <1>7, RequestFields, SourceFields DEF ServeSet, Requested
  <2>2. ChangeSelection(s.key, s) \/ UNCHANGED <<sel, wire>>
    BY <1>7 DEF ServeSet
  <2> QED
    BY <1>3, <2>1, <2>2, ChangeSelectionData, SendOneData DEF SelOfKey
<1>8. ASSUME NEW o \in Source, ServeReceive(o)
      PROVE  DataInv' /\ SelOfKey'
  <2>1. SendEv(o) \in Event /\ SendEv(o).t # "DataOffer"
    BY EventTypes DEF SendEv
  <2>2. (wire' = Append(wire, SendEv(o)) \/ wire' = wire) /\ sel' = sel
    BY <1>8 DEF ServeReceive, server
  <2> QED
    BY <1>3, <2>1, <2>2, SendOneData DEF SelOfKey
<1> QED
  BY <1>4, <1>5, <1>6, <1>7, <1>8 DEF Serve

LEMMA SeatEvData ==
    ASSUME TypeOK, DataInv, UNCHANGED client, NEW s \in Seats, NEW t \in {"Global", "GlobalRemove", "Finished"},
           wire' = Append(wire, SeatEv(t, s))
    PROVE  DataInv'
<1>1. SeatEv(t, s) \in Event /\ SeatEv(t, s).t # "DataOffer"
  BY EventTypes DEF SeatEv
<1> QED
  BY <1>1, SendOneData

LEMMA ListData ==
    ASSUME NEW s \in Seats
    PROVE  TypeOK /\ DataInv /\ SelOfKey /\ List(s) => DataInv' /\ SelOfKey'
BY SeatEvData DEF List, SelOfKey

LEMMA EnvironmentData == TypeOK /\ DataInv /\ SelOfKey /\ Environment => DataInv' /\ SelOfKey'
<1> SUFFICES ASSUME TypeOK, DataInv, SelOfKey, Environment
             PROVE  DataInv' /\ SelOfKey'
  OBVIOUS
<1>1. ASSUME NEW s \in Seats, WithdrawSeat(s)
      PROVE  DataInv' /\ SelOfKey'
  <2>1. UNCHANGED client /\ wire' = Append(wire, SeatEv("GlobalRemove", s))
    BY <1>1 DEF WithdrawSeat
  <2>2. \A k \in Key : sel'[k] \in {sel[k], None}
    BY <1>1 DEF WithdrawSeat
  <2> QED
    BY <2>1, <2>2, SeatEvData DEF SelOfKey
<1>2. ASSUME NEW s \in Seats, FinishDevice(s)
      PROVE  DataInv' /\ SelOfKey'
  BY <1>2, SeatEvData DEF FinishDevice, SelOfKey
<1>3. ASSUME NEW k \in Key, AppCopy(k)
      PROVE  DataInv' /\ SelOfKey'
  <2>1. copies + 1 \in Copy
    BY <1>3, MaxCopiesAssumption DEF AppCopy, Copy, TypeOK
  <2>2. Foreign(k, copies + 1) \in Source /\ Foreign(k, copies + 1).key = k
    BY <2>1 DEF Foreign, Source
  <2> QED
    BY <1>3, <2>2, ChangeSelectionData DEF AppCopy
<1>4. ASSUME NEW k \in Key, AppClear(k)
      PROVE  DataInv' /\ SelOfKey'
  BY <1>4, ChangeSelectionData DEF AppClear
<1> QED
  BY <1>1, <1>2, <1>3, <1>4, ListData DEF Environment, AnnounceSeat

-----------------------------------------------------------------------------
(* The client takes an event off the wire. *)
LEMMA LessOnWire ==
    ASSUME DataInv, wire # <<>>, wire' = Tail(wire)
    PROVE  /\ Paired(wire')
           /\ \A e : OnWire(e) => e = event \/ OnWire(e)'
           /\ \A e : e = event /\ e.t = "DataOffer" => OnWire(SelectionEv(e.offer.key, e.offer))'
<1>1. /\ wire \in Seq(Event) /\ wire' \in Seq(Event)
      /\ Len(wire) \in Nat /\ Len(wire) >= 1 /\ Len(wire') = Len(wire) - 1
      /\ \A i \in 1 .. Len(wire') : wire'[i] = wire[i + 1]
      /\ event = wire[1]
  BY HeadTailProperties, EmptySeq, LenProperties DEF event, DataInv, Paired
<1>2. \A j \in 1 .. Len(wire) : j > 1 => j - 1 \in 1 .. Len(wire') /\ wire'[j - 1] = wire[j]
  BY <1>1
<1>3. Paired(wire')
  <2> SUFFICES ASSUME NEW i \in 1 .. Len(wire'), wire'[i].t = "DataOffer"
               PROVE  \E j \in 1 .. Len(wire') :
                         j > i /\ wire'[j] = SelectionEv(wire'[i].offer.key, wire'[i].offer)
    BY <1>1 DEF Paired
  <2>1. i + 1 \in 1 .. Len(wire) /\ wire[i + 1] = wire'[i]
    BY <1>1
  <2>2. PICK j \in 1 .. Len(wire) :
           j > i + 1 /\ wire[j] = SelectionEv(wire[i + 1].offer.key, wire[i + 1].offer)
    BY <2>1 DEF DataInv, Paired
  <2>3. j - 1 \in 1 .. Len(wire') /\ wire'[j - 1] = wire[j] /\ j - 1 > i
    BY <1>2, <2>2
  <2> QED
    BY <2>1, <2>2, <2>3
<1>4. ASSUME NEW e, OnWire(e), e # event
      PROVE  OnWire(e)'
  <2>1. PICK j \in 1 .. Len(wire) : wire[j] = e
    BY <1>4 DEF OnWire
  <2>2. j > 1
    BY <1>1, <1>4, <2>1
  <2> QED
    BY <1>2, <2>1, <2>2 DEF OnWire
<1>5. ASSUME NEW e, e = event, e.t = "DataOffer"
      PROVE  OnWire(SelectionEv(e.offer.key, e.offer))'
  <2>1. 1 \in 1 .. Len(wire) /\ wire[1].t = "DataOffer"
    BY <1>1, <1>5
  <2>2. PICK j \in 1 .. Len(wire) : j > 1 /\ wire[j] = SelectionEv(wire[1].offer.key, wire[1].offer)
    BY <2>1 DEF DataInv, Paired
  <2>3. j - 1 \in 1 .. Len(wire') /\ wire'[j - 1] = SelectionEv(e.offer.key, e.offer)
    BY <1>1, <1>2, <1>5, <2>2
  <2> QED
    BY <2>3 DEF OnWire
<1> QED
  BY <1>3, <1>4, <1>5

LEMMA DispatchData == TypeOK /\ DataInv /\ Dispatch => DataInv'
<1> SUFFICES ASSUME TypeOK, DataInv, Dispatch
             PROVE  DataInv'
  OBVIOUS
<1>1. /\ wire # <<>> /\ wire' = Tail(wire) /\ pc' # "wait" /\ event \in Event
      /\ offers \in [Seats -> SUBSET Source]
  BY WireStep
     DEF Dispatch, AddSeat, RemoveSeat, NewOffer, NewSelection, OwnPipe, SourceCancelled, RoundtripDone,
         Receiving, Received, TypeOK
<1>2. Paired(wire') /\ DataWaits'
  BY <1>1, LessOnWire DEF DataWaits
<1>3. SUFFICES ASSUME NEW s \in Seats, NEW o \in offers'[s]
               PROVE  s \in seats' /\ o.key[1] = s /\ OnWire(SelectionEv(o.key, o))'
  BY <1>2 DEF DataInv, PendingTold
<1>4. ASSUME o \in offers[s], event # SelectionEv(o.key, o)
      PROVE  s \in seats /\ o.key[1] = s /\ OnWire(SelectionEv(o.key, o))'
  BY <1>1, <1>4, LessOnWire DEF DataInv, PendingTold
<1>5. SelectionEv(o.key, o).t = "Selection"
  BY DEF SelectionEv
<1>6. CASE AddSeat
  BY <1>1, <1>3, <1>4, <1>5, <1>6 DEF AddSeat, ResetSeat, Receiving, event
<1>7. CASE RemoveSeat
  BY <1>1, <1>3, <1>4, <1>5, <1>7 DEF RemoveSeat, ResetSeat, Receiving, event
<1>8. CASE NewOffer
  <2>1. event.t = "DataOffer" /\ seats' = seats
    BY <1>8 DEF NewOffer, Receiving, event
  <2>2. CASE o \in offers[s]
    BY <1>4, <1>5, <2>1, <2>2
  <2>3. CASE o \notin offers[s]
    <3>1. o = event.offer /\ s = o.key[1] /\ s \in seats
      BY <1>1, <1>3, <1>8, <2>3 DEF NewOffer
    <3> QED
      BY <1>1, <2>1, <3>1, LessOnWire
  <2> QED
    BY <2>2, <2>3
<1>9. CASE NewSelection
  <2> DEFINE k == event.key
             x == MaybeOffer(k, event.offer)
  <2>1. /\ event.t = "Selection" /\ k \in Key /\ k[1] \in Seats /\ seats' = seats
        /\ o \in offers[s]
    BY <1>1, <1>3, <1>9, EventFields, KeyTypes DEF NewSelection, Receiving, event, WithoutOffer
  <2>2. ASSUME event = SelectionEv(o.key, o)
        PROVE  FALSE
    <3>1. k = o.key /\ event.offer = o
      BY <2>2 DEF SelectionEv
    <3>2. k[1] = s /\ s \in seats
      BY <2>1, <3>1 DEF DataInv, PendingTold
    <3>3. x = o
      BY <2>1, <3>1, <3>2 DEF MaybeOffer
    <3>4. offers' = [offers EXCEPT ![s] = @ \ {o}]
      BY <1>9, <3>2, <3>3 DEF NewSelection, WithoutOffer
    <3> QED
      BY <1>1, <1>3, <3>4
  <2> QED
    BY <1>4, <2>1, <2>2
<1>10. CASE OwnPipe \/ SourceCancelled \/ RoundtripDone
  <2>1. event.t # "Selection" /\ offers' = offers /\ seats' = seats
    BY <1>10 DEF OwnPipe, SourceCancelled, RoundtripDone, Receiving, event
  <2> QED
    BY <1>3, <1>4, <1>5, <2>1
<1> QED
  BY <1>6, <1>7, <1>8, <1>9, <1>10 DEF Dispatch

(* The client's other steps. *)
LEMMA HandlingData ==
    ASSUME TypeOK, DataInv, UNCHANGED <<wire, offers, seats>>, DataWaits'
    PROVE  DataInv'
BY DEF DataInv, PendingTold, OnWire

LEMMA PipesReadData ==
    ASSUME TypeOK, DataInv, NEW k \in Key, PipesRead(k) \/ PipesFailed(k)
    PROVE  DataInv'
<1>1. UNCHANGED <<wire, offers, seats>>
  BY DEF PipesRead, PipesFailed
<1>2. \A j \in Key : state'[j].tag = "GotData" => state[j].tag = "GotData" \/ offers[j[1]] # {}
  <2> SUFFICES ASSUME NEW j \in Key, state'[j].tag = "GotData"
               PROVE  state[j].tag = "GotData" \/ offers[j[1]] # {}
    OBVIOUS
  <2>1. CASE j = k
    BY <2>1 DEF PipesRead, PipesFailed, SetClipboard, NextState, Waiting, SelectionState, NoPendingOffers,
                TypeOK, StateOK
  <2>2. CASE j # k
    BY <2>2 DEF PipesRead, PipesFailed, SetClipboard, TypeOK, StateOK
  <2> QED
    BY <2>1, <2>2
<1>3. pc = "wait"
  BY DEF PipesRead, PipesFailed
<1> QED
  BY <1>1, <1>2, <1>3, HandlingData DEF DataInv, DataWaits

LEMMA FlushData == TypeOK /\ DataInv /\ Flush => DataInv'
<1> SUFFICES ASSUME TypeOK, DataInv, Flush
             PROVE  DataInv'
  OBVIOUS
<1>1. DataWaits'
  BY DEF Flush, DataWaits, Storable, NoPendingOffers
<1> QED
  BY <1>1, HandlingData DEF Flush

LEMMA ReconnectData == DataInv /\ SelOfKey /\ Reconnect => DataInv' /\ SelOfKey'
<1> SUFFICES ASSUME DataInv, SelOfKey, Reconnect
             PROVE  DataInv' /\ SelOfKey'
  OBVIOUS
<1>1. DataInv'
  BY PairedEmpty DEF Reconnect, NewState, DataInv, PendingTold, DataWaits, Waiting, SelectionState
<1>2. SelOfKey'
  BY DEF Reconnect, DropClient, RestartCompositor, SelOfKey
<1> QED
  BY <1>1, <1>2

LEMMA InitData == Init => DataInv /\ SelOfKey
BY PairedEmpty DEF Init, DataInv, PendingTold, DataWaits, SelOfKey, Waiting, SelectionState

LEMMA NextData == TypeOK /\ DataInv /\ SelOfKey /\ [Next]_vars => DataInv' /\ SelOfKey'
<1> SUFFICES ASSUME TypeOK, DataInv, SelOfKey, [Next]_vars
             PROVE  DataInv' /\ SelOfKey'
  OBVIOUS
<1>1. CASE ClientStep \/ \E k \in Key : PipesRead(k) \/ PipesFailed(k)
  <2>1. sel' = sel
    BY <1>1 DEF ClientStep, Dispatch, AddSeat, RemoveSeat, NewOffer, NewSelection, OwnPipe, SourceCancelled,
                RoundtripDone, EndDispatch, Handle, Resolve, Store, Flush, PipesRead, PipesFailed, server
  <2>2. SelOfKey'
    BY <2>1 DEF SelOfKey
  <2>3. CASE Handle \/ Resolve \/ EndDispatch \/ \E k \in Key : Store(k)
    <3>1. pc' # "wait" /\ UNCHANGED <<wire, offers, seats>>
      BY <2>3 DEF Handle, Resolve, EndDispatch, Store
    <3> QED
      BY <2>2, <3>1, HandlingData DEF DataWaits
  <2> QED
    BY <1>1, <2>2, <2>3, DispatchData, FlushData, PipesReadData DEF ClientStep
<1>2. CASE UNCHANGED vars
  BY <1>2, HandlingData DEF vars, client, server, DataInv, DataWaits, SelOfKey
<1> QED
  BY <1>1, <1>2, ServeData, ListData, EnvironmentData, ReconnectData DEF Next, ServerStep, ListSeat

LEMMA AlwaysData == Spec => [](TypeOK /\ DataInv /\ SelOfKey)
<1>1. Init => TypeOK /\ DataInv /\ SelOfKey
  BY InitTypeOK, InitData
<1>2. TypeOK /\ DataInv /\ SelOfKey /\ [Next]_vars => (TypeOK /\ DataInv /\ SelOfKey)'
  BY NextTypeOK, NextData
<1> QED
  BY <1>1, <1>2, PTL DEF Spec

(* Data that was read is not forgotten: the client only blocks on it while *)
(* the event that will take it up again is on its way.                     *)
THEOREM DataIsNotForgotten == Spec => []NoForgottenData
<1>1. TypeOK /\ DataInv => NoForgottenData
  <2> SUFFICES ASSUME TypeOK, DataInv, pc = "wait", NEW k \in Key, state[k].tag = "GotData"
               PROVE  \E o \in offers[k[1]] : \E i \in 1 .. Len(wire) : wire[i] = SelectionEv(o.key, o)
    BY DEF NoForgottenData
  <2>1. offers[k[1]] # {} /\ k[1] \in Seats
    BY KeyTypes DEF DataInv, DataWaits
  <2> QED
    BY <2>1 DEF DataInv, PendingTold, OnWire
<1> QED
  BY <1>1, AlwaysData, PTL

-----------------------------------------------------------------------------
(* The events by their kind.                                               *)

LEMMA EventShapes ==
    /\ \A k, o : SelectionEv(k, o).t = "Selection" /\ SelectionEv(k, o).key = k /\ SelectionEv(k, o).offer = o
    /\ \A o : DataOfferEv(o).t = "DataOffer" /\ DataOfferEv(o).offer = o
    /\ \A o : SendEv(o).t = "Send" /\ SendEv(o).offer = o
    /\ \A o : CancelledEv(o).t = "Cancelled" /\ CancelledEv(o).offer = o
    /\ \A t, s : SeatEv(t, s).t = t /\ SeatEv(t, s).seat = s
    /\ DoneEv.t = "Done"
BY DEF SelectionEv, DataOfferEv, SendEv, CancelledEv, SeatEv, DoneEv

LEMMA EventForms ==
    ASSUME NEW e \in Event
    PROVE  /\ e.t = "Selection" => e = SelectionEv(e.key, e.offer)
           /\ e.t = "DataOffer" => e = DataOfferEv(e.offer)
           /\ e.t = "Send" => e = SendEv(e.offer)
           /\ e.t = "Cancelled" => e = CancelledEv(e.offer)
           /\ e.t \in {"Global", "GlobalRemove", "Finished"} => e = SeatEv(e.t, e.seat)
           /\ e.t = "Done" => e = DoneEv
<1>1. CASE e \in [t : {"DataOffer", "Send", "Cancelled"}, offer : Source]
  BY <1>1 DEF DataOfferEv, SendEv, CancelledEv
<1>2. CASE e \in [t : {"Selection"}, key : Key, offer : Source \cup {None}]
  BY <1>2 DEF SelectionEv
<1>3. CASE e \in [t : {"Global", "GlobalRemove", "Finished"}, seat : Seats]
  BY <1>3 DEF SeatEv
<1>4. CASE e \in [t : {"Done"}]
  BY <1>4 DEF DoneEv
<1> QED
  BY <1>1, <1>2, <1>3, <1>4 DEF Event

LEMMA RequestShapes ==
    /\ \A os : RoundtripReq(os).t = "Roundtrip" /\ RoundtripReq(os).offers = os
    /\ \A s : SetReq(s).t = "SetSelection" /\ SetReq(s).source = s
    /\ \A t, s : SeatReq(t, s).t = t /\ SeatReq(t, s).seat = s
BY DEF RoundtripReq, SetReq, SeatReq

LEMMA RequestForms ==
    ASSUME NEW r \in Request
    PROVE  /\ r.t = "Roundtrip" => r = RoundtripReq(r.offers)
           /\ r.t = "SetSelection" => r = SetReq(r.source)
           /\ r.t \in {"Bind", "Destroy"} => r = SeatReq(r.t, r.seat)
<1>1. CASE r \in [t : {"Roundtrip"}, offers : SUBSET Source]
  BY <1>1 DEF RoundtripReq
<1>2. CASE r \in [t : {"SetSelection"}, source : Source]
  BY <1>2 DEF SetReq
<1>3. CASE r \in [t : {"Bind", "Destroy"}, seat : Seats]
  BY <1>3 DEF SeatReq
<1> QED
  BY <1>1, <1>2, <1>3 DEF Request

(* The events that tell of the selection of k. *)
Tellings(k) == {e \in Event : e.t = "Selection" /\ e.key = k}

(* The compositor tells what the selections of the keys in J have become.  *)
Reports(news, J) ==
    /\ news \in Seq(Event)
    /\ wire' = wire \o news
    /\ \A e \in Within(news) :
          \/ e.t = "Selection" /\ e.key \in J /\ e.offer = sel'[e.key]
          \/ e.t = "DataOffer" /\ e.offer.key \in J /\ e.offer = sel'[e.offer.key]
          \/ e.t = "Cancelled" /\ e.offer.own /\ e.offer = sel[e.offer.key]
    /\ \A j \in J : LastOf(news, Tellings(j), SelectionEv(j, sel'[j])) /\ Once(news, Tellings(j))
    /\ \A o \in Source : Once(news, {DataOfferEv(o)})

LEMMA AdvertiseShape ==
    ASSUME NEW k \in Key, NEW src \in Source \cup {None}, src # None => src.key = k
    PROVE  /\ Advertise(k, src) \in Seq(Event)
           /\ \A e \in Within(Advertise(k, src)) :
                 \/ e = SelectionEv(k, src)
                 \/ src # None /\ e = DataOfferEv(src)
           /\ LastOf(Advertise(k, src), Tellings(k), SelectionEv(k, src))
           /\ Once(Advertise(k, src), Tellings(k))
           /\ \A o \in Source : Once(Advertise(k, src), {DataOfferEv(o)})
<1> DEFINE d == DataOfferEv(src)
           e == SelectionEv(k, src)
<1>1. e \in Event /\ e.t = "Selection" /\ d.t = "DataOffer"
  BY EventTypes, EventShapes
<1>2. CASE src = None
  <2>1. Advertise(k, src) = <<e>>
    BY <1>2 DEF Advertise
  <2> HIDE DEF e
  <2>2. LastOf(<<e>>, Tellings(k), e)
    BY DEF LastOf
  <2>3. <<e>> \in Seq(Event) /\ Within(<<e>>) = {e}
    BY <1>1, WithinOne
  <2>4. Once(<<e>>, Tellings(k)) /\ \A o \in Source : Once(<<e>>, {DataOfferEv(o)})
    BY OnceFew
  <2> QED
    BY <2>1, <2>2, <2>3, <2>4 DEF e
<1>3. CASE src # None
  <2>1. Advertise(k, src) = <<d, e>> /\ d \in Event
    BY <1>3, EventTypes DEF Advertise
  <2> HIDE DEF d, e
  <2>2. /\ <<d, e>> \in Seq(Event) /\ Within(<<d, e>>) = {d, e}
        /\ Len(<<d, e>>) = 2 /\ <<d, e>>[1] = d /\ <<d, e>>[2] = e
    BY <1>1, <2>1, WithinTwo
  <2>3. LastOf(<<d, e>>, Tellings(k), e)
    BY <2>2 DEF LastOf
  <2>4. d \notin Tellings(k) /\ \A o : e # DataOfferEv(o)
    BY <1>1, EventShapes DEF Tellings
  <2>5. Once(<<d, e>>, Tellings(k)) /\ \A o : Once(<<d, e>>, {DataOfferEv(o)})
    BY <2>2, <2>4 DEF Once
  <2> QED
    BY <1>3, <2>1, <2>2, <2>3, <2>5 DEF d, e
<1> QED
  BY <1>2, <1>3

LEMMA ReplacedShape ==
    ASSUME NEW k \in Key, sel \in [Key -> Source \cup {None}]
    PROVE  /\ Replaced(k) \in Seq(Event)
           /\ \A e \in Within(Replaced(k)) : e = CancelledEv(sel[k]) /\ sel[k] \in Source /\ sel[k].own
           /\ \A T : Once(Replaced(k), T)
<1>1. CASE sel[k] # None /\ sel[k].own
  BY <1>1, ReplacedType, WithinOne, OnceFew DEF Replaced
<1>2. CASE ~(sel[k] # None /\ sel[k].own)
  BY <1>2, ReplacedType, WithinOne, OnceFew DEF Replaced
<1> QED
  BY <1>1, <1>2

LEMMA ChangeReports ==
    ASSUME TypeOK, SelOfKey, NEW k \in Key, NEW src \in Source \cup {None}, src # None => src.key = k,
           ChangeSelection(k, src)
    PROVE  \E news : /\ Reports(news, IF bound[k[1]] THEN {k} ELSE {})
                     /\ \A e \in Within(news) : e.t = "Cancelled" => e.offer.key = k
                     /\ sel[k] # None /\ sel[k].own => CancelledEv(sel[k]) \in Within(news)
<1> DEFINE told == IF bound[k[1]] THEN Advertise(k, src) ELSE <<>>
           J == IF bound[k[1]] THEN {k} ELSE {}
           r == Replaced(k)
<1>1. /\ wire \in Seq(Event) /\ sel \in [Key -> Source \cup {None}]
      /\ sel'[k] = src
  BY DEF TypeOK, ChangeSelection
<1>2. /\ told \in Seq(Event)
      /\ \A e \in Within(told) : k \in J /\ (e = SelectionEv(k, src) \/ (src # None /\ e = DataOfferEv(src)))
      /\ \A j \in J : j = k /\ LastOf(told, Tellings(k), SelectionEv(k, src)) /\ Once(told, Tellings(k))
      /\ \A o \in Source : Once(told, {DataOfferEv(o)})
  <2>1. CASE bound[k[1]]
    BY <2>1, AdvertiseShape
  <2>2. CASE ~bound[k[1]]
    <3>1. told = <<>> /\ J = {} /\ Within(<<>>) = {}
      BY <2>2, WithinOne
    <3>2. \A o \in Source : Once(<<>>, {DataOfferEv(o)})
      BY OnceFew
    <3> QED
      BY <3>1, <3>2
  <2> QED
    BY <2>1, <2>2
<1>3. /\ r \in Seq(Event)
      /\ \A e \in Within(r) : e = CancelledEv(sel[k]) /\ sel[k] \in Source /\ sel[k].own
      /\ \A T : Once(r, T)
  BY <1>1, ReplacedShape
<1>4. wire' = (wire \o r) \o told \/ wire' = (wire \o told) \o r
  BY DEF ChangeSelection
<1> HIDE DEF told, r, J
<1>5. wire' = wire \o (r \o told) \/ wire' = wire \o (told \o r)
  <2>1. (wire \o r) \o told = wire \o (r \o told)
    BY <1>1, <1>2, <1>3, WireAssociates
  <2>2. (wire \o told) \o r = wire \o (told \o r)
    BY <1>1, <1>2, <1>3, WireAssociates
  <2> QED
    BY <1>4, <2>1, <2>2
<1>6. /\ r \o told \in Seq(Event) /\ told \o r \in Seq(Event)
      /\ Within(r \o told) = Within(r) \cup Within(told) /\ Within(told \o r) = Within(r) \cup Within(told)
  BY <1>2, <1>3, QueueConcat, WithinConcat
<1>7. ASSUME NEW e \in Within(r) \cup Within(told)
      PROVE  \/ e.t = "Selection" /\ e.key \in J /\ e.offer = sel'[e.key]
             \/ e.t = "DataOffer" /\ e.offer.key \in J /\ e.offer = sel'[e.offer.key]
             \/ e.t = "Cancelled" /\ e.offer.own /\ e.offer = sel[e.offer.key] /\ e.offer.key = k
  <2>1. CASE e \in Within(r)
    <3>1. e = CancelledEv(sel[k]) /\ sel[k] \in Source /\ sel[k].own
      BY <1>3, <2>1
    <3>2. sel[k].key = k
      BY <3>1, SourceFields DEF SelOfKey
    <3> QED
      BY <3>1, <3>2, EventShapes
  <2>2. CASE e = SelectionEv(k, src) /\ k \in J
    BY <1>1, <2>2, EventShapes
  <2>3. CASE src # None /\ e = DataOfferEv(src) /\ k \in J
    BY <1>1, <2>3, EventShapes
  <2> QED
    BY <1>2, <1>7, <2>1, <2>2, <2>3
<1>8. Within(r) \cap Tellings(k) = {} /\ \A o \in Source : Within(r) \cap {DataOfferEv(o)} = {}
  BY <1>3, EventShapes DEF Tellings
<1>9. ASSUME NEW j \in J
      PROVE  /\ LastOf(r \o told, Tellings(j), SelectionEv(j, sel'[j])) /\ Once(r \o told, Tellings(j))
             /\ LastOf(told \o r, Tellings(j), SelectionEv(j, sel'[j])) /\ Once(told \o r, Tellings(j))
  <2>1. /\ j = k /\ LastOf(told, Tellings(k), SelectionEv(k, src)) /\ Once(told, Tellings(k))
        /\ Once(r, Tellings(k))
    BY <1>2, <1>3
  <2>2. LastOf(r \o told, Tellings(k), SelectionEv(k, src)) /\ LastOf(told \o r, Tellings(k), SelectionEv(k, src))
    BY <1>2, <1>3, <1>8, <2>1, LastConcat
  <2>3. Once(r \o told, Tellings(k)) /\ Once(told \o r, Tellings(k))
    BY <1>2, <1>3, <1>8, <2>1, OnceConcat
  <2> QED
    BY <1>1, <2>1, <2>2, <2>3
<1>10. ASSUME NEW o \in Source
       PROVE  Once(r \o told, {DataOfferEv(o)}) /\ Once(told \o r, {DataOfferEv(o)})
  BY <1>2, <1>3, <1>8, OnceConcat
<1>11. Reports(r \o told, J) \/ Reports(told \o r, J)
  BY <1>5, <1>6, <1>7, <1>9, <1>10 DEF Reports
<1>12. sel[k] # None /\ sel[k].own => CancelledEv(sel[k]) \in Within(r)
  BY WithinOne DEF r, Replaced
<1>13. \A e \in Within(r) \cup Within(told) : e.t = "Cancelled" => e.offer.key = k
  BY <1>7
<1> QED
  BY <1>6, <1>11, <1>12, <1>13 DEF J

LEMMA BindReports ==
    ASSUME TypeOK, SelOfKey, NEW s \in Seats, sel' = sel,
           wire' = wire \o Advertise(<<s, "Regular">>, sel[<<s, "Regular">>])
                        \o Advertise(<<s, "Primary">>, sel[<<s, "Primary">>])
    PROVE  \E news : Reports(news, {k \in Key : k[1] = s}) /\ \A e \in Within(news) : e.t # "Cancelled"
<1> DEFINE x == <<s, "Regular">>
           y == <<s, "Primary">>
           p == Advertise(x, sel[x])
           q == Advertise(y, sel[y])
           J == {k \in Key : k[1] = s}
<1>1. /\ wire \in Seq(Event) /\ sel \in [Key -> Source \cup {None}]
      /\ x \in Key /\ y \in Key /\ x # y /\ J = {x, y}
  BY KeyTypes DEF TypeOK, SelectionType
<1>2. /\ p \in Seq(Event)
      /\ \A e \in Within(p) : e = SelectionEv(x, sel[x]) \/ (sel[x] # None /\ e = DataOfferEv(sel[x]))
      /\ LastOf(p, Tellings(x), SelectionEv(x, sel[x])) /\ Once(p, Tellings(x))
      /\ \A o \in Source : Once(p, {DataOfferEv(o)})
  <2>1. x \in Key /\ sel[x] \in Source \cup {None} /\ (sel[x] # None => sel[x].key = x)
    BY <1>1 DEF SelOfKey
  <2> HIDE DEF x
  <2> QED
    BY <2>1, AdvertiseShape
<1>3. /\ q \in Seq(Event)
      /\ \A e \in Within(q) : e = SelectionEv(y, sel[y]) \/ (sel[y] # None /\ e = DataOfferEv(sel[y]))
      /\ LastOf(q, Tellings(y), SelectionEv(y, sel[y])) /\ Once(q, Tellings(y))
      /\ \A o \in Source : Once(q, {DataOfferEv(o)})
  <2>1. y \in Key /\ sel[y] \in Source \cup {None} /\ (sel[y] # None => sel[y].key = y)
    BY <1>1 DEF SelOfKey
  <2> HIDE DEF y
  <2> QED
    BY <2>1, AdvertiseShape
<1>4. wire' = (wire \o p) \o q
  OBVIOUS
<1>5. x \in J /\ y \in J /\ \A j \in J : j = x \/ j = y
  BY <1>1
<1> HIDE DEF x, y, p, q, J
<1>6. wire' = wire \o (p \o q) /\ p \o q \in Seq(Event) /\ Within(p \o q) = Within(p) \cup Within(q)
  <2>1. (wire \o p) \o q = wire \o (p \o q)
    BY <1>1, <1>2, <1>3, WireAssociates
  <2>2. p \o q \in Seq(Event) /\ Within(p \o q) = Within(p) \cup Within(q)
    BY <1>2, <1>3, QueueConcat, WithinConcat
  <2> QED
    BY <1>4, <2>1, <2>2
<1>7. ASSUME NEW e \in Within(p \o q)
      PROVE  \/ e.t = "Selection" /\ e.key \in J /\ e.offer = sel'[e.key]
             \/ e.t = "DataOffer" /\ e.offer.key \in J /\ e.offer = sel'[e.offer.key]
  <2>1. PICK j \in J : e = SelectionEv(j, sel[j]) \/ (sel[j] # None /\ e = DataOfferEv(sel[j]))
    BY <1>2, <1>3, <1>5, <1>6
  <2>2. j \in Key
    BY <1>1, <1>5
  <2> QED
    BY <2>1, <2>2, EventShapes DEF SelOfKey
<1>8. /\ Within(p) \cap Tellings(y) = {} /\ Within(q) \cap Tellings(x) = {}
      /\ \A o \in Source : Within(p) \cap {DataOfferEv(o)} = {} \/ Within(q) \cap {DataOfferEv(o)} = {}
  <2>1. Within(p) \cap Tellings(y) = {} /\ Within(q) \cap Tellings(x) = {}
    <3>1. SelectionEv(x, sel[x]) \notin Tellings(y) /\ DataOfferEv(sel[x]) \notin Tellings(y)
      BY <1>1, EventShapes DEF Tellings
    <3>2. SelectionEv(y, sel[y]) \notin Tellings(x) /\ DataOfferEv(sel[y]) \notin Tellings(x)
      BY <1>1, EventShapes DEF Tellings
    <3> QED
      BY <1>2, <1>3, <3>1, <3>2
  <2>2. \A o : DataOfferEv(o) \in Within(p) => sel[x] # None /\ o = sel[x]
    BY <1>2, EventShapes
  <2>3. \A o : DataOfferEv(o) \in Within(q) => sel[y] # None /\ o = sel[y]
    BY <1>3, EventShapes
  <2> QED
    BY <1>1, <2>1, <2>2, <2>3 DEF SelOfKey
<1>9. LastOf(p \o q, Tellings(x), SelectionEv(x, sel[x])) /\ LastOf(p \o q, Tellings(y), SelectionEv(y, sel[y]))
  BY <1>2, <1>3, <1>8, LastConcat
<1>10. Once(p \o q, Tellings(x)) /\ Once(p \o q, Tellings(y))
  <2>1. Once(q, Tellings(x)) /\ Once(p, Tellings(y))
    BY <1>2, <1>3, <1>8, OnceNone
  <2> QED
    BY <1>2, <1>3, <1>8, <2>1, OnceConcat
<1>11. ASSUME NEW o \in Source
       PROVE  Once(p \o q, {DataOfferEv(o)})
  BY <1>2, <1>3, <1>8, OnceConcat
<1>12. Reports(p \o q, J)
  BY <1>5, <1>6, <1>7, <1>9, <1>10, <1>11 DEF Reports
<1>13. \A e \in Within(p \o q) : e.t # "Cancelled"
  BY <1>7
<1> QED
  BY <1>12, <1>13 DEF J

-----------------------------------------------------------------------------
(* The steps of the client, as far as many of them have it in common.      *)

Holding == {"ReadMimes", "GotPipes", "GotData"}

(* What becomes of the events and requests when one is dispatched. *)
LEMMA DispatchFacts ==
    ASSUME TypeOK, Dispatch
    PROVE  /\ wire # <<>> /\ wire \in Seq(Event) /\ wire' = Tail(wire)
           /\ event = Head(wire) /\ event \in Event /\ event \in Within(wire)
           /\ Within(wire) = {event} \cup Within(wire')
           /\ Within(reqs) \subseteq Within(reqs')
           /\ \A r \in Within(reqs') : r \in Within(reqs) \/ r.t \in {"Bind", "Destroy"}
           /\ UNCHANGED <<pipes, taken, server, bounds>>
           /\ pc \in {"wait", "dispatch", "roundtrip"}
           /\ pc' = IF pc = "roundtrip" THEN pc ELSE "dispatch"
<1>1. /\ wire # <<>> /\ wire' = Tail(wire) /\ UNCHANGED <<pipes, taken, server, bounds>>
      /\ pc \in {"wait", "dispatch", "roundtrip"}
      /\ pc' = IF pc = "roundtrip" THEN pc ELSE "dispatch"
  BY DEF Dispatch, AddSeat, RemoveSeat, NewOffer, NewSelection, OwnPipe, SourceCancelled, RoundtripDone,
         Receiving, Received
<1>2. /\ wire \in Seq(Event) /\ event = Head(wire) /\ event \in Event
      /\ Within(wire) = {event} \cup Within(wire')
  BY <1>1, WireStep, WithinTail DEF TypeOK, event
<1>3. reqs \in Seq(Request)
  BY DEF TypeOK
<1>4. CASE reqs' = reqs
  BY <1>1, <1>2, <1>4
<1>5. ASSUME NEW r \in Request, r.t \in {"Bind", "Destroy"}, reqs' = Append(reqs, r)
      PROVE  /\ Within(reqs) \subseteq Within(reqs')
             /\ \A x \in Within(reqs') : x \in Within(reqs) \/ x.t \in {"Bind", "Destroy"}
  <2>1. reqs' = reqs \o <<r>>
    BY <1>3, <1>5
  <2>2. Within(reqs') = Within(reqs) \cup {r}
    BY <1>3, <2>1, WithinAppend
  <2> QED
    BY <1>5, <2>2
<1>6. \A t \in {"Bind", "Destroy"}, s \in Seats : SeatReq(t, s) \in Request /\ SeatReq(t, s).t = t
  BY RequestTypes, RequestShapes
<1>7. CASE AddSeat \/ (RemoveSeat /\ event.seat \in seats)
  <2>1. event.seat \in Seats
    BY <1>2, <1>7, EventFields DEF AddSeat, RemoveSeat, Receiving, event
  <2>2. \E t \in {"Bind", "Destroy"} : reqs' = Append(reqs, SeatReq(t, event.seat))
    BY <1>7 DEF AddSeat, RemoveSeat
  <2>3. /\ Within(reqs) \subseteq Within(reqs')
        /\ \A x \in Within(reqs') : x \in Within(reqs) \/ x.t \in {"Bind", "Destroy"}
    BY <1>5, <1>6, <2>1, <2>2
  <2> QED
    BY <1>1, <1>2, <2>3
<1> QED
  BY <1>1, <1>2, <1>4, <1>7
     DEF Dispatch, RemoveSeat, NewOffer, NewSelection, OwnPipe, SourceCancelled, RoundtripDone

(* A selection is taken over. *)
TakesOver(k) == Store(k) \/ (PipesRead(k) /\ offers[k[1]] = {})

Taken(k) == Own(k, state[k].offer.copy)

LEMMA TakesOverFacts ==
    ASSUME TypeOK, NEW k \in Key, TakesOver(k)
    PROVE  /\ state[k].tag \in {"GotPipes", "GotData"} /\ state[k].offer \in Source
           /\ Taken(k) \in Source /\ offers[k[1]] = {}
           /\ sources' = [sources EXCEPT ![k] = @ \cup {Taken(k)}]
           /\ state' = [state EXCEPT ![k] = Waiting]
           /\ reqs' = Append(reqs, SetReq(Taken(k))) /\ SetReq(Taken(k)) \in Request
           /\ Within(reqs') = Within(reqs) \cup {SetReq(Taken(k))}
           /\ taken' = [taken EXCEPT ![k] = Append(@, state[k].offer.copy)]
           /\ Within(taken'[k]) = Within(taken[k]) \cup {state[k].offer.copy}
           /\ \A j \in Key : j # k => taken'[j] = taken[j]
           /\ UNCHANGED <<pc, seats, gotNew, offers, pipes, replied, objects, latest, server, wire, bounds>>
<1>1. /\ state[k].tag \in {"GotPipes", "GotData"} /\ offers[k[1]] = {} /\ SetClipboard(k)
      /\ UNCHANGED <<pc, seats, gotNew, offers, pipes, replied, objects, latest, server, wire, bounds>>
  BY DEF TakesOver, Store, Storable, PipesRead, NoPendingOffers
<1>2. state[k].offer \in Source
  BY <1>1, StateFacts
<1>3. state[k].offer.copy \in Copy /\ Taken(k) \in Source /\ Taken(k).copy = state[k].offer.copy
  BY <1>2, SourceFields DEF Taken, Own, Source
<1>4. SetReq(Taken(k)) \in Request
  BY <1>3, RequestTypes
<1>5. /\ reqs \in Seq(Request) /\ taken \in [Key -> Seq(Copy)]
  BY DEF TypeOK
<1>6. /\ sources' = [sources EXCEPT ![k] = @ \cup {Taken(k)}]
      /\ state' = [state EXCEPT ![k] = Waiting]
      /\ reqs' = Append(reqs, SetReq(Taken(k)))
      /\ taken' = [taken EXCEPT ![k] = Append(@, state[k].offer.copy)]
  BY <1>1, <1>3 DEF SetClipboard, NextState, Taken
<1>7. Within(reqs') = Within(reqs) \cup {SetReq(Taken(k))}
  <2>1. reqs' = reqs \o <<SetReq(Taken(k))>>
    BY <1>4, <1>5, <1>6
  <2> QED
    BY <1>4, <1>5, <2>1, WithinAppend
<1>8. taken'[k] = Append(taken[k], state[k].offer.copy) /\ \A j \in Key : j # k => taken'[j] = taken[j]
  BY <1>5, <1>6
<1>9. Within(taken'[k]) = Within(taken[k]) \cup {state[k].offer.copy}
  <2>1. taken[k] \in Seq(Copy)
    BY <1>5
  <2>2. taken'[k] = taken[k] \o <<state[k].offer.copy>>
    BY <1>3, <1>8, <2>1
  <2> QED
    BY <1>3, <2>1, <2>2, WithinAppend
<1> QED
  BY <1>1, <1>2, <1>3, <1>4, <1>6, <1>7, <1>8, <1>9

(* The pipes of k are read or fail, and nothing is taken over. *)
PipesEnd(k) == PipesFailed(k) \/ (PipesRead(k) /\ offers[k[1]] # {})

LEMMA PipesEndFacts ==
    ASSUME NEW k \in Key, PipesEnd(k)
    PROVE  /\ state[k].tag = "GotPipes" /\ pc = "wait"
           /\ state' = [state EXCEPT ![k] = Waiting] \/ state' = [state EXCEPT ![k] = GotData(state[k].offer)]
           /\ UNCHANGED <<pc, seats, gotNew, offers, sources, pipes, replied, objects, latest, taken, server,
                          wire, reqs, bounds>>
BY DEF PipesEnd, PipesFailed, PipesRead, NoPendingOffers

LEMMA StateTags ==
    /\ Waiting.tag \notin Holding /\ GotClear.tag \notin Holding /\ GotIgnored.tag \notin Holding
    /\ \A o : /\ ReadMimes(o).tag = "ReadMimes" /\ ReadMimes(o).offer = o
              /\ GotPipes(o).tag = "GotPipes" /\ GotPipes(o).offer = o
              /\ GotData(o).tag = "GotData" /\ GotData(o).offer = o
BY DEF Holding, Waiting, GotClear, GotIgnored, ReadMimes, GotPipes, GotData, SelectionState

-----------------------------------------------------------------------------
(* What the client was told of selections.                                 *)

(* A selection is told for the key it is of. *)
WireKeys == \A e \in Within(wire) : e.t = "Selection" /\ e.offer # None => e.offer.key = e.key

(* What the client reads or has read is what it was told last. *)
StateLatest ==
    \A k \in Key : state[k].tag \in Holding =>
        latest[k] = state[k].offer /\ state[k].offer.key = k /\ ~ShouldIgnore(state[k].offer)

(* Every copy that is known anywhere has been made. *)
CopiesMade ==
    /\ \A e \in Within(wire) : e.t = "Selection" /\ e.offer # None => e.offer.copy <= copies
    /\ \A k \in Key : latest[k] # None => latest[k].copy <= copies
    /\ \A k \in Key : sel[k] # None => sel[k].copy <= copies
    /\ \A r \in Within(reqs) : r.t = "SetSelection" => r.source.copy <= copies
    /\ \A k \in Key : \A c \in Within(taken[k]) : c <= copies

TellInv == WireKeys /\ StateLatest /\ CopiesMade

LEMMA DispatchTells == TypeOK /\ TellInv /\ Dispatch => TellInv'
<1> SUFFICES ASSUME TypeOK, TellInv, Dispatch
             PROVE  TellInv'
  OBVIOUS
<1> USE DEF TellInv
<1>1. /\ Within(wire') \subseteq Within(wire) /\ event \in Within(wire) /\ event \in Event
      /\ \A r \in Within(reqs') : r \in Within(reqs) \/ r.t \in {"Bind", "Destroy"}
      /\ UNCHANGED <<taken, sel, copies>>
  BY DispatchFacts DEF server, bounds
<1>2. state \in [Key -> StateRec] /\ latest \in [Key -> Source \cup {None}]
  BY DEF TypeOK, StateOK
<1>3. WireKeys'
  BY <1>1 DEF WireKeys
<1>4. SUFFICES StateLatest' /\ \A k \in Key : latest'[k] # None => latest'[k].copy <= copies
  BY <1>1, <1>3 DEF CopiesMade
<1>5. CASE AddSeat \/ RemoveSeat
  <2>1. latest' = latest /\ \A k \in Key : state'[k] = Waiting \/ state'[k] = state[k]
    BY <1>5 DEF AddSeat, RemoveSeat, ResetSeat
  <2> QED
    BY <2>1, StateTags DEF StateLatest, CopiesMade, ShouldIgnore
<1>6. CASE NewOffer \/ SourceCancelled \/ RoundtripDone
  <2>1. UNCHANGED <<state, latest>>
    BY <1>6 DEF NewOffer, SourceCancelled, RoundtripDone
  <2> QED
    BY <2>1 DEF StateLatest, CopiesMade, ShouldIgnore
<1>7. CASE OwnPipe
  <2>1. latest' = latest
    BY <1>7 DEF OwnPipe
  <2>2. event.offer.key \in Key
    BY <1>1, <1>7, EventFields, SourceFields DEF OwnPipe, Receiving, event
  <2>3. state' = state \/ state' = [state EXCEPT ![event.offer.key].own = TRUE]
    BY <1>7 DEF OwnPipe
  <2>4. \A k \in Key : state'[k].tag = state[k].tag /\ state'[k].offer = state[k].offer
    BY <1>2, <2>2, <2>3 DEF StateRec
  <2> QED
    BY <2>1, <2>4 DEF StateLatest, CopiesMade, ShouldIgnore
<1>8. CASE NewSelection
  <2> DEFINE k == event.key
             o == MaybeOffer(k, event.offer)
  <2>1. event.t = "Selection" /\ k \in Key /\ event.offer \in Source \cup {None}
    BY <1>1, <1>8, EventFields DEF NewSelection, Receiving, event
  <2>2. o \in Source \cup {None} /\ (o # None => o = event.offer /\ o.key = k /\ o.copy <= copies)
    BY <1>1, <2>1 DEF MaybeOffer, WireKeys, CopiesMade
  <2>3. CASE k[1] \notin seats
    <3>1. UNCHANGED <<state, latest>>
      BY <1>8, <2>3 DEF NewSelection
    <3> QED
      BY <3>1 DEF StateLatest, CopiesMade, ShouldIgnore
  <2>4. CASE k[1] \in seats
    <3>1. latest' = [latest EXCEPT ![k] = o]
      BY <1>8, <2>4 DEF NewSelection
    <3>2. CASE IsEnabled(k)
      <4>1. state' = [state EXCEPT ![k] = SelectedState(o)]
        BY <1>8, <2>4, <3>2 DEF NewSelection
      <4> HIDE DEF k, o
      <4>2. SelectedState(o).tag \in Holding => o # None /\ ~ShouldIgnore(o) /\ SelectedState(o).offer = o
        BY StateTags DEF SelectedState
      <4> QED
        BY <1>2, <2>1, <2>2, <3>1, <4>1, <4>2 DEF StateLatest, CopiesMade, ShouldIgnore
    <3>3. CASE ~IsEnabled(k)
      <4>1. state' = state
        BY <1>8, <2>4, <3>3 DEF NewSelection
      <4>2. state[k].tag \notin Holding
        BY <2>1, <3>3, StateFacts, StateTags DEF IsEnabled
      <4> HIDE DEF k, o
      <4> QED
        BY <1>2, <2>1, <2>2, <3>1, <4>1, <4>2 DEF StateLatest, CopiesMade, ShouldIgnore
    <3> QED
      BY <3>2, <3>3
  <2> QED
    BY <2>3, <2>4
<1> QED
  BY <1>5, <1>6, <1>7, <1>8 DEF Dispatch

(* The compositor and the applications: what the client is told then is    *)
(* what the selections have become.                                        *)
LEMMA OutsideTells ==
    ASSUME TypeOK, TellInv, UNCHANGED client, SelOfKey', copies' \in Nat, copies <= copies',
           \A k \in Key : sel'[k] # None => sel'[k].copy <= copies',
           \A r \in Within(reqs') : r.t = "SetSelection" => r \in Within(reqs),
           \A e \in Within(wire') : e.t = "Selection" => e \in Within(wire) \/ (e.key \in Key /\ e.offer = sel'[e.key])
    PROVE  TellInv'
<1>1. copies \in Nat /\ \A o \in Source : o.copy \in Nat
  BY SourceFields, MaxCopiesAssumption DEF TypeOK, Copy
<1>2. WireKeys'
  BY DEF TellInv, WireKeys, SelOfKey
<1>3. StateLatest'
  BY DEF TellInv, StateLatest, client, ShouldIgnore
<1>4. \A c \in Nat : c <= copies => c <= copies'
  BY <1>1
<1>5. \A e \in Within(wire') : e.t = "Selection" /\ e.offer # None => e.offer.copy <= copies'
  <2> SUFFICES ASSUME NEW e \in Within(wire'), e.t = "Selection", e.offer # None, e \in Within(wire)
               PROVE  e.offer.copy <= copies'
    OBVIOUS
  <2>1. wire \in Seq(Event)
    BY DEF TypeOK
  <2>2. e \in Event
    BY <2>1, WithinType
  <2>3. e.offer \in Source
    BY <2>2, EventFields
  <2> QED
    BY <1>1, <1>4, <2>3 DEF TellInv, CopiesMade
<1>6. \A k \in Key : latest'[k] # None => latest'[k].copy <= copies'
  BY <1>1, <1>4 DEF TellInv, CopiesMade, client, TypeOK
<1>7. \A r \in Within(reqs') : r.t = "SetSelection" => r.source.copy <= copies'
  <2> SUFFICES ASSUME NEW r \in Within(reqs), r.t = "SetSelection"
               PROVE  r.source.copy <= copies'
    OBVIOUS
  <2>1. reqs \in Seq(Request)
    BY DEF TypeOK
  <2>2. r \in Request
    BY <2>1, WithinType
  <2>3. r.source \in Source
    BY <2>2, RequestFields
  <2> QED
    BY <1>1, <1>4, <2>3 DEF TellInv, CopiesMade
<1>8. \A k \in Key : \A c \in Within(taken'[k]) : c <= copies'
  <2> SUFFICES ASSUME NEW k \in Key, NEW c \in Within(taken[k])
               PROVE  c <= copies'
    BY DEF client
  <2>1. taken[k] \in Seq(Copy)
    BY DEF TypeOK
  <2>2. c \in Nat
    BY <2>1, WithinType, MaxCopiesAssumption DEF Copy
  <2> QED
    BY <1>4, <2>2 DEF TellInv, CopiesMade
<1>9. CopiesMade'
  BY <1>5, <1>6, <1>7, <1>8 DEF CopiesMade
<1> QED
  BY <1>2, <1>3, <1>9 DEF TellInv

-----------------------------------------------------------------------------
(* The steps, as far as many of them have it in common.                    *)

(* The client sends requests of the kinds T. *)
Requests(T) == \E more \in Seq(Request) : reqs' = reqs \o more /\ \A r \in Within(more) : r.t \in T

LEMMA RequestsFacts ==
    ASSUME reqs \in Seq(Request), NEW T, Requests(T)
    PROVE  /\ Within(reqs) \subseteq Within(reqs')
           /\ \A r \in Within(reqs') : r \in Within(reqs) \/ r.t \in T
           /\ \A a, b : a.t \notin T /\ Followed(reqs, a, b) => Followed(reqs', a, b)
           /\ \A X : (\A x \in X : x.t \notin T) /\ Once(reqs, X) => Once(reqs', X)
<1>1. PICK more \in Seq(Request) : reqs' = reqs \o more /\ \A r \in Within(more) : r.t \in T
  BY DEF Requests
<1>2. Within(reqs') = Within(reqs) \cup Within(more)
  BY <1>1, WithinConcat
<1>3. ASSUME NEW a, NEW b, a.t \notin T, Followed(reqs, a, b)
      PROVE  Followed(reqs', a, b)
  BY <1>1, <1>3, FollowedConcat
<1>4. ASSUME NEW X, \A x \in X : x.t \notin T, Once(reqs, X)
      PROVE  Once(reqs', X)
  <2>1. Within(more) \cap X = {}
    BY <1>1, <1>4
  <2>2. Once(more, X)
    BY <2>1, OnceNone
  <2> QED
    BY <1>1, <1>4, <2>1, <2>2, OnceConcat
<1> QED
  BY <1>1, <1>2, <1>3, <1>4

LEMMA RequestsSome ==
    ASSUME reqs \in Seq(Request), NEW T
    PROVE  /\ reqs' = reqs => Requests(T)
           /\ \A r \in Request : r.t \in T /\ reqs' = Append(reqs, r) => Requests(T)
<1>1. ASSUME reqs' = reqs
      PROVE  Requests(T)
  <2>1. <<>> \in Seq(Request) /\ reqs' = reqs \o <<>> /\ Within(<<>>) = {}
    BY <1>1, WithinOne
  <2> QED
    BY <2>1 DEF Requests
<1>2. ASSUME NEW r \in Request, r.t \in T, reqs' = Append(reqs, r)
      PROVE  Requests(T)
  <2>1. <<r>> \in Seq(Request) /\ reqs' = reqs \o <<r>> /\ Within(<<r>>) = {r}
    BY <1>2, WithinOne
  <2> QED
    BY <1>2, <2>1 DEF Requests
<1> QED
  BY <1>1, <1>2

LEMMA DispatchRequests == TypeOK /\ Dispatch => Requests({"Bind", "Destroy"})
<1> SUFFICES ASSUME TypeOK, Dispatch
             PROVE  Requests({"Bind", "Destroy"})
  OBVIOUS
<1>1. reqs \in Seq(Request)
  BY DEF TypeOK
<1>2. CASE AddSeat \/ (RemoveSeat /\ event.seat \in seats)
  <2>1. event.seat \in Seats
    BY <1>2, DispatchFacts, EventFields DEF AddSeat, RemoveSeat, Receiving, event
  <2>2. \E t \in {"Bind", "Destroy"} : reqs' = Append(reqs, SeatReq(t, event.seat))
    BY <1>2 DEF AddSeat, RemoveSeat
  <2> QED
    BY <1>1, <2>1, <2>2, RequestsSome, RequestTypes, RequestShapes
<1>3. CASE ~(AddSeat \/ (RemoveSeat /\ event.seat \in seats))
  BY <1>1, <1>3, RequestsSome
     DEF Dispatch, RemoveSeat, NewOffer, NewSelection, OwnPipe, SourceCancelled, RoundtripDone
<1> QED
  BY <1>2, <1>3

(* The client's steps that are about its own state. *)
Inward == EndDispatch \/ Handle \/ Resolve \/ Flush \/ \E k \in Key : PipesEnd(k)

LEMMA InwardFacts ==
    ASSUME TypeOK, RoundtripKeepsReadMimes, Inward
    PROVE  /\ UNCHANGED <<wire, seats, sources, offers, latest, taken, server, bounds>>
           /\ Requests({"Roundtrip"})
           /\ ~Handle => UNCHANGED reqs
           /\ \A k \in Key : state'[k].tag \in Holding =>
                 state[k].tag \in Holding /\ state'[k].offer = state[k].offer
<1>1. UNCHANGED <<wire, seats, sources, offers, latest, taken, server, bounds>>
  BY DEF Inward, EndDispatch, Handle, Resolve, Flush, PipesEnd, PipesFailed, PipesRead, NoPendingOffers
<1>2. state \in [Key -> StateRec] /\ reqs \in Seq(Request)
  BY DEF TypeOK, StateOK
<1>3. CASE Handle
  <2>1. PICK failed, got : /\ state' = [k \in Key |-> Collected(k, failed)]
                           /\ got \subseteq {k \in Key : IsReading(k)}
                           /\ reqs' = reqs \/ reqs' = Append(reqs, RoundtripReq({state[k].offer : k \in got}))
    BY <1>3 DEF Handle
  <2>2. {state[k].offer : k \in got} \in SUBSET Source
    BY <2>1, StateFacts DEF IsReading
  <2>3. Requests({"Roundtrip"})
    BY <1>2, <2>1, <2>2, RequestsSome, RequestTypes, RequestShapes
  <2>4. \A k \in Key : state'[k] = Waiting \/ state'[k] = state[k]
    BY <2>1 DEF Collected
  <2> QED
    BY <1>1, <1>3, <2>3, <2>4, StateTags
<1>4. CASE Resolve
  <2>1. reqs' = reqs /\ pc = "roundtrip" /\ \A k \in Key : state'[k] = Resolved(k)
    BY <1>4 DEF Resolve
  <2>2. ASSUME NEW k \in Key, state'[k].tag \in Holding
        PROVE  state[k].tag \in Holding /\ state'[k].offer = state[k].offer
    <3>1. PipesCurrent(k) /\ IsReading(k) => state[k].offer = pipes[k] /\ state[k].tag \in Holding
      BY <2>1 DEF RoundtripKeepsReadMimes, IsReading, Holding
    <3> QED
      BY <2>1, <2>2, <3>1, StateTags DEF Resolved
  <2> QED
    BY <1>1, <1>2, <2>1, <2>2, RequestsSome
<1>5. CASE EndDispatch \/ Flush
  BY <1>1, <1>2, <1>5, RequestsSome DEF EndDispatch, Flush
<1>6. ASSUME NEW k \in Key, PipesEnd(k)
      PROVE  /\ Requests({"Roundtrip"}) /\ UNCHANGED reqs
             /\ \A j \in Key : state'[j].tag \in Holding =>
                   state[j].tag \in Holding /\ state'[j].offer = state[j].offer
  <2>1. /\ state[k].tag \in Holding /\ reqs' = reqs
        /\ state' = [state EXCEPT ![k] = Waiting] \/ state' = [state EXCEPT ![k] = GotData(state[k].offer)]
    BY <1>6, PipesEndFacts DEF Holding
  <2> QED
    BY <1>2, <2>1, StateTags, RequestsSome
<1> QED
  BY <1>1, <1>3, <1>4, <1>5, <1>6 DEF Inward

(* The compositor serves a request, or a part of a roundtrip's. *)
Served ==
    /\ reqs # <<>>
    /\ \/ reqs' = Tail(reqs)
       \/ Head(reqs).t = "Roundtrip" /\ \E os \in SUBSET Head(reqs).offers : reqs' = <<RoundtripReq(os)>> \o Tail(reqs)

LEMMA ServedFacts ==
    ASSUME reqs \in Seq(Request), UNCHANGED reqs \/ Served
    PROVE  /\ \A r \in Within(reqs') : r.t # "Roundtrip" => r \in Within(reqs)
           /\ \A r \in Within(reqs) : r.t # "Roundtrip" => r \in Within(reqs') \/ (Head(reqs) = r /\ reqs' = Tail(reqs))
           /\ \A X : Once(reqs, X) /\ (\A x \in X : x.t # "Roundtrip") =>
                 Once(reqs', X) /\ (reqs # <<>> /\ Head(reqs) \in X => Within(reqs') \cap X = {} \/ reqs' = reqs)
           /\ \A a, b : Followed(reqs, a, b) /\ a.t # "Roundtrip" => Followed(reqs', a, b)
<1>1. CASE UNCHANGED reqs
  BY <1>1
<1>2. CASE reqs # <<>> /\ reqs' = Tail(reqs)
  <2>1. Within(reqs) = {Head(reqs)} \cup Within(reqs')
    BY <1>2, WithinTail
  <2>2. \A X : Once(reqs, X) => Once(reqs', X) /\ (Head(reqs) \in X => Within(reqs') \cap X = {})
    BY <1>2, OnceTail
  <2>3. \A a, b : Followed(reqs, a, b) => Followed(reqs', a, b)
    BY <1>2, FollowedTail
  <2> QED
    BY <1>2, <2>1, <2>2, <2>3
<1>3. ASSUME reqs # <<>>, Head(reqs).t = "Roundtrip",
             NEW os \in SUBSET Head(reqs).offers, reqs' = <<RoundtripReq(os)>> \o Tail(reqs)
      PROVE  /\ \A r \in Within(reqs') : r.t # "Roundtrip" => r \in Within(reqs)
             /\ \A r \in Within(reqs) : r.t # "Roundtrip" => r \in Within(reqs')
             /\ \A X : Once(reqs, X) /\ (\A x \in X : x.t # "Roundtrip") => Once(reqs', X) /\ Head(reqs) \notin X
             /\ \A a, b : Followed(reqs, a, b) /\ a.t # "Roundtrip" => Followed(reqs', a, b)
  <2> DEFINE p == RoundtripReq(os)
             q == Tail(reqs)
  <2>1. p \in Request /\ p.t = "Roundtrip" /\ q \in Seq(Request) /\ Within(reqs) = {Head(reqs)} \cup Within(q)
    <3>1. Head(reqs).offers \subseteq Source
      BY <1>3, QueueTail, RequestFields
    <3> QED
      BY <1>3, <3>1, QueueTail, WithinTail, RequestTypes, RequestShapes
  <2>2. reqs' = <<p>> \o q
    BY <1>3
  <2> HIDE DEF p, q
  <2>3. <<p>> \in Seq(Request) /\ q \in Seq(Request) /\ Within(<<p>>) = {p} /\ Within(reqs') = {p} \cup Within(q)
    <3> DEFINE r == <<p>>
    <3>1. r \in Seq(Request) /\ q \in Seq(Request) /\ Within(r) = {p}
      BY <2>1, WithinOne
    <3> HIDE DEF r
    <3>2. Within(r \o q) = Within(r) \cup Within(q)
      BY <3>1, WithinConcat
    <3>3. r \in Seq(Request) /\ q \in Seq(Request) /\ Within(r) = {p} /\ Within(r \o q) = {p} \cup Within(q)
      BY <3>1, <3>2
    <3> QED
      BY <2>2, <3>3 DEF r
  <2>4. ASSUME NEW X, Once(reqs, X), \A x \in X : x.t # "Roundtrip"
        PROVE  Once(reqs', X) /\ Head(reqs) \notin X
    <3>1. Once(q, X) /\ Once(<<p>>, X) /\ Within(<<p>>) \cap X = {}
      BY <1>3, <2>1, <2>3, <2>4, OnceTail, OnceFew DEF q
    <3>2. Once(<<p>> \o q, X)
      BY <2>3, <3>1, OnceConcat
    <3> QED
      BY <1>3, <2>2, <2>4, <3>2
  <2>5. ASSUME NEW a, NEW b, Followed(reqs, a, b), a.t # "Roundtrip"
        PROVE  Followed(reqs', a, b)
    <3>1. Followed(q, a, b)
      BY <1>3, <2>5, FollowedTail DEF q
    <3> SUFFICES ASSUME NEW i \in 1 .. Len(reqs'), reqs'[i] = a
                 PROVE  \E j \in 1 .. Len(reqs') : j > i /\ reqs'[j] = b
      BY DEF Followed
    <3>2. Len(<<p>>) = 1 /\ <<p>>[1] = p
      OBVIOUS
    <3>3. i - 1 \in 1 .. Len(q) /\ q[i - 1] = a
      BY <2>1, <2>2, <2>3, <2>5, <3>2, QueueConcat
    <3>4. PICK j \in 1 .. Len(q) : j > i - 1 /\ q[j] = b
      BY <3>1, <3>3 DEF Followed
    <3>5. 1 + j \in 1 .. Len(reqs') /\ reqs'[1 + j] = b
      BY <2>1, <2>2, <2>3, <3>2, <3>4, QueueConcat
    <3> QED
      BY <3>4, <3>5
  <2> QED
    BY <1>3, <2>1, <2>3, <2>4, <2>5
<1> QED
  BY <1>1, <1>2, <1>3 DEF Served

(* How the selection of k changes: it is cleared, an application copies, or*)
(* the compositor serves the client's set_selection.                       *)
Made(k)    == copies' = copies + 1 /\ sel'[k] = Foreign(k, copies + 1) /\ UNCHANGED reqs
Set(k)     == reqs # <<>> /\ Head(reqs) = SetReq(sel'[k]) /\ reqs' = Tail(reqs) /\ bound[k[1]]
Changes(k) == (sel[k] # None /\ sel'[k] = None) \/ Made(k) \/ Set(k)

(* The compositor shows the selection of k to the new device of its seat. *)
Shown(k) == reqs # <<>> /\ Head(reqs) = SeatReq("Bind", k[1]) /\ reqs' = Tail(reqs) /\ UNCHANGED sel

(* The compositor answers the roundtrip. *)
Answers == reqs # <<>> /\ Head(reqs).t = "Roundtrip" /\ reqs' = Tail(reqs)

(* What the compositor sends. *)
Talks(news) ==
    /\ news \in Seq(Event)
    /\ wire' = wire \o news
    /\ \A e \in Within(news) :
          \/ e.t = "Selection" /\ e.offer = sel'[e.key] /\ bound'[e.key[1]] /\ (Changes(e.key) \/ Shown(e.key))
          \/ e.t = "DataOffer" /\ e.offer = sel'[e.offer.key] /\ (Changes(e.offer.key) \/ Shown(e.offer.key))
          \/ e.t = "Cancelled" /\ e.offer.own /\ e.offer = sel[e.offer.key] /\ Changes(e.offer.key)
          \/ e.t \in {"Global", "GlobalRemove", "Finished", "Send"} \/ (e.t = "Done" /\ Answers)
    /\ \A k \in Key, o \in Source : Once(news, {SelectionEv(k, o)}) /\ Once(news, {DataOfferEv(o)})
    /\ Once(news, {DoneEv})
    /\ \A k \in Key : bound'[k[1]] =>
          \/ LastOf(news, Tellings(k), SelectionEv(k, sel'[k]))
          \/ bound[k[1]] /\ sel'[k] = sel[k] /\ Within(news) \cap Tellings(k) = {}

LEMMA ReportsTalk ==
    ASSUME NEW news, NEW J, Reports(news, J), J \subseteq Key, sel \in [Key -> Source \cup {None}],
           \A j \in J : bound'[j[1]] /\ (Changes(j) \/ Shown(j)),
           \A e \in Within(news) : e.t = "Cancelled" => Changes(e.offer.key),
           \A k \in Key : bound'[k[1]] /\ k \notin J => bound[k[1]] /\ sel'[k] = sel[k]
    PROVE  Talks(news)
<1>1. ASSUME NEW k \in Key, NEW o \in Source
      PROVE  Once(news, {SelectionEv(k, o)})
  <2>1. CASE k \in J
    <3>1. SelectionEv(k, o) \in Tellings(k)
      BY EventTypes, EventShapes DEF Tellings
    <3>2. Once(news, Tellings(k)) /\ {SelectionEv(k, o)} \subseteq Tellings(k)
      BY <2>1, <3>1 DEF Reports
    <3> QED
      BY <3>2, OncePart
  <2>2. CASE k \notin J
    <3>1. SelectionEv(k, o) \notin Within(news)
      BY <2>2, EventShapes DEF Reports
    <3>2. Within(news) \cap {SelectionEv(k, o)} = {} /\ news \in Seq(Event)
      BY <3>1 DEF Reports
    <3> QED
      BY <3>2, OnceNone
  <2> QED
    BY <2>1, <2>2
<1>2. ASSUME NEW k \in Key, bound'[k[1]]
      PROVE  \/ LastOf(news, Tellings(k), SelectionEv(k, sel'[k]))
             \/ bound[k[1]] /\ sel'[k] = sel[k] /\ Within(news) \cap Tellings(k) = {}
  <2>1. k \notin J => Within(news) \cap Tellings(k) = {}
    BY DEF Reports, Tellings
  <2> QED
    BY <1>2, <2>1 DEF Reports
<1>3. Once(news, {DoneEv})
  <2>1. DoneEv \notin Within(news)
    BY EventShapes DEF Reports
  <2>2. Within(news) \cap {DoneEv} = {} /\ news \in Seq(Event)
    BY <2>1 DEF Reports
  <2> QED
    BY <2>2, OnceNone
<1> QED
  BY <1>1, <1>2, <1>3 DEF Reports, Talks

(* An event of the other kinds, or none. *)
LEMMA NoticeTalks ==
    ASSUME wire \in Seq(Event), \A k \in Key : bound'[k[1]] => bound[k[1]] /\ sel'[k] = sel[k]
    PROVE  /\ wire' = wire => Talks(<<>>)
           /\ \A e \in Event : /\ e.t \in {"Global", "GlobalRemove", "Finished", "Send"} \/ (e.t = "Done" /\ Answers)
                               /\ wire' = Append(wire, e)
                               => Talks(<<e>>)
<1>1. ASSUME wire' = wire
      PROVE  Talks(<<>>)
  <2>1. <<>> \in Seq(Event) /\ wire' = wire \o <<>> /\ Within(<<>>) = {}
    BY <1>1, WithinOne
  <2> QED
    BY <2>1, OnceFew DEF Talks
<1>2. ASSUME NEW e \in Event, wire' = Append(wire, e),
             e.t \in {"Global", "GlobalRemove", "Finished", "Send"} \/ (e.t = "Done" /\ Answers)
      PROVE  Talks(<<e>>)
  <2>1. <<e>> \in Seq(Event) /\ wire' = wire \o <<e>> /\ Within(<<e>>) = {e}
    BY <1>2, WithinOne
  <2>2. \A k \in Key : Within(<<e>>) \cap Tellings(k) = {}
    BY <1>2, <2>1 DEF Tellings
  <2> QED
    BY <1>2, <2>1, <2>2, OnceFew DEF Talks
<1> QED
  BY <1>1, <1>2

Outside == ServerStep \/ Environment

(* What is to be known of a step of the compositor and the applications.   *)
Effects ==
    /\ UNCHANGED client
    /\ copies \in Nat /\ copies' \in Nat /\ copies <= copies'
    /\ UNCHANGED reqs \/ Served
    /\ \A k \in Key : sel'[k] = sel[k] \/ sel'[k] = None \/ Changes(k)
    /\ \E news : Talks(news)
    /\ \A k \in Key : bound'[k[1]] /\ sel[k] # None /\ sel[k].own /\ sel'[k] # sel[k] =>
          CancelledEv(sel[k]) \in Within(wire')
    /\ \A o \in Source : SetReq(o) \in Within(reqs) /\ bound'[o.key[1]] =>
          SetReq(o) \in Within(reqs') \/ sel'[o.key] = o

LEMMA ChangeEffects ==
    ASSUME TypeOK, SelOfKey, NEW k \in Key, NEW src \in Source \cup {None}, src # None => src.key = k,
           ChangeSelection(k, src), Changes(k), bound' = bound
    PROVE  /\ \A j \in Key : sel'[j] = sel[j] \/ Changes(j)
           /\ \E news : Talks(news)
           /\ \A j \in Key : sel[j] # None /\ sel[j].own /\ sel'[j] # sel[j] => CancelledEv(sel[j]) \in Within(wire')
<1>1. /\ sel \in [Key -> Source \cup {None}] /\ wire \in Seq(Event)
      /\ \A j \in Key : j # k => sel'[j] = sel[j]
  BY DEF TypeOK, ChangeSelection
<1> DEFINE J == IF bound[k[1]] THEN {k} ELSE {}
<1>2. PICK news : /\ Reports(news, J)
                  /\ \A e \in Within(news) : e.t = "Cancelled" => e.offer.key = k
                  /\ sel[k] # None /\ sel[k].own => CancelledEv(sel[k]) \in Within(news)
  BY ChangeReports
<1>3. J \subseteq Key /\ \A j \in J : bound'[j[1]] /\ Changes(j)
  OBVIOUS
<1>4. \A j \in Key : bound'[j[1]] /\ j \notin J => bound[j[1]] /\ sel'[j] = sel[j]
  BY <1>1
<1> HIDE DEF J
<1>5. Talks(news)
  BY <1>1, <1>2, <1>3, <1>4, ReportsTalk
<1>6. Within(wire') = Within(wire) \cup Within(news)
  BY <1>1, <1>2, WithinConcat DEF Reports
<1> QED
  BY <1>1, <1>2, <1>5, <1>6

LEMMA ServeEffects == TypeOK /\ SelOfKey /\ Serve => Effects
<1> SUFFICES ASSUME TypeOK, SelOfKey, Serve
             PROVE  Effects
  OBVIOUS
<1>1. /\ wire \in Seq(Event) /\ reqs \in Seq(Request) /\ copies \in Nat
      /\ sel \in [Key -> Source \cup {None}] /\ bound \in [Seats -> BOOLEAN]
      /\ \A k \in Key : k[1] \in Seats
  BY KeyTypes, MaxCopiesAssumption DEF TypeOK
<1>2. UNCHANGED client /\ copies' = copies /\ copies <= copies
  <2>1. UNCHANGED client /\ copies' = copies
    BY DEF Serve, ServeBind, ServeDestroy, ServeSync, ServeSet, ServeReceive, bounds
  <2> QED
    BY <1>1, <2>1
<1>3. \A r \in Within(reqs) : reqs # <<>> /\ reqs' = Tail(reqs) => r = Head(reqs) \/ r \in Within(reqs')
  BY <1>1, WithinTail
<1>4. ASSUME reqs # <<>>, reqs' = Tail(reqs), \A o : Head(reqs) # SetReq(o),
             \A k \in Key : sel'[k] = sel[k] \/ (sel'[k] = None /\ ~bound'[k[1]]),
             NEW news, Talks(news)
      PROVE  Effects
  BY <1>1, <1>2, <1>3, <1>4 DEF Effects, Served
<1>5. CASE ServeBind
  <2> DEFINE s == Head(reqs).seat
             J == {k \in Key : k[1] = s}
  <2>1. /\ reqs # <<>> /\ Head(reqs).t = "Bind" /\ reqs' = Tail(reqs) /\ sel' = sel
        /\ Head(reqs) = SeatReq("Bind", s) /\ s \in Seats
    BY <1>1, <1>5, QueueTail, RequestForms, RequestFields DEF ServeBind, Requested
  <2>2. \A o : Head(reqs) # SetReq(o)
    BY <2>1, RequestShapes
  <2>3. CASE status[s] = "live"
    <3>1. /\ bound' = [bound EXCEPT ![s] = TRUE]
          /\ wire' = wire \o Advertise(<<s, "Regular">>, sel[<<s, "Regular">>])
                          \o Advertise(<<s, "Primary">>, sel[<<s, "Primary">>])
      BY <1>5, <2>3 DEF ServeBind
    <3>2. J \subseteq Key /\ \A j \in J : bound'[j[1]] /\ Shown(j)
      BY <1>1, <2>1, <3>1 DEF Shown
    <3> HIDE DEF s
    <3>3. PICK news : Reports(news, J) /\ \A e \in Within(news) : e.t # "Cancelled"
      BY <2>1, <3>1, BindReports
    <3>4. \A k \in Key : bound'[k[1]] /\ k \notin J => bound[k[1]] /\ sel'[k] = sel[k]
      BY <1>1, <2>1, <3>1
    <3> HIDE DEF J
    <3>5. Talks(news)
      BY <1>1, <3>2, <3>3, <3>4, ReportsTalk
    <3> QED
      BY <1>4, <2>1, <2>2, <3>5
  <2>4. CASE status[s] # "live"
    <3>1. Talks(<<>>)
      BY <1>1, <1>5, <2>1, <2>4, NoticeTalks DEF ServeBind
    <3> QED
      BY <1>4, <2>1, <2>2, <3>1
  <2> QED
    BY <2>3, <2>4
<1>6. CASE ServeDestroy
  <2>1. /\ reqs # <<>> /\ Head(reqs).t = "Destroy" /\ reqs' = Tail(reqs) /\ wire' = wire
        /\ bound' = [bound EXCEPT ![Head(reqs).seat] = FALSE]
        /\ \A k \in Key : sel'[k] = sel[k] \/ (sel'[k] = None /\ k[1] = Head(reqs).seat)
    BY <1>1, <1>6 DEF ServeDestroy, Requested
  <2>2. \A o : Head(reqs) # SetReq(o)
    BY <2>1, RequestShapes
  <2>3. Talks(<<>>)
    BY <1>1, <2>1, NoticeTalks
  <2> QED
    BY <1>1, <1>4, <2>1, <2>2, <2>3
<1>7. CASE ServeSync
  <2>1. /\ reqs # <<>> /\ Head(reqs).t = "Roundtrip" /\ reqs' = Tail(reqs) /\ wire' = Append(wire, DoneEv)
        /\ bound' = bound /\ sel' = sel
    BY <1>7 DEF ServeSync, Requested, server
  <2>2. \A o : Head(reqs) # SetReq(o)
    BY <2>1, RequestShapes
  <2>3. Talks(<<DoneEv>>)
    BY <1>1, <2>1, NoticeTalks, EventTypes, EventShapes DEF Answers
  <2> QED
    BY <1>1, <1>4, <2>1, <2>2, <2>3
<1>8. ASSUME NEW o \in Source, ServeReceive(o)
      PROVE  Effects
  <2>1. /\ reqs # <<>> /\ Head(reqs).t = "Roundtrip" /\ bound' = bound /\ sel' = sel
        /\ reqs' = <<RoundtripReq(Head(reqs).offers \ {o})>> \o Tail(reqs)
        /\ wire' = Append(wire, SendEv(o)) \/ wire' = wire
    BY <1>8 DEF ServeReceive, Requested, server
  <2>2. Served
    BY <2>1 DEF Served
  <2>3. \E news : Talks(news)
    BY <1>1, <2>1, NoticeTalks, EventTypes, EventShapes
  <2>4. \A x : SetReq(x) \in Within(reqs) => SetReq(x) \in Within(reqs')
    BY <1>1, <2>1, <2>2, ServedFacts, RequestShapes
  <2> QED
    BY <1>1, <1>2, <2>1, <2>2, <2>3, <2>4 DEF Effects
<1>9. CASE ServeSet
  <2> DEFINE o == Head(reqs).source
  <2>1. /\ reqs # <<>> /\ reqs' = Tail(reqs) /\ bound' = bound
        /\ o \in Source /\ o.key \in Key /\ Head(reqs) = SetReq(o)
        /\ \A x : Head(reqs) = SetReq(x) => x = o
    BY <1>1, <1>9, QueueTail, RequestForms, RequestFields, RequestShapes, SourceFields DEF ServeSet, Requested
  <2>2. CASE bound[o.key[1]]
    <3>1. ChangeSelection(o.key, o)
      BY <1>9, <2>2 DEF ServeSet
    <3> HIDE DEF o
    <3>2. sel'[o.key] = o
      BY <1>1, <2>1, <3>1 DEF ChangeSelection
    <3>3. Changes(o.key)
      BY <2>1, <2>2, <3>2 DEF Changes, Set
    <3>4. /\ \A j \in Key : sel'[j] = sel[j] \/ Changes(j)
          /\ \E news : Talks(news)
          /\ \A j \in Key : sel[j] # None /\ sel[j].own /\ sel'[j] # sel[j] => CancelledEv(sel[j]) \in Within(wire')
      <4>1. o \in Source \cup {None} /\ (o # None => o.key = o.key)
        BY <2>1
      <4> QED
        BY <2>1, <3>1, <3>3, <4>1, ChangeEffects
    <3> QED
      BY <1>1, <1>2, <1>3, <2>1, <3>2, <3>4 DEF Effects, Served
  <2>3. CASE ~bound[o.key[1]]
    <3>1. sel' = sel /\ wire' = wire
      BY <1>9, <2>3 DEF ServeSet
    <3> HIDE DEF o
    <3>2. Talks(<<>>)
      BY <1>1, <2>1, <3>1, NoticeTalks
    <3> QED
      BY <1>1, <1>2, <1>3, <2>1, <2>3, <3>1, <3>2 DEF Effects, Served
  <2> QED
    BY <2>2, <2>3
<1> QED
  BY <1>5, <1>6, <1>7, <1>8, <1>9 DEF Serve

LEMMA ApplicationEffects ==
    ASSUME TypeOK, SelOfKey, NEW k \in Key, AppCopy(k) \/ AppClear(k)
    PROVE  Effects
<1>1. /\ reqs' = reqs /\ bound' = bound /\ UNCHANGED client /\ sel \in [Key -> Source \cup {None}]
      /\ copies \in Nat /\ copies' \in Nat /\ copies <= copies'
  BY MaxCopiesAssumption DEF TypeOK, AppCopy, AppClear
<1>2. CASE AppCopy(k)
  <2>1. Foreign(k, copies + 1) \in Source /\ Foreign(k, copies + 1).key = k
    BY <1>2, MaxCopiesAssumption DEF AppCopy, TypeOK, Foreign, Source, Copy
  <2>2. ChangeSelection(k, Foreign(k, copies + 1)) /\ Changes(k)
    BY <1>1, <1>2 DEF AppCopy, ChangeSelection, Changes, Made
  <2> QED
    BY <1>1, <2>1, <2>2, ChangeEffects DEF Effects
<1>3. CASE AppClear(k)
  <2>1. ChangeSelection(k, None) /\ Changes(k)
    BY <1>1, <1>3 DEF AppClear, ChangeSelection, Changes
  <2> QED
    BY <1>1, <2>1, ChangeEffects DEF Effects
<1> QED
  BY <1>2, <1>3

LEMMA SeatEffects ==
    ASSUME TypeOK, NEW s \in Seats, List(s) \/ WithdrawSeat(s) \/ FinishDevice(s)
    PROVE  Effects
<1>1. /\ reqs' = reqs /\ UNCHANGED client /\ wire \in Seq(Event) /\ bound \in [Seats -> BOOLEAN]
      /\ copies \in Nat /\ copies' = copies /\ \A k \in Key : k[1] \in Seats
  BY KeyTypes, MaxCopiesAssumption DEF TypeOK, List, WithdrawSeat, FinishDevice, bounds
<1>2. \A k \in Key : sel'[k] = sel[k] \/ (sel'[k] = None /\ ~bound'[k[1]])
  BY <1>1 DEF List, WithdrawSeat, FinishDevice
<1>3. \A k \in Key : bound'[k[1]] => bound[k[1]]
  BY <1>1 DEF List, WithdrawSeat, FinishDevice
<1>4. PICK t \in {"Global", "GlobalRemove", "Finished"} : wire' = Append(wire, SeatEv(t, s))
  BY DEF List, WithdrawSeat, FinishDevice
<1>5. Talks(<<SeatEv(t, s)>>)
  BY <1>1, <1>2, <1>3, <1>4, NoticeTalks, EventTypes, EventShapes
<1> QED
  BY <1>1, <1>2, <1>5 DEF Effects

LEMMA OutsideEffects == TypeOK /\ SelOfKey /\ Outside => Effects
BY ServeEffects, ApplicationEffects, SeatEffects DEF Outside, ServerStep, Environment, ListSeat, AnnounceSeat

LEMMA StepCases ==
    ASSUME [Next]_vars
    PROVE  \/ Dispatch \/ Inward \/ (\E k \in Key : TakesOver(k)) \/ Outside \/ Reconnect
           \/ UNCHANGED vars
BY DEF Next, ClientStep, Inward, PipesEnd, TakesOver, Outside

-----------------------------------------------------------------------------
(* TellInv is inductive.                                                   *)

LEMMA OutsideTellInv ==
    ASSUME TypeOK, TypeOK', SelOfKey, SelOfKey', TellInv, Outside
    PROVE  TellInv'
<1>1. Effects
  BY OutsideEffects
<1>2. /\ UNCHANGED client /\ copies \in Nat /\ copies' \in Nat /\ copies <= copies'
      /\ reqs \in Seq(Request) /\ wire \in Seq(Event)
  BY <1>1 DEF Effects, TypeOK
<1>3. ASSUME NEW k \in Key, sel'[k] # None
      PROVE  sel'[k].copy <= copies'
  <2>1. sel' \in [Key -> Source \cup {None}] /\ sel \in [Key -> Source \cup {None}]
    BY DEF TypeOK
  <2>2. sel'[k] \in Source /\ sel'[k].copy \in Nat
    BY <1>3, <2>1, SourceFields, MaxCopiesAssumption DEF Copy
  <2>3. CASE sel'[k] = sel[k]
    BY <1>2, <1>3, <2>2, <2>3 DEF TellInv, CopiesMade
  <2>4. CASE Made(k)
    BY <1>2, <2>2, <2>4 DEF Made, Foreign
  <2>5. CASE Set(k)
    <3>1. SetReq(sel'[k]) \in Within(reqs)
      BY <1>2, <2>5, WithinTail DEF Set
    <3>2. sel'[k].copy <= copies
      BY <3>1, RequestShapes DEF TellInv, CopiesMade
    <3> QED
      BY <1>2, <2>2, <3>2
  <2> QED
    BY <1>1, <1>3, <2>3, <2>4, <2>5 DEF Effects, Changes
<1>4. \A r \in Within(reqs') : r.t = "SetSelection" => r \in Within(reqs)
  BY <1>1, <1>2, ServedFacts DEF Effects
<1>5. ASSUME NEW e \in Within(wire'), e.t = "Selection"
      PROVE  e \in Within(wire) \/ (e.key \in Key /\ e.offer = sel'[e.key])
  <2>1. PICK news : Talks(news)
    BY <1>1 DEF Effects
  <2>2. Within(wire') = Within(wire) \cup Within(news)
    BY <1>2, <2>1, WithinConcat DEF Talks
  <2>3. wire' \in Seq(Event)
    BY DEF TypeOK
  <2>4. e.key \in Key
    BY <1>5, <2>3, WithinType, EventFields
  <2> QED
    BY <1>5, <2>1, <2>2, <2>4 DEF Talks
<1> QED
  BY <1>2, <1>3, <1>4, <1>5, OutsideTells

LEMMA InwardTells == TypeOK /\ RoundtripKeepsReadMimes /\ TellInv /\ Inward => TellInv'
<1> SUFFICES ASSUME TypeOK, RoundtripKeepsReadMimes, TellInv, Inward
             PROVE  TellInv'
  OBVIOUS
<1>1. /\ UNCHANGED <<wire, seats, sources, offers, latest, taken, server, bounds>>
      /\ Requests({"Roundtrip"})
      /\ \A k \in Key : state'[k].tag \in Holding =>
            state[k].tag \in Holding /\ state'[k].offer = state[k].offer
  BY InwardFacts
<1>2. \A r \in Within(reqs') : r.t = "SetSelection" => r \in Within(reqs)
  BY <1>1, RequestsFacts DEF TypeOK
<1>3. UNCHANGED <<wire, latest, sel, taken, copies>>
  BY <1>1 DEF server, bounds
<1> QED
  BY <1>1, <1>2, <1>3 DEF TellInv, WireKeys, StateLatest, CopiesMade, ShouldIgnore

LEMMA TakesOverTells ==
    ASSUME TypeOK, TellInv, NEW k \in Key, TakesOver(k)
    PROVE  TellInv'
<1>1. /\ state[k].tag \in {"GotPipes", "GotData"}
      /\ state' = [state EXCEPT ![k] = Waiting]
      /\ Within(reqs') = Within(reqs) \cup {SetReq(Taken(k))}
      /\ Within(taken'[k]) = Within(taken[k]) \cup {state[k].offer.copy}
      /\ \A j \in Key : j # k => taken'[j] = taken[j]
      /\ UNCHANGED <<wire, latest, sel, copies>>
      /\ state \in [Key -> StateRec]
  BY TakesOverFacts DEF server, bounds, TypeOK, StateOK
<1>2. state[k].tag \in Holding /\ latest[k] = state[k].offer /\ latest[k] # None
  BY <1>1, StateFacts, NoneAssumption DEF TellInv, StateLatest, Holding
<1>3. state[k].offer.copy <= copies
  BY <1>2 DEF TellInv, CopiesMade
<1>4. StateLatest'
  BY <1>1, StateTags DEF TellInv, StateLatest, ShouldIgnore
<1>5. \A r \in Within(reqs') : r.t = "SetSelection" => r.source.copy <= copies
  BY <1>1, <1>3, RequestShapes DEF TellInv, CopiesMade, Taken, Own
<1>6. \A j \in Key : \A c \in Within(taken'[j]) : c <= copies
  BY <1>1, <1>3 DEF TellInv, CopiesMade
<1> QED
  BY <1>1, <1>4, <1>5, <1>6 DEF TellInv, WireKeys, CopiesMade

LEMMA EmptyQueue == Within(<<>>) = {} /\ \A T : Once(<<>>, T)
BY WithinOne, OnceFew

LEMMA ReconnectTells == TypeOK /\ TellInv /\ Reconnect => TellInv'
<1> SUFFICES ASSUME TypeOK, TellInv, Reconnect
             PROVE  TellInv'
  OBVIOUS
<1>1. /\ wire' = <<>> /\ reqs' = <<>> /\ copies' = copies
      /\ state' = [k \in Key |-> Waiting] /\ latest' = [k \in Key |-> None] /\ taken' = [k \in Key |-> <<>>]
      /\ \A k \in Key : sel'[k] = None \/ sel'[k] = sel[k]
  BY DEF Reconnect, NewState, DropClient, RestartCompositor
<1> QED
  BY <1>1, EmptyQueue, StateTags DEF TellInv, WireKeys, StateLatest, CopiesMade

LEMMA InitTells == Init => TellInv
BY EmptyQueue, StateTags DEF Init, TellInv, WireKeys, StateLatest, CopiesMade

LEMMA NextTells ==
    ASSUME TypeOK, TypeOK', SelOfKey, SelOfKey', RoundtripKeepsReadMimes, TellInv, [Next]_vars
    PROVE  TellInv'
<1>1. CASE UNCHANGED vars
  BY <1>1 DEF vars, client, server, bounds, TellInv, WireKeys, StateLatest, CopiesMade, ShouldIgnore
<1> QED
  BY <1>1, StepCases, DispatchTells, InwardTells, TakesOverTells, OutsideTellInv, ReconnectTells

-----------------------------------------------------------------------------
(* Seats: what the client and the compositor still have to tell each other *)
(* of a seat that one of them has and the other has not.                   *)

Global(s)       == SeatEv("Global", s)
GlobalRemove(s) == SeatEv("GlobalRemove", s)
Finished(s)     == SeatEv("Finished", s)
Bind(s)         == SeatReq("Bind", s)
Destroy(s)      == SeatReq("Destroy", s)

(* The removal of s is on its way to the client. *)
Leaving(s) == GlobalRemove(s) \in Within(wire) \/ Finished(s) \in Within(wire)

(* Nothing has been said of the selections of s on this connection. *)
Untouched(s) ==
    /\ ~bound[s]
    /\ \A k \in Key : k[1] = s =>
          /\ latest[k] = None /\ taken[k] = <<>> /\ sources[k] = {}
          /\ sel[k] # None => ~sel[k].own
          /\ Within(wire) \cap Tellings(k) = {}
          /\ \A o \in Source : o.key = k => SetReq(o) \notin Within(reqs)

(* The client has yet to learn of s. *)
Fresh(s) == status[s] \in Unannounced \/ Global(s) \in Within(wire)

SeatAgreed(s) ==
    /\ Fresh(s) => Untouched(s) /\ Bind(s) \notin Within(reqs) /\ Destroy(s) \notin Within(reqs)
    /\ Bind(s) \in Within(reqs) => Untouched(s)
    /\ Once(reqs, {Bind(s)})
    /\ Destroy(s) \in Within(reqs) => s \notin seats
    /\ s \in seats /\ ~bound[s] => Bind(s) \in Within(reqs) \/ Leaving(s)
    /\ status[s] = "gone" /\ s \in seats => Leaving(s)
    /\ status[s] = "gone" => Followed(wire, Global(s), GlobalRemove(s))
    /\ bound[s] /\ s \notin seats => Destroy(s) \in Within(reqs)
    /\ s \notin seats => Followed(reqs, Bind(s), Destroy(s))

SeatInv == \A s \in Seats : SeatAgreed(s)

LEMMA SeatShapes ==
    ASSUME NEW s \in Seats
    PROVE  /\ Global(s).t = "Global" /\ GlobalRemove(s).t = "GlobalRemove" /\ Finished(s).t = "Finished"
           /\ Global(s).seat = s /\ GlobalRemove(s).seat = s /\ Finished(s).seat = s
           /\ Global(s) \in Event /\ GlobalRemove(s) \in Event /\ Finished(s) \in Event
           /\ Bind(s).t = "Bind" /\ Destroy(s).t = "Destroy" /\ Bind(s).seat = s /\ Destroy(s).seat = s
           /\ Bind(s) \in Request /\ Destroy(s) \in Request
BY EventTypes, EventShapes, RequestTypes, RequestShapes DEF Global, GlobalRemove, Finished, Bind, Destroy

Binds(s) == reqs # <<>> /\ Head(reqs) = Bind(s) /\ reqs' = Tail(reqs)

(* How the compositor's idea of seat s changes. *)
Seating(s) ==
    /\ bound'[s] => bound[s] \/ Binds(s)
    /\ bound[s] /\ ~bound'[s] => Leaving(s)' \/ Destroy(s) \in Within(reqs)
    /\ Binds(s) => bound'[s] \/ (status[s] # "live" /\ status' = status)
    /\ status'[s] \in Unannounced => status[s] \in Unannounced
    /\ reqs # <<>> /\ Head(reqs) = Destroy(s) /\ reqs' = Tail(reqs) => ~bound'[s]
    /\ \E news \in Seq(Event) :
          /\ wire' = wire \o news
          /\ Global(s) \in Within(news) => status[s] \in Unannounced /\ status'[s] = "live"
          /\ status'[s] = "gone" => status[s] = "gone" \/ GlobalRemove(s) \in Within(news)

LEMMA OtherNews ==
    ASSUME TypeOK, NEW s \in Seats, status' = status, NEW news \in Seq(OtherEvent), wire' = wire \o news
    PROVE  \E more \in Seq(Event) :
              /\ wire' = wire \o more
              /\ Global(s) \in Within(more) => status[s] \in Unannounced /\ status'[s] = "live"
              /\ status'[s] = "gone" => status[s] = "gone" \/ GlobalRemove(s) \in Within(more)
<1>1. news \in Seq(Event)
  BY DEF OtherEvent
<1>2. Global(s) \notin Within(news)
  BY WithinType, SeatShapes DEF OtherEvent
<1> QED
  BY <1>1, <1>2

LEMMA ServeSeats ==
    ASSUME TypeOK, Serve, NEW s \in Seats
    PROVE  Seating(s)
<1>1. /\ reqs \in Seq(Request) /\ bound \in [Seats -> BOOLEAN] /\ sel \in [Key -> Source \cup {None}]
      /\ wire \in Seq(Event) /\ status' = status
  BY DEF TypeOK, Serve, ServeBind, ServeDestroy, ServeSync, ServeSet, ServeReceive, server
<1> DEFINE SentOther == \E news \in Seq(OtherEvent) : wire' = wire \o news
<1>2. SentOther => \E more \in Seq(Event) :
                 /\ wire' = wire \o more
                 /\ Global(s) \in Within(more) => status[s] \in Unannounced /\ status'[s] = "live"
                 /\ status'[s] = "gone" => status[s] = "gone" \/ GlobalRemove(s) \in Within(more)
  BY <1>1, OtherNews
<1>3. wire' = wire => SentOther
  BY SendsNothing DEF Sends
<1>4. \A e \in OtherEvent : wire' = Append(wire, e) => SentOther
  BY SendsOne DEF Sends
<1>5. CASE ServeBind
  <2> DEFINE x == Head(reqs).seat
  <2>1. /\ reqs # <<>> /\ reqs' = Tail(reqs) /\ Head(reqs).t = "Bind" /\ Head(reqs) = Bind(x) /\ x \in Seats
    BY <1>1, <1>5, QueueTail, RequestForms, RequestFields DEF ServeBind, Requested, Bind
  <2>2. SentOther
    <3>1. CASE wire' = wire
      BY <1>3, <3>1
    <3>2. CASE status[x] = "live"
      <4> DEFINE p == Advertise(<<x, "Regular">>, sel[<<x, "Regular">>])
                 q == Advertise(<<x, "Primary">>, sel[<<x, "Primary">>])
      <4>1. wire' = wire \o p \o q
        BY <1>5, <3>2 DEF ServeBind
      <4>2. p \in Seq(OtherEvent) /\ q \in Seq(OtherEvent)
        BY <1>1, <2>1, KeyTypes, AdvertiseOther DEF SelectionType
      <4> HIDE DEF p, q
      <4>3. p \o q \in Seq(OtherEvent) /\ (wire \o p) \o q = wire \o (p \o q)
        <5>1. p \in Seq(Event) /\ q \in Seq(Event)
          BY <4>2 DEF OtherEvent
        <5> QED
          BY <1>1, <4>2, <5>1, ConcatAssociative, ConcatProperties
      <4> QED
        BY <4>1, <4>3
    <3> QED
      BY <1>5, <3>1, <3>2 DEF ServeBind
  <2>3. bound' = [bound EXCEPT ![x] = TRUE] \/ (status[x] # "live" /\ bound' = bound)
    BY <1>5 DEF ServeBind
  <2>4. Head(reqs) # Destroy(s) /\ (Head(reqs) = Bind(s) <=> x = s)
    BY <2>1, SeatShapes
  <2> HIDE DEF x, SentOther
  <2> QED
    BY <1>1, <1>2, <2>1, <2>2, <2>3, <2>4 DEF Seating, Binds
<1>6. CASE ServeDestroy
  <2> DEFINE x == Head(reqs).seat
  <2>1. /\ reqs # <<>> /\ reqs' = Tail(reqs) /\ Head(reqs).t = "Destroy" /\ Head(reqs) = Destroy(x) /\ x \in Seats
        /\ wire' = wire /\ bound' = [bound EXCEPT ![x] = FALSE] /\ Destroy(x) \in Within(reqs)
    BY <1>1, <1>6, QueueTail, WithinTail, RequestForms, RequestFields DEF ServeDestroy, Requested, Destroy
  <2>2. ~Binds(s) /\ (Head(reqs) = Destroy(s) <=> x = s)
    BY <2>1, SeatShapes DEF Binds
  <2> HIDE DEF x, SentOther
  <2> QED
    BY <1>1, <1>2, <1>3, <2>1, <2>2 DEF Seating
<1>7. CASE ServeSync \/ ServeSet \/ \E o \in Source : ServeReceive(o)
  <2>1. bound' = bound /\ reqs # <<>> /\ Head(reqs).t \notin {"Bind", "Destroy"}
    BY <1>7 DEF ServeSync, ServeSet, ServeReceive, Requested, server
  <2>2. SentOther
    <3>1. CASE ServeSync \/ \E o \in Source : ServeReceive(o)
      BY <1>3, <1>4, <3>1, OtherEventTypes DEF ServeSync, ServeReceive
    <3>2. CASE ServeSet
      <4>1. Head(reqs).source \in Source /\ Head(reqs).source.key \in Key
        BY <1>1, <3>2, QueueTail, RequestFields, SourceFields DEF ServeSet, Requested
      <4> QED
        BY <1>3, <3>2, <4>1, SelectionSends DEF ServeSet, Sends
    <3> QED
      BY <1>7, <3>1, <3>2
  <2>3. Head(reqs) # Bind(s) /\ Head(reqs) # Destroy(s)
    BY <2>1, SeatShapes
  <2> HIDE DEF SentOther
  <2> QED
    BY <1>1, <1>2, <2>1, <2>2, <2>3 DEF Seating, Binds
<1> QED
  BY <1>5, <1>6, <1>7 DEF Serve

LEMMA EnvironmentSeats ==
    ASSUME TypeOK, (\E x \in Seats : ListSeat(x)) \/ Environment, NEW s \in Seats
    PROVE  Seating(s)
<1>1. /\ bound \in [Seats -> BOOLEAN] /\ wire \in Seq(Event) /\ reqs' = reqs /\ reqs \in Seq(Request)
      /\ status \in [Seats -> {"new", "unlisted", "live", "gone"}]
  BY DEF TypeOK, Environment, ListSeat, AnnounceSeat, List, WithdrawSeat, FinishDevice, AppCopy, AppClear
<1>2. reqs # <<>> => reqs' # Tail(reqs)
  BY <1>1, QueueTail
<1>3. ASSUME NEW x \in Seats, NEW t \in {"Global", "GlobalRemove", "Finished"}, wire' = Append(wire, SeatEv(t, x))
      PROVE  /\ <<SeatEv(t, x)>> \in Seq(Event) /\ wire' = wire \o <<SeatEv(t, x)>>
             /\ Within(<<SeatEv(t, x)>>) = {SeatEv(t, x)} /\ SeatEv(t, x) \in Within(wire')
             /\ Global(s) = SeatEv(t, x) => s = x /\ t = "Global"
  <2>1. <<SeatEv(t, x)>> \in Seq(Event) /\ wire' = wire \o <<SeatEv(t, x)>>
    BY <1>1, <1>3, EventTypes
  <2>2. Within(<<SeatEv(t, x)>>) = {SeatEv(t, x)} /\ SeatEv(t, x) \in Within(wire')
    BY <1>1, <2>1, EventTypes, WithinOne, WithinAppend
  <2> QED
    BY <2>1, <2>2, EventShapes DEF Global
<1>4. ASSUME NEW x \in Seats, List(x), status[x] \in Unannounced
      PROVE  Seating(s)
  <2>1. /\ status' = [status EXCEPT ![x] = "live"] /\ wire' = Append(wire, SeatEv("Global", x)) /\ bound' = bound
    BY <1>4 DEF List
  <2> QED
    BY <1>1, <1>2, <1>3, <1>4, <2>1 DEF Seating, Binds, Unannounced
<1>5. ASSUME NEW x \in Seats, WithdrawSeat(x)
      PROVE  Seating(s)
  <2>1. /\ status' = [status EXCEPT ![x] = "gone"] /\ wire' = Append(wire, GlobalRemove(x))
        /\ bound' = [bound EXCEPT ![x] = FALSE]
    BY <1>5 DEF WithdrawSeat, GlobalRemove
  <2> QED
    BY <1>1, <1>2, <1>3, <2>1 DEF Seating, Binds, Unannounced, Leaving, GlobalRemove
<1>6. ASSUME NEW x \in Seats, FinishDevice(x)
      PROVE  Seating(s)
  <2>1. /\ status' = status /\ wire' = Append(wire, Finished(x)) /\ bound' = [bound EXCEPT ![x] = FALSE]
    BY <1>6 DEF FinishDevice, Finished
  <2> QED
    BY <1>1, <1>2, <1>3, <2>1 DEF Seating, Binds, Unannounced, Leaving, Finished
<1>7. ASSUME NEW k \in Key, AppCopy(k) \/ AppClear(k)
      PROVE  Seating(s)
  <2>1. bound' = bound /\ status' = status
    BY <1>7 DEF AppCopy, AppClear
  <2>2. \E src \in Source \cup {None} : ChangeSelection(k, src)
    <3>1. AppCopy(k) => Foreign(k, copies + 1) \in Source
      BY MaxCopiesAssumption DEF AppCopy, TypeOK, Foreign, Source, Copy
    <3> QED
      BY <1>7, <3>1 DEF AppCopy, AppClear
  <2>3. \E news \in Seq(OtherEvent) : wire' = wire \o news
    BY <2>2, SelectionSends DEF Sends
  <2>4. \E more \in Seq(Event) :
           /\ wire' = wire \o more
           /\ Global(s) \in Within(more) => status[s] \in Unannounced /\ status'[s] = "live"
           /\ status'[s] = "gone" => status[s] = "gone" \/ GlobalRemove(s) \in Within(more)
    BY <2>1, <2>3, OtherNews
  <2> QED
    BY <1>2, <2>1, <2>4 DEF Seating, Binds
<1> QED
  BY <1>4, <1>5, <1>6, <1>7 DEF Environment, ListSeat, AnnounceSeat, Unannounced

LEMMA OutsideSeats ==
    ASSUME TypeOK, Outside, NEW s \in Seats
    PROVE  Seating(s)
BY ServeSeats, EnvironmentSeats DEF Outside, ServerStep

LEMMA WireStarts ==
    ASSUME TypeOK, NEW news, Talks(news)
    PROVE  Within(wire') = Within(wire) \cup Within(news)
BY WithinConcat DEF TypeOK, Talks

LEMMA OutsideUntouched ==
    ASSUME TypeOK, SelOfKey, Outside, NEW s \in Seats, Untouched(s), ~bound'[s]
    PROVE  Untouched(s)'
<1>1. Effects /\ UNCHANGED client
  BY OutsideEffects DEF Effects
<1>2. PICK news : Talks(news)
  BY <1>1 DEF Effects
<1>3. reqs \in Seq(Request)
  BY DEF TypeOK
<1>4. ASSUME NEW k \in Key, k[1] = s
      PROVE  /\ latest'[k] = None /\ taken'[k] = <<>> /\ sources'[k] = {}
             /\ sel'[k] # None => ~sel'[k].own
             /\ Within(wire') \cap Tellings(k) = {}
             /\ \A o \in Source : o.key = k => SetReq(o) \notin Within(reqs')
  <2>1. latest'[k] = None /\ taken'[k] = <<>> /\ sources'[k] = {}
    BY <1>1, <1>4 DEF client, Untouched
  <2>2. sel'[k] # None => ~sel'[k].own
    <3>1. ~bound[k[1]] /\ (sel[k] # None => ~sel[k].own)
      BY <1>4 DEF Untouched
    <3>2. sel'[k] = sel[k] \/ sel'[k] = None \/ Made(k)
      BY <1>1, <3>1 DEF Effects, Changes, Set
    <3> QED
      BY <3>1, <3>2 DEF Made, Foreign
  <2>3. Within(news) \cap Tellings(k) = {}
    BY <1>2, <1>4 DEF Talks, Tellings
  <2>4. Within(wire') \cap Tellings(k) = {}
    BY <1>2, <1>4, <2>3, WireStarts DEF Untouched
  <2>5. \A o \in Source : o.key = k => SetReq(o) \notin Within(reqs')
    BY <1>1, <1>3, <1>4, ServedFacts, RequestShapes DEF Effects, Untouched
  <2> QED
    BY <2>1, <2>2, <2>4, <2>5
<1> QED
  BY <1>4 DEF Untouched

LEMMA OutsideSeatInv == TypeOK /\ SelOfKey /\ SeatInv /\ Outside => SeatInv'
<1> SUFFICES ASSUME TypeOK, SelOfKey, SeatInv, Outside, NEW s \in Seats
             PROVE  SeatAgreed(s)'
  BY DEF SeatInv
<1>1. SeatAgreed(s)
  BY DEF SeatInv
<1>2. Seating(s)
  BY OutsideSeats
<1>3. /\ reqs \in Seq(Request) /\ wire \in Seq(Event) /\ status \in [Seats -> {"new", "unlisted", "live", "gone"}]
      /\ seats' = seats /\ (UNCHANGED reqs \/ Served)
  BY OutsideEffects DEF Effects, TypeOK, client
<1>4. /\ Bind(s).t # "Roundtrip" /\ Destroy(s).t # "Roundtrip" /\ Bind(s) # Destroy(s)
      /\ Global(s) # GlobalRemove(s)
  BY SeatShapes
<1>5. PICK news \in Seq(Event) :
          /\ wire' = wire \o news
          /\ Global(s) \in Within(news) => status[s] \in Unannounced /\ status'[s] = "live"
          /\ status'[s] = "gone" => status[s] = "gone" \/ GlobalRemove(s) \in Within(news)
  BY <1>2 DEF Seating
<1>6. Within(wire') = Within(wire) \cup Within(news)
  BY <1>3, <1>5, WithinConcat
<1>7. /\ Bind(s) \in Within(reqs') => Bind(s) \in Within(reqs)
      /\ Destroy(s) \in Within(reqs') => Destroy(s) \in Within(reqs)
      /\ Bind(s) \in Within(reqs) => Bind(s) \in Within(reqs') \/ Binds(s)
      /\ Destroy(s) \in Within(reqs) => \/ Destroy(s) \in Within(reqs')
                                        \/ reqs # <<>> /\ Head(reqs) = Destroy(s) /\ reqs' = Tail(reqs)
      /\ Once(reqs', {Bind(s)})
      /\ Followed(reqs, Bind(s), Destroy(s)) => Followed(reqs', Bind(s), Destroy(s))
  <2>1. reqs' = reqs \/ reqs # <<>>
    BY <1>3 DEF Served
  <2>2. /\ \A r \in Within(reqs') : r.t # "Roundtrip" => r \in Within(reqs)
        /\ \A r \in Within(reqs) : r.t # "Roundtrip" => r \in Within(reqs') \/ (Head(reqs) = r /\ reqs' = Tail(reqs))
        /\ \A X : Once(reqs, X) /\ (\A x \in X : x.t # "Roundtrip") => Once(reqs', X)
        /\ \A a, b : Followed(reqs, a, b) /\ a.t # "Roundtrip" => Followed(reqs', a, b)
    BY <1>3, ServedFacts
  <2>3. Once(reqs', {Bind(s)})
    BY <1>1, <1>4, <2>2 DEF SeatAgreed
  <2> QED
    BY <1>4, <2>1, <2>2, <2>3 DEF Binds
<1>8. Binds(s) => Bind(s) \in Within(reqs) /\ Bind(s) \notin Within(reqs')
  <2> SUFFICES ASSUME Binds(s)
               PROVE  Bind(s) \in Within(reqs) /\ Bind(s) \notin Within(reqs')
    OBVIOUS
  <2>1. reqs # <<>> /\ Head(reqs) = Bind(s) /\ reqs' = Tail(reqs) /\ Once(reqs, {Bind(s)})
    BY <1>1 DEF Binds, SeatAgreed
  <2> QED
    BY <1>3, <2>1, OnceTail, WithinTail
<1>9. Fresh(s)' => Fresh(s)
  BY <1>2, <1>5, <1>6 DEF Seating, Fresh, Global
<1>10. Leaving(s) => Leaving(s)'
  BY <1>6 DEF Leaving, GlobalRemove, Finished
<1>11. Untouched(s) /\ ~bound'[s] => Untouched(s)'
  BY OutsideUntouched
<1>12. /\ Fresh(s)' => Untouched(s)' /\ Bind(s) \notin Within(reqs') /\ Destroy(s) \notin Within(reqs')
       /\ Bind(s) \in Within(reqs') => Untouched(s)'
  BY <1>1, <1>2, <1>7, <1>8, <1>9, <1>11 DEF SeatAgreed, Seating, Untouched
<1>13. s \in seats /\ ~bound'[s] => Bind(s) \in Within(reqs') \/ Leaving(s)'
  <2> SUFFICES ASSUME s \in seats, ~bound'[s]
               PROVE  Bind(s) \in Within(reqs') \/ Leaving(s)'
    OBVIOUS
  <2>1. CASE bound[s]
    BY <1>1, <1>2, <2>1 DEF SeatAgreed, Seating
  <2>2. CASE ~bound[s] /\ Binds(s)
    <3>1. status[s] # "live" /\ status[s] \notin Unannounced
      BY <1>1, <1>2, <1>8, <2>2 DEF SeatAgreed, Seating, Fresh
    <3>2. status[s] = "gone"
      BY <1>3, <3>1 DEF Unannounced
    <3> QED
      BY <1>1, <1>10, <3>2 DEF SeatAgreed
  <2>3. CASE ~bound[s] /\ ~Binds(s)
    BY <1>1, <1>7, <1>10, <2>3 DEF SeatAgreed
  <2> QED
    BY <2>1, <2>2, <2>3
<1>14. status'[s] = "gone" /\ s \in seats => Leaving(s)'
  BY <1>1, <1>5, <1>6, <1>10 DEF SeatAgreed, Leaving, GlobalRemove
<1>15. status'[s] = "gone" => Followed(wire', Global(s), GlobalRemove(s))
  <2> SUFFICES ASSUME status'[s] = "gone"
               PROVE  Followed(wire', Global(s), GlobalRemove(s))
    OBVIOUS
  <2>1. Global(s) \notin Within(news)
    BY <1>5
  <2>2. Followed(wire, Global(s), GlobalRemove(s)) \/ GlobalRemove(s) \in Within(news)
    BY <1>1, <1>5 DEF SeatAgreed
  <2> QED
    BY <1>3, <1>5, <2>1, <2>2, FollowedConcat
<1>16. bound'[s] /\ s \notin seats => Destroy(s) \in Within(reqs')
  <2> SUFFICES ASSUME bound'[s], s \notin seats
               PROVE  Destroy(s) \in Within(reqs')
    OBVIOUS
  <2>1. CASE bound[s]
    BY <1>1, <1>2, <1>7, <2>1 DEF SeatAgreed, Seating
  <2>2. CASE Binds(s)
    BY <1>1, <1>3, <2>2, FollowedTail DEF SeatAgreed, Binds
  <2> QED
    BY <1>2, <2>1, <2>2 DEF Seating
<1>17. s \notin seats => Followed(reqs', Bind(s), Destroy(s))
  BY <1>1, <1>7 DEF SeatAgreed
<1> HIDE DEF Global, GlobalRemove, Finished, Bind, Destroy
<1>18. /\ Bind(s)' = Bind(s) /\ Destroy(s)' = Destroy(s) /\ Global(s)' = Global(s) /\ GlobalRemove(s)' = GlobalRemove(s)
  BY DEF Bind, Destroy, Global, GlobalRemove, SeatEv, SeatReq
<1> QED
  BY <1>1, <1>3, <1>7, <1>12, <1>13, <1>14, <1>15, <1>16, <1>17, <1>18 DEF SeatAgreed

(* What NamesFresh says of the events on the wire. *)
LEMMA FreshUnbound ==
    ASSUME TypeOK, NamesFresh, NEW s \in Seats
    PROVE  /\ Fresh(s) => s \notin seats
           /\ wire # <<>> /\ Head(wire) = Global(s) =>
                status[s] \notin Unannounced /\ Global(s) \notin Within(Tail(wire))
<1>1. wire \in Seq(Event)
  BY DEF TypeOK
<1>2. \A i \in 1 .. Len(wire) : wire[i] = Global(s) => Announces(wire[i], s)
  BY SeatShapes DEF Announces
<1>3. Fresh(s) => s \notin seats
  BY <1>2 DEF Fresh, Within, NamesFresh, Unbound
<1>4. ASSUME wire # <<>>, Head(wire) = Global(s)
      PROVE  status[s] \notin Unannounced /\ Global(s) \notin Within(Tail(wire))
  <2>1. wire[1] = Global(s) /\ 1 \in 1 .. Len(wire)
    BY <1>1, <1>4, QueueTail
  <2>2. ASSUME NEW i \in 1 .. Len(Tail(wire)), Tail(wire)[i] = Global(s)
        PROVE  FALSE
    <3>1. i + 1 \in 1 .. Len(wire) /\ wire[i + 1] = Global(s) /\ i \in Nat /\ i + 1 # 1
      BY <1>1, <1>4, <2>2, QueueTail
    <3> QED
      BY <1>2, <2>1, <3>1 DEF NamesFresh
  <2> QED
    BY <1>2, <2>1, <2>2 DEF Within, NamesFresh
<1> QED
  BY <1>3, <1>4

LEMMA DispatchUntouched ==
    ASSUME TypeOK, Dispatch, NEW s \in Seats, Untouched(s)
    PROVE  Untouched(s)'
<1>1. /\ UNCHANGED <<bound, sel, taken>> /\ Within(wire') \subseteq Within(wire)
      /\ event \in Within(wire) /\ event \in Event
  BY DispatchFacts DEF server
<1>2. \A r \in Within(reqs') : r.t = "SetSelection" => r \in Within(reqs)
  BY DispatchFacts
<1>3. \A k \in Key : sources'[k] \subseteq sources[k]
  <2>1. sources \in [Key -> SUBSET Source]
    BY DEF TypeOK
  <2>2. CASE SourceCancelled
    <3>1. event.offer.key \in Key
      BY <1>1, <2>2, EventFields, SourceFields DEF SourceCancelled, Receiving, event
    <3> QED
      BY <2>1, <2>2, <3>1 DEF SourceCancelled, SourcesLeft
  <2>3. CASE AddSeat \/ RemoveSeat
    BY <2>3 DEF AddSeat, RemoveSeat, ResetSeat
  <2> QED
    BY <2>2, <2>3 DEF Dispatch, NewOffer, NewSelection, OwnPipe, RoundtripDone
<1>4. ASSUME NEW k \in Key, k[1] = s
      PROVE  latest'[k] = None
  <2>1. latest \in [Key -> Source \cup {None}] /\ latest[k] = None
    BY <1>4 DEF TypeOK, Untouched
  <2>2. CASE NewSelection
    <3>1. event.t = "Selection" /\ event \in Tellings(event.key)
      BY <1>1, <2>2 DEF NewSelection, Receiving, event, Tellings
    <3>2. event.key # k
      BY <1>1, <1>4, <3>1 DEF Untouched
    <3> QED
      BY <2>1, <2>2, <3>2 DEF NewSelection
  <2> QED
    BY <2>1, <2>2 DEF Dispatch, AddSeat, RemoveSeat, NewOffer, OwnPipe, SourceCancelled, RoundtripDone
<1>5. \A k \in Key : k[1] = s => sources'[k] = {}
  BY <1>3 DEF Untouched
<1>6. \A o \in Source : o.key[1] = s => SetReq(o) \notin Within(reqs')
  BY <1>2, RequestShapes, SourceFields DEF Untouched
<1>7. \A k \in Key : k[1] = s => Within(wire') \cap Tellings(k) = {}
  BY <1>1 DEF Untouched
<1> QED
  BY <1>1, <1>4, <1>5, <1>6, <1>7 DEF Untouched

LEMMA DispatchSeatInv == TypeOK /\ NamesFresh /\ SeatInv /\ Dispatch => SeatInv'
<1> SUFFICES ASSUME TypeOK, NamesFresh, SeatInv, Dispatch, NEW s \in Seats
             PROVE  SeatAgreed(s)'
  BY DEF SeatInv
<1>1. SeatAgreed(s)
  BY DEF SeatInv
<1>2. /\ wire # <<>> /\ wire \in Seq(Event) /\ wire' = Tail(wire) /\ event = Head(wire) /\ event \in Event
      /\ Within(wire) = {event} \cup Within(wire')
      /\ UNCHANGED <<bound, status>> /\ reqs \in Seq(Request)
  BY DispatchFacts DEF server, TypeOK
<1>3. Untouched(s) => Untouched(s)'
  BY DispatchUntouched
<1>4. /\ Followed(wire, Global(s), GlobalRemove(s)) => Followed(wire', Global(s), GlobalRemove(s))
      /\ Fresh(s)' => Fresh(s)
  BY <1>2, FollowedTail DEF Fresh, Global, GlobalRemove
<1>5. ASSUME NEW r \in Request, reqs' = Append(reqs, r)
      PROVE  reqs' = reqs \o <<r>> /\ <<r>> \in Seq(Request) /\ Within(reqs') = Within(reqs) \cup {r} /\ Within(<<r>>) = {r}
  <2>1. reqs' = reqs \o <<r>>
    BY <1>2, <1>5
  <2> QED
    BY <1>2, <2>1, WithinAppend, WithinOne
<1>6. CASE AddSeat /\ event.seat = s
  <2>1. event = Global(s) /\ seats' = seats \cup {s} /\ reqs' = Append(reqs, Bind(s))
    BY <1>2, <1>6, EventForms DEF AddSeat, Receiving, event, Global, Bind
  <2>2. /\ reqs' = reqs \o <<Bind(s)>> /\ <<Bind(s)>> \in Seq(Request)
        /\ Within(reqs') = Within(reqs) \cup {Bind(s)} /\ Within(<<Bind(s)>>) = {Bind(s)}
    BY <1>5, <2>1, SeatShapes
  <2>3. /\ Untouched(s) /\ Bind(s) \notin Within(reqs) /\ Destroy(s) \notin Within(reqs)
        /\ ~Fresh(s)'
    <3>1. Fresh(s)
      BY <1>2, <2>1 DEF Fresh
    <3>2. status[s] \notin Unannounced /\ Global(s) \notin Within(wire')
      BY <1>2, <2>1, FreshUnbound
    <3> QED
      BY <1>1, <1>2, <3>1, <3>2 DEF SeatAgreed, Fresh, Global
  <2>4. Once(reqs', {Bind(s)})
    <3>1. Once(<<Bind(s)>>, {Bind(s)}) /\ Once(reqs, {Bind(s)}) /\ Within(reqs) \cap {Bind(s)} = {}
      BY <1>1, <2>3, OnceFew DEF SeatAgreed
    <3> QED
      BY <1>2, <2>2, <3>1, OnceConcat
  <2>5. status[s] = "gone" => Leaving(s)'
    BY <1>1, <1>2, <2>1, FollowedTail DEF SeatAgreed, Leaving, GlobalRemove
  <2>6. Bind(s) # Destroy(s)
    BY SeatShapes
  <2>7. /\ Bind(s)' = Bind(s) /\ Destroy(s)' = Destroy(s) /\ Global(s)' = Global(s) /\ GlobalRemove(s)' = GlobalRemove(s)
    BY DEF Bind, Destroy, Global, GlobalRemove, SeatEv, SeatReq
  <2> HIDE DEF Global, GlobalRemove, Finished, Bind, Destroy
  <2> QED
    BY <1>1, <1>2, <1>3, <1>4, <2>1, <2>2, <2>3, <2>4, <2>5, <2>6, <2>7 DEF SeatAgreed
<1>7. CASE RemoveSeat /\ event.seat = s /\ s \in seats
  <2>1. seats' = seats \ {s} /\ reqs' = Append(reqs, Destroy(s))
    BY <1>7 DEF RemoveSeat, Destroy
  <2>2. /\ reqs' = reqs \o <<Destroy(s)>> /\ <<Destroy(s)>> \in Seq(Request)
        /\ Within(reqs') = Within(reqs) \cup {Destroy(s)} /\ Within(<<Destroy(s)>>) = {Destroy(s)}
    BY <1>5, <2>1, SeatShapes
  <2>3. ~Fresh(s)' /\ Bind(s) # Destroy(s)
    BY <1>4, <1>7, FreshUnbound, SeatShapes
  <2>4. Once(reqs', {Bind(s)}) /\ Followed(reqs', Bind(s), Destroy(s))
    <3>1. Once(<<Destroy(s)>>, {Bind(s)}) /\ Once(reqs, {Bind(s)}) /\ Within(<<Destroy(s)>>) \cap {Bind(s)} = {}
      BY <1>1, <2>2, <2>3, OnceFew DEF SeatAgreed
    <3>2. Bind(s) \notin Within(<<Destroy(s)>>) /\ Destroy(s) \in Within(<<Destroy(s)>>)
      BY <2>2, <2>3
    <3> QED
      BY <1>2, <2>2, <3>1, <3>2, OnceConcat, FollowedConcat
  <2>5. /\ Bind(s)' = Bind(s) /\ Destroy(s)' = Destroy(s) /\ Global(s)' = Global(s) /\ GlobalRemove(s)' = GlobalRemove(s)
    BY DEF Bind, Destroy, Global, GlobalRemove, SeatEv, SeatReq
  <2> HIDE DEF Global, GlobalRemove, Finished, Bind, Destroy
  <2> QED
    BY <1>1, <1>2, <1>3, <1>4, <2>1, <2>2, <2>3, <2>4, <2>5 DEF SeatAgreed
<1>8. CASE ~(AddSeat /\ event.seat = s) /\ ~(RemoveSeat /\ event.seat = s /\ s \in seats)
  <2>1. /\ s \in seats' <=> s \in seats
        /\ \/ reqs' = reqs
           \/ \E x \in Seats \ {s} : reqs' = Append(reqs, Bind(x)) \/ reqs' = Append(reqs, Destroy(x))
    <3>1. AddSeat \/ RemoveSeat => event.seat \in Seats
      BY <1>2, EventFields DEF AddSeat, RemoveSeat, Receiving, event
    <3> QED
      BY <1>8, <3>1 DEF Dispatch, AddSeat, RemoveSeat, NewOffer, NewSelection, OwnPipe, SourceCancelled,
                        RoundtripDone, Bind, Destroy
  <2>2. /\ Bind(s) \in Within(reqs') <=> Bind(s) \in Within(reqs)
        /\ Destroy(s) \in Within(reqs') <=> Destroy(s) \in Within(reqs)
        /\ Once(reqs', {Bind(s)})
        /\ Followed(reqs, Bind(s), Destroy(s)) => Followed(reqs', Bind(s), Destroy(s))
    <3>1. ASSUME NEW x \in Seats \ {s}, NEW r \in {Bind(x), Destroy(x)}, reqs' = Append(reqs, r)
          PROVE  /\ Bind(s) \in Within(reqs') <=> Bind(s) \in Within(reqs)
                 /\ Destroy(s) \in Within(reqs') <=> Destroy(s) \in Within(reqs)
                 /\ Once(reqs', {Bind(s)})
                 /\ Followed(reqs, Bind(s), Destroy(s)) => Followed(reqs', Bind(s), Destroy(s))
      <4>1. r # Bind(s) /\ r # Destroy(s) /\ r \in Request
        BY <3>1, SeatShapes
      <4>2. /\ reqs' = reqs \o <<r>> /\ <<r>> \in Seq(Request) /\ Within(reqs') = Within(reqs) \cup {r}
            /\ Within(<<r>>) = {r}
        BY <1>5, <3>1, <4>1
      <4>3. Once(<<r>>, {Bind(s)}) /\ Once(reqs, {Bind(s)}) /\ Within(<<r>>) \cap {Bind(s)} = {}
        BY <1>1, <4>1, <4>2, OnceFew DEF SeatAgreed
      <4>4. Bind(s) \notin Within(<<r>>)
        BY <4>1, <4>2
      <4> QED
        BY <1>2, <4>1, <4>2, <4>3, <4>4, OnceConcat, FollowedConcat
    <3> QED
      BY <1>1, <2>1, <3>1 DEF SeatAgreed
  <2>3. Leaving(s) /\ s \in seats => Leaving(s)'
    <3> SUFFICES ASSUME s \in seats, event = GlobalRemove(s) \/ event = Finished(s)
                 PROVE  FALSE
      BY <1>2 DEF Leaving, GlobalRemove, Finished
    <3>1. event.t \in {"GlobalRemove", "Finished"} /\ event.seat = s
      BY SeatShapes
    <3>2. RemoveSeat
      BY <3>1 DEF Dispatch, AddSeat, NewOffer, NewSelection, OwnPipe, SourceCancelled, RoundtripDone,
                  Receiving, event
    <3> QED
      BY <1>8, <3>1, <3>2
  <2>4. /\ Bind(s)' = Bind(s) /\ Destroy(s)' = Destroy(s) /\ Global(s)' = Global(s) /\ GlobalRemove(s)' = GlobalRemove(s)
    BY DEF Bind, Destroy, Global, GlobalRemove, SeatEv, SeatReq
  <2> HIDE DEF Global, GlobalRemove, Finished, Bind, Destroy
  <2> QED
    BY <1>1, <1>2, <1>3, <1>4, <2>1, <2>2, <2>3, <2>4 DEF SeatAgreed
<1> QED
  BY <1>6, <1>7, <1>8

LEMMA SteadySeats ==
    ASSUME TypeOK, SeatInv, UNCHANGED <<seats, bound, status, wire>>, NEW T, Requests(T),
           "Bind" \notin T, "Destroy" \notin T, \A s \in Seats : Untouched(s) => Untouched(s)'
    PROVE  SeatInv'
<1> SUFFICES ASSUME NEW s \in Seats
             PROVE  SeatAgreed(s)'
  BY DEF SeatInv
<1>1. reqs \in Seq(Request) /\ SeatAgreed(s) /\ (Untouched(s) => Untouched(s)')
  BY DEF TypeOK, SeatInv
<1>2. /\ Bind(s) \in Within(reqs') <=> Bind(s) \in Within(reqs)
      /\ Destroy(s) \in Within(reqs') <=> Destroy(s) \in Within(reqs)
      /\ Once(reqs', {Bind(s)})
      /\ Followed(reqs, Bind(s), Destroy(s)) => Followed(reqs', Bind(s), Destroy(s))
  <2>1. Bind(s).t \notin T /\ Destroy(s).t \notin T
    BY SeatShapes
  <2>2. Once(reqs, {Bind(s)}) /\ \A x \in {Bind(s)} : x.t \notin T
    BY <1>1, <2>1 DEF SeatAgreed
  <2> QED
    BY <1>1, <2>1, <2>2, RequestsFacts
<1>3. /\ Bind(s)' = Bind(s) /\ Destroy(s)' = Destroy(s) /\ Global(s)' = Global(s) /\ GlobalRemove(s)' = GlobalRemove(s)
      /\ Leaving(s)' = Leaving(s) /\ Fresh(s)' = Fresh(s)
  BY DEF Bind, Destroy, Global, GlobalRemove, Finished, SeatEv, SeatReq, Leaving, Fresh
<1> HIDE DEF Global, GlobalRemove, Finished, Bind, Destroy
<1> QED
  BY <1>1, <1>2, <1>3 DEF SeatAgreed

LEMMA InwardSeatInv == TypeOK /\ RoundtripKeepsReadMimes /\ SeatInv /\ Inward => SeatInv'
<1> SUFFICES ASSUME TypeOK, RoundtripKeepsReadMimes, SeatInv, Inward
             PROVE  SeatInv'
  OBVIOUS
<1>1. /\ UNCHANGED <<wire, seats, sources, latest, taken, sel, bound, status>>
      /\ Requests({"Roundtrip"})
  BY InwardFacts DEF server
<1>2. \A o \in Source : SetReq(o) \in Within(reqs') => SetReq(o) \in Within(reqs)
  BY <1>1, RequestsFacts, RequestShapes DEF TypeOK
<1>3. \A s \in Seats : Untouched(s) => Untouched(s)'
  BY <1>1, <1>2 DEF Untouched
<1> QED
  BY <1>1, <1>3, SteadySeats

LEMMA TakesOverSeatInv ==
    ASSUME TypeOK, TellInv, SeatInv, NEW k \in Key, TakesOver(k)
    PROVE  SeatInv'
<1>1. /\ state[k].tag \in Holding /\ state[k].offer \in Source
      /\ Taken(k) \in Source /\ Taken(k).key = k
      /\ sources' = [sources EXCEPT ![k] = @ \cup {Taken(k)}]
      /\ reqs' = Append(reqs, SetReq(Taken(k))) /\ SetReq(Taken(k)) \in Request
      /\ Within(reqs') = Within(reqs) \cup {SetReq(Taken(k))}
      /\ \A j \in Key : j # k => taken'[j] = taken[j]
      /\ UNCHANGED <<seats, wire, latest, sel, bound, status>>
      /\ reqs \in Seq(Request)
  BY TakesOverFacts DEF server, TypeOK, Holding, Taken, Own
<1>2. latest[k] # None
  BY <1>1, NoneAssumption DEF TellInv, StateLatest
<1>3. Requests({"SetSelection"})
  BY <1>1, RequestsSome, RequestShapes
<1>4. ASSUME NEW s \in Seats, Untouched(s)
      PROVE  Untouched(s)'
  <2>1. k[1] # s
    BY <1>2, <1>4 DEF Untouched
  <2>2. \A o \in Source : o.key[1] = s => SetReq(o) # SetReq(Taken(k))
    BY <1>1, <2>1, RequestShapes
  <2>3. \A j \in Key : j[1] = s => j # k /\ sources'[j] = sources[j] /\ taken'[j] = taken[j]
    BY <1>1, <2>1 DEF TypeOK
  <2>4. ASSUME NEW j \in Key, j[1] = s, NEW o \in Source, o.key = j
        PROVE  SetReq(o) \notin Within(reqs')
    BY <1>1, <1>4, <2>2, <2>4 DEF Untouched
  <2> QED
    BY <1>1, <1>4, <2>3, <2>4 DEF Untouched
<1> QED
  BY <1>1, <1>3, <1>4, SteadySeats

LEMMA QuietSeats ==
    ASSUME wire = <<>>, reqs = <<>>, seats = {}, NEW s \in Seats, ~bound[s],
           \A k \in Key : latest[k] = None /\ taken[k] = <<>> /\ sources[k] = {} /\ (sel[k] # None => ~sel[k].own)
    PROVE  SeatAgreed(s)
<1>1. Within(wire) = {} /\ Within(reqs) = {} /\ \A T : Once(reqs, T)
  BY EmptyQueue
<1>2. \A a, b : Followed(wire, a, b) /\ Followed(reqs, a, b)
  BY <1>1, FollowedNone
<1>3. Untouched(s)
  BY <1>1 DEF Untouched
<1> QED
  BY <1>1, <1>2, <1>3 DEF SeatAgreed

LEMMA ReconnectSeatInv == Reconnect => SeatInv'
<1> SUFFICES ASSUME Reconnect, NEW s \in Seats
             PROVE  SeatAgreed(s)'
  BY DEF SeatInv
<1>1. /\ wire' = <<>> /\ reqs' = <<>> /\ seats' = {} /\ ~bound'[s]
      /\ \A k \in Key : /\ latest'[k] = None /\ taken'[k] = <<>> /\ sources'[k] = {}
                        /\ sel'[k] # None => ~sel'[k].own
  BY DEF Reconnect, NewState, DropClient, RestartCompositor
<1>2. Within(wire') = {} /\ Within(reqs') = {} /\ \A T : Once(reqs', T)
  BY <1>1, EmptyQueue
<1>3. \A a, b : Followed(wire', a, b) /\ Followed(reqs', a, b)
  BY <1>2, FollowedNone
<1>4. Untouched(s)'
  BY <1>1, <1>2 DEF Untouched
<1> QED
  BY <1>1, <1>2, <1>3, <1>4 DEF SeatAgreed, Leaving

LEMMA InitSeatInv == Init => SeatInv
<1> SUFFICES ASSUME Init, NEW s \in Seats
             PROVE  SeatAgreed(s)
  BY DEF SeatInv
<1> QED
  BY QuietSeats DEF Init

LEMMA NextSeatInv ==
    ASSUME TypeOK, SelOfKey, RoundtripKeepsReadMimes, NamesFresh, TellInv, SeatInv, [Next]_vars
    PROVE  SeatInv'
<1>1. CASE UNCHANGED vars
  <2>1. UNCHANGED <<seats, bound, status, wire, reqs, latest, taken, sources, sel>>
    BY <1>1 DEF vars, client, server
  <2>2. Requests({})
    BY <2>1, RequestsSome DEF TypeOK
  <2>3. \A s \in Seats : Untouched(s) => Untouched(s)'
    BY <2>1 DEF Untouched
  <2> QED
    BY <2>1, <2>2, <2>3, SteadySeats
<1> QED
  BY <1>1, StepCases, DispatchSeatInv, InwardSeatInv, TakesOverSeatInv, OutsideSeatInv, ReconnectSeatInv

-----------------------------------------------------------------------------
(* One roundtrip at a time: while it is not answered its request or its    *)
(* answer is on the way, and none is otherwise.                            *)

Roundtrips == {r \in Request : r.t = "Roundtrip"}

RoundtripInv ==
    /\ Within(reqs) \cap Roundtrips # {} => pc = "roundtrip" /\ ~replied /\ DoneEv \notin Within(wire)
    /\ Once(reqs, Roundtrips)
    /\ DoneEv \in Within(wire) => pc = "roundtrip" /\ ~replied
    /\ Once(wire, {DoneEv})

LEMMA ServedRoundtrips ==
    ASSUME reqs \in Seq(Request), reqs' \in Seq(Request), UNCHANGED reqs \/ Served, Once(reqs, Roundtrips)
    PROVE  /\ Once(reqs', Roundtrips)
           /\ Within(reqs') \cap Roundtrips # {} => Within(reqs) \cap Roundtrips # {}
           /\ Answers => Within(reqs') \cap Roundtrips = {} /\ Within(reqs) \cap Roundtrips # {}
<1>1. CASE UNCHANGED reqs
  <2>1. ~Answers
    <3>1. reqs # <<>> => Tail(reqs) # reqs
      BY QueueTail
    <3> QED
      BY <1>1, <3>1 DEF Answers
  <2> QED
    BY <1>1, <2>1
<1>2. CASE reqs # <<>> /\ reqs' = Tail(reqs)
  <2>1. Within(reqs) = {Head(reqs)} \cup Within(reqs') /\ Head(reqs) \in Request
    BY <1>2, WithinTail, QueueTail
  <2>2. Once(reqs', Roundtrips) /\ (Head(reqs) \in Roundtrips => Within(reqs') \cap Roundtrips = {})
    BY <1>2, OnceTail
  <2>3. Answers => Head(reqs) \in Roundtrips
    BY <2>1 DEF Answers, Roundtrips
  <2> QED
    BY <2>1, <2>2, <2>3
<1>3. ASSUME reqs # <<>>, Head(reqs).t = "Roundtrip",
             NEW os \in SUBSET Head(reqs).offers, reqs' = <<RoundtripReq(os)>> \o Tail(reqs)
      PROVE  Once(reqs', Roundtrips) /\ Within(reqs) \cap Roundtrips # {} /\ ~Answers
  <2>1. /\ Head(reqs) \in Roundtrips /\ Head(reqs) \in Within(reqs) /\ Tail(reqs) \in Seq(Request)
        /\ Once(Tail(reqs), Roundtrips) /\ Within(Tail(reqs)) \cap Roundtrips = {}
    BY <1>3, QueueTail, WithinTail, OnceTail DEF Roundtrips
  <2>2. Once(<<RoundtripReq(os)>>, Roundtrips) /\ <<RoundtripReq(os)>> \in Seq(Request)
    <3>1. os \in SUBSET Source
      BY <1>3, QueueTail, RequestFields
    <3>2. RoundtripReq(os) \in Request
      BY <3>1, RequestTypes
    <3> QED
      BY <3>2, OnceFew
  <2> DEFINE p == <<RoundtripReq(os)>>
             q == Tail(reqs)
  <2>3. reqs' = p \o q /\ Len(p) = 1
    BY <1>3
  <2>4. p \in Seq(Request) /\ q \in Seq(Request) /\ Once(p, Roundtrips) /\ Once(q, Roundtrips)
        /\ Within(q) \cap Roundtrips = {}
    BY <2>1, <2>2
  <2>5. ~Answers
    <3>1. reqs' # q
      <4> HIDE DEF p, q
      <4>1. Len(p \o q) = Len(p) + Len(q) /\ Len(q) \in Nat
        BY <2>4, QueueConcat
      <4> QED
        BY <2>3, <4>1
    <3> QED
      BY <3>1 DEF Answers
  <2> HIDE DEF p, q
  <2>6. Once(p \o q, Roundtrips)
    BY <2>4, OnceConcat
  <2> QED
    BY <2>1, <2>3, <2>5, <2>6
<1> QED
  BY <1>1, <1>2, <1>3 DEF Served

LEMMA OutsideRoundtrip == TypeOK /\ TypeOK' /\ SelOfKey /\ RoundtripInv /\ Outside => RoundtripInv'
<1> SUFFICES ASSUME TypeOK, TypeOK', SelOfKey, RoundtripInv, Outside
             PROVE  RoundtripInv'
  OBVIOUS
<1>1. Effects /\ UNCHANGED <<pc, replied>> /\ reqs \in Seq(Request) /\ reqs' \in Seq(Request) /\ wire \in Seq(Event)
  BY OutsideEffects DEF Effects, client, TypeOK
<1>2. PICK news : Talks(news)
  BY <1>1 DEF Effects
<1>3. /\ Once(reqs', Roundtrips)
      /\ Within(reqs') \cap Roundtrips # {} => Within(reqs) \cap Roundtrips # {}
      /\ Answers => Within(reqs') \cap Roundtrips = {} /\ Within(reqs) \cap Roundtrips # {}
  BY <1>1, ServedRoundtrips DEF Effects, RoundtripInv
<1>4. /\ wire' = wire \o news /\ news \in Seq(Event) /\ Once(news, {DoneEv})
      /\ DoneEv \in Within(news) => Answers
  BY <1>2, EventShapes DEF Talks
<1>5. Within(wire') = Within(wire) \cup Within(news)
  BY <1>2, WireStarts
<1>6. Once(wire', {DoneEv})
  <2>1. Within(wire) \cap {DoneEv} = {} \/ Within(news) \cap {DoneEv} = {}
    BY <1>3, <1>4 DEF RoundtripInv
  <2> QED
    BY <1>1, <1>4, <2>1, OnceConcat DEF RoundtripInv
<1>7. DoneEv' = DoneEv /\ Roundtrips' = Roundtrips
  BY DEF DoneEv, Roundtrips, Request
<1> QED
  BY <1>1, <1>3, <1>4, <1>5, <1>6, <1>7 DEF RoundtripInv

LEMMA ClientRoundtrip ==
    ASSUME TypeOK, RoundtripKeepsReadMimes, RoundtripInv, Dispatch \/ Inward \/ \E k \in Key : TakesOver(k)
    PROVE  RoundtripInv'
<1>1. reqs \in Seq(Request) /\ wire \in Seq(Event) /\ DoneEv \in Event
  BY EventTypes DEF TypeOK
<1>2. ASSUME NEW T, Requests(T), "Roundtrip" \notin T
      PROVE  Once(reqs', Roundtrips) /\ Within(reqs') \cap Roundtrips \subseteq Within(reqs)
  BY <1>1, <1>2, RequestsFacts DEF RoundtripInv, Roundtrips
<1>3. CASE Dispatch
  <2>1. Once(reqs', Roundtrips) /\ Within(reqs') \cap Roundtrips \subseteq Within(reqs)
    BY <1>2, <1>3, DispatchRequests
  <2>2. /\ wire # <<>> /\ wire' = Tail(wire) /\ event = Head(wire) /\ event \in Event /\ event \in Within(wire)
        /\ Within(wire') \subseteq Within(wire) /\ (pc = "roundtrip" => pc' = pc)
    BY <1>3, DispatchFacts
  <2>3. Once(wire', {DoneEv}) /\ (event = DoneEv => DoneEv \notin Within(wire'))
    BY <1>1, <2>2, OnceTail DEF RoundtripInv
  <2>4. replied' = replied \/ event = DoneEv
    BY <1>3, <2>2, EventForms
       DEF Dispatch, AddSeat, RemoveSeat, NewOffer, NewSelection, OwnPipe, SourceCancelled, RoundtripDone,
           Receiving, event
  <2> QED
    BY <2>1, <2>2, <2>3, <2>4 DEF RoundtripInv, Roundtrips, Request, DoneEv
<1>4. CASE Handle
  <2>1. /\ pc = "handle" /\ replied' = FALSE /\ wire' = wire
        /\ (pc' = "store" /\ reqs' = reqs) \/ (pc' = "roundtrip" /\ \E os : reqs' = Append(reqs, RoundtripReq(os)))
    BY <1>4 DEF Handle
  <2>2. Within(reqs) \cap Roundtrips = {} /\ DoneEv \notin Within(wire)
    BY <2>1 DEF RoundtripInv
  <2>3. Once(reqs', Roundtrips)
    <3> SUFFICES ASSUME NEW os, reqs' = Append(reqs, RoundtripReq(os))
                 PROVE  Once(reqs', Roundtrips)
      BY <2>1 DEF RoundtripInv
    <3> SUFFICES ASSUME NEW i \in 1 .. Len(reqs'), NEW j \in 1 .. Len(reqs'),
                        reqs'[i] \in Roundtrips, reqs'[j] \in Roundtrips
                 PROVE  i = j
      BY DEF Once
    <3>1. \A n \in 1 .. Len(reqs) : reqs[n] \notin Roundtrips
      BY <2>2 DEF Within
    <3>2. Len(reqs') = Len(reqs) + 1 /\ Len(reqs) \in Nat /\ \A n \in 1 .. Len(reqs) : reqs'[n] = reqs[n]
      BY <1>1, AppendProperties, LenProperties
    <3>3. i = Len(reqs) + 1 /\ j = Len(reqs) + 1
      BY <3>1, <3>2
    <3> QED
      BY <3>3
  <2> QED
    BY <2>1, <2>2, <2>3 DEF RoundtripInv, Roundtrips, Request, DoneEv
<1>5. CASE Inward /\ ~Handle
  <2>1. UNCHANGED <<wire, reqs>>
    BY <1>5, InwardFacts
  <2>2. (pc # "roundtrip" \/ replied) \/ UNCHANGED <<pc, replied>>
    BY <1>5, PipesEndFacts DEF Inward, EndDispatch, Flush, Resolve
  <2> QED
    BY <2>1, <2>2 DEF RoundtripInv, Roundtrips, Request, DoneEv
<1>6. ASSUME NEW k \in Key, TakesOver(k)
      PROVE  RoundtripInv'
  <2>1. /\ UNCHANGED <<pc, replied, wire>> /\ reqs' = Append(reqs, SetReq(Taken(k))) /\ SetReq(Taken(k)) \in Request
    BY <1>6, TakesOverFacts
  <2>2. Requests({"SetSelection"})
    BY <1>1, <2>1, RequestsSome, RequestShapes
  <2> QED
    BY <1>2, <2>1, <2>2 DEF RoundtripInv, Roundtrips, Request, DoneEv
<1> QED
  BY <1>3, <1>4, <1>5, <1>6

LEMMA NextRoundtrip ==
    ASSUME TypeOK, TypeOK', SelOfKey, RoundtripKeepsReadMimes, RoundtripInv, [Next]_vars
    PROVE  RoundtripInv'
<1>1. CASE UNCHANGED vars
  BY <1>1 DEF vars, client, RoundtripInv, Roundtrips, Request, DoneEv
<1>2. CASE Reconnect
  <2>1. wire' = <<>> /\ reqs' = <<>>
    BY <1>2 DEF Reconnect
  <2> QED
    BY <2>1, EmptyQueue DEF RoundtripInv
<1> QED
  BY <1>1, <1>2, StepCases, ClientRoundtrip, OutsideRoundtrip

LEMMA InitRoundtrip == Init => RoundtripInv
BY EmptyQueue DEF Init, RoundtripInv

-----------------------------------------------------------------------------
(* Offers and the events that tell what they are: a Selection event comes  *)
(* right behind the DataOffer event of its offer, so that when it is       *)
(* dispatched, the offer is pending.                                       *)

Introduces(q) ==
    \A i \in 1 .. Len(q) : q[i].t = "Selection" /\ q[i].offer # None => i > 1 /\ q[i - 1] = DataOfferEv(q[i].offer)

Introduced ==
    \A i \in 1 .. Len(wire) : wire[i].t = "Selection" /\ wire[i].offer # None =>
        \/ i > 1 /\ wire[i - 1] = DataOfferEv(wire[i].offer)
        \/ i = 1 /\ (wire[i].key[1] \in seats => wire[i].offer \in offers[wire[i].key[1]])

LEMMA IntroducesConcat ==
    ASSUME NEW p \in Seq(Event), NEW q \in Seq(Event), Introduces(p), Introduces(q)
    PROVE  p \o q \in Seq(Event) /\ Introduces(p \o q)
<1> DEFINE r == p \o q
<1>1. r \in Seq(Event)
  BY QueueConcat
<1>2. ASSUME NEW i \in 1 .. Len(r), r[i].t = "Selection", r[i].offer # None
      PROVE  i > 1 /\ r[i - 1] = DataOfferEv(r[i].offer)
  <2>1. CASE i \in 1 .. Len(p)
    <3>1. r[i] = p[i]
      BY <2>1, QueueConcat
    <3>2. i > 1 /\ p[i - 1] = DataOfferEv(p[i].offer)
      BY <1>2, <2>1, <3>1 DEF Introduces
    <3>3. i - 1 \in 1 .. Len(p)
      BY <2>1, <3>2, QueueConcat
    <3>4. r[i - 1] = p[i - 1]
      BY <3>3, QueueConcat
    <3> QED
      BY <3>1, <3>2, <3>4
  <2>2. CASE i \notin 1 .. Len(p)
    <3> DEFINE j == i - Len(p)
    <3>1. j \in 1 .. Len(q) /\ r[i] = q[j] /\ Len(p) \in Nat
      BY <1>2, <2>2, QueueConcat
    <3>2. j > 1 /\ q[j - 1] = DataOfferEv(q[j].offer)
      BY <1>2, <3>1 DEF Introduces
    <3>3. j - 1 \in 1 .. Len(q) /\ Len(p) + (j - 1) = i - 1 /\ i > 1
      BY <3>1, <3>2, QueueConcat
    <3>4. r[Len(p) + (j - 1)] = q[j - 1]
      BY <3>3, QueueConcat
    <3> QED
      BY <3>1, <3>2, <3>3, <3>4
  <2> QED
    BY <2>1, <2>2
<1> QED
  BY <1>1, <1>2 DEF Introduces

LEMMA OthersIntroduce ==
    ASSUME NEW q, \A e \in Within(q) : e.t # "Selection"
    PROVE  Introduces(q)
BY DEF Introduces, Within

LEMMA AdvertiseIntroduces ==
    ASSUME NEW k \in Key, NEW src \in Source \cup {None}
    PROVE  Advertise(k, src) \in Seq(Event) /\ Introduces(Advertise(k, src))
<1> DEFINE d == DataOfferEv(src)
           e == SelectionEv(k, src)
<1>1. Advertise(k, src) \in Seq(Event)
  BY AdvertiseType
<1>2. d.t # "Selection" /\ e.offer = src
  BY EventShapes
<1>3. CASE src = None
  <2>1. Advertise(k, src) = <<e>>
    BY <1>3 DEF Advertise
  <2> HIDE DEF e
  <2>2. Len(<<e>>) = 1 /\ <<e>>[1] = e
    OBVIOUS
  <2> QED
    BY <1>1, <1>2, <1>3, <2>1, <2>2 DEF Introduces
<1>4. CASE src # None
  <2>1. Advertise(k, src) = <<d, e>>
    BY <1>4 DEF Advertise
  <2>2. d = DataOfferEv(e.offer)
    BY <1>2
  <2> HIDE DEF d, e
  <2>3. Len(<<d, e>>) = 2 /\ <<d, e>>[1] = d /\ <<d, e>>[2] = e
    OBVIOUS
  <2>4. \A i \in 1 .. 2 : i = 1 \/ (i = 2 /\ i > 1 /\ i - 1 = 1)
    OBVIOUS
  <2> QED
    BY <1>1, <1>2, <2>1, <2>2, <2>3, <2>4 DEF Introduces
<1> QED
  BY <1>3, <1>4

LEMMA ChangeIntroduces ==
    ASSUME TypeOK, NEW k \in Key, NEW src \in Source \cup {None}, ChangeSelection(k, src)
    PROVE  \E news \in Seq(Event) : Introduces(news) /\ wire' = wire \o news
<1> DEFINE told == IF bound[k[1]] THEN Advertise(k, src) ELSE <<>>
           r == Replaced(k)
<1>1. wire \in Seq(Event) /\ sel \in [Key -> Source \cup {None}]
  BY DEF TypeOK
<1>2. told \in Seq(Event) /\ Introduces(told)
  <2>1. <<>> \in Seq(Event) /\ Introduces(<<>>)
    BY EmptyQueue, OthersIntroduce
  <2> QED
    BY <2>1, AdvertiseIntroduces
<1>3. r \in Seq(Event) /\ Introduces(r)
  <2>1. r \in Seq(Event) /\ \A e \in Within(r) : e = CancelledEv(sel[k])
    BY <1>1, ReplacedShape
  <2> QED
    BY <2>1, OthersIntroduce, EventShapes
<1>4. wire' = (wire \o r) \o told \/ wire' = (wire \o told) \o r
  BY DEF ChangeSelection
<1> HIDE DEF told, r
<1>5. (wire \o r) \o told = wire \o (r \o told) /\ (wire \o told) \o r = wire \o (told \o r)
  <2>1. (wire \o r) \o told = wire \o (r \o told)
    BY <1>1, <1>2, <1>3, WireAssociates
  <2>2. (wire \o told) \o r = wire \o (told \o r)
    BY <1>1, <1>2, <1>3, WireAssociates
  <2> QED
    BY <2>1, <2>2
<1>6. /\ r \o told \in Seq(Event) /\ Introduces(r \o told)
      /\ told \o r \in Seq(Event) /\ Introduces(told \o r)
  BY <1>2, <1>3, IntroducesConcat
<1> QED
  BY <1>4, <1>5, <1>6

LEMMA OutsideIntroduces ==
    ASSUME TypeOK, Outside
    PROVE  \E news \in Seq(Event) : Introduces(news) /\ wire' = wire \o news
<1> DEFINE SaysInOrder == \E news \in Seq(Event) : Introduces(news) /\ wire' = wire \o news
<1> SUFFICES SaysInOrder
  OBVIOUS
<1>1. /\ wire \in Seq(Event) /\ reqs \in Seq(Request) /\ sel \in [Key -> Source \cup {None}]
  BY DEF TypeOK
<1>2. ASSUME wire' = wire
      PROVE  SaysInOrder
  <2>1. <<>> \in Seq(Event) /\ Introduces(<<>>) /\ wire' = wire \o <<>>
    BY <1>1, <1>2, EmptyQueue, OthersIntroduce, ConcatEmptySeq
  <2> QED
    BY <2>1
<1>3. ASSUME NEW e \in Event, e.t # "Selection", wire' = Append(wire, e)
      PROVE  SaysInOrder
  <2>1. <<e>> \in Seq(Event) /\ Introduces(<<e>>)
    BY <1>3, WithinOne, OthersIntroduce
  <2>2. wire' = wire \o <<e>>
    BY <1>1, <1>3
  <2> QED
    BY <2>1, <2>2
<1>4. CASE ServeBind
  <2> DEFINE s == Head(reqs).seat
             p == Advertise(<<s, "Regular">>, sel[<<s, "Regular">>])
             q == Advertise(<<s, "Primary">>, sel[<<s, "Primary">>])
  <2>1. <<s, "Regular">> \in Key /\ <<s, "Primary">> \in Key
    BY <1>1, <1>4, QueueTail, RequestFields, KeyTypes DEF ServeBind, Requested, SelectionType
  <2>2. p \in Seq(Event) /\ Introduces(p) /\ q \in Seq(Event) /\ Introduces(q)
    BY <1>1, <2>1, AdvertiseIntroduces
  <2>3. wire' = (wire \o p) \o q \/ wire' = wire
    BY <1>4 DEF ServeBind
  <2> HIDE DEF p, q
  <2>4. (wire \o p) \o q = wire \o (p \o q) /\ p \o q \in Seq(Event) /\ Introduces(p \o q)
    BY <1>1, <2>2, WireAssociates, IntroducesConcat
  <2> QED
    BY <1>2, <2>3, <2>4
<1>5. CASE ServeDestroy
  BY <1>2, <1>5 DEF ServeDestroy
<1>6. CASE ServeSync
  BY <1>3, <1>6, EventTypes, EventShapes DEF ServeSync
<1>7. ASSUME NEW o \in Source, ServeReceive(o)
      PROVE  SaysInOrder
  BY <1>2, <1>3, <1>7, EventTypes, EventShapes DEF ServeReceive
<1>8. CASE ServeSet
  <2> DEFINE o == Head(reqs).source
  <2>1. o \in Source /\ o.key \in Key
    BY <1>1, <1>8, QueueTail, RequestFields, SourceFields DEF ServeSet, Requested
  <2>2. ChangeSelection(o.key, o) \/ wire' = wire
    BY <1>8 DEF ServeSet
  <2> HIDE DEF o
  <2> QED
    BY <1>2, <2>1, <2>2, ChangeIntroduces
<1>9. ASSUME NEW s \in Seats, List(s) \/ WithdrawSeat(s) \/ FinishDevice(s)
      PROVE  SaysInOrder
  <2>1. PICK t \in {"Global", "GlobalRemove", "Finished"} : wire' = Append(wire, SeatEv(t, s))
    BY <1>9 DEF List, WithdrawSeat, FinishDevice
  <2>2. SeatEv(t, s) \in Event /\ SeatEv(t, s).t # "Selection"
    BY EventTypes, EventShapes
  <2> QED
    BY <1>3, <2>1, <2>2
<1>10. ASSUME NEW k \in Key, AppCopy(k) \/ AppClear(k)
       PROVE  SaysInOrder
  <2>1. AppCopy(k) => Foreign(k, copies + 1) \in Source
    BY MaxCopiesAssumption DEF AppCopy, TypeOK, Foreign, Source, Copy
  <2> QED
    BY <1>10, <2>1, ChangeIntroduces DEF AppCopy, AppClear
<1> HIDE DEF SaysInOrder
<1>11. CASE Serve
  BY <1>4, <1>5, <1>6, <1>7, <1>8, <1>11 DEF Serve
<1>12. CASE Environment
  BY <1>9, <1>10, <1>12 DEF Environment, AnnounceSeat
<1>13. CASE \E s \in Seats : ListSeat(s)
  BY <1>9, <1>13 DEF ListSeat
<1> QED
  BY <1>11, <1>12, <1>13 DEF Outside, ServerStep

LEMMA OutsideIntroduced == TypeOK /\ SelOfKey /\ Introduced /\ Outside => Introduced'
<1> SUFFICES ASSUME TypeOK, SelOfKey, Introduced, Outside
             PROVE  Introduced'
  OBVIOUS
<1>1. UNCHANGED <<seats, offers>> /\ wire \in Seq(Event)
  BY OutsideEffects DEF Effects, client, TypeOK
<1>2. PICK news \in Seq(Event) : Introduces(news) /\ wire' = wire \o news
  BY OutsideIntroduces
<1>3. Introduces(news)
  BY <1>2
<1> SUFFICES ASSUME NEW i \in 1 .. Len(wire'), wire'[i].t = "Selection", wire'[i].offer # None
             PROVE  \/ i > 1 /\ wire'[i - 1] = DataOfferEv(wire'[i].offer)
                    \/ i = 1 /\ (wire'[i].key[1] \in seats => wire'[i].offer \in offers[wire'[i].key[1]])
  BY <1>1 DEF Introduced, DataOfferEv
<1>4. CASE i \in 1 .. Len(wire)
  <2>1. wire'[i] = wire[i]
    BY <1>1, <1>2, <1>4, QueueConcat
  <2>2. \/ i > 1 /\ wire[i - 1] = DataOfferEv(wire[i].offer)
        \/ i = 1 /\ (wire[i].key[1] \in seats => wire[i].offer \in offers[wire[i].key[1]])
    BY <1>4, <2>1 DEF Introduced
  <2>3. i > 1 => i - 1 \in 1 .. Len(wire)
    BY <1>1, <1>4, QueueConcat
  <2>4. i > 1 => wire'[i - 1] = wire[i - 1]
    BY <1>1, <1>2, <2>3, QueueConcat
  <2> QED
    BY <2>1, <2>2, <2>4
<1>5. CASE i \notin 1 .. Len(wire)
  <2> DEFINE j == i - Len(wire)
  <2>1. j \in 1 .. Len(news) /\ wire'[i] = news[j] /\ Len(wire) \in Nat
    BY <1>1, <1>2, <1>5, QueueConcat
  <2>2. j > 1 /\ news[j - 1] = DataOfferEv(news[j].offer)
    BY <1>3, <2>1 DEF Introduces
  <2>3. j - 1 \in 1 .. Len(news) /\ Len(wire) + (j - 1) = i - 1 /\ i > 1
    BY <1>1, <1>2, <2>1, <2>2, QueueConcat
  <2>4. wire'[Len(wire) + (j - 1)] = news[j - 1]
    BY <1>1, <1>2, <2>3, QueueConcat
  <2> QED
    BY <2>1, <2>2, <2>3, <2>4
<1> QED
  BY <1>4, <1>5

LEMMA DispatchIntroduced == TypeOK /\ TellInv /\ Introduced /\ Dispatch => Introduced'
<1> SUFFICES ASSUME TypeOK, TellInv, Introduced, Dispatch
             PROVE  Introduced'
  OBVIOUS
<1>1. /\ wire # <<>> /\ wire \in Seq(Event) /\ wire' = Tail(wire) /\ event = Head(wire)
      /\ Within(wire') \subseteq Within(wire)
  BY DispatchFacts
<1>2. offers \in [Seats -> SUBSET Source] /\ seats \subseteq Seats
  BY DEF TypeOK
<1> SUFFICES ASSUME NEW i \in 1 .. Len(wire'), wire'[i].t = "Selection", wire'[i].offer # None
             PROVE  \/ i > 1 /\ wire'[i - 1] = DataOfferEv(wire'[i].offer)
                    \/ i = 1 /\ (wire'[i].key[1] \in seats' => wire'[i].offer \in offers'[wire'[i].key[1]])
  BY DEF Introduced, DataOfferEv
<1> DEFINE o == wire'[i].offer
<1>3. i + 1 \in 1 .. Len(wire) /\ wire'[i] = wire[i + 1] /\ i \in Nat /\ i >= 1
  BY <1>1, QueueTail
<1>4. wire[i] = DataOfferEv(o)
  <2>1. i + 1 > 1 /\ i + 1 # 1 /\ (i + 1) - 1 = i
    BY <1>3
  <2> QED
    BY <1>3, <2>1 DEF Introduced
<1>5. CASE i # 1
  <2>1. i - 1 \in 1 .. Len(wire') /\ i > 1
    BY <1>1, <1>3, <1>5, QueueTail
  <2>2. wire'[i - 1] = wire[(i - 1) + 1] /\ (i - 1) + 1 = i
    BY <1>1, <1>3, <2>1, QueueTail
  <2> QED
    BY <1>4, <2>1, <2>2
<1>6. CASE i = 1
  <2>1. event = DataOfferEv(o)
    BY <1>1, <1>4, <1>6, QueueTail
  <2>2. event.t = "DataOffer" /\ event.offer = o
    BY <2>1, EventShapes
  <2>3. NewOffer
    BY <2>2 DEF Dispatch, AddSeat, RemoveSeat, NewOffer, NewSelection, OwnPipe, SourceCancelled, RoundtripDone,
                Receiving, event
  <2>4. o.key = wire'[i].key
    <3>1. wire'[i] \in Within(wire)
      BY <1>1 DEF Within
    <3> QED
      BY <3>1 DEF TellInv, WireKeys
  <2>5. seats' = seats /\ (o.key[1] \in seats => offers' = [offers EXCEPT ![o.key[1]] = @ \cup {o}])
    BY <2>2, <2>3 DEF NewOffer
  <2> HIDE DEF o
  <2>6. o.key[1] \in seats => o \in offers'[o.key[1]]
    BY <1>2, <2>5
  <2> QED
    BY <1>6, <2>4, <2>5, <2>6 DEF o
<1> QED
  BY <1>5, <1>6

LEMMA NextIntroduced ==
    ASSUME TypeOK, SelOfKey, RoundtripKeepsReadMimes, TellInv, Introduced, [Next]_vars
    PROVE  Introduced'
<1>1. ASSUME UNCHANGED <<wire, offers, seats>>
      PROVE  Introduced'
  BY <1>1 DEF Introduced, DataOfferEv
<1>2. CASE UNCHANGED vars
  BY <1>1, <1>2 DEF vars, client
<1>3. CASE Reconnect
  BY <1>3 DEF Reconnect, Introduced
<1>4. CASE Inward
  BY <1>1, <1>4, InwardFacts
<1>5. ASSUME NEW k \in Key, TakesOver(k)
      PROVE  Introduced'
  BY <1>1, <1>5, TakesOverFacts
<1> QED
  BY <1>2, <1>3, <1>4, <1>5, StepCases, DispatchIntroduced, OutsideIntroduced

LEMMA InitIntroduced == Init => Introduced
BY DEF Init, Introduced

-----------------------------------------------------------------------------
(* What the client will have been told of the selection of k when it has   *)
(* dispatched what is on the wire: what the selection is.                  *)

UpToDate(k) ==
    \/ LastOf(wire, Tellings(k), SelectionEv(k, sel[k]))
    \/ Within(wire) \cap Tellings(k) = {} /\ latest[k] = sel[k]

ToldInv == \A k \in Key : bound[k[1]] /\ k[1] \in seats => UpToDate(k)

LEMMA DispatchTold == TypeOK /\ SeatInv /\ Introduced /\ ToldInv /\ Dispatch => ToldInv'
<1> SUFFICES ASSUME TypeOK, SeatInv, Introduced, ToldInv, Dispatch, NEW k \in Key, bound'[k[1]], k[1] \in seats'
             PROVE  UpToDate(k)'
  BY DEF ToldInv
<1>1. /\ wire # <<>> /\ wire \in Seq(Event) /\ wire' = Tail(wire) /\ event = Head(wire) /\ event \in Event
      /\ event \in Within(wire) /\ Within(wire') \subseteq Within(wire) /\ UNCHANGED <<bound, sel>>
  BY DispatchFacts DEF server
<1>2. k[1] \in seats
  <2>1. CASE AddSeat
    <3>1. event = Global(event.seat) /\ event.seat \in Seats /\ seats' = seats \cup {event.seat}
      BY <1>1, <2>1, EventForms, EventFields DEF AddSeat, Receiving, event, Global
    <3>2. ~bound[event.seat]
      BY <1>1, <3>1 DEF SeatInv, SeatAgreed, Fresh, Untouched
    <3> QED
      BY <1>1, <3>1, <3>2
  <2> QED
    BY <2>1 DEF Dispatch, RemoveSeat, NewOffer, NewSelection, OwnPipe, SourceCancelled, RoundtripDone
<1>3. latest \in [Key -> Source \cup {None}]
  BY DEF TypeOK
<1>4. CASE event \in Tellings(k)
  <2>1. event = SelectionEv(k, event.offer) /\ event.t = "Selection" /\ event.key = k
    BY <1>1, <1>4, EventForms DEF Tellings
  <2>2. NewSelection
    BY <2>1 DEF Dispatch, AddSeat, RemoveSeat, NewOffer, NewSelection, OwnPipe, SourceCancelled, RoundtripDone,
                Receiving, event
  <2>3. latest'[k] = MaybeOffer(k, event.offer)
    BY <1>2, <1>3, <2>1, <2>2 DEF NewSelection
  <2>4. LastOf(wire, Tellings(k), SelectionEv(k, sel[k]))
    BY <1>1, <1>2, <1>4 DEF ToldInv, UpToDate
  <2>5. CASE event = SelectionEv(k, sel[k]) /\ Within(wire') \cap Tellings(k) = {}
    <3>1. event.offer = sel[k]
      BY <2>5, EventShapes
    <3>2. event.offer # None => event.offer \in offers[k[1]]
      <4>1. 1 \in 1 .. Len(wire) /\ wire[1] = event
        BY <1>1, QueueTail
      <4> QED
        BY <1>2, <2>1, <4>1 DEF Introduced
    <3>3. latest'[k] = sel'[k]
      BY <1>1, <2>3, <3>1, <3>2 DEF MaybeOffer
    <3> QED
      BY <2>5, <3>3 DEF UpToDate, Tellings
  <2>6. CASE LastOf(wire', Tellings(k), SelectionEv(k, sel[k]))
    BY <1>1, <2>6 DEF UpToDate, Tellings, SelectionEv
  <2> QED
    BY <1>1, <2>4, <2>5, <2>6, LastTail
<1>5. CASE event \notin Tellings(k)
  <2>1. latest'[k] = latest[k]
    <3>1. CASE NewSelection
      <4>1. event.key # k
        BY <1>1, <1>5, <3>1 DEF NewSelection, Receiving, event, Tellings
      <4> QED
        BY <1>3, <3>1, <4>1 DEF NewSelection
    <3> QED
      BY <3>1 DEF Dispatch, AddSeat, RemoveSeat, NewOffer, OwnPipe, SourceCancelled, RoundtripDone
  <2>2. CASE LastOf(wire, Tellings(k), SelectionEv(k, sel[k]))
    <3>1. SelectionEv(k, sel[k]) \in Within(wire)
      BY <2>2, LastIn
    <3>2. SelectionEv(k, sel[k]) \in Tellings(k)
      BY <1>1, <3>1, WithinType, EventShapes DEF Tellings
    <3>3. LastOf(wire', Tellings(k), SelectionEv(k, sel[k]))
      BY <1>1, <1>5, <2>2, <3>2, LastTail
    <3> QED
      BY <1>1, <3>3 DEF UpToDate, Tellings, SelectionEv
  <2>3. CASE Within(wire) \cap Tellings(k) = {} /\ latest[k] = sel[k]
    BY <1>1, <2>1, <2>3 DEF UpToDate, Tellings
  <2> QED
    BY <1>1, <1>2, <2>2, <2>3 DEF ToldInv, UpToDate
<1> QED
  BY <1>4, <1>5

LEMMA OutsideTold == TypeOK /\ SelOfKey /\ ToldInv /\ Outside => ToldInv'
<1> SUFFICES ASSUME TypeOK, SelOfKey, ToldInv, Outside, NEW k \in Key, bound'[k[1]], k[1] \in seats'
             PROVE  UpToDate(k)'
  BY DEF ToldInv
<1>1. Effects /\ seats' = seats /\ latest' = latest /\ wire \in Seq(Event)
  BY OutsideEffects DEF Effects, client, TypeOK
<1>2. PICK news : Talks(news)
  BY <1>1 DEF Effects
<1>3. /\ wire' = wire \o news /\ news \in Seq(Event)
      /\ \/ LastOf(news, Tellings(k), SelectionEv(k, sel'[k]))
         \/ bound[k[1]] /\ sel'[k] = sel[k] /\ Within(news) \cap Tellings(k) = {}
  BY <1>2 DEF Talks
<1>4. Within(wire') = Within(wire) \cup Within(news)
  BY <1>2, WireStarts
<1>5. ASSUME LastOf(wire', Tellings(k), SelectionEv(k, sel'[k]))
      PROVE  UpToDate(k)'
  BY <1>5 DEF UpToDate, Tellings, SelectionEv
<1>6. CASE LastOf(news, Tellings(k), SelectionEv(k, sel'[k]))
  BY <1>1, <1>3, <1>5, <1>6, LastConcat
<1>7. CASE bound[k[1]] /\ sel'[k] = sel[k] /\ Within(news) \cap Tellings(k) = {}
  <2>1. UpToDate(k)
    BY <1>1, <1>7 DEF ToldInv
  <2>2. CASE LastOf(wire, Tellings(k), SelectionEv(k, sel[k]))
    <3>1. LastOf(wire', Tellings(k), SelectionEv(k, sel[k]))
      BY <1>1, <1>3, <1>7, <2>2, LastConcat
    <3> QED
      BY <1>5, <1>7, <3>1
  <2>3. CASE Within(wire) \cap Tellings(k) = {} /\ latest[k] = sel[k]
    BY <1>1, <1>4, <1>7, <2>3 DEF UpToDate, Tellings
  <2> QED
    BY <2>1, <2>2, <2>3 DEF UpToDate
<1> QED
  BY <1>3, <1>6, <1>7

LEMMA NextTold ==
    ASSUME TypeOK, SelOfKey, RoundtripKeepsReadMimes, SeatInv, Introduced, ToldInv, [Next]_vars
    PROVE  ToldInv'
<1>1. ASSUME UNCHANGED <<wire, latest, sel, bound, seats>>
      PROVE  ToldInv'
  BY <1>1 DEF ToldInv, UpToDate, Tellings, SelectionEv
<1>2. CASE UNCHANGED vars
  BY <1>1, <1>2 DEF vars, client, server
<1>3. CASE Reconnect
  BY <1>3 DEF Reconnect, NewState, ToldInv
<1>4. CASE Inward
  BY <1>1, <1>4, InwardFacts DEF server
<1>5. ASSUME NEW k \in Key, TakesOver(k)
      PROVE  ToldInv'
  BY <1>1, <1>5, TakesOverFacts DEF server
<1> QED
  BY <1>2, <1>3, <1>4, <1>5, StepCases, DispatchTold, OutsideTold

LEMMA InitTold == Init => ToldInv
BY DEF Init, ToldInv

-----------------------------------------------------------------------------
Base == TypeOK /\ SettledInv /\ NamesFresh /\ RoundtripKeepsReadMimes /\ DataInv /\ SelOfKey

WireInv == TellInv /\ SeatInv /\ RoundtripInv /\ Introduced /\ ToldInv

LEMMA InitBase == Init => Base
<1>1. Init => RoundtripKeepsReadMimes
  BY DEF Init, RoundtripKeepsReadMimes
<1> QED
  BY <1>1, InitTypeOK, InitSettledInv, InitFresh, InitData DEF Base

LEMMA NextBase == Base /\ [Next]_vars => Base'
BY NextTypeOK, NextSettled, NextFresh, NextKeeps, NextData DEF Base

LEMMA NextWire == Base /\ WireInv /\ [Next]_vars => WireInv'
<1> SUFFICES ASSUME Base, WireInv, [Next]_vars
             PROVE  WireInv'
  OBVIOUS
<1>1. Base'
  BY NextBase
<1>2. TellInv'
  BY <1>1, NextTells DEF Base, WireInv
<1>3. SeatInv'
  BY NextSeatInv DEF Base, WireInv
<1>4. RoundtripInv'
  BY <1>1, NextRoundtrip DEF Base, WireInv
<1>5. Introduced'
  BY NextIntroduced DEF Base, WireInv
<1>6. ToldInv'
  BY NextTold DEF Base, WireInv
<1> QED
  BY <1>2, <1>3, <1>4, <1>5, <1>6 DEF WireInv

LEMMA AlwaysWire == Spec => [](Base /\ WireInv)
<1>1. Init => Base /\ WireInv
  BY InitBase, InitTells, InitSeatInv, InitRoundtrip, InitIntroduced, InitTold DEF WireInv
<1>2. Base /\ WireInv /\ [Next]_vars => (Base /\ WireInv)'
  BY NextBase, NextWire
<1> QED
  BY <1>1, <1>2, PTL DEF Spec

(* The client is never told wrong: of a seat that both sides have, the last*)
(* Selection event on the wire tells what the compositor's selection is,   *)
(* and with none on the wire the client knows it.                          *)
THEOREM ClientIsTold == Spec => []ToldInv
<1>1. Base /\ WireInv => ToldInv
  BY DEF WireInv
<1> QED
  BY <1>1, AlwaysWire, PTL

(* The client and the compositor do not lose each other over a seat: where *)
(* one has the seat and the other has not, the request or the event that   *)
(* settles it is on its way, and a seat that is new to the client comes    *)
(* with nothing left of an earlier one.                                    *)
THEOREM SeatsAreAgreed == Spec => []SeatInv
<1>1. Base /\ WireInv => SeatInv
  BY DEF WireInv
<1> QED
  BY <1>1, AlwaysWire, PTL

-----------------------------------------------------------------------------
(* Part 3: the client's own selections.  What the client takes over is an  *)
(* application's, for the roundtrip tells it apart from its own: the       *)
(* request to receive an own offer comes back as a Send event, or the      *)
(* selection has changed and its event comes before the answer.  That this *)
(* event is recognised needs the source to be among the client's, which    *)
(* needs its Cancelled event not to have come, which needs the source to be*)
(* new when it was set: none of these holds without the others, so they are*)
(* proved together.                                                        *)

-----------------------------------------------------------------------------
(* A copy that was not taken over has no source of ours.                   *)
Unused ==
    \A k \in Key, o \in Source : o.own /\ o.key = k /\ o.copy \notin Within(taken[k]) =>
        /\ SelectionEv(k, o) \notin Within(wire) /\ CancelledEv(o) \notin Within(wire)
        /\ SetReq(o) \notin Within(reqs)
        /\ latest[k] # o /\ sel[k] # o

(* A source that is to become the selection is ours, and has never been it.*)
PendingNew ==
    \A o \in Source :
        /\ Once(reqs, {SetReq(o)})
        /\ SetReq(o) \in Within(reqs) =>
              /\ o.own
              /\ CancelledEv(o) \notin Within(wire) /\ SelectionEv(o.key, o) \notin Within(wire)
              /\ sel[o.key] # o /\ latest[o.key] # o

(* A source that is cancelled is ours and is not the selection. *)
CancelledGone == \A o \in Source : CancelledEv(o) \in Within(wire) => o.own /\ sel[o.key] # o

(* A selection is told once, before the client knows of it. *)
ToldOnce ==
    \A k \in Key, o \in Source :
        /\ Once(wire, {SelectionEv(k, o)})
        /\ SelectionEv(k, o) \in Within(wire) => latest[k] # o

(* An application's copy that the client is told or has was not taken over.*)
NotTaken ==
    \A k \in Key :
        /\ \A o \in Source : SelectionEv(k, o) \in Within(wire) /\ ~o.own => o.copy \notin Within(taken[k])
        /\ state[k].tag \in Holding /\ ~state[k].offer.own => state[k].offer.copy \notin Within(taken[k])

(* The client keeps the source that is to become or is the selection... *)
SetKept ==
    \A o \in Source : SetReq(o) \in Within(reqs) /\ o.key[1] \in seats => o \in sources[o.key]

OwnKept ==
    \A k \in Key : bound[k[1]] /\ k[1] \in seats /\ sel[k] # None /\ sel[k].own => sel[k] \in sources[k]

(* ... and no other for long. *)
KeptCurrent ==
    \A k \in Key : \A o \in sources[k] :
        /\ o.key = k /\ o.own
        /\ bound[k[1]] => sel[k] = o \/ SetReq(o) \in Within(reqs) \/ CancelledEv(o) \in Within(wire)

(* The pipes that are read are not the client's own. *)
ReadsForeign == \A k \in Key : state[k].tag \in {"GotPipes", "GotData"} => ~state[k].offer.own

(* Before the answer to the roundtrip the client is told that the offer    *)
(* whose pipes it created for k is its own or outdated.                    *)
Evidence(k) ==
    \/ \E e \in Tellings(k) : Ahead(wire, e, {DoneEv})
    \/ Ahead(wire, GlobalRemove(k[1]), {DoneEv})
    \/ Ahead(wire, Finished(k[1]), {DoneEv})
    \/ pipes[k] \in sources[k] /\ Ahead(wire, SendEv(pipes[k]), {DoneEv, CancelledEv(pipes[k])})

OwnDetected ==
    \A k \in Key : pc = "roundtrip" /\ PipesCurrent(k) /\ pipes[k].own /\ ~state[k].own =>
        \/ \E r \in Within(reqs) : r.t = "Roundtrip" /\ pipes[k] \in r.offers
        \/ ~replied /\ Evidence(k)

SourceInv ==
    /\ Unused /\ PendingNew /\ CancelledGone /\ ToldOnce /\ NotTaken
    /\ SetKept /\ OwnKept /\ KeptCurrent /\ ReadsForeign /\ OwnDetected

-----------------------------------------------------------------------------
(* A step of the compositor and the applications.                          *)

(* A source that becomes the selection, or is shown to a new device, has   *)
(* not been told of on this connection.                                    *)
LEMMA NewlyTold ==
    ASSUME Base, WireInv, PendingNew, Outside, NEW k \in Key, NEW o \in Source, sel'[k] = o,
           Changes(k) \/ Shown(k)
    PROVE  /\ SelectionEv(k, o) \notin Within(wire) /\ latest[k] # o
           /\ ~o.own => o.copy \notin Within(taken[k])
           /\ o.own => Set(k) /\ SetReq(o) \in Within(reqs)
<1>1. o # None /\ o.key = k /\ reqs \in Seq(Request) /\ k[1] \in Seats /\ o.copy \in Nat
  <2>1. Base'
    BY OutsideEffects, NextBase DEF Outside, Next
  <2> QED
    BY <2>1, SourceFields, KeyTypes, MaxCopiesAssumption DEF Base, SelOfKey, TypeOK, Copy
<1>2. CASE Made(k)
  <2>1. o.copy = copies + 1 /\ ~o.own /\ copies \in Nat
    BY <1>2, MaxCopiesAssumption DEF Made, Foreign, Base, TypeOK
  <2>2. ~(o.copy <= copies)
    BY <2>1
  <2>3. CopiesMade
    BY DEF WireInv, TellInv
  <2>4. SelectionEv(k, o) \notin Within(wire)
    BY <1>1, <2>2, <2>3, EventShapes DEF CopiesMade
  <2>5. latest[k] # o /\ o.copy \notin Within(taken[k])
    BY <1>1, <2>2, <2>3 DEF CopiesMade
  <2> QED
    BY <2>1, <2>4, <2>5
<1>3. CASE Set(k)
  <2>1. SetReq(o) \in Within(reqs)
    BY <1>1, <1>3, WithinTail DEF Set
  <2> QED
    BY <1>1, <1>3, <2>1 DEF PendingNew
<1>4. CASE Shown(k)
  <2>1. Bind(k[1]) \in Within(reqs) /\ sel' = sel
    BY <1>1, <1>4, WithinTail DEF Shown, Bind
  <2>2. Untouched(k[1])
    BY <1>1, <2>1 DEF WireInv, SeatInv, SeatAgreed
  <2>3. SelectionEv(k, o) \in Tellings(k) /\ Within(<<>>) = {}
    BY EventTypes, EventShapes, EmptyQueue DEF Tellings
  <2> QED
    BY <1>1, <2>1, <2>2, <2>3 DEF Untouched
<1> QED
  BY <1>1, <1>2, <1>3, <1>4 DEF Changes

LEMMA OutsideNews ==
    ASSUME Base, WireInv, PendingNew, Outside, NEW k \in Key, NEW o \in Source
    PROVE  /\ SelectionEv(k, o) \in Within(wire') => SelectionEv(k, o) \in Within(wire) \/ (sel'[k] = o /\ (Changes(k) \/ Shown(k)))
           /\ CancelledEv(o) \in Within(wire') => CancelledEv(o) \in Within(wire) \/ (o.own /\ sel[o.key] = o /\ Changes(o.key))
           /\ Within(wire) \subseteq Within(wire')
<1>1. PICK news : Talks(news)
  BY OutsideEffects DEF Effects, Base
<1>2. Within(wire') = Within(wire) \cup Within(news)
  BY <1>1, WireStarts DEF Base
<1>3. ASSUME SelectionEv(k, o) \in Within(news)
      PROVE  sel'[k] = o /\ (Changes(k) \/ Shown(k))
  <2> DEFINE e == SelectionEv(k, o)
  <2>1. e.t = "Selection" /\ e.key = k /\ e.offer = o
    BY EventShapes
  <2> HIDE DEF e
  <2>2. e.offer = sel'[e.key] /\ (Changes(e.key) \/ Shown(e.key))
    BY <1>1, <1>3, <2>1 DEF Talks, e
  <2> QED
    BY <2>1, <2>2
<1>4. ASSUME CancelledEv(o) \in Within(news)
      PROVE  o.own /\ sel[o.key] = o /\ Changes(o.key)
  <2> DEFINE e == CancelledEv(o)
  <2>1. e.t = "Cancelled" /\ e.offer = o
    BY EventShapes
  <2> HIDE DEF e
  <2>2. e.offer.own /\ e.offer = sel[e.offer.key] /\ Changes(e.offer.key)
    BY <1>1, <1>4, <2>1 DEF Talks, e
  <2> QED
    BY <2>1, <2>2
<1> QED
  BY <1>2, <1>3, <1>4

LEMMA OutsideUnused ==
    ASSUME Base, WireInv, SourceInv, Outside
    PROVE  Unused' /\ PendingNew' /\ CancelledGone'
<1>1. /\ UNCHANGED <<latest, taken>> /\ reqs \in Seq(Request) /\ (UNCHANGED reqs \/ Served)
      /\ \A k \in Key : sel'[k] = sel[k] \/ sel'[k] = None \/ Changes(k)
      /\ PendingNew
  BY OutsideEffects DEF Effects, client, Base, TypeOK, SourceInv
<1>2. \A o : SetReq(o) \in Within(reqs') => SetReq(o) \in Within(reqs)
  BY <1>1, ServedFacts, RequestShapes
<1>3. ASSUME NEW o \in Source
      PROVE  Once(reqs', {SetReq(o)}) /\ (Set(o.key) /\ sel'[o.key] = o => SetReq(o) \notin Within(reqs'))
  <2>1. \A x \in {SetReq(o)} : x.t # "Roundtrip"
    BY RequestShapes
  <2>2. Once(reqs, {SetReq(o)})
    BY <1>1 DEF PendingNew
  <2>3. Once(reqs', {SetReq(o)})
    BY <1>1, <2>1, <2>2, ServedFacts
  <2>4. Set(o.key) /\ sel'[o.key] = o => SetReq(o) \notin Within(reqs')
    BY <1>1, <2>2, OnceTail DEF Set
  <2> QED
    BY <2>3, <2>4
<1>4. ASSUME NEW k \in Key, NEW o \in Source, o.own, sel'[k] = o
      PROVE  sel[k] = o \/ (Set(k) /\ SetReq(o) \in Within(reqs))
  BY <1>1, <1>4, SourceFields, NewlyTold DEF Changes
<1>5. \A o \in Source : o.key \in Key /\ o # None
  BY SourceFields
<1>6. ASSUME NEW k \in Key, NEW o \in Source, o.own, o.key = k, o.copy \notin Within(taken'[k])
      PROVE  /\ SelectionEv(k, o) \notin Within(wire') /\ CancelledEv(o) \notin Within(wire')
             /\ SetReq(o) \notin Within(reqs')
             /\ latest'[k] # o /\ sel'[k] # o
  <2>1. /\ SelectionEv(k, o) \notin Within(wire) /\ CancelledEv(o) \notin Within(wire)
        /\ SetReq(o) \notin Within(reqs) /\ latest[k] # o /\ sel[k] # o
    BY <1>1, <1>6 DEF SourceInv, Unused
  <2>2. sel'[k] # o
    BY <1>4, <1>6, <2>1
  <2> QED
    BY <1>1, <1>2, <1>6, <2>1, <2>2, OutsideNews
<1>7. ASSUME NEW o \in Source, SetReq(o) \in Within(reqs')
      PROVE  /\ o.own
             /\ CancelledEv(o) \notin Within(wire') /\ SelectionEv(o.key, o) \notin Within(wire')
             /\ sel'[o.key] # o /\ latest'[o.key] # o
  <2>1. /\ o.own /\ CancelledEv(o) \notin Within(wire) /\ SelectionEv(o.key, o) \notin Within(wire)
        /\ sel[o.key] # o /\ latest[o.key] # o
    BY <1>1, <1>2, <1>7 DEF PendingNew
  <2>2. sel'[o.key] # o
    BY <1>3, <1>4, <1>5, <1>7, <2>1
  <2> QED
    BY <1>1, <1>5, <2>1, <2>2, OutsideNews
<1>8. ASSUME NEW o \in Source, CancelledEv(o) \in Within(wire')
      PROVE  o.own /\ sel'[o.key] # o
  <2>1. CASE CancelledEv(o) \in Within(wire)
    <3>1. o.own /\ sel[o.key] # o /\ SetReq(o) \notin Within(reqs)
      BY <1>1, <2>1 DEF SourceInv, CancelledGone, PendingNew
    <3> QED
      BY <1>4, <1>5, <3>1
  <2>2. CASE CancelledEv(o) \notin Within(wire)
    <3>1. o.own /\ sel[o.key] = o /\ Changes(o.key)
      BY <1>1, <1>5, <1>8, <2>2, OutsideNews
    <3>2. sel'[o.key] = o => SetReq(o) \in Within(reqs)
      BY <1>1, <1>5, <3>1, NewlyTold
    <3> QED
      BY <1>1, <3>1, <3>2 DEF PendingNew
  <2> QED
    BY <2>1, <2>2
<1>9. PendingNew'
  <2>1. \A o \in Source : SetReq(o)' = SetReq(o) /\ CancelledEv(o)' = CancelledEv(o) /\ SelectionEv(o.key, o)' = SelectionEv(o.key, o)
    BY DEF SetReq, CancelledEv, SelectionEv
  <2> QED
    BY <1>3, <1>7, <2>1 DEF PendingNew
<1>10. Unused' /\ CancelledGone'
  BY <1>6, <1>8 DEF Unused, CancelledGone, SetReq, CancelledEv, SelectionEv
<1> QED
  BY <1>9, <1>10
LEMMA OutsideToldOnce ==
    ASSUME Base, WireInv, SourceInv, Outside
    PROVE  ToldOnce' /\ NotTaken'
<1>1. /\ UNCHANGED <<latest, taken, state>> /\ wire \in Seq(Event) /\ PendingNew
  BY OutsideEffects DEF Effects, client, Base, TypeOK, SourceInv
<1>2. ASSUME NEW k \in Key, NEW o \in Source
      PROVE  /\ Once(wire', {SelectionEv(k, o)})
             /\ SelectionEv(k, o) \in Within(wire') => latest'[k] # o
             /\ SelectionEv(k, o) \in Within(wire') /\ ~o.own => o.copy \notin Within(taken'[k])
  <2>1. /\ Once(wire, {SelectionEv(k, o)})
        /\ SelectionEv(k, o) \in Within(wire) =>
              latest[k] # o /\ (~o.own => o.copy \notin Within(taken[k]))
    BY DEF SourceInv, ToldOnce, NotTaken
  <2>2. PICK news : Talks(news)
    BY OutsideEffects DEF Effects, Base
  <2>3. /\ news \in Seq(Event) /\ wire' = wire \o news /\ Once(news, {SelectionEv(k, o)})
        /\ SelectionEv(k, o) \in Within(news) => sel'[k] = o /\ (Changes(k) \/ Shown(k))
    <3> DEFINE e == SelectionEv(k, o)
    <3>1. e.t = "Selection" /\ e.key = k /\ e.offer = o
      BY EventShapes
    <3>2. Once(news, {e})
      BY <2>2 DEF Talks
    <3> HIDE DEF e
    <3>3. e \in Within(news) => e.offer = sel'[e.key] /\ (Changes(e.key) \/ Shown(e.key))
      BY <2>2, <3>1 DEF Talks
    <3>4. news \in Seq(Event) /\ wire' = wire \o news
      BY <2>2 DEF Talks
    <3> QED
      BY <3>1, <3>2, <3>3, <3>4 DEF e
  <2>4. SelectionEv(k, o) \in Within(news) =>
           /\ SelectionEv(k, o) \notin Within(wire) /\ latest[k] # o
           /\ ~o.own => o.copy \notin Within(taken[k])
    BY <1>1, <2>3, NewlyTold
  <2>5. Once(wire', {SelectionEv(k, o)})
    BY <1>1, <2>1, <2>3, <2>4, OnceConcat
  <2>6. Within(wire') = Within(wire) \cup Within(news)
    BY <2>2, WireStarts DEF Base
  <2> QED
    BY <1>1, <2>1, <2>4, <2>5, <2>6
<1>3. ToldOnce'
  <2>1. \A k \in Key, o \in Source : SelectionEv(k, o)' = SelectionEv(k, o)
    BY DEF SelectionEv
  <2> QED
    BY <1>2, <2>1 DEF ToldOnce
<1>4. NotTaken'
  <2>1. \A k \in Key : state[k].tag \in Holding /\ ~state[k].offer.own => state[k].offer.copy \notin Within(taken[k])
    BY DEF SourceInv, NotTaken
  <2> QED
    BY <1>1, <1>2, <2>1 DEF NotTaken, SelectionEv
<1> QED
  BY <1>3, <1>4

LEMMA OutsideKept ==
    ASSUME Base, WireInv, SourceInv, Outside
    PROVE  SetKept' /\ OwnKept' /\ KeptCurrent' /\ ReadsForeign'
<1>1. /\ UNCHANGED <<sources, seats, state>> /\ reqs \in Seq(Request) /\ (UNCHANGED reqs \/ Served)
      /\ Effects /\ PendingNew /\ sel \in [Key -> Source \cup {None}] /\ sources \in [Key -> SUBSET Source]
  BY OutsideEffects DEF Effects, client, Base, TypeOK, SourceInv
<1>2. \A o : SetReq(o) \in Within(reqs') => SetReq(o) \in Within(reqs)
  BY <1>1, ServedFacts, RequestShapes
<1>3. SetKept' /\ ReadsForeign'
  BY <1>1, <1>2 DEF SourceInv, SetKept, ReadsForeign, SetReq
(* The device of a seat whose bind request is served knows of nothing. *)
<1>4. ASSUME NEW k \in Key, bound'[k[1]], ~bound[k[1]]
      PROVE  sources[k] = {} /\ (sel'[k] # None => ~sel'[k].own)
  <2>1. k[1] \in Seats
    BY KeyTypes
  <2>2. Binds(k[1])
    BY <1>4, <2>1, OutsideSeats DEF Seating, Base
  <2>3. Bind(k[1]) \in Within(reqs)
    BY <1>1, <2>2, WithinTail DEF Binds
  <2>4. Untouched(k[1])
    BY <2>1, <2>3 DEF WireInv, SeatInv, SeatAgreed
  <2>5. ~Set(k) /\ ~Made(k)
    <3>1. Head(reqs).t = "Bind" /\ reqs' # reqs
      BY <1>1, <2>1, <2>2, SeatShapes, QueueTail DEF Binds
    <3> QED
      BY <3>1, RequestShapes DEF Set, Made
  <2>6. sources[k] = {} /\ (sel[k] # None => ~sel[k].own)
    BY <2>4 DEF Untouched
  <2> QED
    BY <1>1, <2>5, <2>6 DEF Effects, Changes
<1>5. ASSUME NEW k \in Key, bound'[k[1]], k[1] \in seats, sel'[k] # None, sel'[k].own
      PROVE  sel'[k] \in sources[k]
  <2>1. bound[k[1]]
    BY <1>4, <1>5
  <2>2. CASE sel'[k] = sel[k]
    BY <1>5, <2>1, <2>2 DEF SourceInv, OwnKept
  <2>3. CASE sel'[k] # sel[k]
    <3>1. Changes(k) /\ sel'[k] \in Source /\ sel'[k].key = k
      <4>1. Base'
        BY NextBase DEF Outside, Next
      <4> QED
        BY <1>1, <1>5, <2>3, <4>1 DEF Effects, Base, TypeOK, SelOfKey
    <3>2. SetReq(sel'[k]) \in Within(reqs)
      BY <1>1, <1>5, <3>1, NewlyTold
    <3> QED
      BY <1>5, <3>1, <3>2 DEF SourceInv, SetKept
  <2> QED
    BY <2>2, <2>3
<1>6. OwnKept'
  BY <1>1, <1>5 DEF OwnKept
<1>7. ASSUME NEW k \in Key, NEW o \in sources[k]
      PROVE  /\ o.key = k /\ o.own
             /\ bound'[k[1]] => sel'[k] = o \/ SetReq(o) \in Within(reqs') \/ CancelledEv(o) \in Within(wire')
  <2>1. o.key = k /\ o.own /\ o \in Source /\ o # None
    BY <1>1, SourceFields DEF SourceInv, KeptCurrent
  <2>2. ASSUME bound'[k[1]]
        PROVE  sel'[k] = o \/ SetReq(o) \in Within(reqs') \/ CancelledEv(o) \in Within(wire')
    <3>1. sel[k] = o \/ SetReq(o) \in Within(reqs) \/ CancelledEv(o) \in Within(wire)
      BY <1>4, <2>2 DEF SourceInv, KeptCurrent
    <3>2. CASE sel[k] = o
      BY <1>1, <2>1, <2>2, <3>2 DEF Effects
    <3>3. CASE SetReq(o) \in Within(reqs)
      BY <1>1, <2>1, <2>2, <3>3 DEF Effects
    <3>4. CASE CancelledEv(o) \in Within(wire)
      BY <1>1, <2>1, <3>4, OutsideNews
    <3> QED
      BY <3>1, <3>2, <3>3, <3>4
  <2> QED
    BY <2>1, <2>2
<1>8. KeptCurrent'
  BY <1>1, <1>7 DEF KeptCurrent, SetReq, CancelledEv
<1> QED
  BY <1>3, <1>6, <1>8

(* The evidence for k stays ahead of what is sent later. *)
LEMMA EvidenceStays ==
    ASSUME TypeOK, NEW news \in Seq(Event), wire' = wire \o news, UNCHANGED <<pipes, sources>>, NEW k \in Key,
           Evidence(k)
    PROVE  Evidence(k)'
<1>1. wire \in Seq(Event)
  BY DEF TypeOK
<1>2. \A e, T : Ahead(wire, e, T) => Ahead(wire', e, T)
  BY <1>1, AheadConcat
<1> QED
  BY <1>2 DEF Evidence, Tellings, Event, GlobalRemove, Finished, SeatEv, SendEv, CancelledEv, DoneEv

(* A receive request of our own offer is dropped only if the selection has *)
(* changed: then the client is told so.                                    *)
LEMMA ReceivedEvidence ==
    ASSUME Base, WireInv, SourceInv, NEW o \in Source, ServeReceive(o), NEW k \in Key,
           PipesCurrent(k), pipes[k] = o, o.own, pc = "roundtrip"
    PROVE  ~replied /\ Evidence(k)'
<1>1. /\ wire \in Seq(Event) /\ reqs \in Seq(Request) /\ UNCHANGED <<pipes, sources>> /\ k[1] \in Seats
      /\ SendEv(o) \in Event
  BY KeyTypes, EventTypes DEF Base, TypeOK, ServeReceive, client
<1>2. ~replied /\ DoneEv \notin Within(wire)
  <2>1. Head(reqs) \in Within(reqs) /\ Head(reqs) \in Roundtrips
    BY <1>1, QueueTail, WithinTail DEF ServeReceive, Requested, Roundtrips
  <2> QED
    BY <2>1 DEF WireInv, RoundtripInv
<1>3. state[k].tag \in Holding /\ state[k].offer = o /\ latest[k] = o /\ o.key = k /\ o # None /\ k[1] \in seats
  <2>1. IsReading(k) /\ state[k].offer = o /\ k[1] \in seats
    BY DEF Base, RoundtripKeepsReadMimes, PipesCurrent
  <2>2. state[k].tag \in Holding
    BY <2>1 DEF IsReading, Holding
  <2> QED
    BY <2>1, <2>2, SourceFields DEF WireInv, TellInv, StateLatest
<1>4. PICK news \in Seq(Event) : wire' = wire \o news
  <2>1. wire' = wire \/ wire' = Append(wire, SendEv(o))
    BY DEF ServeReceive
  <2>2. <<>> \in Seq(Event) /\ <<SendEv(o)>> \in Seq(Event) /\ wire \o <<>> = wire
    BY <1>1
  <2>3. Append(wire, SendEv(o)) = wire \o <<SendEv(o)>>
    BY <1>1
  <2> QED
    BY <2>1, <2>2, <2>3
<1>5. SUFFICES ASSUME ~Evidence(k)
               PROVE  Evidence(k)'
  BY <1>1, <1>2, <1>4, EvidenceStays DEF Base
<1>6. \A e \in Within(wire) : Ahead(wire, e, {DoneEv})
  <2>1. Within(wire) \cap {DoneEv} = {}
    BY <1>2
  <2> QED
    BY <2>1, AheadIn
<1>7. ~Leaving(k[1]) /\ Within(wire) \cap Tellings(k) = {}
  BY <1>5, <1>6 DEF Evidence, Leaving
<1>8. bound[k[1]]
  <2> SUFFICES ASSUME ~bound[k[1]]
               PROVE  FALSE
    OBVIOUS
  <2>1. Bind(k[1]) \in Within(reqs)
    BY <1>1, <1>3, <1>7 DEF WireInv, SeatInv, SeatAgreed
  <2>2. Untouched(k[1])
    BY <1>1, <2>1 DEF WireInv, SeatInv, SeatAgreed
  <2> QED
    BY <1>3, <2>2 DEF Untouched
<1>9. sel[k] = o
  <2>1. UpToDate(k)
    BY <1>3, <1>8 DEF WireInv, ToldInv
  <2>2. ~LastOf(wire, Tellings(k), SelectionEv(k, sel[k]))
    <3>1. SelectionEv(k, sel[k]) \in Event => SelectionEv(k, sel[k]) \in Tellings(k)
      BY EventShapes DEF Tellings
    <3>2. sel[k] \in Source \cup {None}
      BY DEF Base, TypeOK
    <3>3. SelectionEv(k, sel[k]) \in Event
      BY <3>2, EventTypes
    <3> QED
      BY <1>7, <3>1, <3>3, LastIn
  <2> QED
    BY <1>3, <2>1, <2>2 DEF UpToDate
<1>10. o \in sources[k] /\ CancelledEv(o) \notin Within(wire)
  BY <1>3, <1>8, <1>9 DEF SourceInv, OwnKept, CancelledGone
<1>11. wire' = wire \o <<SendEv(o)>>
  <2>1. wire' = Append(wire, SendEv(o))
    BY <1>3, <1>9 DEF ServeReceive
  <2>2. Append(wire, SendEv(o)) = wire \o <<SendEv(o)>>
    BY <1>1
  <2> QED
    BY <2>1, <2>2
<1>12. Ahead(wire', SendEv(o), {DoneEv, CancelledEv(o)})
  <2>1. Within(wire') = Within(wire) \cup {SendEv(o)}
    BY <1>1, <1>11, WithinAppend
  <2>2. SendEv(o) \notin {DoneEv, CancelledEv(o)}
    BY EventShapes
  <2>3. Within(wire') \cap {DoneEv, CancelledEv(o)} = {}
    BY <1>2, <1>10, <2>1, <2>2
  <2> QED
    BY <2>1, <2>3, AheadIn
<1> QED
  BY <1>1, <1>10, <1>12 DEF Evidence, SendEv, CancelledEv, DoneEv

LEMMA OutsideDetected ==
    ASSUME Base, WireInv, SourceInv, Outside
    PROVE  OwnDetected'
<1> SUFFICES ASSUME NEW k \in Key, pc = "roundtrip", PipesCurrent(k), pipes[k].own, ~state[k].own
             PROVE  \/ \E r \in Within(reqs') : r.t = "Roundtrip" /\ pipes[k] \in r.offers
                    \/ ~replied /\ Evidence(k)'
  <2>1. UNCHANGED <<pc, pipes, gotNew, seats, state, replied>>
    BY OutsideEffects DEF Effects, client, Base
  <2> QED
    BY <2>1 DEF OwnDetected, PipesCurrent
<1>1. UNCHANGED <<pipes, sources>> /\ reqs \in Seq(Request) /\ pipes[k] \in Source
  BY OutsideEffects DEF Effects, client, Base, TypeOK, PipesCurrent
<1>2. PICK news \in Seq(Event) : wire' = wire \o news
  BY OutsideEffects DEF Effects, Base, Talks
<1>3. CASE ~replied /\ Evidence(k)
  BY <1>1, <1>2, <1>3, EvidenceStays DEF Base
<1>4. ASSUME NEW r \in Within(reqs), r.t = "Roundtrip", pipes[k] \in r.offers
      PROVE  \/ \E x \in Within(reqs') : x.t = "Roundtrip" /\ pipes[k] \in x.offers
             \/ ~replied /\ Evidence(k)'
  <2>1. reqs # <<>> /\ Within(reqs) = {Head(reqs)} \cup Within(Tail(reqs))
    <3>1. reqs # <<>>
      BY <1>1, <1>4, WithinType
    <3> QED
      BY <1>1, <3>1, WithinTail
  <2>2. CASE reqs' = reqs
    BY <1>4, <2>2
  <2>3. CASE reqs' = Tail(reqs) /\ (r # Head(reqs))
    BY <1>4, <2>1, <2>3
  <2>4. ASSUME NEW o \in Source, ServeReceive(o)
        PROVE  \/ \E x \in Within(reqs') : x.t = "Roundtrip" /\ pipes[k] \in x.offers
               \/ ~replied /\ Evidence(k)'
    <3>1. CASE pipes[k] = o
      BY <2>4, <3>1, ReceivedEvidence
    <3>2. CASE pipes[k] # o
      <4> DEFINE x == RoundtripReq(Head(reqs).offers \ {o})
      <4>1. reqs' = <<x>> \o Tail(reqs) /\ Tail(reqs) \in Seq(Request) /\ x \in Request
            /\ x.t = "Roundtrip" /\ x.offers = Head(reqs).offers \ {o}
        <5>1. Head(reqs).offers \subseteq Source
          BY <1>1, <2>1, <2>4, QueueTail, RequestFields DEF ServeReceive, Requested
        <5> QED
          BY <1>1, <2>1, <2>4, <5>1, QueueTail, RequestTypes, RequestShapes DEF ServeReceive
      <4> HIDE DEF x
      <4>2. Within(reqs') = {x} \cup Within(Tail(reqs))
        <5>1. <<x>> \in Seq(Request)
          BY <4>1
        <5> DEFINE p == <<x>>
                   q == Tail(reqs)
        <5>3. p \in Seq(Request) /\ q \in Seq(Request)
          BY <4>1, <5>1
        <5> HIDE DEF p, q
        <5>4. Within(p \o q) = Within(p) \cup Within(q)
          BY <5>3, WithinConcat
        <5>2. Within(<<x>> \o Tail(reqs)) = Within(<<x>>) \cup Within(Tail(reqs))
          BY <5>4 DEF p, q
        <5> QED
          BY <4>1, <5>2, WithinOne
      <4> QED
        BY <1>4, <2>1, <3>2, <4>1, <4>2
    <3> QED
      BY <3>1, <3>2
  <2>5. CASE ServeBind \/ ServeDestroy \/ ServeSync \/ ServeSet
    <3>1. reqs' = Tail(reqs) /\ (Head(reqs).t = "Roundtrip" => Head(reqs).offers = {})
      BY <2>5 DEF ServeBind, ServeDestroy, ServeSync, ServeSet, Requested
    <3> QED
      BY <1>4, <2>3, <3>1
  <2> QED
    BY <2>2, <2>4, <2>5
       DEF Outside, ServerStep, Serve, Environment, ListSeat, AnnounceSeat, List, WithdrawSeat, FinishDevice,
           AppCopy, AppClear
<1> QED
  BY <1>3, <1>4 DEF SourceInv, OwnDetected

LEMMA OutsideSources == Base /\ WireInv /\ SourceInv /\ Outside => SourceInv'
BY OutsideUnused, OutsideToldOnce, OutsideKept, OutsideDetected DEF SourceInv

-----------------------------------------------------------------------------
(* An event that the client dispatches.                                    *)
LEMMA DispatchOf ==
    ASSUME TypeOK, Dispatch, NEW k \in Key
    PROVE  /\ \/ latest'[k] = latest[k]
              \/ event = SelectionEv(k, event.offer) /\ latest'[k] \in {event.offer, None}
           /\ state'[k].tag \in Holding =>
                 \/ state'[k].tag = state[k].tag /\ state'[k].offer = state[k].offer
                 \/ state'[k] = ReadMimes(event.offer) /\ event = SelectionEv(k, event.offer) /\ event.offer # None
           /\ \/ sources'[k] = sources[k]
              \/ sources'[k] = {} /\ (k[1] \in seats' => event = Global(k[1]))
              \/ event.t = "Cancelled" /\ sources'[k] = sources[k] \ {event.offer}
           /\ event.t = "Cancelled" => event.offer \notin sources'[event.offer.key]
           /\ k[1] \in seats' => k[1] \in seats \/ event = Global(k[1])
<1>1. /\ event \in Event /\ state \in [Key -> StateRec] /\ latest \in [Key -> Source \cup {None}]
      /\ sources \in [Key -> SUBSET Source]
  BY DispatchFacts DEF TypeOK, StateOK
<1>2. CASE AddSeat
  <2>1. event = Global(event.seat) /\ event.t # "Cancelled"
    BY <1>1, <1>2, EventForms DEF AddSeat, Receiving, event, Global
  <2>2. UNCHANGED latest /\ seats' = seats \cup {event.seat} /\ ResetSeat(event.seat)
    BY <1>2 DEF AddSeat
  <2>3. (state'[k] = Waiting /\ sources'[k] = {} /\ k[1] = event.seat) \/ (state'[k] = state[k] /\ sources'[k] = sources[k])
    BY <2>2 DEF ResetSeat
  <2> QED
    BY <2>1, <2>2, <2>3, StateTags
<1>3. CASE RemoveSeat
  <2>1. event.t # "Cancelled" /\ UNCHANGED latest /\ seats' \subseteq seats
    BY <1>3 DEF RemoveSeat, Receiving, event
  <2>2. \/ state'[k] = state[k] /\ sources'[k] = sources[k]
        \/ state'[k] = Waiting /\ sources'[k] = {} /\ k[1] \notin seats'
    BY <1>3 DEF RemoveSeat, ResetSeat
  <2> QED
    BY <2>1, <2>2, StateTags
<1>4. CASE NewSelection
  <2> DEFINE j == event.key
             o == MaybeOffer(j, event.offer)
  <2>1. event.t = "Selection" /\ j \in Key /\ UNCHANGED <<seats, sources>> /\ event = SelectionEv(j, event.offer)
    BY <1>1, <1>4, EventFields, EventForms DEF NewSelection, Receiving, event
  <2>2. o \in {event.offer, None}
    BY DEF MaybeOffer
  <2>3. latest'[k] = latest[k] \/ (j = k /\ latest'[k] = o)
    BY <1>1, <1>4, <2>1 DEF NewSelection
  <2>4. state'[k] = state[k] \/ (j = k /\ state'[k] = SelectedState(o))
    BY <1>1, <1>4, <2>1 DEF NewSelection
  <2>5. SelectedState(o).tag \in Holding => o # None /\ SelectedState(o) = ReadMimes(o)
    BY StateTags DEF SelectedState
  <2> HIDE DEF j, o
  <2> QED
    BY <2>1, <2>2, <2>3, <2>4, <2>5
<1>5. CASE OwnPipe
  <2>1. event.t = "Send" /\ UNCHANGED <<seats, sources, latest>> /\ event.offer.key \in Key
    BY <1>1, <1>5, EventFields, SourceFields DEF OwnPipe, Receiving, event
  <2>2. state' = state \/ state' = [state EXCEPT ![event.offer.key].own = TRUE]
    BY <1>5 DEF OwnPipe
  <2>3. state'[k].tag = state[k].tag /\ state'[k].offer = state[k].offer
    BY <1>1, <2>1, <2>2 DEF StateRec
  <2> QED
    BY <2>1, <2>3
<1>6. CASE SourceCancelled
  <2>1. event.t = "Cancelled" /\ UNCHANGED <<seats, state, latest>> /\ event.offer.key \in Key
    BY <1>1, <1>6, EventFields, SourceFields DEF SourceCancelled, Receiving, event
  <2>2. sources' = [sources EXCEPT ![event.offer.key] = @ \ {event.offer}]
    BY <1>6 DEF SourceCancelled, SourcesLeft
  <2> QED
    BY <1>1, <2>1, <2>2
<1>7. CASE NewOffer \/ RoundtripDone
  BY <1>7 DEF NewOffer, RoundtripDone, Receiving, event
<1> QED
  BY <1>2, <1>3, <1>4, <1>5, <1>6, <1>7 DEF Dispatch

LEMMA NewSeatUntouched ==
    ASSUME Base, WireInv, Dispatch, NEW s \in Seats, event = Global(s)
    PROVE  Untouched(s)
<1>1. Global(s) \in Within(wire)
  BY DispatchFacts DEF Base
<1> QED
  BY <1>1 DEF WireInv, SeatInv, SeatAgreed, Fresh

LEMMA DispatchUnused ==
    ASSUME Base, WireInv, SourceInv, Dispatch
    PROVE  Unused' /\ PendingNew' /\ CancelledGone' /\ ToldOnce' /\ NotTaken'
<1>1. /\ wire # <<>> /\ wire \in Seq(Event) /\ wire' = Tail(wire) /\ event = Head(wire)
      /\ Within(wire') \subseteq Within(wire) /\ event \in Within(wire)
      /\ UNCHANGED <<sel, taken>> /\ reqs \in Seq(Request)
  BY DispatchFacts DEF Base, TypeOK, server
<1>2. /\ \A o : SetReq(o) \in Within(reqs') => SetReq(o) \in Within(reqs)
      /\ \A o : Once(reqs, {SetReq(o)}) => Once(reqs', {SetReq(o)})
  <2>1. Requests({"Bind", "Destroy"})
    BY DispatchRequests DEF Base
  <2> QED
    BY <1>1, <2>1, RequestsFacts, RequestShapes
<1>3. ASSUME NEW k \in Key, NEW o, latest'[k] = o, o # None
      PROVE  latest[k] = o \/ event = SelectionEv(k, o)
  BY <1>3, DispatchOf DEF Base
<1>4. \A o \in Source : o # None /\ o.key \in Key
  BY SourceFields
<1>5. Unused /\ PendingNew /\ CancelledGone /\ ToldOnce /\ NotTaken
  BY DEF SourceInv
<1>6. Unused'
  <2> SUFFICES ASSUME NEW k \in Key, NEW o \in Source, o.own, o.key = k, o.copy \notin Within(taken'[k])
               PROVE  /\ SelectionEv(k, o) \notin Within(wire') /\ CancelledEv(o) \notin Within(wire')
                      /\ SetReq(o) \notin Within(reqs')
                      /\ latest'[k] # o /\ sel'[k] # o
    BY DEF Unused, SetReq, CancelledEv, SelectionEv
  <2>1. /\ SelectionEv(k, o) \notin Within(wire) /\ CancelledEv(o) \notin Within(wire)
        /\ SetReq(o) \notin Within(reqs)
        /\ latest[k] # o /\ sel[k] # o
    BY <1>1, <1>5 DEF Unused
  <2>2. latest'[k] # o
    BY <1>1, <1>3, <1>4, <2>1
  <2> QED
    BY <1>1, <1>2, <2>1, <2>2
<1>7. PendingNew'
  <2>1. ASSUME NEW o \in Source, SetReq(o) \in Within(reqs')
        PROVE  /\ o.own /\ CancelledEv(o) \notin Within(wire') /\ SelectionEv(o.key, o) \notin Within(wire')
               /\ sel[o.key] # o /\ latest'[o.key] # o
    BY <1>1, <1>2, <1>3, <1>4, <1>5, <2>1 DEF PendingNew
  <2>2. \A o \in Source : Once(reqs', {SetReq(o)})
    BY <1>2, <1>5 DEF PendingNew
  <2>3. \A o \in Source : SetReq(o)' = SetReq(o) /\ CancelledEv(o)' = CancelledEv(o) /\ SelectionEv(o.key, o)' = SelectionEv(o.key, o)
    BY DEF SetReq, CancelledEv, SelectionEv
  <2> QED
    BY <1>1, <2>1, <2>2, <2>3 DEF PendingNew
<1>8. CancelledGone'
  BY <1>1, <1>5 DEF CancelledGone, CancelledEv
<1>9. ToldOnce'
  <2>1. ASSUME NEW k \in Key, NEW o \in Source
        PROVE  Once(wire', {SelectionEv(k, o)}) /\ (SelectionEv(k, o) \in Within(wire') => latest'[k] # o)
    <3>1. Once(wire, {SelectionEv(k, o)}) /\ (SelectionEv(k, o) \in Within(wire) => latest[k] # o)
      BY <1>5 DEF ToldOnce
    <3>2. Once(wire', {SelectionEv(k, o)}) /\ (event = SelectionEv(k, o) => SelectionEv(k, o) \notin Within(wire'))
      BY <1>1, <3>1, OnceTail
    <3> QED
      BY <1>1, <1>3, <1>4, <3>1, <3>2
  <2> QED
    BY <2>1 DEF ToldOnce, SelectionEv
<1>10. NotTaken'
  <2>1. ASSUME NEW k \in Key, state'[k].tag \in Holding, ~state'[k].offer.own
        PROVE  state'[k].offer.copy \notin Within(taken[k])
    <3>1. CASE state'[k].tag = state[k].tag /\ state'[k].offer = state[k].offer
      BY <1>5, <2>1, <3>1 DEF NotTaken
    <3>2. CASE state'[k] = ReadMimes(event.offer) /\ event = SelectionEv(k, event.offer) /\ event.offer # None
      <4>1. state'[k].offer = event.offer /\ event.t = "Selection"
        BY <3>2, StateTags, EventShapes
      <4>2. event.offer \in Source
        BY <1>1, <3>2, <4>1, WithinType, EventFields
      <4> QED
        BY <1>1, <1>5, <2>1, <3>2, <4>1, <4>2 DEF NotTaken
    <3> QED
      BY <2>1, <3>1, <3>2, DispatchOf DEF Base
  <2>2. ASSUME NEW k \in Key, NEW o \in Source, SelectionEv(k, o) \in Within(wire'), ~o.own
        PROVE  o.copy \notin Within(taken[k])
    BY <1>1, <1>5, <2>2 DEF NotTaken
  <2> QED
    BY <1>1, <2>1, <2>2 DEF NotTaken, SelectionEv
<1> QED
  BY <1>6, <1>7, <1>8, <1>9, <1>10

LEMMA DispatchKept ==
    ASSUME Base, WireInv, SourceInv, Dispatch
    PROVE  SetKept' /\ OwnKept' /\ KeptCurrent' /\ ReadsForeign'
<1>1. /\ event \in Event /\ event \in Within(wire) /\ Within(wire) = {event} \cup Within(wire')
      /\ UNCHANGED <<sel, bound>>
      /\ \A o : SetReq(o) \in Within(reqs') => SetReq(o) \in Within(reqs)
      /\ Within(reqs) \subseteq Within(reqs')
  BY DispatchFacts, RequestShapes DEF Base, server
<1>2. PendingNew /\ CancelledGone /\ SetKept /\ OwnKept /\ KeptCurrent /\ ReadsForeign
  BY DEF SourceInv
<1>3. ASSUME NEW k \in Key, k[1] \in seats', ~Untouched(k[1])
      PROVE  /\ k[1] \in seats
             /\ \/ sources'[k] = sources[k]
                \/ event = CancelledEv(event.offer) /\ event.offer \in Source /\ sources'[k] = sources[k] \ {event.offer}
  <2>1. event # Global(k[1])
    BY <1>3, KeyTypes, NewSeatUntouched
  <2>2. event.t = "Cancelled" => event = CancelledEv(event.offer) /\ event.offer \in Source
    BY <1>1, EventForms, EventFields
  <2> QED
    BY <1>3, <2>1, <2>2, DispatchOf DEF Base
<1>4. ASSUME NEW o \in Source, SetReq(o) \in Within(reqs'), o.key[1] \in seats'
      PROVE  o \in sources'[o.key]
  <2>1. o.key \in Key /\ SetReq(o) \in Within(reqs)
    BY <1>1, <1>4, SourceFields
  <2>2. ~Untouched(o.key[1])
    BY <2>1 DEF Untouched
  <2>3. event # CancelledEv(o)
    BY <1>1, <1>2, <2>1 DEF PendingNew
  <2> QED
    BY <1>2, <1>3, <1>4, <2>1, <2>2, <2>3 DEF SetKept
<1>5. ASSUME NEW k \in Key, bound[k[1]], k[1] \in seats', sel[k] # None, sel[k].own
      PROVE  sel[k] \in sources'[k]
  <2>1. ~Untouched(k[1]) /\ sel[k] \in Source /\ sel[k].key = k
    BY <1>5 DEF Untouched, Base, TypeOK, SelOfKey
  <2>2. event # CancelledEv(sel[k])
    BY <1>1, <1>2, <2>1 DEF CancelledGone
  <2> QED
    BY <1>2, <1>3, <1>5, <2>1, <2>2 DEF OwnKept
<1>6. ASSUME NEW k \in Key, NEW o \in sources'[k]
      PROVE  /\ o.key = k /\ o.own
             /\ bound[k[1]] => sel[k] = o \/ SetReq(o) \in Within(reqs') \/ CancelledEv(o) \in Within(wire')
  <2>1. o \in sources[k] /\ (event.t = "Cancelled" => event.offer \notin sources'[event.offer.key])
    BY <1>6, DispatchOf DEF Base
  <2>2. o.key = k /\ o.own /\ (bound[k[1]] => sel[k] = o \/ SetReq(o) \in Within(reqs) \/ CancelledEv(o) \in Within(wire))
    BY <1>2, <2>1 DEF KeptCurrent
  <2>3. event # CancelledEv(o)
    BY <1>6, <2>1, <2>2, EventShapes
  <2> QED
    BY <1>1, <2>2, <2>3
<1>7. ASSUME NEW k \in Key, state'[k].tag \in {"GotPipes", "GotData"}
      PROVE  ~state'[k].offer.own
  <2>1. state'[k].tag \in Holding /\ \A o : ReadMimes(o).tag \notin {"GotPipes", "GotData"}
    BY <1>7, StateTags DEF Holding
  <2>2. state'[k].tag = state[k].tag /\ state'[k].offer = state[k].offer
    BY <1>7, <2>1, DispatchOf DEF Base
  <2> QED
    BY <1>2, <1>7, <2>2 DEF ReadsForeign
<1>8. SetKept' /\ OwnKept'
  BY <1>1, <1>4, <1>5 DEF SetKept, OwnKept, SetReq
<1>9. KeptCurrent' /\ ReadsForeign'
  BY <1>1, <1>6, <1>7 DEF KeptCurrent, ReadsForeign, SetReq, CancelledEv
<1> QED
  BY <1>8, <1>9

(* A key whose pipes an event leaves current. *)
LEMMA DispatchCurrent ==
    ASSUME Base, Dispatch, pc = "roundtrip", NEW k \in Key, PipesCurrent(k)'
    PROVE  /\ PipesCurrent(k) /\ pipes[k] \in Source /\ pipes[k].key \in Key
           /\ event \notin Tellings(k) /\ event # GlobalRemove(k[1]) /\ event # Finished(k[1])
           /\ state[k].own => state'[k].own
           /\ pipes[k] \in sources[k] /\ event # CancelledEv(pipes[k]) => pipes[k] \in sources'[k]
           /\ event = SendEv(pipes[k]) /\ pipes[k].key = k /\ pipes[k] \in sources[k] => state'[k].own
<1>1. /\ event \in Event /\ event \in Within(wire) /\ pipes' = pipes /\ wire # <<>> /\ wire \in Seq(Event)
      /\ state \in [Key -> StateRec] /\ gotNew \in [Key -> BOOLEAN] /\ sources \in [Key -> SUBSET Source]
  BY DispatchFacts DEF Base, TypeOK, StateOK
<1>2. pipes[k] # None /\ k[1] \in seats' /\ ~gotNew'[k] /\ pipes[k] \in Source /\ pipes[k].key \in Key
  BY <1>1, SourceFields DEF PipesCurrent, Base, TypeOK
<1>3. event # Global(k[1])
  <2> SUFFICES ASSUME event = Global(k[1])
               PROVE  FALSE
    OBVIOUS
  <2>1. PICK i \in 1 .. Len(wire) : wire[i] = event
    BY <1>1 DEF Within
  <2>2. Announces(event, k[1]) /\ k[1] \in Seats
    BY SeatShapes, KeyTypes DEF Announces
  <2>3. Unbound(k[1])
    BY <2>1, <2>2 DEF Base, NamesFresh
  <2> QED
    BY <1>2, <2>3, KeyTypes DEF Unbound
<1>4. k[1] \in seats
  BY <1>2, <1>3, DispatchOf DEF Base
<1>5. \/ sources'[k] = sources[k]
      \/ event.t = "Cancelled" /\ sources'[k] = sources[k] \ {event.offer}
  BY <1>2, <1>3, DispatchOf DEF Base
<1>6. pipes[k] \in sources[k] /\ event # CancelledEv(pipes[k]) => pipes[k] \in sources'[k]
  BY <1>1, <1>5, EventForms
<1>7. event # GlobalRemove(k[1]) /\ event # Finished(k[1])
  <2> SUFFICES ASSUME event = GlobalRemove(k[1]) \/ event = Finished(k[1])
               PROVE  FALSE
    OBVIOUS
  <2>1. event.t \in {"GlobalRemove", "Finished"} /\ event.seat = k[1]
    BY SeatShapes, KeyTypes
  <2>2. RemoveSeat
    BY <2>1 DEF Dispatch, AddSeat, NewOffer, NewSelection, OwnPipe, SourceCancelled, RoundtripDone,
                Receiving, event
  <2>3. seats' = seats \ {k[1]}
    BY <1>4, <2>1, <2>2 DEF RemoveSeat
  <2> QED
    BY <1>2, <2>3
<1>8. CASE event.t \in {"Global", "GlobalRemove", "Finished"}
  <2>1. event.seat # k[1]
    <3>1. event = SeatEv(event.t, event.seat)
      BY <1>1, <1>8, EventForms
    <3> QED
      BY <1>3, <1>7, <1>8, <3>1 DEF Global, GlobalRemove, Finished
  <2>2. AddSeat \/ RemoveSeat
    BY <1>8 DEF Dispatch, NewOffer, NewSelection, OwnPipe, SourceCancelled, RoundtripDone, Receiving, event
  <2>3. gotNew'[k] = gotNew[k] /\ state'[k] = state[k]
    BY <2>1, <2>2 DEF AddSeat, RemoveSeat, ResetSeat
  <2> QED
    BY <1>2, <1>4, <1>6, <1>7, <1>8, <2>3, EventShapes DEF PipesCurrent, Tellings
<1>9. CASE event.t = "Selection"
  <2>1. NewSelection /\ event.key \in Key
    BY <1>1, <1>9, EventFields
       DEF Dispatch, AddSeat, RemoveSeat, NewOffer, OwnPipe, SourceCancelled, RoundtripDone, Receiving, event
  <2>2. gotNew'[k] = gotNew[k] /\ state'[k] = state[k] /\ event.key # k
    <3>1. CASE event.key # k
      BY <1>1, <2>1, <3>1 DEF NewSelection, Flagged
    <3>2. CASE event.key = k
      <4>1. ~IsEnabled(k)
        <5> SUFFICES ASSUME IsEnabled(k)
                     PROVE  FALSE
          OBVIOUS
        <5>1. gotNew' = [gotNew EXCEPT ![k] = TRUE]
          BY <1>4, <2>1, <3>2 DEF NewSelection, Flagged
        <5> QED
          BY <1>1, <1>2, <5>1
      <4>2. gotNew'[k] = gotNew[k] /\ PipesCurrent(k)
        <5>1. gotNew' = gotNew
          BY <2>1, <3>2, <4>1 DEF NewSelection
        <5> QED
          BY <1>2, <1>4, <5>1 DEF PipesCurrent
      <4>3. state[k].tag = "ReadMimes"
        BY <4>2 DEF Base, RoundtripKeepsReadMimes, IsReading
      <4>4. state[k].tag = "WaitingForNewOffers"
        BY <4>1, StateFacts DEF Base, IsEnabled, Waiting, SelectionState
      <4> QED
        BY <4>3, <4>4
    <3> QED
      BY <3>1, <3>2
  <2> QED
    BY <1>2, <1>4, <1>6, <1>7, <1>9, <2>2, EventShapes DEF PipesCurrent, Tellings
<1>10. CASE event.t = "Send"
  <2>1. OwnPipe /\ event.offer.key \in Key
    BY <1>1, <1>10, EventFields, SourceFields
       DEF Dispatch, AddSeat, RemoveSeat, NewOffer, NewSelection, SourceCancelled, RoundtripDone, Receiving, event
  <2>2. gotNew' = gotNew /\ (state' = state \/ state' = [state EXCEPT ![event.offer.key].own = TRUE])
    BY <2>1 DEF OwnPipe
  <2>3. PipesCurrent(k)
    BY <1>2, <1>4, <2>2 DEF PipesCurrent
  <2>4. state[k].own => state'[k].own
    BY <1>1, <2>1, <2>2 DEF StateRec
  <2>5. ASSUME event = SendEv(pipes[k]), pipes[k].key = k, pipes[k] \in sources[k]
        PROVE  state'[k].own
    <3>1. event.offer = pipes[k]
      BY <2>5, EventShapes
    <3>2. IsOwnPipe(k, pipes[k])
      BY <2>3, <2>5 DEF IsOwnPipe, Base, RoundtripKeepsReadMimes
    <3>3. state' = [state EXCEPT ![k].own = TRUE]
      BY <2>1, <2>5, <3>1, <3>2 DEF OwnPipe
    <3> QED
      BY <1>1, <3>3 DEF StateRec
  <2> QED
    BY <1>2, <1>6, <1>7, <1>10, <2>3, <2>4, <2>5 DEF Tellings
<1>11. CASE event.t \in {"DataOffer", "Cancelled", "Done"}
  <2>1. NewOffer \/ SourceCancelled \/ RoundtripDone
    BY <1>11 DEF Dispatch, AddSeat, RemoveSeat, NewSelection, OwnPipe, Receiving, event
  <2>2. UNCHANGED <<gotNew, state>>
    BY <2>1 DEF NewOffer, SourceCancelled, RoundtripDone
  <2> QED
    BY <1>2, <1>4, <1>6, <1>7, <1>11, <2>2, EventShapes DEF PipesCurrent, Tellings
<1> QED
  BY <1>1, <1>8, <1>9, <1>10, <1>11 DEF Event

LEMMA DispatchDetected ==
    ASSUME Base, WireInv, SourceInv, Dispatch
    PROVE  OwnDetected'
<1>1. /\ wire # <<>> /\ wire \in Seq(Event) /\ wire' = Tail(wire) /\ event = Head(wire)
      /\ Within(reqs) \subseteq Within(reqs') /\ pipes' = pipes /\ (pc' = "roundtrip" => pc = "roundtrip")
      /\ \A r \in Within(reqs) : r \in Within(reqs')
  BY DispatchFacts DEF Base
<1> SUFFICES ASSUME NEW k \in Key, pc = "roundtrip", PipesCurrent(k)', pipes[k].own, ~state'[k].own
             PROVE  \/ \E r \in Within(reqs') : r.t = "Roundtrip" /\ pipes[k] \in r.offers
                    \/ ~replied' /\ Evidence(k)'
  BY <1>1 DEF OwnDetected
<1>2. /\ PipesCurrent(k) /\ pipes[k] \in Source
      /\ event \notin Tellings(k) /\ event # GlobalRemove(k[1]) /\ event # Finished(k[1])
      /\ ~state[k].own
      /\ pipes[k] \in sources[k] /\ event # CancelledEv(pipes[k]) => pipes[k] \in sources'[k]
      /\ event = SendEv(pipes[k]) /\ pipes[k].key = k => pipes[k] \notin sources[k]
  BY DispatchCurrent
<1>3. pipes[k].key = k
  <2>1. state[k].tag \in Holding /\ state[k].offer = pipes[k]
    BY <1>2 DEF Base, RoundtripKeepsReadMimes, IsReading, Holding
  <2> QED
    BY <2>1 DEF WireInv, TellInv, StateLatest
<1>4. CASE \E r \in Within(reqs) : r.t = "Roundtrip" /\ pipes[k] \in r.offers
  BY <1>1, <1>4
<1>5. CASE ~replied /\ Evidence(k)
  <2>1. \A e : Ahead(wire, e, {DoneEv}) => event # DoneEv /\ (event = e \/ Ahead(wire', e, {DoneEv}))
    BY <1>1, AheadTail
  <2>2. \A e, x : Ahead(wire, e, {DoneEv, x}) =>
            event # DoneEv /\ event # x /\ (event = e \/ Ahead(wire', e, {DoneEv, x}))
    <3> TAKE e, x
    <3>1. Ahead(wire, e, {DoneEv, x}) =>
            event \notin {DoneEv, x} /\ (event = e \/ Ahead(wire', e, {DoneEv, x}))
      BY <1>1, AheadTail
    <3> QED
      BY <3>1
  <2>3. event # DoneEv => replied' = replied
    <3>1. event \in Event
      BY DispatchFacts DEF Base
    <3> QED
      BY <1>1, <3>1, EventForms
         DEF Dispatch, AddSeat, RemoveSeat, NewOffer, NewSelection, OwnPipe, SourceCancelled, RoundtripDone,
             Receiving, event
  <2>4. \/ \E e \in Tellings(k) : Ahead(wire', e, {DoneEv})
        \/ Ahead(wire', GlobalRemove(k[1]), {DoneEv})
        \/ Ahead(wire', Finished(k[1]), {DoneEv})
        \/ pipes[k] \in sources'[k] /\ Ahead(wire', SendEv(pipes[k]), {DoneEv, CancelledEv(pipes[k])})
    BY <1>2, <1>3, <1>5, <2>1, <2>2 DEF Evidence
  <2>5. event # DoneEv
    BY <1>5, <2>1, <2>2 DEF Evidence
  <2>6. Evidence(k)'
    BY <1>1, <2>4 DEF Evidence, Tellings, Event, GlobalRemove, Finished, SeatEv, SendEv, CancelledEv, DoneEv
  <2> QED
    BY <1>5, <2>3, <2>5, <2>6
<1> QED
  BY <1>2, <1>4, <1>5 DEF SourceInv, OwnDetected

LEMMA DispatchSources == Base /\ WireInv /\ SourceInv /\ Dispatch => SourceInv'
BY DispatchUnused, DispatchKept, DispatchDetected DEF SourceInv

-----------------------------------------------------------------------------
(* What the client does without an event.                                  *)

LEMMA ResolveForeign ==
    ASSUME Base, WireInv, SourceInv, Resolve
    PROVE  ReadsForeign'
<1>1. replied /\ pc = "roundtrip" /\ reqs \in Seq(Request)
  BY DEF Resolve, Base, TypeOK
<1>2. \A r \in Within(reqs) : r.t # "Roundtrip"
  <2>1. Within(reqs) \subseteq Request
    BY <1>1, WithinType
  <2> QED
    BY <1>1, <2>1 DEF WireInv, RoundtripInv, Roundtrips
<1>3. ASSUME NEW k \in Key, Resolved(k).tag \in {"GotPipes", "GotData"}
      PROVE  ~Resolved(k).offer.own
  <2>1. CASE Resolved(k) = state[k]
    BY <1>3, <2>1 DEF SourceInv, ReadsForeign
  <2>2. CASE PipesCurrent(k) /\ ~state[k].own /\ Resolved(k) = GotPipes(pipes[k])
    <3>1. ~pipes[k].own
      BY <1>1, <1>2, <2>2 DEF SourceInv, OwnDetected
    <3> QED
      BY <2>2, <3>1, StateTags
  <2> QED
    BY <1>3, <2>1, <2>2, WaitingSettled DEF Resolved
<1> QED
  BY <1>3 DEF ReadsForeign, Resolve

LEMMA HandleDetected ==
    ASSUME Base, Handle
    PROVE  OwnDetected'
<1> SUFFICES ASSUME NEW k \in Key, pc' = "roundtrip", PipesCurrent(k)'
             PROVE  \E r \in Within(reqs') : r.t = "Roundtrip" /\ pipes'[k] \in r.offers
  BY DEF OwnDetected
<1>1. PICK failed : LET got == {j \in Key : IsReading(j)} \ failed
                    IN /\ pipes' = [j \in Key |-> IF j \in got THEN state[j].offer ELSE None]
                       /\ reqs' = Append(reqs, RoundtripReq({state[j].offer : j \in got}))
  BY DEF Handle
<1> DEFINE got == {j \in Key : IsReading(j)} \ failed
           os == {state[j].offer : j \in got}
           r == RoundtripReq(os)
<1>2. k \in got /\ pipes'[k] \in os
  BY <1>1 DEF PipesCurrent
<1>3. r \in Request
  <2>1. os \subseteq Source
    BY StateFacts DEF Base, IsReading
  <2> QED
    BY <2>1, RequestTypes
<1>4. r.t = "Roundtrip" /\ r.offers = os
  BY RequestShapes
<1>5. reqs' = Append(reqs, r)
  BY <1>1
<1> HIDE DEF r, os, got
<1>6. r \in Within(reqs')
  <2>1. reqs \in Seq(Request)
    BY DEF Base, TypeOK
  <2>2. Append(reqs, r) = reqs \o <<r>>
    BY <1>3, <2>1
  <2> QED
    BY <1>3, <1>5, <2>1, <2>2, WithinAppend
<1> QED
  BY <1>2, <1>4, <1>6

LEMMA InwardSources == Base /\ WireInv /\ SourceInv /\ Inward => SourceInv'
<1> SUFFICES ASSUME Base, WireInv, SourceInv, Inward
             PROVE  SourceInv'
  OBVIOUS
<1>1. /\ UNCHANGED <<wire, seats, sources, latest, taken, sel, bound>>
      /\ Requests({"Roundtrip"}) /\ reqs \in Seq(Request)
      /\ \A k \in Key : state'[k].tag \in Holding =>
            state[k].tag \in Holding /\ state'[k].offer = state[k].offer
  BY InwardFacts DEF Base, TypeOK, server
<1>2. /\ \A o : SetReq(o) \in Within(reqs') <=> SetReq(o) \in Within(reqs)
      /\ \A o : Once(reqs, {SetReq(o)}) => Once(reqs', {SetReq(o)})
  BY <1>1, RequestsFacts, RequestShapes
<1>3. /\ Unused /\ PendingNew /\ CancelledGone /\ ToldOnce /\ NotTaken
      /\ SetKept /\ OwnKept /\ KeptCurrent /\ ReadsForeign
  BY DEF SourceInv
<1>4. Unused' /\ CancelledGone' /\ ToldOnce' /\ NotTaken'
  BY <1>1, <1>2, <1>3 DEF Unused, CancelledGone, ToldOnce, NotTaken, SetReq, CancelledEv, SelectionEv
<1>5. PendingNew'
  <2>1. \A o \in Source : SetReq(o)' = SetReq(o) /\ CancelledEv(o)' = CancelledEv(o) /\ SelectionEv(o.key, o)' = SelectionEv(o.key, o)
    BY DEF SetReq, CancelledEv, SelectionEv
  <2> QED
    BY <1>1, <1>2, <1>3, <2>1 DEF PendingNew
<1>6. SetKept' /\ OwnKept' /\ KeptCurrent'
  BY <1>1, <1>2, <1>3 DEF SetKept, OwnKept, KeptCurrent, SetReq, CancelledEv
<1>7. ReadsForeign'
  <2>1. CASE Resolve
    BY <2>1, ResolveForeign
  <2>2. CASE EndDispatch \/ Flush
    BY <1>3, <2>2 DEF EndDispatch, Flush, ReadsForeign
  <2>3. CASE Handle
    <3>1. \A k \in Key : state'[k] = state[k] \/ state'[k] = Waiting
      BY <2>3 DEF Handle, Collected
    <3> QED
      BY <1>3, <3>1, WaitingSettled DEF ReadsForeign
  <2>4. ASSUME NEW k \in Key, PipesEnd(k)
        PROVE  ReadsForeign'
    <3>1. /\ state[k].tag = "GotPipes" /\ state \in [Key -> StateRec]
          /\ state' = [state EXCEPT ![k] = Waiting] \/ state' = [state EXCEPT ![k] = GotData(state[k].offer)]
      BY <2>4, PipesEndFacts DEF Base, TypeOK, StateOK
    <3>2. \A j \in Key : state'[j] = state[j] \/ state'[j] = Waiting \/ (j = k /\ state'[j] = GotData(state[k].offer))
      BY <3>1
    <3> QED
      BY <1>3, <3>1, <3>2, WaitingSettled, StateTags DEF ReadsForeign
  <2> QED
    BY <2>1, <2>2, <2>3, <2>4 DEF Inward
<1>8. OwnDetected'
  <2>1. CASE Handle
    BY <2>1, HandleDetected
  <2>2. CASE ~Handle
    <3>1. pc' # "roundtrip"
      BY <2>2, PipesEndFacts DEF Inward, EndDispatch, Resolve, Flush
    <3> QED
      BY <3>1 DEF OwnDetected
  <2> QED
    BY <2>1, <2>2
<1> QED
  BY <1>4, <1>5, <1>6, <1>7, <1>8 DEF SourceInv

LEMMA SameSource ==
    ASSUME NEW o \in Source, NEW p \in Source, o.own = p.own, o.key = p.key, o.copy = p.copy
    PROVE  o = p
BY DEF Source

(* What the client takes over is new. *)
LEMMA TakesNew ==
    ASSUME Base, WireInv, SourceInv, NEW k \in Key, TakesOver(k)
    PROVE  /\ latest[k] = state[k].offer /\ state[k].offer \in Source /\ state[k].offer.key = k /\ ~state[k].offer.own
           /\ state[k].offer.copy \notin Within(taken[k]) /\ ~ShouldIgnore(state[k].offer) /\ IsEnabled(k)
           /\ Taken(k) \in Source /\ Taken(k).own /\ Taken(k).key = k /\ Taken(k).copy = state[k].offer.copy
           /\ SelectionEv(k, Taken(k)) \notin Within(wire) /\ CancelledEv(Taken(k)) \notin Within(wire)
           /\ SetReq(Taken(k)) \notin Within(reqs) /\ latest[k] # Taken(k) /\ sel[k] # Taken(k)
           /\ pc # "roundtrip"
<1>1. /\ state[k].tag \in {"GotPipes", "GotData"} /\ state[k].offer \in Source /\ Taken(k) \in Source
      /\ state[k].tag \in Holding
  BY TakesOverFacts DEF Base, Holding
<1>2. IsEnabled(k)
  BY <1>1, StateFacts, StateTags DEF Base, IsEnabled
<1>3. latest[k] = state[k].offer /\ state[k].offer.key = k /\ ~ShouldIgnore(state[k].offer)
  BY <1>1 DEF WireInv, TellInv, StateLatest
<1>4. ~state[k].offer.own /\ state[k].offer.copy \notin Within(taken[k])
  BY <1>1 DEF SourceInv, ReadsForeign, NotTaken
<1>5. Taken(k).own /\ Taken(k).key = k /\ Taken(k).copy = state[k].offer.copy
  BY DEF Taken, Own
<1> QED
  BY <1>1, <1>2, <1>3, <1>4, <1>5 DEF SourceInv, Unused, TakesOver, Store, PipesRead

LEMMA TakesOverSources ==
    ASSUME Base, WireInv, SourceInv, NEW k \in Key, TakesOver(k)
    PROVE  SourceInv'
<1> DEFINE o == state[k].offer
           x == Taken(k)
<1>1. /\ latest[k] = o /\ o \in Source /\ o.key = k /\ ~o.own /\ o.copy \notin Within(taken[k])
      /\ x \in Source /\ x.own /\ x.key = k /\ x.copy = o.copy
      /\ SelectionEv(k, x) \notin Within(wire) /\ CancelledEv(x) \notin Within(wire)
      /\ SetReq(x) \notin Within(reqs) /\ latest[k] # x /\ sel[k] # x
      /\ pc # "roundtrip"
  BY TakesNew
<1>2. /\ sources' = [sources EXCEPT ![k] = @ \cup {x}]
      /\ state' = [state EXCEPT ![k] = Waiting]
      /\ reqs' = Append(reqs, SetReq(x)) /\ SetReq(x) \in Request
      /\ Within(reqs') = Within(reqs) \cup {SetReq(x)}
      /\ Within(taken'[k]) = Within(taken[k]) \cup {o.copy}
      /\ \A j \in Key : j # k => taken'[j] = taken[j]
      /\ UNCHANGED <<pc, seats, latest, sel, bound, wire>>
  BY TakesOverFacts DEF Base, server
<1>3. /\ state \in [Key -> StateRec] /\ sources \in [Key -> SUBSET Source] /\ reqs \in Seq(Request)
  BY DEF Base, TypeOK, StateOK
<1>4. \A y : SetReq(y) \in Within(reqs') <=> SetReq(y) \in Within(reqs) \/ y = x
  BY <1>2, RequestShapes
<1>5. /\ Unused /\ PendingNew /\ CancelledGone /\ ToldOnce /\ NotTaken
      /\ SetKept /\ OwnKept /\ KeptCurrent /\ ReadsForeign
  BY DEF SourceInv
<1>6. \A y \in Source : SetReq(y)' = SetReq(y) /\ CancelledEv(y)' = CancelledEv(y)
                        /\ \A j \in Key : SelectionEv(j, y)' = SelectionEv(j, y)
  BY DEF SetReq, CancelledEv, SelectionEv
<1> HIDE DEF o, x
<1>7. Unused'
  <2>1. ASSUME NEW j \in Key, NEW y \in Source, y.own, y.key = j, y.copy \notin Within(taken'[j])
        PROVE  /\ SelectionEv(j, y) \notin Within(wire) /\ CancelledEv(y) \notin Within(wire)
               /\ SetReq(y) \notin Within(reqs') /\ latest[j] # y /\ sel[j] # y
    <3>1. y.copy \notin Within(taken[j]) /\ y # x
      BY <1>1, <1>2, <2>1
    <3> QED
      BY <1>4, <1>5, <2>1, <3>1 DEF Unused
  <2> QED
    BY <1>2, <1>6, <2>1 DEF Unused
<1>8. PendingNew'
  <2>1. ASSUME NEW y \in Source
        PROVE  Once(reqs', {SetReq(y)})
    <3>1. <<SetReq(x)>> \in Seq(Request) /\ reqs' = reqs \o <<SetReq(x)>>
      BY <1>2, <1>3
    <3>2. Once(reqs, {SetReq(y)}) /\ Once(<<SetReq(x)>>, {SetReq(y)})
      BY <1>5, OnceFew DEF PendingNew
    <3>3. Within(reqs) \cap {SetReq(y)} = {} \/ Within(<<SetReq(x)>>) \cap {SetReq(y)} = {}
      BY <1>1, WithinOne, RequestShapes
    <3> DEFINE q == <<SetReq(x)>>
    <3>4. q \in Seq(Request) /\ Once(q, {SetReq(y)}) /\ (Within(reqs) \cap {SetReq(y)} = {} \/ Within(q) \cap {SetReq(y)} = {})
      BY <3>1, <3>2, <3>3
    <3> HIDE DEF q
    <3>5. Once(reqs \o q, {SetReq(y)})
      BY <1>3, <3>2, <3>4, OnceConcat
    <3> QED
      BY <3>1, <3>5 DEF q
  <2>2. ASSUME NEW y \in Source, SetReq(y) \in Within(reqs')
        PROVE  /\ y.own /\ CancelledEv(y) \notin Within(wire) /\ SelectionEv(y.key, y) \notin Within(wire)
               /\ sel[y.key] # y /\ latest[y.key] # y
    BY <1>1, <1>4, <1>5, <2>2 DEF PendingNew
  <2> QED
    BY <1>2, <1>6, <2>1, <2>2, SourceFields DEF PendingNew
<1>9. CancelledGone' /\ ToldOnce' /\ OwnKept'
  BY <1>2, <1>3, <1>5, <1>6 DEF CancelledGone, ToldOnce, OwnKept
<1>10. NotTaken'
  <2>1. ASSUME NEW j \in Key, NEW y \in Source, SelectionEv(j, y) \in Within(wire), ~y.own
        PROVE  y.copy \notin Within(taken'[j])
    <3>1. y.copy \notin Within(taken[j]) /\ latest[j] # y
      BY <1>5, <2>1 DEF NotTaken, ToldOnce
    <3>2. y.key = j
      BY <2>1, EventShapes, SourceFields DEF WireInv, TellInv, WireKeys
    <3>3. j = k => y.copy # o.copy
      BY <1>1, <2>1, <3>1, <3>2, SameSource, SourceFields
    <3> QED
      BY <1>2, <3>1, <3>3
  <2>2. ASSUME NEW j \in Key, state'[j].tag \in Holding, ~state'[j].offer.own
        PROVE  state'[j].offer.copy \notin Within(taken'[j])
    <3>1. j # k /\ state'[j] = state[j]
      BY <1>2, <1>3, <2>2, StateTags
    <3> QED
      BY <1>2, <1>5, <2>2, <3>1 DEF NotTaken
  <2> QED
    BY <1>2, <1>6, <2>1, <2>2 DEF NotTaken
<1>11. SetKept' /\ KeptCurrent'
  <2>1. ASSUME NEW y \in Source, SetReq(y) \in Within(reqs'), y.key[1] \in seats
        PROVE  y \in sources'[y.key]
    BY <1>1, <1>2, <1>3, <1>4, <1>5, <2>1, SourceFields DEF SetKept
  <2>2. ASSUME NEW j \in Key, NEW y \in sources'[j]
        PROVE  /\ y.key = j /\ y.own
               /\ bound[j[1]] => sel[j] = y \/ SetReq(y) \in Within(reqs') \/ CancelledEv(y) \in Within(wire)
    <3>1. y \in sources[j] \/ (j = k /\ y = x)
      BY <1>2, <1>3, <2>2
    <3> QED
      BY <1>1, <1>4, <1>5, <3>1 DEF KeptCurrent
  <2> QED
    BY <1>2, <2>1, <2>2 DEF SetKept, KeptCurrent, SetReq, CancelledEv
<1>12. ReadsForeign' /\ OwnDetected'
  <2>1. \A j \in Key : state'[j] = state[j] \/ state'[j] = Waiting
    BY <1>2, <1>3
  <2> QED
    BY <1>1, <1>2, <1>5, <2>1, WaitingSettled DEF ReadsForeign, OwnDetected
<1> QED
  BY <1>7, <1>8, <1>9, <1>10, <1>11, <1>12 DEF SourceInv

(* A connection starts without sources. *)
LEMMA QuietSources ==
    ASSUME wire = <<>>, reqs = <<>>, pc = "wait", \A s \in Seats : ~bound[s],
           \A k \in Key : /\ latest[k] = None /\ taken[k] = <<>> /\ sources[k] = {} /\ state[k] = Waiting
                          /\ sel[k] # None => ~sel[k].own
    PROVE  SourceInv
<1>1. Within(wire) = {} /\ Within(reqs) = {} /\ (\A T : Once(wire, T) /\ Once(reqs, T)) /\ \A k \in Key : Within(taken[k]) = {}
  BY EmptyQueue
<1>2. Unused /\ PendingNew /\ CancelledGone /\ ToldOnce
  BY <1>1, SourceFields DEF Unused, PendingNew, CancelledGone, ToldOnce
<1>3. NotTaken /\ SetKept /\ KeptCurrent /\ ReadsForeign /\ OwnDetected
  BY <1>1, StateTags, WaitingSettled DEF NotTaken, SetKept, KeptCurrent, ReadsForeign, OwnDetected
<1>4. OwnKept
  BY KeyTypes DEF OwnKept
<1> QED
  BY <1>2, <1>3, <1>4 DEF SourceInv

LEMMA InitSources == Init => SourceInv
<1> SUFFICES ASSUME Init
             PROVE  SourceInv
  OBVIOUS
<1>1. /\ wire = <<>> /\ reqs = <<>> /\ pc = "wait" /\ \A s \in Seats : ~bound[s]
      /\ \A k \in Key : /\ latest[k] = None /\ taken[k] = <<>> /\ sources[k] = {} /\ state[k] = Waiting
                        /\ sel[k] # None => ~sel[k].own
  BY DEF Init
<1> QED
  BY <1>1, QuietSources

LEMMA ReconnectSources == Reconnect => SourceInv'
<1> SUFFICES ASSUME Reconnect
             PROVE  SourceInv'
  OBVIOUS
<1>1. /\ wire' = <<>> /\ reqs' = <<>> /\ pc' = "wait" /\ \A s \in Seats : ~bound'[s]
      /\ \A k \in Key : /\ latest'[k] = None /\ taken'[k] = <<>> /\ sources'[k] = {} /\ state'[k] = Waiting
                        /\ sel'[k] # None => ~sel'[k].own
  BY DEF Reconnect, NewState, DropClient, RestartCompositor
<1>2. /\ Within(wire') = {} /\ Within(reqs') = {} /\ (\A T : Once(wire', T) /\ Once(reqs', T))
      /\ \A k \in Key : Within(taken'[k]) = {}
  BY <1>1, EmptyQueue
<1>3. Unused' /\ PendingNew' /\ CancelledGone' /\ ToldOnce'
  BY <1>1, <1>2, SourceFields DEF Unused, PendingNew, CancelledGone, ToldOnce
<1>4. NotTaken' /\ SetKept' /\ KeptCurrent' /\ ReadsForeign' /\ OwnDetected'
  BY <1>1, <1>2, StateTags, WaitingSettled DEF NotTaken, SetKept, KeptCurrent, ReadsForeign, OwnDetected
<1>5. OwnKept'
  BY <1>1, KeyTypes DEF OwnKept
<1> QED
  BY <1>3, <1>4, <1>5 DEF SourceInv

LEMMA NextSources == Base /\ WireInv /\ SourceInv /\ [Next]_vars => SourceInv'
<1> SUFFICES ASSUME Base, WireInv, SourceInv, [Next]_vars
             PROVE  SourceInv'
  OBVIOUS
<1>1. CASE UNCHANGED vars
  <2>1. UNCHANGED <<pc, seats, state, gotNew, sources, pipes, replied, latest, taken, sel, bound, wire, reqs>>
    BY <1>1 DEF vars, client, server
  <2>2. Unused' /\ PendingNew' /\ CancelledGone' /\ ToldOnce' /\ NotTaken'
    BY <2>1 DEF SourceInv, Unused, PendingNew, CancelledGone, ToldOnce, NotTaken, SetReq, CancelledEv, SelectionEv
  <2>3. SetKept' /\ OwnKept' /\ KeptCurrent' /\ ReadsForeign'
    BY <2>1 DEF SourceInv, SetKept, OwnKept, KeptCurrent, ReadsForeign, SetReq, CancelledEv
  <2>4. OwnDetected'
    BY <2>1 DEF SourceInv, OwnDetected, Evidence, Tellings, PipesCurrent, CancelledEv, SelectionEv, SendEv, DoneEv,
                GlobalRemove, Finished, SeatEv, Event
  <2> QED
    BY <2>2, <2>3, <2>4 DEF SourceInv
<1> QED
  BY <1>1, StepCases, DispatchSources, InwardSources, TakesOverSources, OutsideSources, ReconnectSources

LEMMA AlwaysSources == Spec => [](Base /\ WireInv /\ SourceInv)
<1>1. Init => Base /\ WireInv /\ SourceInv
  BY InitBase, InitTells, InitSeatInv, InitRoundtrip, InitIntroduced, InitTold, InitSources DEF WireInv
<1>2. Base /\ WireInv /\ SourceInv /\ [Next]_vars => (Base /\ WireInv /\ SourceInv)'
  BY NextBase, NextWire, NextSources
<1> QED
  BY <1>1, <1>2, PTL DEF Spec

-----------------------------------------------------------------------------
(* What follows for the client's sources and offers.                       *)

(* Our sources are the compositor's: neither side keeps one that the other *)
(* has given up, unless the request or the event that says so is under way.*)
THEOREM SourcesAgree == Spec => []SourcesMatchServer
<1>1. Base /\ WireInv /\ SourceInv => SourcesMatchServer
  <2> SUFFICES ASSUME Base, WireInv, SourceInv, NEW k \in Key, bound[k[1]]
               PROVE  /\ \/ sel[k] = None \/ ~sel[k].own
                         \/ sel[k] \in sources[k]
                         \/ \E i \in 1 .. Len(reqs) : reqs[i] = SeatReq("Destroy", k[1])
                      /\ \A s \in sources[k] :
                            \/ sel[k] = s
                            \/ \E i \in 1 .. Len(reqs) : reqs[i] = SetReq(s)
                            \/ \E i \in 1 .. Len(wire) : wire[i] = CancelledEv(s)
    BY DEF SourcesMatchServer
  <2>1. k[1] \notin seats => \E i \in 1 .. Len(reqs) : reqs[i] = SeatReq("Destroy", k[1])
    BY KeyTypes DEF WireInv, SeatInv, SeatAgreed, Destroy, Within
  <2>2. k[1] \in seats => sel[k] = None \/ ~sel[k].own \/ sel[k] \in sources[k]
    BY DEF SourceInv, OwnKept
  <2>3. \A s \in sources[k] : sel[k] = s \/ SetReq(s) \in Within(reqs) \/ CancelledEv(s) \in Within(wire)
    BY DEF SourceInv, KeptCurrent
  <2> QED
    BY <2>1, <2>2, <2>3 DEF Within
<1> QED
  BY <1>1, AlwaysSources, PTL

(* A pending offer has no other owner, for its Selection event is still to *)
(* come; nor has one that is being read, for that of its key came last.    *)
LEMMA OneOwner ==
    ASSUME Base, WireInv, SourceInv
    PROVE  /\ \A s \in Seats : \A o \in offers[s] : o.key[1] = s /\ o # None /\ \A k \in Key : o \notin Held(k)
           /\ \A k \in Key : \A o \in Held(k) : o.key = k /\ o # None
<1>1. ASSUME NEW k \in Key, NEW o \in Held(k)
      PROVE  o.key = k /\ o # None /\ latest[k] = o
  <2>1. IsReading(k) /\ o = state[k].offer
    BY <1>1 DEF Held
  <2>2. state[k].tag \in Holding /\ o \in Source
    BY <2>1, StateFacts DEF IsReading, Holding, Base
  <2> QED
    BY <2>1, <2>2, SourceFields DEF WireInv, TellInv, StateLatest
<1>2. ASSUME NEW s \in Seats, NEW o \in offers[s]
      PROVE  o.key[1] = s /\ o # None /\ latest[o.key] # o
  <2>1. o.key[1] = s /\ OnWire(SelectionEv(o.key, o))
    BY DEF Base, DataInv, PendingTold
  <2>2. o \in Source /\ SelectionEv(o.key, o) \in Within(wire)
    BY <2>1 DEF Base, TypeOK, OnWire, Within
  <2> QED
    BY <2>1, <2>2, SourceFields DEF SourceInv, ToldOnce
<1> QED
  BY <1>1, <1>2

Owned == objects = (UNION {offers[s] : s \in Seats}) \cup (UNION {Held(k) : k \in Key})

(* The same, object by object. *)
LEMMA OwnedEach ==
    /\ Owned <=> \A o : o \in objects <=> (\E s \in Seats : o \in offers[s]) \/ (\E k \in Key : o \in Held(k))
    /\ Owned' <=> \A o : o \in objects' <=> (\E s \in Seats : o \in offers'[s]) \/ (\E k \in Key : o \in Held(k)')
<1> DEFINE Y == UNION {offers[s] : s \in Seats}
           Z == UNION {Held(k) : k \in Key}
           P == UNION {offers'[s] : s \in Seats}
           Q == UNION {Held(k)' : k \in Key}
<1>1. /\ \A o : o \in Y <=> \E s \in Seats : o \in offers[s]
      /\ \A o : o \in Z <=> \E k \in Key : o \in Held(k)
      /\ \A o : o \in P <=> \E s \in Seats : o \in offers'[s]
      /\ \A o : o \in Q <=> \E k \in Key : o \in Held(k)'
  OBVIOUS
<1>2. (Owned <=> objects = Y \cup Z) /\ (Owned' <=> objects' = P \cup Q)
  BY DEF Owned
<1> HIDE DEF Y, Z, P, Q
<1>3. objects = Y \cup Z <=> \A o : o \in objects <=> o \in Y \/ o \in Z
  OBVIOUS
<1>4. objects' = P \cup Q <=> \A o : o \in objects' <=> o \in P \/ o \in Q
  OBVIOUS
<1> QED
  BY <1>1, <1>2, <1>3, <1>4

LEMMA SameOwned ==
    ASSUME Owned, UNCHANGED <<objects, offers>>, \A k \in Key : Held(k)' = Held(k)
    PROVE  Owned'
BY OwnedEach

LEMMA ResetOwned ==
    ASSUME Base, WireInv, SourceInv, Owned, NEW s \in Seats, ResetSeat(s)
    PROVE  Owned'
<1>1. /\ objects' = objects \ (offers[s] \cup UNION {Held(k) : k \in {s} \X SelectionType})
      /\ offers' = [offers EXCEPT ![s] = {}] /\ offers \in [Seats -> SUBSET Source]
      /\ state' = [k \in Key |-> IF k[1] = s THEN Waiting ELSE state[k]]
  BY DEF ResetSeat, Base, TypeOK
<1>2. \A k \in Key : Held(k)' = IF k[1] = s THEN {} ELSE Held(k)
  BY <1>1, WaitingSettled DEF Held, IsReading
<1>3. \A t \in Seats : offers'[t] = IF t = s THEN {} ELSE offers[t]
  BY <1>1
<1>4. \A o : o \in objects' <=> o \in objects /\ o \notin offers[s] /\ \A k \in Key : k[1] = s => o \notin Held(k)
  <2>1. \A k : k \in {s} \X SelectionType <=> k \in Key /\ k[1] = s
    BY DEF Key
  <2> QED
    BY <1>1, <2>1
<1>5. \A o : o \in objects' <=> (\E t \in Seats : o \in offers'[t]) \/ (\E k \in Key : o \in Held(k)')
  <2> TAKE o
  <2>1. o \in objects <=> (\E t \in Seats : o \in offers[t]) \/ (\E k \in Key : o \in Held(k))
    BY OwnedEach
  <2>2. \A t \in Seats : o \in offers[t] => o.key[1] = t /\ \A k \in Key : o \notin Held(k)
    BY OneOwner
  <2>3. \A k \in Key : o \in Held(k) => o.key = k
    BY OneOwner
  <2> QED
    BY <1>2, <1>3, <1>4, <2>1, <2>2, <2>3
<1> QED
  BY <1>5, OwnedEach

LEMMA SelectionOwned ==
    ASSUME Base, WireInv, SourceInv, Owned, NewSelection
    PROVE  Owned'
<1> DEFINE k == event.key
           o == MaybeOffer(k, event.offer)
<1>1. /\ k \in Key /\ event.t = "Selection" /\ event \in Within(wire) /\ k[1] \in Seats
      /\ offers \in [Seats -> SUBSET Source] /\ state \in [Key -> StateRec]
  BY DispatchFacts, EventFields, KeyTypes DEF NewSelection, Receiving, event, Dispatch, Base, TypeOK, StateOK
<1>2. o = None \/ (o \in offers[k[1]] /\ o.key = k)
  BY <1>1 DEF MaybeOffer, WireInv, TellInv, WireKeys
<1>3. CASE k[1] \notin seats
  <2>1. UNCHANGED <<objects, offers, state>>
    BY <1>3 DEF NewSelection
  <2> QED
    BY <2>1, SameOwned DEF Held, IsReading
<1>4. CASE k[1] \in seats
  <2>1. offers' = [offers EXCEPT ![k[1]] = @ \ {o}] /\ objects' = objects \ DestroyedBySelection(k, o)
    BY <1>4 DEF NewSelection, WithoutOffer
  <2>2. state' = IF IsEnabled(k) THEN [state EXCEPT ![k] = SelectedState(o)] ELSE state
    BY <1>4 DEF NewSelection
  <2> HIDE DEF k, o
  <2>3. \A t \in Seats : offers'[t] = IF t = k[1] THEN offers[t] \ {o} ELSE offers[t]
    BY <1>1, <2>1
  <2>4. \A j \in Key : Held(j)' = IF ~IsEnabled(k) \/ j # k THEN Held(j)
                                 ELSE IF o # None /\ ~ShouldIgnore(o) THEN {o} ELSE {}
    <3>1. SelectedState(o).tag = "ReadMimes" <=> o # None /\ ~ShouldIgnore(o)
      BY StateTags DEF SelectedState, Holding
    <3>2. o # None /\ ~ShouldIgnore(o) => SelectedState(o).offer = o
      BY StateTags DEF SelectedState
    <3> QED
      BY <1>1, <2>2, <3>1, <3>2 DEF Held, IsReading
  <2>5. \A x : x \in objects' <=> (\E t \in Seats : x \in offers'[t]) \/ (\E j \in Key : x \in Held(j)')
    <3> TAKE x
    <3>1. x \in objects <=> (\E t \in Seats : x \in offers[t]) \/ (\E j \in Key : x \in Held(j))
      BY OwnedEach
    <3>2. \A t \in Seats : x \in offers[t] => x # None /\ x.key[1] = t /\ \A j \in Key : x \notin Held(j)
      BY OneOwner
    <3>3. \A j \in Key : x \in Held(j) => x # None /\ x.key = j
      BY OneOwner
    <3>4. x \in objects' <=> x \in objects /\ x \notin DestroyedBySelection(k, o)
      BY <2>1
    <3>5. CASE ~IsEnabled(k)
      <4>1. x \in DestroyedBySelection(k, o) <=> x = o
        BY <3>5 DEF DestroyedBySelection
      <4>2. \A j \in Key : Held(j)' = Held(j)
        BY <2>4, <3>5
      <4>3. CASE x = o
        <5>1. \A t \in Seats : x \notin offers'[t]
          BY <1>2, <2>3, <3>2, <4>3
        <5>2. \A j \in Key : x \notin Held(j)
          BY <1>1, <1>2, <3>2, <3>3, <4>3
        <5> QED
          BY <3>4, <4>1, <4>2, <4>3, <5>1, <5>2
      <4>4. CASE x # o
        <5>1. \A t \in Seats : x \in offers'[t] <=> x \in offers[t]
          BY <2>3, <4>4
        <5> QED
          BY <3>1, <3>4, <4>1, <4>2, <4>4, <5>1
      <4> QED
        BY <4>3, <4>4
    <3>6. CASE IsEnabled(k)
      <4>1. x \in DestroyedBySelection(k, o) <=> x \in Held(k) \/ (x = o /\ o # None /\ ShouldIgnore(o))
        BY <3>6 DEF DestroyedBySelection
      <4>2. CASE x = o
        <5>1. \A t \in Seats : x \notin offers'[t]
          BY <1>2, <2>3, <3>2, <4>2
        <5>2. \A j \in Key : x \notin Held(j)
          BY <1>1, <1>2, <3>2, <3>3, <4>2
        <5>3. x \in objects <=> o # None
          BY <1>1, <1>2, <3>1, <3>2, <4>2, <5>2
        <5>4. x \in objects' <=> o # None /\ ~ShouldIgnore(o)
          BY <1>1, <3>4, <4>1, <4>2, <5>2, <5>3
        <5>5. (\E j \in Key : x \in Held(j)') <=> o # None /\ ~ShouldIgnore(o)
          BY <1>1, <2>4, <3>6, <4>2, <5>2
        <5> QED
          BY <5>1, <5>4, <5>5
      <4>3. CASE x # o
        <5>1. \A t \in Seats : x \in offers'[t] <=> x \in offers[t]
          BY <2>3, <4>3
        <5>2. \A j \in Key : x \in Held(j)' <=> j # k /\ x \in Held(j)
          BY <2>4, <3>6, <4>3
        <5>3. x \in objects' <=> x \in objects /\ x \notin Held(k)
          BY <3>4, <4>1, <4>3
        <5>4. x \in Held(k) => (\A t \in Seats : x \notin offers[t]) /\ \A j \in Key : j # k => x \notin Held(j)
          BY <1>1, <3>2, <3>3
        <5> QED
          BY <1>1, <3>1, <5>1, <5>2, <5>3, <5>4
      <4> QED
        BY <4>2, <4>3
    <3> QED
      BY <3>5, <3>6
  <2> QED
    BY <2>5, OwnedEach
<1> QED
  BY <1>3, <1>4

LEMMA DispatchOwned ==
    ASSUME Base, WireInv, SourceInv, Owned, Dispatch
    PROVE  Owned'
<1>1. /\ event \in Event /\ state \in [Key -> StateRec] /\ offers \in [Seats -> SUBSET Source]
  BY DispatchFacts DEF Base, TypeOK, StateOK
<1>2. CASE AddSeat \/ RemoveSeat
  <2>1. event.seat \in Seats
    BY <1>1, <1>2, EventFields DEF AddSeat, RemoveSeat, Receiving, event
  <2>2. ResetSeat(event.seat) \/ UNCHANGED <<objects, offers, state>>
    BY <1>2 DEF AddSeat, RemoveSeat
  <2> QED
    BY <2>1, <2>2, ResetOwned, SameOwned DEF Held, IsReading
<1>3. CASE NewOffer
  <2> DEFINE o == event.offer
             s == o.key[1]
  <2>1. s \in Seats /\ state' = state
    BY <1>1, <1>3, EventFields, SourceFields, KeyTypes DEF NewOffer, Receiving, event
  <2>2. \/ UNCHANGED <<objects, offers>>
        \/ objects' = objects \cup {o} /\ offers' = [offers EXCEPT ![s] = @ \cup {o}]
    BY <1>3 DEF NewOffer
  <2> HIDE DEF o, s
  <2>3. \A k \in Key : Held(k)' = Held(k)
    BY <2>1 DEF Held, IsReading
  <2>4. ASSUME objects' = objects \cup {o}, offers' = [offers EXCEPT ![s] = @ \cup {o}]
        PROVE  Owned'
    <3>1. \A t \in Seats : offers'[t] = IF t = s THEN offers[t] \cup {o} ELSE offers[t]
      BY <1>1, <2>4
    <3>2. \A x : x \in objects <=> (\E t \in Seats : x \in offers[t]) \/ (\E k \in Key : x \in Held(k))
      BY OwnedEach
    <3>3. \A x : x \in objects' <=> (\E t \in Seats : x \in offers'[t]) \/ (\E k \in Key : x \in Held(k)')
      BY <2>1, <2>3, <2>4, <3>1, <3>2
    <3> QED
      BY <3>3, OwnedEach
  <2> QED
    BY <2>2, <2>3, <2>4, SameOwned
<1>4. CASE OwnPipe
  <2>1. event.offer.key \in Key /\ UNCHANGED <<objects, offers>>
    BY <1>1, <1>4, EventFields, SourceFields DEF OwnPipe, Receiving, event
  <2>2. state' = state \/ state' = [state EXCEPT ![event.offer.key].own = TRUE]
    BY <1>4 DEF OwnPipe
  <2>3. \A k \in Key : state'[k].tag = state[k].tag /\ state'[k].offer = state[k].offer
    BY <1>1, <2>1, <2>2 DEF StateRec
  <2> QED
    BY <2>1, <2>3, SameOwned DEF Held, IsReading
<1>5. CASE SourceCancelled \/ RoundtripDone
  <2>1. UNCHANGED <<objects, offers, state>>
    BY <1>5 DEF SourceCancelled, RoundtripDone
  <2> QED
    BY <2>1, SameOwned DEF Held, IsReading
<1> QED
  BY <1>2, <1>3, <1>4, <1>5, SelectionOwned DEF Dispatch

LEMMA HandleOwned ==
    ASSUME Base, WireInv, SourceInv, Owned, Handle
    PROVE  Owned'
<1>1. PICK failed \in SUBSET {k \in Key : IsReading(k)} :
         /\ state' = [k \in Key |-> Collected(k, failed)]
         /\ objects' = objects \ {state[k].offer : k \in failed} /\ UNCHANGED offers
  BY DEF Handle
<1>2. \A k \in Key : Held(k)' = IF k \in failed THEN {} ELSE Held(k)
  BY <1>1, WaitingSettled DEF Held, IsReading, Collected
<1>3. \A k \in failed : k \in Key /\ Held(k) = {state[k].offer}
  BY <1>1 DEF Held
<1>4. \A o : o \in objects' <=> (\E s \in Seats : o \in offers'[s]) \/ (\E k \in Key : o \in Held(k)')
  <2> TAKE o
  <2>1. o \in objects <=> (\E s \in Seats : o \in offers[s]) \/ (\E k \in Key : o \in Held(k))
    BY OwnedEach
  <2>2. o \in objects' <=> o \in objects /\ \A k \in failed : o \notin Held(k)
    BY <1>1, <1>3
  <2> QED
    BY <1>1, <1>2, <1>3, <2>1, <2>2, OneOwner
<1> QED
  BY <1>4, OwnedEach

LEMMA ResolveOwned ==
    ASSUME Base, WireInv, SourceInv, Owned, Resolve
    PROVE  Owned'
<1>1. /\ state' = [k \in Key |-> Resolved(k)] /\ UNCHANGED offers
      /\ objects' = objects \ UNION {Held(k) : k \in {j \in Key : PipesCurrent(j)}}
  BY DEF Resolve
<1>2. \A k \in Key : Held(k)' = IF PipesCurrent(k) THEN {} ELSE Held(k)
  BY <1>1, WaitingSettled, StateTags DEF Held, IsReading, Resolved
<1>3. \A o : o \in objects' <=> (\E s \in Seats : o \in offers'[s]) \/ (\E k \in Key : o \in Held(k)')
  <2> TAKE o
  <2>1. o \in objects <=> (\E s \in Seats : o \in offers[s]) \/ (\E k \in Key : o \in Held(k))
    BY OwnedEach
  <2>2. o \in objects' <=> o \in objects /\ \A k \in Key : PipesCurrent(k) => o \notin Held(k)
    BY <1>1
  <2> QED
    BY <1>1, <1>2, <2>1, <2>2, OneOwner
<1> QED
  BY <1>3, OwnedEach

LEMMA NextOwned ==
    ASSUME Base, WireInv, SourceInv, Owned, [Next]_vars
    PROVE  Owned'
<1>1. ASSUME UNCHANGED <<objects, offers, state>>
      PROVE  Owned'
  BY <1>1, SameOwned DEF Held, IsReading
<1>2. CASE Inward
  <2>1. ASSUME NEW k \in Key, PipesEnd(k)
        PROVE  Owned'
    <3>1. /\ state[k].tag = "GotPipes" /\ UNCHANGED <<objects, offers>> /\ state \in [Key -> StateRec]
          /\ state' = [state EXCEPT ![k] = Waiting] \/ state' = [state EXCEPT ![k] = GotData(state[k].offer)]
      BY <2>1, PipesEndFacts DEF Base, TypeOK, StateOK
    <3>2. \A j \in Key : Held(j)' = Held(j)
      BY <3>1, WaitingSettled, StateTags DEF Held, IsReading
    <3> QED
      BY <3>1, <3>2, SameOwned
  <2>2. CASE EndDispatch \/ Flush
    BY <1>1, <2>2 DEF EndDispatch, Flush
  <2> QED
    BY <1>2, <2>1, <2>2, HandleOwned, ResolveOwned DEF Inward
<1>3. ASSUME NEW k \in Key, TakesOver(k)
      PROVE  Owned'
  <2>1. /\ state[k].tag \in {"GotPipes", "GotData"} /\ state' = [state EXCEPT ![k] = Waiting]
        /\ UNCHANGED <<objects, offers>> /\ state \in [Key -> StateRec]
    BY <1>3, TakesOverFacts DEF Base, TypeOK, StateOK
  <2>2. \A j \in Key : Held(j)' = Held(j)
    BY <2>1, WaitingSettled DEF Held, IsReading
  <2> QED
    BY <2>1, <2>2, SameOwned
<1>4. CASE Outside
  BY <1>1, <1>4, OutsideEffects DEF Effects, client, Base
<1>5. CASE Reconnect
  <2>1. objects' = {} /\ offers' = [s \in Seats |-> {}] /\ state' = [k \in Key |-> Waiting]
    BY <1>5 DEF Reconnect, NewState
  <2>2. \A k \in Key : Held(k)' = {}
    BY <2>1, WaitingSettled DEF Held, IsReading
  <2> QED
    BY <2>1, <2>2, OwnedEach
<1>6. CASE UNCHANGED vars
  BY <1>1, <1>6 DEF vars, client
<1> QED
  BY <1>2, <1>3, <1>4, <1>5, <1>6, StepCases, DispatchOwned

(* Every data_control_offer object of a bound seat has one owner: none     *)
(* leaks, and none is destroyed twice.                                     *)
THEOREM OffersAreOwned == Spec => []OfferOwnership
<1>1. Init => Owned
  <2> SUFFICES ASSUME Init
               PROVE  Owned
    OBVIOUS
  <2>1. objects = {} /\ offers = [s \in Seats |-> {}] /\ state = [k \in Key |-> Waiting]
    BY DEF Init
  <2>2. \A k \in Key : Held(k) = {}
    BY <2>1, WaitingSettled DEF Held, IsReading
  <2> QED
    BY <2>1, <2>2, OwnedEach
<1>2. Base /\ WireInv /\ SourceInv /\ Owned /\ [Next]_vars => Owned'
  BY NextOwned
<1>3. Base /\ WireInv /\ SourceInv /\ Owned => OfferOwnership
  <2> SUFFICES ASSUME Base, WireInv, SourceInv, Owned
               PROVE  OfferOwnership
    OBVIOUS
  <2>1. \A k \in Key : offers[k[1]] \cap Held(k) = {}
    BY OneOwner, KeyTypes
  <2> QED
    BY <2>1 DEF OfferOwnership, Owned
<1> QED
  BY <1>1, <1>2, <1>3, AlwaysSources, PTL DEF Spec

-----------------------------------------------------------------------------
(* What the client takes over.                                             *)

(* Whenever a selection is taken over, it is with the data of the last one *)
(* the client was told of for that seat and type, which an application made*)
(* and which is not filtered, and no pending offer may replace it.         *)
THEOREM TakesLatestOnly == Spec => PersistsLatestOnly
<1>1. ASSUME Base, WireInv, SourceInv, [Next]_vars, NEW k \in Key, Len(taken'[k]) > Len(taken[k])
      PROVE  /\ IsEnabled(k)
             /\ latest[k] # None
             /\ ~latest[k].own
             /\ latest[k].key = k
             /\ ~ShouldIgnore(latest[k])
             /\ sources'[k] = sources[k] \cup {Own(k, latest[k].copy)}
             /\ offers[k[1]] = {}
  <2>1. TypeOK /\ SelOfKey /\ RoundtripKeepsReadMimes /\ taken[k] \in Seq(Copy) /\ sources \in [Key -> SUBSET Source]
    <3>1. TypeOK /\ SelOfKey /\ RoundtripKeepsReadMimes
      BY <1>1 DEF Base
    <3>2. taken \in [Key -> Seq(Copy)] /\ sources \in [Key -> SUBSET Source]
      BY <3>1 DEF TypeOK
    <3> QED
      BY <1>1, <3>1, <3>2
  <2>2. taken'[k] # taken[k] /\ taken'[k] # <<>>
    <3>1. Len(taken[k]) \in Nat
      BY <2>1, LenProperties
    <3>2. Len(<<>>) = 0
      OBVIOUS
    <3>3. ASSUME taken'[k] = <<>>
          PROVE  FALSE
      <4>1. Len(taken'[k]) = 0
        BY <3>2, <3>3
      <4> QED
        BY <1>1, <3>1, <4>1
    <3>4. ASSUME taken'[k] = taken[k]
          PROVE  FALSE
      <4>1. Len(taken'[k]) = Len(taken[k])
        BY <3>4
      <4> QED
        BY <1>1, <3>1, <4>1
    <3> QED
      BY <3>3, <3>4
  <2>3. PICK j \in Key : TakesOver(j)
    <3>1. CASE Dispatch \/ Inward
      <4>1. taken' = taken
        BY <2>1, <3>1, DispatchFacts, InwardFacts
      <4> QED
        BY <2>2, <4>1
    <3>2. CASE Outside \/ UNCHANGED vars
      <4>1. taken' = taken
        BY <2>1, <3>2, OutsideEffects DEF Effects, client, vars
      <4> QED
        BY <2>2, <4>1
    <3>3. CASE Reconnect
      <4>1. taken'[k] = <<>>
        BY <3>3 DEF Reconnect, NewState
      <4> QED
        BY <2>2, <4>1
    <3> QED
      BY <1>1, <3>1, <3>2, <3>3, StepCases
  <2>4. /\ \A i \in Key : i # j => taken'[i] = taken[i]
        /\ sources' = [sources EXCEPT ![j] = @ \cup {Taken(j)}] /\ offers[j[1]] = {}
    BY <2>1, <2>3, TakesOverFacts
  <2>5. j = k
    BY <2>2, <2>4
  <2>6. sources'[k] = sources[k] \cup {Taken(k)} /\ offers[k[1]] = {}
    BY <2>1, <2>4, <2>5
  <2> QED
    BY <1>1, <2>3, <2>5, <2>6, TakesNew, SourceFields DEF Taken
<1>2. Base /\ WireInv /\ SourceInv /\ [Next]_vars =>
         [\A k \in Key : Len(taken'[k]) > Len(taken[k]) =>
            /\ IsEnabled(k)
            /\ latest[k] # None
            /\ ~latest[k].own
            /\ latest[k].key = k
            /\ ~ShouldIgnore(latest[k])
            /\ sources'[k] = sources[k] \cup {Own(k, latest[k].copy)}
            /\ offers[k[1]] = {}]_vars
  BY <1>1
<1> QED
  BY <1>2, AlwaysSources, PTL DEF Spec, PersistsLatestOnly

-----------------------------------------------------------------------------
(* The refinement of Persistence.                                          *)

LEMMA LearnStep ==
    ASSUME NEW j \in Key, UNCHANGED taken, \A k \in Key : k # j => latest'[k] = latest[k],
           latest'[j] \in Source \cup {None}
    PROVE  Promise!Next
<1>1. \A k \in Key : k # j => Told(k)' = Told(k)
  BY DEF Told, IsEnabled, ShouldIgnore
<1>2. Told(j)' \in Copy \cup {None}
  BY SourceFields DEF Told
<1>3. [k \in Key |-> Told(k)]' = [[k \in Key |-> Told(k)] EXCEPT ![j] = Told(j)']
  BY <1>1
<1>4. Promise!Learn(j, Told(j)')
  BY <1>3 DEF Promise!Learn
<1> QED
  BY <1>2, <1>4 DEF Promise!Next

LEMMA SameTold ==
    ASSUME UNCHANGED taken, \A k \in Key : latest'[k] = latest[k]
    PROVE  UNCHANGED Promise!vars
BY DEF Promise!vars, Told, IsEnabled, ShouldIgnore

LEMMA DispatchPromise == TypeOK /\ Dispatch => [Promise!Next]_(Promise!vars)
<1> SUFFICES ASSUME TypeOK, Dispatch
             PROVE  [Promise!Next]_(Promise!vars)
  OBVIOUS
<1>1. UNCHANGED taken /\ event \in Event
  BY DispatchFacts
<1>2. \A k \in Key : latest'[k] = latest[k] \/ (event = SelectionEv(k, event.offer) /\ latest'[k] \in {event.offer, None})
  BY DispatchOf
<1>3. CASE event.t = "Selection"
  <2>1. event.key \in Key /\ event.offer \in Source \cup {None}
    BY <1>1, <1>3, EventFields
  <2>2. \A k \in Key : k # event.key => latest'[k] = latest[k]
    BY <1>2, EventShapes
  <2>3. latest'[event.key] \in Source \cup {None}
    BY <1>2, <2>1 DEF TypeOK
  <2> QED
    BY <1>1, <2>1, <2>2, <2>3, LearnStep
<1>4. CASE event.t # "Selection"
  BY <1>1, <1>2, <1>4, EventShapes, SameTold
<1> QED
  BY <1>3, <1>4

LEMMA TakesOverPromise ==
    ASSUME Base, WireInv, SourceInv, NEW k \in Key, TakesOver(k)
    PROVE  Promise!Next
<1>1. /\ latest[k] = state[k].offer /\ state[k].offer \in Source /\ ~state[k].offer.own
      /\ state[k].offer.copy \notin Within(taken[k]) /\ ~ShouldIgnore(state[k].offer) /\ IsEnabled(k)
  BY TakesNew
<1>2. taken' = [taken EXCEPT ![k] = Append(@, state[k].offer.copy)] /\ latest' = latest
  BY TakesOverFacts DEF Base
<1>3. Told(k) = state[k].offer.copy /\ Told(k) # None
  BY <1>1, SourceFields, NoCopyAssumption DEF Told
<1>4. \A i \in 1 .. Len(taken[k]) : taken[k][i] # Told(k)
  BY <1>1, <1>3 DEF Within
<1>5. [j \in Key |-> Told(j)]' = [j \in Key |-> Told(j)]
  BY <1>2 DEF Told, IsEnabled, ShouldIgnore
<1>6. Promise!TakeOver(k)
  BY <1>2, <1>3, <1>4, <1>5 DEF Promise!TakeOver
<1> QED
  BY <1>6 DEF Promise!Next

(* Selections implements Persistence: seen through what the client was told*)
(* of applications' copies, every step learns of a copy, takes the last one*)
(* over for the first time, forgets everything, or shows nothing.          *)
THEOREM Implements == Spec => ImplementsPersistence
<1>1. Init => Promise!Init
  <2> SUFFICES ASSUME Init
               PROVE  Promise!Init
    OBVIOUS
  <2>1. taken = [k \in Key |-> <<>>] /\ \A k \in Key : Told(k) = None
    BY DEF Init, Told
  <2> QED
    BY <2>1 DEF Promise!Init
<1>2. Base /\ WireInv /\ SourceInv /\ [Next]_vars => [Promise!Next]_(Promise!vars)
  <2> SUFFICES ASSUME Base, WireInv, SourceInv, [Next]_vars
               PROVE  [Promise!Next]_(Promise!vars)
    OBVIOUS
  <2>1. CASE Inward
    BY <2>1, InwardFacts, SameTold DEF Base
  <2>2. CASE Outside
    BY <2>2, OutsideEffects, SameTold DEF Base, Effects, client
  <2>3. CASE Reconnect
    <3>1. taken' = [k \in Key |-> <<>>] /\ \A k \in Key : Told(k)' = None
      BY <2>3 DEF Reconnect, NewState, Told
    <3>2. Promise!Forget
      BY <3>1 DEF Promise!Forget
    <3> QED
      BY <3>2 DEF Promise!Next
  <2>4. CASE UNCHANGED vars
    BY <2>4, SameTold DEF vars, client
  <2> QED
    BY <2>1, <2>2, <2>3, <2>4, StepCases, DispatchPromise, TakesOverPromise DEF Base
<1> QED
  BY <1>1, <1>2, AlwaysSources, PTL DEF Spec, ImplementsPersistence, Promise!Spec

-----------------------------------------------------------------------------
(* Part 4: nothing is left behind.  What the client does not read it has   *)
(* dealt with, and what it has taken over becomes the selection, so once   *)
(* nothing is in flight, the selection is kept or being read.              *)

(* The client has nothing more to do for what it was told last of k: it is *)
(* cleared, its own, filtered, failed, or taken over.                      *)
Dealt(k) ==
    \/ latest[k] = None
    \/ latest[k].own
    \/ ShouldIgnore(latest[k])
    \/ latest[k].copy \in Faulty
    \/ latest[k].copy \in Within(taken[k])

(* The states without an offer say why there is none. *)
StateKnown ==
    \A k \in Key : k[1] \in seats /\ IsEnabled(k) =>
        /\ state[k].tag = "WaitingForNewOffers" => Dealt(k)
        /\ state[k].tag = "GotClear" => latest[k] = None
        /\ state[k].tag = "GotIgnoredEvent" => latest[k] # None /\ ShouldIgnore(latest[k])

(* A state is only said to be of an own offer if it is. *)
OwnFlag == \A k \in Key : state[k].own => state[k].offer.own

(* What was taken over of a selection that is still the application's is   *)
(* about to become the selection.                                          *)
TakenPending ==
    \A k \in Key : bound[k[1]] /\ k[1] \in seats /\ sel[k] # None /\ ~sel[k].own /\ sel[k].copy \in Within(taken[k]) =>
        SetReq(Own(k, sel[k].copy)) \in Within(reqs)

RestInv == StateKnown /\ OwnFlag /\ TakenPending

LEMMA StateOwn ==
    /\ ~Waiting.own /\ ~GotClear.own /\ ~GotIgnored.own
    /\ \A o : ~ReadMimes(o).own /\ ~GotPipes(o).own /\ ~GotData(o).own
    /\ GotClear.tag = "GotClear" /\ GotIgnored.tag = "GotIgnoredEvent" /\ Waiting.tag = "WaitingForNewOffers"
BY DEF Waiting, GotClear, GotIgnored, ReadMimes, GotPipes, GotData, SelectionState

(* Of a seat that both sides have once an event is dispatched, both had it *)
(* before.                                                                 *)
LEMMA BothHad ==
    ASSUME Base, WireInv, Dispatch, NEW k \in Key, bound'[k[1]], k[1] \in seats'
    PROVE  bound[k[1]] /\ k[1] \in seats
<1>1. UNCHANGED bound /\ k[1] \in Seats
  BY DispatchFacts, KeyTypes DEF Base, server
<1>2. k[1] \in seats \/ event = Global(k[1])
  BY DispatchOf DEF Base
<1>3. event = Global(k[1]) => ~bound[k[1]]
  BY <1>1, NewSeatUntouched DEF Untouched
<1> QED
  BY <1>1, <1>2, <1>3

LEMMA DispatchOwnFlag == Base /\ SourceInv /\ OwnFlag /\ Dispatch => OwnFlag'
<1> SUFFICES ASSUME Base, SourceInv, OwnFlag, Dispatch, NEW k \in Key, state'[k].own
             PROVE  state'[k].offer.own
  BY DEF OwnFlag
<1>1. state \in [Key -> StateRec] /\ event \in Event
  BY DispatchFacts DEF Base, TypeOK, StateOK
<1>2. CASE state'[k] = state[k]
  BY <1>2 DEF OwnFlag
<1>3. CASE AddSeat \/ RemoveSeat
  <2>1. state'[k] = Waiting \/ state'[k] = state[k]
    BY <1>3 DEF AddSeat, RemoveSeat, ResetSeat
  <2> QED
    BY <1>2, <2>1, StateOwn
<1>4. CASE NewSelection
  <2>1. state'[k] = state[k] \/ \E o : state'[k] = SelectedState(o)
    BY <1>1, <1>4 DEF NewSelection
  <2> QED
    BY <1>2, <2>1, StateOwn DEF SelectedState
<1>5. CASE OwnPipe
  <2> DEFINE j == event.offer.key
  <2>1. j \in Key
    BY <1>1, <1>5, EventFields, SourceFields DEF OwnPipe, Receiving, event
  <2>2. \/ state' = state
        \/ IsOwnPipe(j, event.offer) /\ state' = [state EXCEPT ![j].own = TRUE]
    BY <1>5 DEF OwnPipe
  <2>3. CASE IsOwnPipe(j, event.offer) /\ state' = [state EXCEPT ![j].own = TRUE] /\ k = j
    <3>1. state'[k].offer = state[k].offer
      BY <1>1, <2>1, <2>3 DEF StateRec
    <3>2. state[k].offer \in sources[k]
      BY <2>3 DEF IsOwnPipe
    <3> QED
      BY <3>1, <3>2 DEF SourceInv, KeptCurrent
  <2>4. CASE IsOwnPipe(j, event.offer) /\ state' = [state EXCEPT ![j].own = TRUE] /\ k # j
    BY <1>1, <1>2, <2>4
  <2> QED
    BY <1>2, <2>2, <2>3, <2>4
<1>6. CASE NewOffer \/ SourceCancelled \/ RoundtripDone
  BY <1>2, <1>6 DEF NewOffer, SourceCancelled, RoundtripDone
<1> QED
  BY <1>3, <1>4, <1>5, <1>6 DEF Dispatch

LEMMA DispatchKnown == Base /\ WireInv /\ StateKnown /\ Dispatch => StateKnown'
<1> SUFFICES ASSUME Base, WireInv, StateKnown, Dispatch, NEW k \in Key, k[1] \in seats', IsEnabled(k)
             PROVE  /\ state'[k].tag = "WaitingForNewOffers" => Dealt(k)'
                    /\ state'[k].tag = "GotClear" => latest'[k] = None
                    /\ state'[k].tag = "GotIgnoredEvent" => latest'[k] # None /\ ShouldIgnore(latest'[k])
  BY DEF StateKnown, IsEnabled, ShouldIgnore
<1>1. /\ state \in [Key -> StateRec] /\ latest \in [Key -> Source \cup {None}] /\ event \in Event
      /\ taken' = taken /\ k[1] \in Seats
  BY DispatchFacts, KeyTypes DEF Base, TypeOK, StateOK
<1>2. CASE k[1] \in seats /\ state'[k].tag = state[k].tag /\ latest'[k] = latest[k]
  BY <1>1, <1>2 DEF StateKnown, Dealt, ShouldIgnore
<1>3. CASE AddSeat
  <2>1. event = Global(event.seat) /\ latest' = latest /\ seats' = seats \cup {event.seat}
    BY <1>1, <1>3, EventForms DEF AddSeat, Receiving, event, Global
  <2>2. \/ state'[k] = Waiting /\ k[1] = event.seat
        \/ state'[k] = state[k] /\ k[1] # event.seat
    BY <1>3 DEF AddSeat, ResetSeat
  <2>3. CASE k[1] = event.seat
    <3>1. latest[k] = None
      BY <1>1, <2>1, <2>3, NewSeatUntouched DEF Untouched
    <3> QED
      BY <2>1, <2>2, <2>3, <3>1, StateOwn DEF Dealt
  <2> QED
    BY <1>2, <2>1, <2>2, <2>3
<1>4. CASE RemoveSeat
  <2>1. latest' = latest /\ seats' \subseteq seats
    BY <1>4 DEF RemoveSeat
  <2>2. state'[k] = state[k]
    BY <1>4 DEF RemoveSeat, ResetSeat
  <2> QED
    BY <1>2, <2>1, <2>2
<1>5. CASE NewSelection
  <2> DEFINE j == event.key
             o == MaybeOffer(j, event.offer)
  <2>1. j \in Key /\ seats' = seats
    BY <1>1, <1>5, EventFields DEF NewSelection, Receiving, event
  <2>2. CASE k = j
    <3>1. state'[k] = SelectedState(o) /\ latest'[k] = o
      BY <1>1, <1>5, <2>1, <2>2 DEF NewSelection
    <3> HIDE DEF o
    <3>2. /\ o = None => state'[k].tag = "GotClear"
          /\ o # None /\ ShouldIgnore(o) => state'[k].tag = "GotIgnoredEvent"
          /\ o # None /\ ~ShouldIgnore(o) => state'[k].tag = "ReadMimes"
      BY <3>1, StateOwn, StateTags DEF SelectedState
    <3> QED
      BY <3>1, <3>2
  <2>3. CASE k # j
    <3>1. state'[k] = state[k] /\ latest'[k] = latest[k]
      BY <1>1, <1>5, <2>1, <2>3 DEF NewSelection
    <3> QED
      BY <1>2, <2>1, <3>1
  <2> QED
    BY <2>2, <2>3
<1>6. CASE OwnPipe
  <2>1. event.offer.key \in Key /\ UNCHANGED <<seats, latest>>
    BY <1>1, <1>6, EventFields, SourceFields DEF OwnPipe, Receiving, event
  <2>2. state' = state \/ state' = [state EXCEPT ![event.offer.key].own = TRUE]
    BY <1>6 DEF OwnPipe
  <2>3. state'[k].tag = state[k].tag
    BY <1>1, <2>1, <2>2 DEF StateRec
  <2> QED
    BY <1>2, <2>1, <2>3
<1>7. CASE NewOffer \/ SourceCancelled \/ RoundtripDone
  BY <1>2, <1>7 DEF NewOffer, SourceCancelled, RoundtripDone
<1> QED
  BY <1>3, <1>4, <1>5, <1>6, <1>7 DEF Dispatch

LEMMA DispatchPending == Base /\ WireInv /\ TakenPending /\ Dispatch => TakenPending'
<1> SUFFICES ASSUME Base, WireInv, TakenPending, Dispatch, NEW k \in Key, bound'[k[1]], k[1] \in seats',
                    sel'[k] # None, ~sel'[k].own, sel'[k].copy \in Within(taken'[k])
             PROVE  SetReq(Own(k, sel'[k].copy)) \in Within(reqs')
  BY DEF TakenPending, SetReq, Own
<1>1. UNCHANGED <<sel, taken>> /\ Within(reqs) \subseteq Within(reqs')
  BY DispatchFacts DEF Base, server
<1>2. bound[k[1]] /\ k[1] \in seats
  BY BothHad
<1> QED
  BY <1>1, <1>2 DEF TakenPending

LEMMA InwardRest == Base /\ WireInv /\ RestInv /\ Inward => RestInv'
<1> SUFFICES ASSUME Base, WireInv, RestInv, Inward
             PROVE  RestInv'
  OBVIOUS
<1>1. /\ UNCHANGED <<seats, latest, taken, bound, sel>> /\ Within(reqs) \subseteq Within(reqs')
      /\ state \in [Key -> StateRec]
  BY InwardFacts, RequestsFacts DEF Base, TypeOK, StateOK, server
<1>2. TakenPending'
  BY <1>1 DEF RestInv, TakenPending, SetReq, Own
<1>3. ASSUME NEW k \in Key
      PROVE  \/ state'[k] = state[k]
             \/ state'[k].tag \in Holding /\ ~state'[k].own
             \/ state'[k] = Waiting /\ (IsEnabled(k) /\ k[1] \in seats => Dealt(k))
  <2>1. /\ state[k].tag \in Holding => latest[k] = state[k].offer
        /\ state[k].own => state[k].offer.own
    BY DEF WireInv, TellInv, StateLatest, RestInv, OwnFlag
  <2>2. IsEnabled(k) /\ k[1] \in seats /\ state[k].tag \in {"GotClear", "GotIgnoredEvent"} => Dealt(k)
    BY DEF RestInv, StateKnown, Dealt
  <2>3. ASSUME state[k].tag \in Holding, state[k].offer.copy \in Faulty \/ state[k].own
        PROVE  Dealt(k)
    BY <2>1, <2>3 DEF Dealt
  <2>4. CASE Handle
    <3>1. PICK failed \in SUBSET {j \in Key : IsReading(j) /\ MayFail(j)} : state' = [j \in Key |-> Collected(j, failed)]
      BY <2>4 DEF Handle
    <3>2. state'[k] = IF k \in failed \/ state[k].tag \in {"GotClear", "GotIgnoredEvent"} THEN Waiting ELSE state[k]
      BY <3>1 DEF Collected
    <3>3. k \in failed => state[k].tag \in Holding /\ state[k].offer.copy \in Faulty
      BY <3>1 DEF IsReading, MayFail, Holding
    <3> QED
      BY <2>2, <2>3, <3>2, <3>3
  <2>5. CASE Resolve
    <3>1. state'[k] = Resolved(k)
      BY <2>5 DEF Resolve
    <3>2. state'[k] = state[k] \/ (state'[k] = Waiting /\ state[k].own /\ IsReading(k)) \/ state'[k] = GotPipes(pipes[k])
      BY <3>1 DEF Resolved
    <3>3. IsReading(k) => state[k].tag \in Holding
      BY DEF IsReading, Holding
    <3>4. GotPipes(pipes[k]).tag \in Holding /\ ~GotPipes(pipes[k]).own
      BY StateTags, StateOwn DEF Holding
    <3> QED
      BY <2>3, <3>2, <3>3, <3>4
  <2>6. CASE EndDispatch \/ Flush
    BY <2>6 DEF EndDispatch, Flush
  <2>7. ASSUME NEW j \in Key, PipesFailed(j)
        PROVE  state'[k] = state[k] \/ (state'[k] = Waiting /\ Dealt(k))
    <3>1. state' = [state EXCEPT ![j] = Waiting] /\ state[j].tag \in Holding /\ state[j].offer.copy \in Faulty
      BY <2>7 DEF PipesFailed, MayFail, Holding
    <3> QED
      BY <1>1, <2>3, <3>1
  <2>8. ASSUME NEW j \in Key, PipesRead(j), offers[j[1]] # {}
        PROVE  state'[k] = state[k] \/ (state'[k].tag \in Holding /\ ~state'[k].own)
    <3>1. state' = [state EXCEPT ![j] = GotData(state[j].offer)]
      BY <2>8 DEF PipesRead, NoPendingOffers
    <3>2. GotData(state[j].offer).tag \in Holding /\ ~GotData(state[j].offer).own
      BY StateTags, StateOwn DEF Holding
    <3> QED
      BY <1>1, <3>1, <3>2
  <2> QED
    BY <2>4, <2>5, <2>6, <2>7, <2>8 DEF Inward, PipesEnd
<1>4. StateKnown'
  <2> SUFFICES ASSUME NEW k \in Key, k[1] \in seats, IsEnabled(k)
               PROVE  /\ state'[k].tag = "WaitingForNewOffers" => Dealt(k)'
                      /\ state'[k].tag = "GotClear" => latest'[k] = None
                      /\ state'[k].tag = "GotIgnoredEvent" => latest'[k] # None /\ ShouldIgnore(latest'[k])
    BY <1>1 DEF StateKnown, IsEnabled, ShouldIgnore
  <2>1. Dealt(k) => Dealt(k)'
    BY <1>1 DEF Dealt, ShouldIgnore
  <2> QED
    BY <1>1, <1>3, <2>1, StateOwn DEF RestInv, StateKnown, Holding
<1>5. OwnFlag'
  BY <1>3, StateOwn DEF RestInv, OwnFlag
<1> QED
  BY <1>2, <1>4, <1>5 DEF RestInv

LEMMA TakesOverRest ==
    ASSUME Base, WireInv, RestInv, NEW k \in Key, TakesOver(k)
    PROVE  RestInv'
<1>1. /\ state[k].tag \in Holding /\ state' = [state EXCEPT ![k] = Waiting] /\ state \in [Key -> StateRec]
      /\ Within(reqs') = Within(reqs) \cup {SetReq(Taken(k))}
      /\ Within(taken'[k]) = Within(taken[k]) \cup {state[k].offer.copy}
      /\ \A j \in Key : j # k => taken'[j] = taken[j]
      /\ UNCHANGED <<seats, latest, sel, bound>>
  BY TakesOverFacts DEF Base, TypeOK, StateOK, server, Holding
<1>2. latest[k] = state[k].offer
  BY <1>1 DEF WireInv, TellInv, StateLatest
<1>3. StateKnown'
  <2> SUFFICES ASSUME NEW j \in Key, j[1] \in seats, IsEnabled(j)
               PROVE  /\ state'[j].tag = "WaitingForNewOffers" => Dealt(j)'
                      /\ state'[j].tag = "GotClear" => latest'[j] = None
                      /\ state'[j].tag = "GotIgnoredEvent" => latest'[j] # None /\ ShouldIgnore(latest'[j])
    BY <1>1 DEF StateKnown, IsEnabled, ShouldIgnore
  <2>1. CASE j = k
    BY <1>1, <1>2, <2>1, StateOwn DEF Dealt
  <2>2. CASE j # k
    BY <1>1, <2>2 DEF RestInv, StateKnown, Dealt, ShouldIgnore
  <2> QED
    BY <2>1, <2>2
<1>4. OwnFlag'
  BY <1>1, StateOwn DEF RestInv, OwnFlag
<1>5. TakenPending'
  <2> SUFFICES ASSUME NEW j \in Key, bound[j[1]], j[1] \in seats, sel[j] # None, ~sel[j].own,
                      sel[j].copy \in Within(taken'[j])
               PROVE  SetReq(Own(j, sel[j].copy)) \in Within(reqs')
    BY <1>1 DEF TakenPending, SetReq, Own
  <2>1. CASE sel[j].copy \in Within(taken[j])
    BY <1>1, <2>1 DEF RestInv, TakenPending
  <2>2. CASE sel[j].copy \notin Within(taken[j])
    <3>1. j = k /\ sel[j].copy = state[k].offer.copy
      BY <1>1, <2>2
    <3> QED
      BY <1>1, <3>1 DEF Taken
  <2> QED
    BY <2>1, <2>2
<1> QED
  BY <1>3, <1>4, <1>5 DEF RestInv

LEMMA OutsideRest == Base /\ WireInv /\ SourceInv /\ RestInv /\ Outside => RestInv'
<1> SUFFICES ASSUME Base, WireInv, SourceInv, RestInv, Outside
             PROVE  RestInv'
  OBVIOUS
<1>1. Effects /\ UNCHANGED <<seats, state, latest, taken>> /\ reqs \in Seq(Request)
  BY OutsideEffects DEF Effects, client, Base, TypeOK
<1>2. StateKnown' /\ OwnFlag'
  BY <1>1 DEF RestInv, StateKnown, OwnFlag, Dealt, ShouldIgnore, IsEnabled
<1>3. ASSUME NEW k \in Key, bound'[k[1]], k[1] \in seats, sel'[k] # None, ~sel'[k].own,
             sel'[k].copy \in Within(taken[k])
      PROVE  SetReq(Own(k, sel'[k].copy)) \in Within(reqs')
  <2> DEFINE c == sel'[k].copy
  <2>1. k[1] \in Seats /\ sel'[k] \in Source /\ c \in Copy
    <3>1. Base'
      BY NextBase DEF Outside, Next
    <3>2. k[1] \in Seats /\ sel'[k] \in Source
      BY <1>3, <3>1, KeyTypes DEF Base, TypeOK
    <3> QED
      BY <3>2, SourceFields
  <2>2. CASE ~bound[k[1]]
    <3>1. Binds(k[1])
      BY <1>3, <2>1, <2>2, OutsideSeats DEF Base, Seating
    <3>2. Bind(k[1]) \in Within(reqs)
      BY <1>1, <3>1, WithinTail DEF Binds
    <3>3. taken[k] = <<>>
      BY <2>1, <3>2 DEF WireInv, SeatInv, SeatAgreed, Untouched
    <3> QED
      BY <1>3, <3>3, EmptyQueue
  <2>3. CASE bound[k[1]] /\ sel'[k] = sel[k]
    <3>1. SetReq(Own(k, c)) \in Within(reqs)
      BY <1>1, <1>3, <2>3 DEF RestInv, TakenPending
    <3>2. Own(k, c) \in Source /\ Own(k, c).key = k /\ Own(k, c).own
      BY <2>1 DEF Own, Source
    <3> HIDE DEF c
    <3>3. SetReq(Own(k, c)) \in Within(reqs') \/ sel'[k] = Own(k, c)
      BY <1>1, <1>3, <3>1, <3>2 DEF Effects
    <3> QED
      BY <1>3, <3>2, <3>3 DEF c
  <2>4. CASE Made(k)
    <3>1. c = copies + 1 /\ copies \in Nat
      BY <1>1, <2>4 DEF Made, Foreign, Effects
    <3>2. c <= copies
      BY <1>3 DEF WireInv, TellInv, CopiesMade
    <3> QED
      BY <3>1, <3>2
  <2>5. CASE Set(k)
    <3>1. SetReq(sel'[k]) \in Within(reqs)
      BY <1>1, <2>5, WithinTail DEF Set
    <3>2. sel'[k].own
      BY <2>1, <3>1 DEF SourceInv, PendingNew
    <3> QED
      BY <1>3, <3>2
  <2> QED
    BY <1>1, <1>3, <2>2, <2>3, <2>4, <2>5 DEF Effects, Changes
<1>4. TakenPending'
  BY <1>1, <1>3 DEF TakenPending, SetReq, Own
<1> QED
  BY <1>2, <1>4 DEF RestInv

LEMMA StartsAtRest ==
    ASSUME seats = {}, \A k \in Key : state[k] = Waiting
    PROVE  RestInv
BY StateOwn DEF RestInv, StateKnown, OwnFlag, TakenPending

LEMMA NextRest == Base /\ WireInv /\ SourceInv /\ RestInv /\ [Next]_vars => RestInv'
<1> SUFFICES ASSUME Base, WireInv, SourceInv, RestInv, [Next]_vars
             PROVE  RestInv'
  OBVIOUS
<1>1. CASE UNCHANGED vars
  BY <1>1 DEF vars, client, server, RestInv, StateKnown, OwnFlag, TakenPending, Dealt, ShouldIgnore, IsEnabled,
              SetReq, Own
<1>2. CASE Dispatch
  BY <1>2, DispatchKnown, DispatchOwnFlag, DispatchPending DEF RestInv
<1>3. CASE Reconnect
  <2>1. seats' = {} /\ \A k \in Key : state'[k] = Waiting
    BY <1>3 DEF Reconnect, NewState
  <2>2. StateKnown' /\ TakenPending'
    BY <2>1 DEF StateKnown, TakenPending
  <2>3. OwnFlag'
    BY <2>1, StateOwn DEF OwnFlag
  <2> QED
    BY <2>2, <2>3 DEF RestInv
<1> QED
  BY <1>1, <1>2, <1>3, StepCases, InwardRest, TakesOverRest, OutsideRest

LEMMA AlwaysRest == Spec => [](Base /\ WireInv /\ SourceInv /\ RestInv)
<1>1. Init => RestInv
  BY StartsAtRest DEF Init
<1>2. Base /\ WireInv /\ SourceInv /\ RestInv /\ [Next]_vars => RestInv'
  BY NextRest
<1> QED
  BY <1>1, <1>2, AlwaysSources, PTL DEF Spec

(* Once nothing is in flight, every selection is kept, or its pipes are    *)
(* being read: main's wait at the select cannot be the end of a selection  *)
(* that the client ought to have taken over.                               *)
THEOREM LeavesNothingBehind == Spec => []NothingLeftBehind
<1>1. ASSUME Base, WireInv, SourceInv, RestInv, AtRest, NEW k \in Key, IsEnabled(k), ~Kept(k)
      PROVE  state[k].tag = "GotPipes" /\ state[k].offer = sel[k]
  <2>1. /\ pc = "wait" /\ Within(wire) = {} /\ Within(reqs) = {}
        /\ sel[k] # None /\ ~sel[k].own /\ ~ShouldIgnore(sel[k]) /\ sel[k].copy \notin Faulty
        /\ bound[k[1]] \/ k[1] \in seats
    BY <1>1, EmptyQueue DEF AtRest, Kept
  <2>2. k[1] \in Seats
    BY KeyTypes
  <2>3. bound[k[1]] /\ k[1] \in seats
    BY <1>1, <2>1, <2>2 DEF WireInv, SeatInv, SeatAgreed, Leaving
  <2>4. latest[k] = sel[k]
    <3>1. UpToDate(k)
      BY <1>1, <2>3 DEF WireInv, ToldInv
    <3> QED
      BY <2>1, <3>1, LastIn DEF UpToDate
  <2>5. state[k].tag \in {"WaitingForNewOffers", "GotPipes", "GotData"}
    BY <1>1, <2>1 DEF Base, SettledInv, Settled
  <2>6. state[k].tag # "GotData"
    <3> SUFFICES ASSUME state[k].tag = "GotData"
                 PROVE  FALSE
      OBVIOUS
    <3>1. offers[k[1]] # {}
      BY <1>1, <2>1 DEF Base, DataInv, DataWaits
    <3>2. PICK e : OnWire(e)
      BY <1>1, <2>2, <3>1 DEF Base, DataInv, PendingTold
    <3> QED
      BY <2>1, <3>2 DEF OnWire, Within
  <2>7. state[k].tag # "WaitingForNewOffers"
    <3> SUFFICES ASSUME state[k].tag = "WaitingForNewOffers"
                 PROVE  FALSE
      OBVIOUS
    <3>1. Dealt(k)
      BY <1>1, <2>3 DEF RestInv, StateKnown
    <3>2. sel[k].copy \in Within(taken[k])
      BY <2>1, <2>4, <3>1 DEF Dealt
    <3> QED
      BY <1>1, <2>1, <2>3, <3>2 DEF RestInv, TakenPending
  <2> QED
    BY <1>1, <2>4, <2>5, <2>6, <2>7 DEF WireInv, TellInv, StateLatest, Holding
<1>2. Base /\ WireInv /\ SourceInv /\ RestInv => NothingLeftBehind
  BY <1>1 DEF NothingLeftBehind
<1> QED
  BY <1>2, AlwaysRest, PTL
=============================================================================
