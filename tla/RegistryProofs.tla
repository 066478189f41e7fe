--------------------------- MODULE RegistryProofs ---------------------------
(***************************************************************************)
(* Theorems about Registry, for any names of globals, whatever they are,   *)
(* however they come and go, and for every choice of the settings.         *)
(***************************************************************************)
EXTENDS Registry, Collections

Event == [t : {"Global", "GlobalRemove", "Finished"}, name : Names]

Global(n)       == Ev("Global", n)
GlobalRemove(n) == Ev("GlobalRemove", n)
Finished(n)     == Ev("Finished", n)

LEMMA EventNames ==
    ASSUME NEW n \in Names
    PROVE  /\ Global(n) \in Event /\ GlobalRemove(n) \in Event /\ Finished(n) \in Event
           /\ Global(n).t = "Global" /\ GlobalRemove(n).t = "GlobalRemove" /\ Finished(n).t = "Finished"
           /\ Global(n).name = n /\ GlobalRemove(n).name = n /\ Finished(n).name = n
BY DEF Global, GlobalRemove, Finished, Ev, Event

LEMMA EventKinds ==
    ASSUME NEW e \in Event
    PROVE  /\ e.name \in Names
           /\ e.t = "Global" => e = Global(e.name)
           /\ e.t = "GlobalRemove" => e = GlobalRemove(e.name)
           /\ e.t = "Finished" => e = Finished(e.name)
BY DEF Global, GlobalRemove, Finished, Ev, Event

(* What becomes of the events when one is dispatched. *)
Dispatch == GlobalAdded \/ GlobalRemoved \/ DeviceFinished

LEMMA DispatchFacts ==
    ASSUME TypeOK, Dispatch
    PROVE  /\ wire # <<>> /\ wire \in Seq(Event) /\ wire' = Tail(wire) /\ wire' \in Seq(Event)
           /\ Head(wire) \in Event /\ name = Head(wire).name /\ name \in Names
           /\ Within(wire) = {Head(wire)} \cup Within(wire')
           /\ UNCHANGED <<settings, pc, globals, manager, kind, status>>
<1>1. wire # <<>> /\ wire' = Tail(wire) /\ UNCHANGED <<settings, pc, globals, manager, kind, status>>
  BY DEF Dispatch, GlobalAdded, GlobalRemoved, DeviceFinished, Receiving
<1>2. wire \in Seq(Event)
  BY DEF TypeOK, Event
<1>3. Head(wire) \in Event /\ Tail(wire) \in Seq(Event)
  BY <1>1, <1>2, QueueTail
<1> QED
  BY <1>1, <1>2, <1>3, WithinTail, EventKinds DEF name

(* What becomes of them when the compositor says more. *)
LEMMA MoreEvents ==
    ASSUME TypeOK, NEW e \in Event, wire' = Append(wire, e)
    PROVE  /\ wire' = wire \o <<e>> /\ wire \in Seq(Event) /\ <<e>> \in Seq(Event) /\ wire' \in Seq(Event)
           /\ Within(wire') = Within(wire) \cup {e}
<1>1. wire \in Seq(Event)
  BY DEF TypeOK, Event
<1>2. Append(wire, e) = wire \o <<e>> /\ <<e>> \in Seq(Event) /\ Append(wire, e) \in Seq(Event)
  BY <1>1
<1> QED
  BY <1>1, <1>2, WithinAppend

-----------------------------------------------------------------------------
(* What is bound is a global that the connection knows of. *)
LEMMA ManagersKnown ==
    /\ ExtManagers \subseteq ExtGlobals /\ ExtGlobals \subseteq globals
    /\ WlrManagers \subseteq FirstAnnounced(WlrGlobals) /\ FirstAnnounced(WlrGlobals) \subseteq WlrGlobals
    /\ WlrGlobals \subseteq globals /\ Managers \subseteq globals
BY DEF Managers, ExtManagers, WlrManagers, FirstAnnounced, ExtGlobals, WlrGlobals

LEMMA InitTypeOK == Init => TypeOK
<1> SUFFICES ASSUME Init PROVE TypeOK
  OBVIOUS
<1>1. wire \in Seq([t : {"Global", "GlobalRemove", "Finished"}, name : Names])
  BY DEF Init
<1>2. status \in [Names -> {"new", "live", "finished", "gone", "over"}] /\ kind \in [Names -> Kind]
  BY DEF Init
<1> QED
  BY <1>1, <1>2 DEF Init, TypeOK

LEMMA NextTypeOK == TypeOK /\ [Next]_vars => TypeOK'
<1> SUFFICES ASSUME TypeOK, [Next]_vars
             PROVE  TypeOK'
  OBVIOUS
<1>1. CASE Roundtrip \/ Bind \/ NoManagerFound \/ EndConnection
  <2>1. manager' \in Names \cup {None}
    BY <1>1, ManagersKnown DEF TypeOK, Roundtrip, Bind, NoManagerFound, EndConnection
  <2>2. globals' \subseteq Names /\ pc' \in {"start", "bind", "running", "failed", "ended"}
    BY <1>1 DEF TypeOK, Roundtrip, Bind, NoManagerFound, EndConnection, Live
  <2> QED
    BY <1>1, <2>1, <2>2 DEF TypeOK, Roundtrip, Bind, NoManagerFound, EndConnection
<1>2. CASE Dispatch
  <2>1. /\ wire' \in Seq(Event) /\ name \in Names
        /\ UNCHANGED <<settings, pc, globals, manager, kind, status>>
    BY <1>2, DispatchFacts
  <2>2. seats' \subseteq {n \in Names : kind[n] = "seat"} /\ removed' \in BOOLEAN
    BY <1>2, <2>1 DEF TypeOK, Dispatch, GlobalAdded, GlobalRemoved, DeviceFinished, IsSeat, SeatsAfterRemoval, IsManager
  <2> QED
    BY <2>1, <2>2 DEF TypeOK, Event
<1>3. ASSUME NEW n \in Names, Announce(n) \/ Withdraw(n) \/ FinishDevice(n)
      PROVE  TypeOK'
  <2>1. \E e \in Event : wire' = Append(wire, e)
    BY <1>3, EventNames DEF Announce, Withdraw, FinishDevice, Global, GlobalRemove, Finished
  <2>2. wire' \in Seq(Event)
    BY <2>1, MoreEvents
  <2>3. UNCHANGED <<client, kind>> /\ status' \in [Names -> {"new", "live", "finished", "gone", "over"}]
    BY <1>3 DEF TypeOK, Announce, Withdraw, FinishDevice
  <2> QED
    BY <2>2, <2>3 DEF TypeOK, client, Event
<1>4. CASE UNCHANGED vars
  BY <1>4 DEF TypeOK, vars, client
<1> QED
  BY <1>1, <1>2, <1>3, <1>4 DEF Next, Dispatch

(* Only seats are ever in the map of seats, and every variable keeps its   *)
(* type.                                                                   *)
THEOREM TypeCorrect == Spec => []TypeOK
BY InitTypeOK, NextTypeOK, PTL DEF Spec

-----------------------------------------------------------------------------
(* Of a global that is there the announcement is on the wire as long as    *)
(* nothing is dispatched, so that one of several is the first.             *)
Announced ==
    pc \in {"start", "bind"} =>
        \A n \in Names : n \in globals \/ status[n] = "live" => Global(n) \in Within(wire)

LEMMA FirstOfSome ==
    ASSUME TypeOK, Announced, pc = "bind", NEW S \in SUBSET globals, S # {}
    PROVE  FirstAnnounced(S) # {}
<1> DEFINE A == {i \in 1 .. Len(wire) : \E n \in S : wire[i] = Global(n)}
<1>1. wire \in Seq(Event) /\ Len(wire) \in Nat
  BY DEF TypeOK, Event
<1>2. A # {}
  <2>1. PICK n \in S : n \in Names /\ Global(n) \in Within(wire)
    BY DEF Announced, TypeOK
  <2> QED
    BY <2>1 DEF Within
<1>3. Min(A) \in A /\ \A i \in A : Min(A) <= i
  <2>1. A \in SUBSET Nat
    BY <1>1
  <2> HIDE DEF A
  <2> QED
    BY <1>2, <2>1, LeastNumber
<1> DEFINE i == Min(A)
<1> HIDE DEF i
<1>4. PICK n \in S : i \in 1 .. Len(wire) /\ wire[i] = Global(n)
  BY <1>3 DEF i
<1>5. ASSUME NEW j \in 1 .. (i - 1), NEW m \in S, wire[j] = Global(m)
      PROVE  FALSE
  <2>1. j \in A
    BY <1>1, <1>4, <1>5
  <2>2. i <= j
    BY <1>3, <2>1 DEF i
  <2> QED
    BY <1>1, <1>4, <2>2
<1> QED
  BY <1>4, <1>5 DEF FirstAnnounced, Global

LEMMA NextAnnounced == TypeOK /\ Announced /\ [Next]_vars => Announced'
<1> SUFFICES ASSUME TypeOK, Announced, [Next]_vars, pc' \in {"start", "bind"}, NEW n \in Names,
                    n \in globals' \/ status'[n] = "live"
             PROVE  (Global(n) \in Within(wire))'
  BY DEF Announced
<1>1. Global(n)' = Global(n) /\ (Within(wire))' = Within(wire')
  BY DEF Global, Ev, Within
<1>2. CASE Roundtrip
  BY <1>1, <1>2 DEF Announced, Roundtrip, Live
<1>3. CASE Bind \/ NoManagerFound \/ EndConnection
  BY <1>3 DEF Bind, NoManagerFound, EndConnection
<1>4. CASE Dispatch
  BY <1>4 DEF Dispatch, GlobalAdded, GlobalRemoved, DeviceFinished, Receiving
<1>5. ASSUME NEW m \in Names, Announce(m) \/ Withdraw(m) \/ FinishDevice(m)
      PROVE  Global(n) \in Within(wire')
  <2>1. PICK e \in Event : wire' = Append(wire, e) /\ (Announce(m) => e = Global(m))
    BY <1>5, EventNames DEF Announce, Withdraw, FinishDevice, Global, GlobalRemove, Finished
  <2>2. Within(wire') = Within(wire) \cup {e}
    BY <2>1, MoreEvents
  <2>3. pc' = pc /\ globals' = globals /\ (status'[n] = "live" => status[n] = "live" \/ (Announce(m) /\ n = m))
    BY <1>5 DEF Announce, Withdraw, FinishDevice, client, TypeOK
  <2> QED
    BY <2>1, <2>2, <2>3 DEF Announced
<1>6. CASE UNCHANGED vars
  BY <1>1, <1>6 DEF Announced, vars, client
<1> QED
  BY <1>1, <1>2, <1>3, <1>4, <1>5, <1>6 DEF Next, Dispatch

LEMMA AlwaysAnnounced == Spec => []Announced
<1>1. Init => Announced
  BY DEF Init, Announced
<1> QED
  BY <1>1, TypeCorrect, NextAnnounced, PTL DEF Spec

(* The manager that is bound suffices, whichever protocol is forced and    *)
(* whatever the settings ask of it.  The client fails for good only if of  *)
(* each protocol there is no global or one that does not suffice, although *)
(* the one it looks at is but the first of the protocol.                   *)
THEOREM FindsManager == Spec => FindsSufficientManager
<1> DEFINE NoneWillDo == \A S \in {ExtGlobals, WlrGlobals} : S # {} => \E n \in S : ~Suffices(n)
<1>1. ASSUME TypeOK, Announced, [Next]_vars
      PROVE  [/\ manager' # manager => manager' \in globals /\ Suffices(manager')
              /\ pc' = "failed" => NoneWillDo]_vars
  <2>1. settings \in Settings /\ kind \in [Names -> Kind]
    BY <1>1 DEF TypeOK
  <2>2. \A n : n \in Managers => n \in globals /\ Suffices(n)
    BY <2>1, ManagersKnown DEF Managers, ExtManagers, ExtGlobals, WlrManagers, WlrGlobals, Suffices, Settings
  <2>3. ASSUME pc = "bind", Managers = {}
        PROVE  NoneWillDo
    <3>1. /\ ExtGlobals # {} => ExtManagers # {}
          /\ WlrGlobals # {} => FirstAnnounced(WlrGlobals) # {}
      BY <1>1, <2>3, ManagersKnown, FirstOfSome DEF ExtManagers
    <3>2. ExtGlobals # {} => \E n \in ExtGlobals : ~Suffices(n)
      BY <2>1, <2>3, <3>1, NoneAssumption DEF Managers, ExtGlobals, Suffices
    <3>3. WlrGlobals # {} => \E n \in WlrGlobals : ~Suffices(n)
      <4>1. SUFFICES ASSUME NEW n \in FirstAnnounced(WlrGlobals)
                     PROVE  \E m \in WlrGlobals : ~Suffices(m)
        BY <3>1
      <4>2. CASE n \notin WlrManagers
        BY <2>1, <4>2, ManagersKnown DEF WlrManagers, WlrGlobals, Suffices
      <4>3. CASE n \in WlrManagers
        <5>1. settings.forced = "ext" \/ ExtManagers # {}
          BY <2>3, <4>3 DEF Managers
        <5>2. settings.forced = "ext"
          BY <2>3, <4>3, <5>1 DEF Managers
        <5> QED
          BY <2>1, <5>2, ManagersKnown DEF WlrGlobals, Suffices
      <4> QED
        BY <4>2, <4>3
    <3> QED
      BY <3>2, <3>3
  <2>4. CASE Bind
    <3>1. manager' \in Managers /\ pc' # "failed"
      BY <2>4 DEF Bind
    <3> QED
      BY <2>2, <3>1
  <2>5. CASE NoManagerFound
    BY <2>3, <2>5 DEF NoManagerFound
  <2>6. CASE Roundtrip \/ Dispatch \/ EndConnection \/ \E n \in Names : Announce(n) \/ Withdraw(n) \/ FinishDevice(n)
    <3>1. manager' = manager /\ pc' # "failed"
      BY <2>6
         DEF Roundtrip, Dispatch, GlobalAdded, GlobalRemoved, DeviceFinished, Receiving, EndConnection, Announce,
             Withdraw, FinishDevice, Running, client
    <3> QED
      BY <3>1
  <2> QED
    BY <1>1, <2>4, <2>5, <2>6 DEF Next, Dispatch
<1> QED
  BY <1>1, TypeCorrect, AlwaysAnnounced, PTL DEF Spec, FindsSufficientManager

-----------------------------------------------------------------------------
(* The client and the compositor agree on a seat but for what its events on*)
(* the wire are still to say.                                              *)
SeatAgreed(n) ==
    /\ Once(wire, {Global(n)})
    /\ Global(n) \in Within(wire) => n \notin seats /\ status[n] \in {"live", "gone"}
    /\ status[n] = "new" => n \notin seats
    /\ status[n] = "live" => n \in seats \/ Global(n) \in Within(wire)
    /\ status[n] \in {"new", "live"} => Finished(n) \notin Within(wire) /\ GlobalRemove(n) \notin Within(wire)
    /\ status[n] = "finished" /\ n \in seats => Finished(n) \in Within(wire)
    /\ status[n] \in {"gone", "over"} /\ n \in seats => GlobalRemove(n) \in Within(wire)
    /\ status[n] = "gone" => Followed(wire, Global(n), GlobalRemove(n))

SeatInv == \A n \in Names : kind[n] = "seat" => SeatAgreed(n)

LEMMA DispatchSeats == TypeOK /\ SeatInv /\ Dispatch => SeatInv'
<1> SUFFICES ASSUME TypeOK, SeatInv, Dispatch, NEW n \in Names, kind'[n] = "seat"
             PROVE  SeatAgreed(n)'
  BY DEF SeatInv
<1>1. /\ wire # <<>> /\ wire \in Seq(Event) /\ wire' = Tail(wire) /\ Head(wire) \in Event
      /\ name = Head(wire).name /\ name \in Names
      /\ Within(wire) = {Head(wire)} \cup Within(wire') /\ UNCHANGED <<kind, status>>
  BY DispatchFacts
<1>2. SeatAgreed(n) /\ status[n] \in {"new", "live", "finished", "gone", "over"}
  BY <1>1 DEF SeatInv, TypeOK
<1>3. /\ Once(wire', {Global(n)}) /\ (Head(wire) = Global(n) => Global(n) \notin Within(wire'))
      /\ status[n] = "gone" => Followed(wire', Global(n), GlobalRemove(n))
      /\ status[n] = "gone" /\ Head(wire) = Global(n) => GlobalRemove(n) \in Within(wire')
  BY <1>1, <1>2, OnceTail, FollowedTail DEF SeatAgreed
<1>4. Global(n)' = Global(n) /\ GlobalRemove(n)' = GlobalRemove(n) /\ Finished(n)' = Finished(n)
  BY DEF Global, GlobalRemove, Finished, Ev
<1>5. Global(n) # GlobalRemove(n) /\ Global(n) # Finished(n) /\ Finished(n) # GlobalRemove(n)
  BY EventNames
<1>6. CASE Head(wire) = Global(n)
  <2>1. seats' = seats \cup {n}
    BY <1>1, <1>6, EventNames
       DEF Dispatch, GlobalAdded, GlobalRemoved, DeviceFinished, Receiving, IsSeat
  <2> HIDE DEF Global, GlobalRemove, Finished
  <2> QED
    BY <1>1, <1>2, <1>3, <1>4, <1>5, <1>6, <2>1 DEF SeatAgreed
<1>7. CASE Head(wire) = GlobalRemove(n) \/ Head(wire) = Finished(n)
  <2>1. seats' = seats \ {n}
    BY <1>1, <1>7, EventNames
       DEF Dispatch, GlobalAdded, GlobalRemoved, DeviceFinished, Receiving, SeatsAfterRemoval
  <2> HIDE DEF Global, GlobalRemove, Finished
  <2> QED
    BY <1>1, <1>2, <1>3, <1>4, <1>5, <1>7, <2>1 DEF SeatAgreed
<1>8. CASE Head(wire) \notin {Global(n), GlobalRemove(n), Finished(n)}
  <2>1. name # n
    BY <1>1, <1>8, EventKinds DEF Event
  <2>2. n \in seats' <=> n \in seats
    BY <2>1 DEF Dispatch, GlobalAdded, GlobalRemoved, DeviceFinished, SeatsAfterRemoval
  <2> HIDE DEF Global, GlobalRemove, Finished
  <2> QED
    BY <1>1, <1>2, <1>3, <1>4, <1>8, <2>2 DEF SeatAgreed
<1> QED
  BY <1>6, <1>7, <1>8

LEMMA CompositorSeats ==
    ASSUME TypeOK, SeatInv, NEW m \in Names, Announce(m) \/ Withdraw(m) \/ FinishDevice(m)
    PROVE  SeatInv'
<1> SUFFICES ASSUME NEW n \in Names, kind'[n] = "seat"
             PROVE  SeatAgreed(n)'
  BY DEF SeatInv
<1>1. UNCHANGED <<seats, kind>> /\ status \in [Names -> {"new", "live", "finished", "gone", "over"}]
  BY DEF Announce, Withdraw, FinishDevice, client, TypeOK
<1>2. SeatAgreed(n)
  BY <1>1 DEF SeatInv
<1>3. \/ /\ wire' = Append(wire, Global(m)) /\ status[m] = "new"
         /\ status' = [status EXCEPT ![m] = "live"]
      \/ /\ wire' = Append(wire, GlobalRemove(m)) /\ status[m] \in {"live", "finished"}
         /\ status' = [status EXCEPT ![m] = IF @ = "live" THEN "gone" ELSE "over"]
      \/ /\ wire' = Append(wire, Finished(m)) /\ status[m] \in {"live", "gone"} /\ m \in seats
         /\ status' = [status EXCEPT ![m] = IF @ = "live" THEN "finished" ELSE "over"]
  BY DEF Announce, Withdraw, FinishDevice, Global, GlobalRemove, Finished
<1>4. ASSUME NEW e \in Event, wire' = Append(wire, e)
      PROVE  /\ Within(wire') = Within(wire) \cup {e}
             /\ (e # Global(n) \/ Global(n) \notin Within(wire)) => Once(wire', {Global(n)})
             /\ (e # Global(n) /\ (Followed(wire, Global(n), GlobalRemove(n)) \/ e = GlobalRemove(n)))
                  => Followed(wire', Global(n), GlobalRemove(n))
  <2>1. /\ wire' = wire \o <<e>> /\ wire \in Seq(Event) /\ <<e>> \in Seq(Event)
        /\ Within(wire') = Within(wire) \cup {e} /\ Within(<<e>>) = {e}
    BY <1>4, MoreEvents, WithinOne
  <2>2. Once(wire, {Global(n)}) /\ Once(<<e>>, {Global(n)})
    BY <1>2, OnceFew DEF SeatAgreed
  <2> HIDE DEF Global, GlobalRemove
  <2>3. ASSUME e # Global(n) \/ Global(n) \notin Within(wire)
        PROVE  Once(wire', {Global(n)})
    BY <2>1, <2>2, <2>3, OnceConcat
  <2>4. ASSUME e # Global(n), Followed(wire, Global(n), GlobalRemove(n)) \/ e = GlobalRemove(n)
        PROVE  Followed(wire', Global(n), GlobalRemove(n))
    BY <2>1, <2>4, FollowedConcat
  <2> QED
    BY <2>1, <2>3, <2>4
<1>5. Global(n)' = Global(n) /\ GlobalRemove(n)' = GlobalRemove(n) /\ Finished(n)' = Finished(n)
  BY DEF Global, GlobalRemove, Finished, Ev
<1>6. /\ Global(n) # GlobalRemove(n) /\ Global(n) # Finished(n) /\ Finished(n) # GlobalRemove(n)
      /\ Global(m) \in Event /\ GlobalRemove(m) \in Event /\ Finished(m) \in Event
  BY EventNames
<1>7. m # n => {Global(m), GlobalRemove(m), Finished(m)} \cap {Global(n), GlobalRemove(n), Finished(n)} = {}
  BY DEF Global, GlobalRemove, Finished, Ev
<1>8. CASE m # n
  <2>1. status'[n] = status[n]
    BY <1>1, <1>3, <1>8
  <2>2. PICK e \in {Global(m), GlobalRemove(m), Finished(m)} : wire' = Append(wire, e)
    BY <1>3
  <2>3. e \in Event /\ e \notin {Global(n), GlobalRemove(n), Finished(n)}
    BY <1>6, <1>7, <1>8
  <2> HIDE DEF Global, GlobalRemove, Finished
  <2> QED
    BY <1>1, <1>2, <1>4, <1>5, <2>1, <2>2, <2>3 DEF SeatAgreed
<1>9. CASE m = n
  <2> HIDE DEF Global, GlobalRemove, Finished
  <2>1. CASE wire' = Append(wire, Global(n)) /\ status[n] = "new" /\ status'[n] = "live"
    BY <1>1, <1>2, <1>4, <1>5, <1>6, <1>9, <2>1 DEF SeatAgreed
  <2>2. CASE wire' = Append(wire, GlobalRemove(n)) /\ status[n] = "live" /\ status'[n] = "gone"
    BY <1>1, <1>2, <1>4, <1>5, <1>6, <1>9, <2>2 DEF SeatAgreed
  <2>3. CASE wire' = Append(wire, GlobalRemove(n)) /\ status[n] = "finished" /\ status'[n] = "over"
    BY <1>1, <1>2, <1>4, <1>5, <1>6, <1>9, <2>3 DEF SeatAgreed
  <2>4. CASE wire' = Append(wire, Finished(n)) /\ status[n] = "live" /\ n \in seats /\ status'[n] = "finished"
    BY <1>1, <1>2, <1>4, <1>5, <1>6, <1>9, <2>4 DEF SeatAgreed
  <2>5. CASE wire' = Append(wire, Finished(n)) /\ status[n] = "gone" /\ n \in seats /\ status'[n] = "over"
    BY <1>1, <1>2, <1>4, <1>5, <1>6, <1>9, <2>5 DEF SeatAgreed
  <2> QED
    BY <1>1, <1>3, <1>9, <2>1, <2>2, <2>3, <2>4, <2>5
<1> QED
  BY <1>8, <1>9

LEMMA NextSeatInv == TypeOK /\ SeatInv /\ [Next]_vars => SeatInv'
<1>1. ASSUME TypeOK, SeatInv, Roundtrip \/ Bind \/ NoManagerFound \/ EndConnection \/ UNCHANGED vars
      PROVE  SeatInv'
  <2>1. UNCHANGED <<seats, kind, status, wire>>
    BY <1>1 DEF Roundtrip, Bind, NoManagerFound, EndConnection, vars, client
  <2>2. \A n : SeatAgreed(n)' = SeatAgreed(n)
    BY <2>1 DEF SeatAgreed, Global, GlobalRemove, Finished, Ev
  <2> QED
    BY <1>1, <2>1, <2>2 DEF SeatInv
<1> QED
  BY <1>1, DispatchSeats, CompositorSeats DEF Next, Dispatch

LEMMA InitSeatInv == Init => SeatInv
<1> SUFFICES ASSUME Init, NEW n \in Names
             PROVE  SeatAgreed(n)
  BY DEF SeatInv
<1>1. wire = <<>> /\ seats = {} /\ status[n] = "new" /\ Within(wire) = {} /\ Once(wire, {Global(n)})
  BY WithinOne, OnceFew DEF Init
<1> QED
  BY <1>1 DEF SeatAgreed

(* The seats that the client watches once it dispatched everything are the *)
(* seats there are, although a seat is entered for its global and left for *)
(* the end of its device or of its global, whichever comes first: in either*)
(* order the second of the two finds nothing to remove.                    *)
THEOREM SeatsFollowed == Spec => []SeatsFollowGlobals
<1>1. TypeOK /\ SeatInv => SeatsFollowGlobals
  <2> SUFFICES ASSUME TypeOK, SeatInv, wire = <<>>
               PROVE  seats = {n \in Live : kind[n] = "seat"}
    BY DEF SeatsFollowGlobals
  <2>1. Within(wire) = {}
    BY WithinOne
  <2>2. ASSUME NEW n \in Names, kind[n] = "seat"
        PROVE  n \in seats <=> status[n] = "live"
    BY <2>1, <2>2 DEF SeatInv, SeatAgreed, TypeOK
  <2> QED
    BY <2>2 DEF TypeOK, Live
<1> QED
  BY <1>1, TypeCorrect, InitSeatInv, NextSeatInv, PTL DEF Spec

=============================================================================
