------------------------------ MODULE Registry ------------------------------
(***************************************************************************)
(* The globals of the compositor as the client sees them: the choice of    *)
(* the data control manager (run_with_ext_protocol, run_with_wlr_protocol) *)
(* and the registry callback that follows the seats and the removal of the *)
(* manager's global (wl_registry_cb).                                      *)
(*                                                                         *)
(* A global has a name, given by the compositor.  A bound global is an     *)
(* object with an id, given by the client.  Both are small numbers and     *)
(* have nothing else in common.                                            *)
(***************************************************************************)
EXTENDS Naturals, Sequences

CONSTANTS
    Names,      \* names of the globals
    ManagerId,  \* the object id of the bound data control manager
    None        \* no manager, no protocol forced

(* What a global can be: wlr1 and wlr2 are zwlr_data_control_manager_v1    *)
(* with that version; the primary selection came with version 2.           *)
Kind == {"seat", "ext", "wlr1", "wlr2", "other"}

ASSUME NamesAssumption == Names \subseteq Nat \ {0}
ASSUME NoneAssumption  == None \notin Names /\ None \notin {"ext", "wlr"}

(* settings.clipboard_type.primary() and settings.force_protocol *)
Settings == [primary : BOOLEAN, forced : {"ext", "wlr", None}]

VARIABLES
    settings, \* chosen by the user
    pc,       \* start (first roundtrip), bind, running, failed (no manager found)
              \* or ended (manager removed)
    globals,  \* the globals the connection knows of after the roundtrip
    manager,  \* the global that was bound as data_control_manager
    seats,    \* State::seats
    removed,  \* State::removed_data_control_manager
    kind,     \* compositor: what each global is
    status,   \* compositor: a global is new, live or gone; a seat whose device is
              \* finished is finished, and over once it is gone too
    wire      \* registry and device events not yet dispatched

client == <<settings, pc, globals, manager, seats, removed>>
vars   == <<client, kind, status, wire>>

Ev(t, n) == [t |-> t, name |-> n]

Live == {n \in Names : status[n] = "live"}

Init ==
    /\ settings \in Settings
    /\ pc = "start"
    /\ globals = {}
    /\ manager = None
    /\ seats = {}
    /\ removed = FALSE
    /\ kind \in [Names -> Kind]
    /\ status = [n \in Names |-> "new"]
    /\ wire = <<>>

-----------------------------------------------------------------------------
(* run, async_roundtrip: the connection has heard of the globals there are *)
(* when the compositor answers.  More may come and go before the bind.     *)
Roundtrip ==
    /\ pc = "start"
    /\ globals' = Live
    /\ pc' = "bind"
    /\ UNCHANGED <<settings, manager, seats, removed, kind, status, wire>>

(* Several globals of one interface: bind_singleton looks at the one that  *)
(* was announced first.  Nothing is dispatched before the bind, so that    *)
(* wire still has every announcement.                                      *)
FirstAnnounced(S) ==
    {n \in S : \E i \in 1 .. Len(wire) :
        wire[i] = Ev("Global", n) /\ \A j \in 1 .. (i - 1), m \in S : wire[j] # Ev("Global", m)}

ExtGlobals == {n \in globals : kind[n] = "ext"}
WlrGlobals == {n \in globals : kind[n] \in {"wlr1", "wlr2"}}

(* bind_singleton of the ext manager, version 1. *)
ExtManagers == FirstAnnounced(ExtGlobals)

(* bind_singleton of the wlr manager fails if the one it looks at has not  *)
(* version 2 and the primary selection is wanted.                          *)
WlrManagers == {n \in FirstAnnounced(WlrGlobals) : settings.primary => kind[n] = "wlr2"}

(* The manager that run, run_with_ext_protocol and run_with_wlr_protocol   *)
(* bind, if any: ext before wlr, unless one of them is forced.             *)
Managers_ExtOnly == IF settings.forced = "wlr" THEN WlrManagers ELSE ExtManagers

Managers ==
    IF settings.forced = "wlr" THEN WlrManagers
    ELSE IF settings.forced = "ext" \/ ExtManagers # {} THEN ExtManagers
    ELSE WlrManagers

Bind ==
    /\ pc = "bind"
    /\ \E n \in Managers : manager' = n
    /\ pc' = "running"
    /\ UNCHANGED <<settings, globals, seats, removed, kind, status, wire>>

NoManagerFound ==
    /\ pc = "bind"
    /\ Managers = {}
    /\ pc' = "failed"
    /\ UNCHANGED <<settings, globals, manager, seats, removed, kind, status, wire>>

Receiving(t) ==
    /\ pc = "running"
    /\ wire # <<>>
    /\ Head(wire).t = t
    /\ wire' = Tail(wire)

name == Head(wire).name

(* wl_registry_cb, Global: only seats are bound. *)
IsSeat_Any(n) == TRUE

IsSeat(n) == kind[n] = "seat"

GlobalAdded ==
    /\ Receiving("Global")
    /\ seats' = IF IsSeat(name) THEN seats \cup {name} ELSE seats
    /\ UNCHANGED <<settings, pc, globals, manager, removed, kind, status>>

(* The global that is removed is the manager's: wl_registry_cb compares its*)
(* name with the id of the manager object.                                 *)
IsManager(n) == n = ManagerId

(* wl_registry_cb, GlobalRemove *)
SeatsAfterRemoval_Kept(n) == seats

SeatsAfterRemoval(n) == seats \ {n}

GlobalRemoved ==
    /\ Receiving("GlobalRemove")
    /\ IF name \in seats
       THEN /\ seats' = SeatsAfterRemoval(name)
            /\ UNCHANGED removed
       ELSE /\ removed' = (removed \/ IsManager(name))
            /\ UNCHANGED seats
    /\ UNCHANGED <<settings, pc, globals, manager, kind, status>>

(* data_control_device_cb, Finished *)
DeviceFinished ==
    /\ Receiving("Finished")
    /\ seats' = seats \ {name}
    /\ UNCHANGED <<settings, pc, globals, manager, removed, kind, status>>

(* After dispatch_events the flag ends the connection. *)
EndConnection ==
    /\ pc = "running"
    /\ removed
    /\ pc' = "ended"
    /\ UNCHANGED <<settings, globals, manager, seats, removed, kind, status, wire>>

-----------------------------------------------------------------------------
(* The compositor (external). *)

Running == pc \in {"start", "bind", "running"}

Announce(n) ==
    /\ Running
    /\ status[n] = "new"
    /\ status' = [status EXCEPT ![n] = "live"]
    /\ wire' = Append(wire, Ev("Global", n))
    /\ UNCHANGED <<client, kind>>

Withdraw(n) ==
    /\ Running
    /\ status[n] \in {"live", "finished"}
    /\ status' = [status EXCEPT ![n] = IF @ = "live" THEN "gone" ELSE "over"]
    /\ wire' = Append(wire, Ev("GlobalRemove", n))
    /\ UNCHANGED <<client, kind>>

(* The device of a seat becomes invalid, before or after its global goes. *)
FinishDevice(n) ==
    /\ pc = "running"
    /\ n \in seats
    /\ status[n] \in {"live", "gone"}
    /\ status' = [status EXCEPT ![n] = IF @ = "live" THEN "finished" ELSE "over"]
    /\ wire' = Append(wire, Ev("Finished", n))
    /\ UNCHANGED <<client, kind>>

Next == \/ Roundtrip \/ Bind \/ NoManagerFound
        \/ GlobalAdded \/ GlobalRemoved \/ DeviceFinished \/ EndConnection
        \/ \E n \in Names : Announce(n) \/ Withdraw(n) \/ FinishDevice(n)

Spec == Init /\ [][Next]_vars

-----------------------------------------------------------------------------
(* Type invariant; only seats are in the map of seats.                     *)
TypeOK ==
    /\ settings \in Settings
    /\ pc \in {"start", "bind", "running", "failed", "ended"}
    /\ globals \subseteq Names
    /\ manager \in Names \cup {None}
    /\ seats \subseteq {n \in Names : kind[n] = "seat"}
    /\ removed \in BOOLEAN
    /\ kind \in [Names -> Kind]
    /\ status \in [Names -> {"new", "live", "finished", "gone", "over"}]
    /\ wire \in Seq([t : {"Global", "GlobalRemove", "Finished"}, name : Names])

(* The client watches the seats there are: once it dispatched everything,  *)
(* every seat whose device is valid and no other, however seats came, went *)
(* and were finished, at startup and later.                                *)
SeatsFollowGlobals ==
    pc = "running" /\ wire = <<>> => seats = {n \in Live : kind[n] = "seat"}

(* The managers that can do what the settings ask for: an activated primary*)
(* selection, and the protocol that is forced.                             *)
Suffices(n) ==
    \/ kind[n] = "ext" /\ settings.forced # "wlr"
    \/ kind[n] = "wlr2" /\ settings.forced # "ext"
    \/ kind[n] = "wlr1" /\ settings.forced # "ext" /\ ~settings.primary

(* The client binds a manager that suffices, whichever of the attempts with*)
(* either protocol found it.  It fails, which ends the program for good,   *)
(* only if of each protocol there is no global or one that does not        *)
(* suffice: with one global of each, only if neither does, but next to a   *)
(* global that is too old a second one does not help.                      *)
FindsSufficientManager ==
    [][/\ manager' # manager => manager' \in globals /\ Suffices(manager')
       /\ pc' = "failed" =>
             \A S \in {ExtGlobals, WlrGlobals} : S # {} => \E n \in S : ~Suffices(n)]_vars

(* State::removed_data_control_manager tracks whether the global of the    *)
(* data control manager was removed: the connection ends if it was, and    *)
(* only then.                                                              *)
EndsWithManager ==
    /\ pc = "ended" => status[manager] = "gone"
    /\ pc = "running" /\ wire = <<>> /\ status[manager] = "gone" => removed
=============================================================================
