----------------------------- MODULE OfferMimes -----------------------------
(***************************************************************************)
(* The mime types of one offer, from the events that announce them to the  *)
(* source that offers them again: data_control_offer_cb collects them,     *)
(* should_ignore_offer filters the offer, create_pipes_for_mime_types      *)
(* requests their data, handle_pipes_selection_state keeps what was read,  *)
(* and set_clipboard offers it.                                            *)
(*                                                                         *)
(* When these steps are taken, and whether the selection is still wanted   *)
(* by then, is in Selections; how the pipes are read is in PipeReader.     *)
(***************************************************************************)
EXTENDS Naturals, Sequences, SequencesExt

CONSTANTS
    MimeType,      \* mime types an application may announce
    Bytes,         \* their lengths
    Rank,          \* key by which their requests are sorted
    Matching,      \* those with a match for all_mime_type_regex
    Hack,          \* HACK_IGNORED_MIME_TYPES
    Limit,         \* selection_size_limit_bytes
    MaxAnnounced   \* bound: mime types announced for the offer

ASSUME MimeTypeAssumption == Bytes \in [MimeType -> Nat] /\ Rank \in [MimeType -> Nat]
ASSUME SubsetsAssumption  == Matching \subseteq MimeType /\ Hack \subseteq MimeType
ASSUME BoundAssumption    == Limit \in Nat \ {0} /\ MaxAnnounced \in Nat

(* The settings that matter: is there a regex, is there a limit, are errors*)
(* not tolerated, and are the workarounds active.                          *)
Settings == [regex : BOOLEAN, limited : BOOLEAN, ignoreOnError : BOOLEAN,
             ignoreHack : BOOLEAN, orderRequests : BOOLEAN]

VARIABLES
    settings,   \* chosen by the user
    pc,         \* collecting, mimes (ReadMimes), pipes (GotPipes), data (GotData), set or ignored
    announced,  \* history: what the events announced
    ordered,    \* ordered_mime_types
    unique,     \* unique_mime_types
    bytesRead,  \* bytes_read
    exceeded,   \* bytes_exceeded_limit
    requested,  \* history: the receive requests, in order
    pipes,      \* mime types in GotPipes::pipes
    data,       \* keys of the data that was read
    offered     \* mime types our source offers, in order

offer == <<ordered, unique, bytesRead, exceeded>>
vars  == <<settings, pc, announced, offer, requested, pipes, data, offered>>

(* Offer::from *)
Init ==
    /\ settings \in Settings
    /\ pc = "collecting"
    /\ announced = <<>>
    /\ ordered = <<>>
    /\ unique = {}
    /\ bytesRead = 0
    /\ exceeded = FALSE
    /\ requested = <<>>
    /\ pipes = {}
    /\ data = {}
    /\ offered = <<>>

-----------------------------------------------------------------------------
(* data_control_offer_cb: a mime type counts the first time it is announced*)
(* and is not kept if it exceeds the limit.                                *)
BytesWith_EveryTime(m) == bytesRead + Bytes[m]

BytesWith(m) == bytesRead + (IF m \in unique THEN 0 ELSE Bytes[m])

OverLimit(m) == m \notin unique /\ settings.limited /\ BytesWith(m) > Limit

UniqueWith_BeforeCheck(m) == unique \cup {m}

UniqueWith(m) == IF OverLimit(m) THEN unique ELSE unique \cup {m}

(* Every announcement is kept in the order, also a repeated one. *)
OrderedWith_NewOnly(m) == IF m \in unique \/ OverLimit(m) THEN ordered ELSE Append(ordered, m)

OrderedWith(m) == IF OverLimit(m) THEN ordered ELSE Append(ordered, m)

Announce(m) ==
    /\ pc = "collecting"
    /\ Len(announced) < MaxAnnounced
    /\ announced' = Append(announced, m)
    /\ IF exceeded
       THEN UNCHANGED offer
       ELSE /\ bytesRead' = BytesWith(m)
            /\ exceeded' = OverLimit(m)
            /\ ordered' = OrderedWith(m)
            /\ unique' = UniqueWith(m)
    /\ UNCHANGED <<settings, pc, requested, pipes, data, offered>>

(* should_ignore_offer *)
ShouldIgnore_AnyMatch ==
    exceeded \/ unique = {} \/ (settings.regex /\ unique \cap Matching = {})

ShouldIgnore == exceeded \/ unique = {} \/ (settings.regex /\ ~(unique \subseteq Matching))

(* The state is reset, and with it all that it holds. *)
Reset ==
    /\ ordered' = <<>>
    /\ unique' = {}
    /\ pipes' = {}
    /\ data' = {}
    /\ UNCHANGED <<bytesRead, exceeded>>

Ignore ==
    /\ pc' = "ignored"
    /\ Reset

(* The Selection event: ReadMimes, or the offer is ignored. *)
Selected ==
    /\ pc = "collecting"
    /\ IF ShouldIgnore
       THEN Ignore
       ELSE /\ pc' = "mimes"
            /\ UNCHANGED <<offer, pipes, data>>
    /\ UNCHANGED <<settings, announced, requested, offered>>

(* The mime types that create_pipes_for_mime_types asks for, without those *)
(* ignored as a workaround, in the orders it may ask for them: a hash set's*)
(* order, sorted by rank if that workaround is active.                     *)
Wanted == IF settings.ignoreHack THEN unique \ Hack ELSE unique

RequestOrders ==
    {order \in SetToSeqs(Wanted) :
        settings.orderRequests =>
            \A i, j \in 1 .. Len(order) : i < j => Rank[order[i]] <= Rank[order[j]]}

(* An error while a pipe is created ends it, or only skips the mime type.  *)
Fatal_Never(failed) == FALSE

Fatal(failed) == settings.ignoreOnError /\ failed # {}

(* The mime types of a list that are in a set, as a loop over it keeps them*)
(* (SelectSeq, which TLAPS does not define).                               *)
Among(list, S) ==
    LET among[i \in 0 .. Len(list)] ==
            IF i = 0 THEN <<>>
            ELSE IF list[i] \in S THEN Append(among[i - 1], list[i]) ELSE among[i - 1]
    IN  among[Len(list)]

(* Requests are sent until the first error that is fatal. *)
Requests(order, failed) ==
    IF Fatal(failed)
    THEN SubSeq(order, 1, SelectInSeq(order, LAMBDA m : m \in failed) - 1)
    ELSE Among(order, Wanted \ failed)

CreatePipes ==
    /\ pc = "mimes"
    /\ \E order \in RequestOrders, failed \in SUBSET Wanted :
          /\ requested' = Requests(order, failed)
          /\ IF Fatal(failed) \/ failed = Wanted
             THEN Ignore
             ELSE /\ pc' = "pipes"
                  /\ pipes' = Wanted \ failed
                  /\ unique' = {}
                  /\ UNCHANGED <<ordered, bytesRead, exceeded, data>>
    /\ UNCHANGED <<settings, announced, offered>>

(* handle_pipes_selection_state moves the mime types of its pipes into the *)
(* data; pipes that failed leave theirs out.                               *)
PipesLeft_Cloned == pipes

PipesLeft == {}

ReadPipes ==
    /\ pc = "pipes"
    /\ \E failed \in SUBSET pipes :
          IF Fatal(failed) \/ failed = pipes
          THEN Ignore
          ELSE /\ pc' = "data"
               /\ data' = pipes \ failed
               /\ pipes' = PipesLeft
               /\ UNCHANGED offer
    /\ UNCHANGED <<settings, announced, requested, offered>>

(* The data exceeds what the mime types leave of the limit. *)
DataExceedsLimit ==
    /\ pc = "pipes"
    /\ settings.limited
    /\ Ignore
    /\ UNCHANGED <<settings, announced, requested, offered>>

(* set_clipboard: the ordered mime types are used up. *)
SetClipboard ==
    /\ pc = "data"
    /\ pc' = "set"
    /\ offered' = Among(ordered, data)
    /\ ordered' = <<>>
    /\ UNCHANGED <<settings, announced, unique, bytesRead, exceeded, requested, pipes, data>>

-----------------------------------------------------------------------------
Next == \/ \E m \in MimeType : Announce(m)
        \/ Selected \/ CreatePipes \/ ReadPipes \/ DataExceedsLimit \/ SetClipboard

Spec == Init /\ [][Next]_vars

-----------------------------------------------------------------------------
Announced == ToSet(announced)

Total(S) == MapThenSumSet(LAMBDA m : Bytes[m], S)

(* Type invariant; unique and ordered hold the same mime types until the   *)
(* requests are made.                                                      *)
TypeOK ==
    /\ settings \in Settings
    /\ pc \in {"collecting", "mimes", "pipes", "data", "set", "ignored"}
    /\ announced \in Seq(MimeType)
    /\ ordered \in Seq(MimeType)
    /\ unique \subseteq MimeType
    /\ pc \in {"collecting", "mimes"} => unique = ToSet(ordered)
    /\ bytesRead \in Nat
    /\ exceeded \in BOOLEAN
    /\ requested \in Seq(MimeType)
    /\ pipes \subseteq MimeType
    /\ data \subseteq MimeType
    /\ offered \in Seq(MimeType)

(* The limit is exact: an offer exceeds it if the different mime types it  *)
(* announced do, in whatever order and however often they came.  Otherwise *)
(* bytes_read, with which the reading of the pipes starts, is their sum.   *)
LimitExact ==
    /\ exceeded <=> settings.limited /\ Total(Announced) > Limit
    /\ ~exceeded => bytesRead = Total(Announced)

(* No application is asked for the data of an offer that is to be ignored: *)
(* all that was announced, and not only what was kept, passes the filter.  *)
FilteredNotRequested ==
    requested # <<>> =>
        /\ settings.regex => Announced \subseteq Matching
        /\ settings.limited => Total(Announced) <= Limit

(* Our source offers what the application's did: the same mime types in the*)
(* same order and as often, without those whose data could not be read.    *)
OfferedAsAnnounced ==
    pc = "set" => offered = Among(announced, data) /\ offered # <<>>

(* With errors not tolerated, a selection is taken over with all its mime  *)
(* types or not at all, whichever step an error came in.                   *)
AllOrNothing ==
    pc = "set" /\ settings.ignoreOnError =>
        data = Announced \ (IF settings.ignoreHack THEN Hack ELSE {})

(* The references to a mime type in the ordered mime types, the unique     *)
(* ones, the pipes and the data.                                           *)
References(m) ==
    Cardinality({i \in 1 .. Len(ordered) : ordered[i] = m})
    + Cardinality({S \in {<<1, unique>>, <<2, pipes>>, <<3, data>>} : m \in S[2]})

(* The unwrap of Rc::into_inner in set_clipboard does not panic: the key of*)
(* the data is by then the only reference to its mime type.                *)
KeysUnshared == pc = "set" => \A m \in data : References(m) = 1
=============================================================================
