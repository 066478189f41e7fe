--------------------------- MODULE PipeReaderProofs ---------------------------
(***************************************************************************)
(* Theorems about PipeReader, for any finite set of pipes, any limit or    *)
(* none, any sizes of the mime types, the buffer and what an application   *)
(* writes, and for any interruptions.                                      *)
(***************************************************************************)
EXTENDS PipeReader, Collections

(* The rest of the offer whose pipes are read, as it is in OfferMimes.     *)
CONSTANTS Bytes, Rank, Matching, Hack, MaxAnnounced, Regex, IgnoreHack, OrderRequests,
          Announcements, Order, Asked

LEMMA TotalIsSum == \A f, S : Total(f, S) = SumOver(f, S)
BY DEF Total, SumOver

LEMMA MinTwo ==
    ASSUME NEW a \in Nat, NEW b \in Nat
    PROVE  /\ Min({a, b}) \in {a, b}
           /\ Min({a, b}) <= a /\ Min({a, b}) <= b
<1>1. \E x \in {a, b} : \A y \in {a, b} : x <= y
  OBVIOUS
<1> QED
  BY <1>1 DEF Min

(* What ends and what does not: the pipes that count and the two counters. *)
Ok     == {p \in Pipes : outcome[p] = "ok"}
Failed == {p \in Pipes : outcome[p] = "error"}

LEMMA FiniteParts == IsFiniteSet(Counting) /\ IsFiniteSet(Ok) /\ IsFiniteSet(Failed)
BY PipesAssumption, FS_Subset DEF Counting, Ok, Failed

(* Data that was read in full and errors that are tolerated. *)
Ended ==
    /\ result \in {"reading", "data"} =>
          \A p \in Pipes :
             /\ outcome[p] = "ok" => writer[p] = "closed" /\ dataRead[p] = written[p]
             /\ outcome[p] = "error" => ~ignoreOnError
    /\ result = "data" => (\A p \in Pipes : outcome[p] # "reading") /\ Ok # {}

Inv == TypeOK /\ BytesAccounted /\ HeldWithinLimit /\ LimitNotSpurious /\ Ended

LEMMA DataSum ==
    ASSUME TypeOK, NEW S \in SUBSET Pipes
    PROVE  IsFiniteSet(S) /\ Total(dataRead, S) \in Nat /\ Total(written, S) \in Nat
<1>1. IsFiniteSet(S)
  BY PipesAssumption, FS_Subset
<1>2. \A p \in S : dataRead[p] \in Nat /\ written[p] \in Nat
  BY SizesAssumption DEF TypeOK
<1> QED
  BY <1>1, <1>2, SumType, TotalIsSum

-----------------------------------------------------------------------------
LEMMA InitInv == Init => Inv
<1> SUFFICES ASSUME Init
             PROVE  Inv
  OBVIOUS
<1>1. TypeOK
  <2>1. /\ dataRead \in [Pipes -> Nat] /\ written \in [Pipes -> 0 .. MaxWritten]
        /\ \A p \in Pipes : dataRead[p] <= written[p]
    BY SizesAssumption DEF Init
  <2>2. outcome \in [Pipes -> {"reading", "ok", "error"}] /\ writer \in [Pipes -> {"open", "closed", "broken"}]
    BY DEF Init
  <2> QED
    BY <2>1, <2>2, MimeBytesAssumption DEF Init, TypeOK
<1>2. Ok = {} /\ Failed = {} /\ Counting = Pipes
  BY DEF Init, Ok, Failed, Counting
<1>3. Total(dataRead, Pipes) = 0
  <2> DEFINE Zero == {S \in SUBSET Pipes : SumOver(dataRead, S) = 0}
  <2>1. ASSUME NEW S \in SUBSET Pipes, \A U \in SUBSET S : U # S => U \in Zero
        PROVE  S \in Zero
    <3>1. SumOver(dataRead, S) = IF S = {} THEN 0 ELSE dataRead[First(S)] + SumOver(dataRead, S \ {First(S)})
      BY PipesAssumption, FS_Subset, SumFold
    <3>2. S # {} => First(S) \in S /\ S \ {First(S)} \in SUBSET S /\ S \ {First(S)} # S
      BY FirstIn
    <3> QED
      BY <2>1, <3>1, <3>2 DEF Init
  <2> HIDE DEF Zero
  <2>2. Pipes \in Zero
    BY <2>1, PipesAssumption, SubsetInduction
  <2> QED
    BY <2>2, TotalIsSum DEF Zero
<1>4. BytesAccounted
  BY <1>2, <1>3, FS_EmptySet, MimeBytesAssumption DEF BytesAccounted, Init, Ok, Failed
<1>5. HeldWithinLimit
  BY <1>2, <1>3, MimeBytesAssumption DEF HeldWithinLimit
<1> QED
  BY <1>1, <1>4, <1>5 DEF Inv, Init, LimitNotSpurious, Ended

(* The steps that read nothing. *)
LEMMA IdleInv == Inv /\ (Poll \/ Interrupt \/ Complete \/ UNCHANGED vars) => Inv'
<1> SUFFICES ASSUME Inv, Poll \/ Interrupt \/ Complete \/ UNCHANGED vars
             PROVE  Inv'
  OBVIOUS
<1>1. dataRead' = dataRead
  BY DEF Inv, TypeOK, Poll, Resumed, Interrupt, Complete, vars, selection
<1>2. UNCHANGED <<ignoreOnError, outcome, bytesRead, numOk, numError, written, writer>>
  BY DEF Poll, Interrupt, Complete, vars, selection
<1>3. \/ result' = result
      \/ result = "reading" /\ AllFinished /\ result' = IF \E p \in Pipes : outcome[p] = "ok" THEN "data" ELSE "empty"
  BY DEF Poll, Interrupt, Complete, Finish, vars
<1>4. polling' \in BOOLEAN
  BY DEF Inv, TypeOK, Poll, Interrupt, Complete, Finish, vars
<1>5. Counting' = Counting /\ Ok' = Ok /\ Failed' = Failed
  BY <1>2 DEF Counting, Ok, Failed
<1>6. TypeOK'
  BY <1>1, <1>2, <1>3, <1>4 DEF Inv, TypeOK
<1>7. BytesAccounted' /\ HeldWithinLimit' /\ LimitNotSpurious'
  BY <1>1, <1>2, <1>3, <1>5 DEF Inv, BytesAccounted, HeldWithinLimit, LimitNotSpurious, Ok, Failed
<1>8. Ended'
  BY <1>1, <1>2, <1>3, <1>5 DEF Inv, Ended, AllFinished, Ok
<1> QED
  BY <1>6, <1>7, <1>8 DEF Inv

(* The application's. *)
LEMMA WriterInv ==
    ASSUME Inv, NEW p \in Pipes, result = "reading", AppWrites(p) \/ AppEnds(p)
    PROVE  Inv'
<1>1. UNCHANGED <<ignoreOnError, polling, dataRead, outcome, bytesRead, numOk, numError, result>>
  BY DEF AppWrites, AppEnds, selection
<1>2. /\ written' \in [Pipes -> 0 .. MaxWritten] /\ writer' \in [Pipes -> {"open", "closed", "broken"}]
      /\ \A q \in Pipes : written'[q] >= written[q]
      /\ \A q \in Pipes : writer[q] = "closed" => writer'[q] = "closed" /\ written'[q] = written[q]
  BY SizesAssumption DEF Inv, TypeOK, AppWrites, AppEnds
<1>3. Counting' = Counting /\ Ok' = Ok /\ Failed' = Failed
  BY <1>1 DEF Counting, Ok, Failed
<1>4. TypeOK'
  BY <1>1, <1>2, SizesAssumption DEF Inv, TypeOK
<1>5. BytesAccounted' /\ HeldWithinLimit' /\ LimitNotSpurious'
  BY <1>1, <1>3 DEF Inv, BytesAccounted, HeldWithinLimit, LimitNotSpurious, Ok, Failed
<1>6. Ended'
  BY <1>1, <1>2, <1>3 DEF Inv, Ended
<1> QED
  BY <1>4, <1>5, <1>6 DEF Inv

LEMMA ReadSomeInv ==
    ASSUME Inv, NEW p \in Pipes, ReadSome(p)
    PROVE  Inv'
<1> DEFINE size == Min({Unread(p), BufSize})
<1>1. /\ result = "reading" /\ outcome[p] = "reading" /\ p \in Counting
      /\ dataRead[p] \in Nat /\ written[p] \in Nat /\ dataRead[p] <= written[p]
      /\ bytesRead' = bytesRead + size /\ UNCHANGED <<ignoreOnError, numOk, numError, written, writer>>
  BY SizesAssumption DEF Inv, TypeOK, ReadSome, Reading, Counting
<1>2. size \in Nat /\ size <= written[p] - dataRead[p] /\ size <= BufSize
  <2>1. Unread(p) \in Nat /\ Unread(p) = written[p] - dataRead[p] /\ BufSize \in Nat
    BY <1>1, SizesAssumption DEF Unread
  <2> QED
    BY <2>1, MinTwo
<1>3. /\ bytesRead \in Nat /\ bytesRead = MimeBytes + Total(dataRead, Counting)
      /\ Total(dataRead, Counting) \in Nat /\ Total(written, Counting) \in Nat /\ IsFiniteSet(Counting)
  BY <1>1, DataSum DEF Inv, TypeOK, BytesAccounted, Counting
<1> DEFINE more == [dataRead EXCEPT ![p] = @ + size]
<1>4. /\ more \in [Pipes -> Nat] /\ more[p] = dataRead[p] + size /\ \A q \in Pipes \ {p} : more[q] = dataRead[q]
      /\ \A q \in Pipes : more[q] <= written[q] /\ written[q] \in Nat
  BY <1>1, <1>2, SizesAssumption DEF Inv, TypeOK
<1>5. Total(more, Counting) = Total(dataRead, Counting) + size /\ Total(more, Counting) <= Total(written, Counting)
  <2> HIDE DEF more, size
  <2>1. SumOver(more, Counting) = SumOver(dataRead, Counting) + size
    BY <1>1, <1>2, <1>3, <1>4, SumIncrease DEF Inv, TypeOK, Counting
  <2>2. SumOver(more, Counting) <= SumOver(written, Counting)
    BY <1>3, <1>4, SumMonotonic DEF Counting
  <2> QED
    BY <2>1, <2>2, TotalIsSum
<1>6. CASE ExceedsLimit(p, size)
  <2>1. /\ result' = "sizeLimit" /\ polling' = FALSE /\ outcome' = [outcome EXCEPT ![p] = "ok"]
        /\ UNCHANGED dataRead
    BY <1>6 DEF ReadSome, Finish
  <2>2. Counting' = Counting
    BY <1>1, <2>1 DEF Inv, TypeOK, Counting
  <2>3. Limit \in Nat /\ bytesRead + size > Limit
    BY <1>6, LimitAssumption DEF ExceedsLimit
  <2> HIDE DEF size, more
  <2>4. TypeOK'
    <3>1. bytesRead' \in Nat
      BY <1>1, <1>2, <1>3
    <3>2. outcome' \in [Pipes -> {"reading", "ok", "error"}]
      BY <2>1 DEF Inv, TypeOK
    <3> QED
      BY <1>1, <2>1, <3>1, <3>2 DEF Inv, TypeOK
  <2>5. LimitNotSpurious'
    BY <1>1, <1>2, <1>3, <1>5, <2>2, <2>3, MimeBytesAssumption DEF LimitNotSpurious
  <2>6. BytesAccounted' /\ HeldWithinLimit' /\ Ended'
    BY <2>1, <2>2 DEF Inv, BytesAccounted, HeldWithinLimit, Ended
  <2> QED
    BY <2>4, <2>5, <2>6 DEF Inv
<1>7. CASE ~ExceedsLimit(p, size)
  <2>1. dataRead' = more /\ UNCHANGED <<outcome, polling, result>>
    BY <1>7 DEF ReadSome
  <2>2. Counting' = Counting /\ Ok' = Ok /\ Failed' = Failed
    BY <2>1 DEF Counting, Ok, Failed
  <2>3. Limit # NoLimit => bytesRead + size <= Limit
    BY <1>2, <1>3, <1>7, LimitAssumption DEF ExceedsLimit
  <2> HIDE DEF size, more
  <2>4. TypeOK'
    BY <1>1, <1>2, <1>4, <2>1 DEF Inv, TypeOK
  <2>5. BytesAccounted'
    BY <1>1, <1>2, <1>3, <1>5, <2>1, <2>2, MimeBytesAssumption DEF Inv, BytesAccounted, Ok, Failed
  <2>6. HeldWithinLimit'
    BY <1>2, <1>3, <1>5, <2>1, <2>2, <2>3, MimeBytesAssumption DEF HeldWithinLimit
  <2>7. LimitNotSpurious' /\ Ended'
    BY <1>1, <1>4, <2>1, <2>2 DEF Inv, LimitNotSpurious, Ended
  <2> QED
    BY <2>4, <2>5, <2>6, <2>7 DEF Inv
<1> QED
  BY <1>6, <1>7

LEMMA ReadEndInv ==
    ASSUME Inv, NEW p \in Pipes, ReadEnd(p)
    PROVE  Inv'
<1>1. /\ result = "reading" /\ outcome[p] = "reading" /\ outcome' = [outcome EXCEPT ![p] = "ok"]
      /\ numOk' = numOk + 1 /\ writer[p] = "closed" /\ written[p] - dataRead[p] = 0
      /\ UNCHANGED <<ignoreOnError, polling, dataRead, bytesRead, numError, result, written, writer>>
  BY DEF ReadEnd, Reading, AtEnd, Unread
<1>2. dataRead[p] \in Nat /\ written[p] \in Nat /\ dataRead[p] = written[p]
  BY <1>1, SizesAssumption DEF Inv, TypeOK
<1>3. Counting' = Counting /\ Ok' = Ok \cup {p} /\ p \notin Ok /\ Failed' = Failed
  BY <1>1 DEF Inv, TypeOK, Counting, Ok, Failed
<1>4. Cardinality(Ok') = Cardinality(Ok) + 1
  BY <1>3, FiniteParts, FS_AddElement
<1>5. TypeOK'
  BY <1>1 DEF Inv, TypeOK
<1>6. BytesAccounted'
  BY <1>1, <1>3, <1>4 DEF Inv, BytesAccounted, Ok, Failed
<1>7. HeldWithinLimit' /\ LimitNotSpurious'
  BY <1>1, <1>3 DEF Inv, HeldWithinLimit, LimitNotSpurious
<1>8. Ended'
  BY <1>1, <1>2 DEF Inv, TypeOK, Ended
<1> QED
  BY <1>5, <1>6, <1>7, <1>8 DEF Inv

LEMMA ReadFailsInv ==
    ASSUME Inv, NEW p \in Pipes, ReadFails(p)
    PROVE  Inv'
<1>1. /\ result = "reading" /\ outcome[p] = "reading" /\ p \in Counting
      /\ bytesRead' = bytesRead - dataRead[p] /\ dataRead[p] \in Nat
      /\ UNCHANGED <<ignoreOnError, dataRead, numOk, written, writer>>
  BY DEF Inv, TypeOK, ReadFails, Reading, BytesAfterError, Counting
<1> DEFINE others == Counting \ {p}
<1>2. /\ bytesRead = MimeBytes + Total(dataRead, Counting)
      /\ Total(dataRead, others) \in Nat /\ IsFiniteSet(Counting)
      /\ Total(dataRead, Counting) = dataRead[p] + Total(dataRead, others)
  <2>1. IsFiniteSet(Counting) /\ \A q \in Counting : dataRead[q] \in Nat
    BY DataSum DEF Inv, TypeOK, Counting
  <2>2. SumOver(dataRead, Counting) = dataRead[p] + SumOver(dataRead, others)
    BY <1>1, <2>1, SumRemove
  <2>3. Total(dataRead, others) \in Nat
    BY DataSum DEF Inv, Counting
  <2> QED
    BY <1>1, <2>1, <2>2, <2>3, TotalIsSum DEF Inv, BytesAccounted
<1> HIDE DEF others
<1>3. bytesRead' = MimeBytes + Total(dataRead, others) /\ bytesRead' \in Nat
  BY <1>1, <1>2, MimeBytesAssumption
<1>4. CASE ignoreOnError
  <2>1. outcome' = [outcome EXCEPT ![p] = "ok"] /\ result' = "ioError" /\ polling' = FALSE /\ UNCHANGED numError
    BY <1>4 DEF ReadFails, Finish
  <2>2. Counting' = Counting
    BY <1>1, <2>1 DEF Inv, TypeOK, Counting
  <2>3. TypeOK'
    BY <1>1, <1>3, <2>1 DEF Inv, TypeOK
  <2> QED
    BY <1>1, <2>1, <2>2, <2>3 DEF Inv, BytesAccounted, HeldWithinLimit, LimitNotSpurious, Ended
<1>5. CASE ~ignoreOnError
  <2>1. /\ outcome' = [outcome EXCEPT ![p] = "error"] /\ numError' = numError + 1
        /\ UNCHANGED <<polling, result>>
    BY <1>5 DEF ReadFails
  <2>2. Counting' = others /\ Ok' = Ok /\ Failed' = Failed \cup {p} /\ p \notin Failed
    BY <1>1, <2>1 DEF Inv, TypeOK, Counting, Ok, Failed, others
  <2>3. Cardinality(Failed') = Cardinality(Failed) + 1
    BY <2>2, FiniteParts, FS_AddElement
  <2>4. TypeOK'
    BY <1>1, <1>3, <2>1 DEF Inv, TypeOK
  <2>5. BytesAccounted'
    BY <1>1, <1>3, <2>1, <2>2, <2>3 DEF Inv, BytesAccounted, Ok, Failed
  <2>6. HeldWithinLimit'
    BY <1>1, <1>2, <2>2, MimeBytesAssumption, LimitAssumption DEF Inv, HeldWithinLimit
  <2>7. LimitNotSpurious' /\ Ended'
    BY <1>1, <1>5, <2>1 DEF Inv, TypeOK, LimitNotSpurious, Ended
  <2> QED
    BY <2>4, <2>5, <2>6, <2>7 DEF Inv
<1> QED
  BY <1>4, <1>5

LEMMA NextInv == Inv /\ [Next]_vars => Inv'
BY IdleInv, WriterInv, ReadSomeInv, ReadEndInv, ReadFailsInv DEF Next

LEMMA AlwaysInv == Spec => []Inv
BY InitInv, NextInv, PTL DEF Spec

-----------------------------------------------------------------------------
(* The byte count never underflows and no more is held than was written.   *)
THEOREM TypeCorrect == Spec => []TypeOK
BY AlwaysInv, PTL DEF Inv

(* The accounting of the bytes and of the pipes is exact.                  *)
THEOREM AccountsExactly == Spec => []BytesAccounted
BY AlwaysInv, PTL DEF Inv

(* What is held of the pipes that did not fail, with the mime types, never *)
(* exceeds the limit.                                                      *)
THEOREM HoldsWithinLimit == Spec => []HeldWithinLimit
BY AlwaysInv, PTL DEF Inv

(* A selection is ignored for its size only if it is too large.            *)
THEOREM LimitIsExceeded == Spec => []LimitNotSpurious
BY AlwaysInv, PTL DEF Inv

(* What is taken over is all that the application wrote.                   *)
THEOREM DataIsComplete == Spec => []DataComplete
<1>1. Inv => DataComplete
  BY DEF Inv, TypeOK, Ended, DataComplete, Ok
<1> QED
  BY <1>1, AlwaysInv, PTL

-----------------------------------------------------------------------------
(* The refinement: OfferMimes has one step for all the reads of an offer,  *)
(* each pipe standing for its mime type.  It is taken when the reads end,  *)
(* whatever the order they ended in and however often they were dropped.   *)
Offer == INSTANCE OfferMimes WITH
    MimeType  <- Pipes,
    settings  <- [regex |-> Regex, limited |-> (Limit # NoLimit), ignoreOnError |-> ignoreOnError,
                  ignoreHack |-> IgnoreHack, orderRequests |-> OrderRequests],
    pc        <- IF result = "reading" THEN "pipes" ELSE IF result = "data" THEN "data" ELSE "ignored",
    announced <- Announcements,
    ordered   <- IF result \in {"reading", "data"} THEN Order ELSE <<>>,
    unique    <- {},
    bytesRead <- MimeBytes,
    exceeded  <- FALSE,
    requested <- Asked,
    pipes     <- IF result = "reading" THEN Pipes ELSE {},
    data      <- IF result = "data" THEN Ok ELSE {},
    offered   <- <<>>

ReadsOffer == Offer!ReadPipes \/ Offer!DataExceedsLimit

LEMMA NothingShows ==
    ASSUME result' = result, ignoreOnError' = ignoreOnError, result = "data" => outcome' = outcome
    PROVE  UNCHANGED Offer!vars
<1>1. result = "data" => Ok' = Ok
  BY DEF Ok
<1> QED
  BY <1>1 DEF Offer!vars, Offer!offer

(* What ends the reads early, or with nothing, makes the offer ignored.    *)
LEMMA GivesUp ==
    ASSUME result = "reading", ignoreOnError' = ignoreOnError,
           \/ result' = "sizeLimit" /\ Limit # NoLimit
           \/ result' = "ioError" /\ ignoreOnError
           \/ result' = "empty"
    PROVE  ReadsOffer
<1>1. Offer!Ignore
  BY DEF Offer!Ignore, Offer!Reset
<1>2. CASE result' = "sizeLimit" /\ Limit # NoLimit
  BY <1>1, <1>2 DEF ReadsOffer, Offer!DataExceedsLimit
<1>3. CASE result' = "ioError" /\ ignoreOnError
  <2>1. Offer!Fatal(Pipes)
    BY <1>3, PipesAssumption DEF Offer!Fatal
  <2> QED
    BY <1>1, <1>3, <2>1 DEF ReadsOffer, Offer!ReadPipes
<1>4. CASE result' = "empty"
  BY <1>1, <1>4 DEF ReadsOffer, Offer!ReadPipes
<1> QED
  BY <1>2, <1>3, <1>4

(* What has data has it for the pipes that did not fail.                   *)
LEMMA Completes ==
    ASSUME Inv, result = "reading", Complete, result' = "data"
    PROVE  ReadsOffer
<1>1. Failed \in SUBSET Pipes /\ Ok = Pipes \ Failed
  BY DEF Complete, AllFinished, Inv, TypeOK, Ok, Failed
<1>2. Ok # {} /\ Failed # Pipes
  BY <1>1 DEF Complete, Finish, Ok
<1>3. ~Offer!Fatal(Failed)
  BY DEF Offer!Fatal, Inv, Ended, Failed
<1>4. Ok' = Ok /\ ignoreOnError' = ignoreOnError
  BY DEF Complete, selection, Ok
<1> QED
  BY <1>1, <1>2, <1>3, <1>4 DEF ReadsOffer, Offer!ReadPipes, Offer!PipesLeft, Offer!offer

LEMMA StepReadsOffer == Inv /\ [Next]_vars => [ReadsOffer]_(Offer!vars)
<1> SUFFICES ASSUME Inv, [Next]_vars
             PROVE  [ReadsOffer]_(Offer!vars)
  OBVIOUS
<1>1. ignoreOnError' = ignoreOnError
  BY DEF Next, vars, Poll, Interrupt, Complete, ReadSome, ReadEnd, ReadFails, AppWrites, AppEnds
<1>2. CASE UNCHANGED vars
  BY <1>1, <1>2, NothingShows DEF vars, selection
<1>3. ASSUME result = "reading", result' = result
      PROVE  UNCHANGED Offer!vars
  BY <1>1, <1>3, NothingShows
<1>4. CASE Poll \/ Interrupt
  BY <1>3, <1>4 DEF Poll, Interrupt
<1>5. CASE Complete
  <2>1. result = "reading" /\ result' \in {"data", "empty"}
    BY <1>5 DEF Complete, Finish
  <2> QED
    BY <1>1, <1>5, <2>1, Completes, GivesUp
<1>6. ASSUME NEW p \in Pipes, ReadSome(p)
      PROVE  [ReadsOffer]_(Offer!vars)
  <2>1. result = "reading" /\ (result' = result \/ (result' = "sizeLimit" /\ Limit # NoLimit))
    BY <1>6 DEF ReadSome, Reading, Finish, ExceedsLimit
  <2> QED
    BY <1>1, <1>3, <2>1, GivesUp
<1>7. ASSUME NEW p \in Pipes, ReadEnd(p)
      PROVE  [ReadsOffer]_(Offer!vars)
  BY <1>3, <1>7 DEF ReadEnd, Reading
<1>8. ASSUME NEW p \in Pipes, ReadFails(p)
      PROVE  [ReadsOffer]_(Offer!vars)
  <2>1. result = "reading" /\ (result' = result \/ (result' = "ioError" /\ ignoreOnError))
    BY <1>8 DEF ReadFails, Reading, Finish
  <2> QED
    BY <1>1, <1>3, <2>1, GivesUp
<1>9. ASSUME NEW p \in Pipes, result = "reading", AppWrites(p) \/ AppEnds(p)
      PROVE  [ReadsOffer]_(Offer!vars)
  BY <1>3, <1>9 DEF AppWrites, AppEnds
<1> QED
  BY <1>2, <1>4, <1>5, <1>6, <1>7, <1>8, <1>9 DEF Next

(* The reads of one offer, with all their interruptions, errors and limits,*)
(* are one step of OfferMimes: the mime types in its data are those of the *)
(* pipes that were read to their end, and the selection is ignored when it *)
(* says so.                                                                *)
THEOREM ReadsLikeOneStep == Spec => [][ReadsOffer]_(Offer!vars)
BY StepReadsOffer, AlwaysInv, PTL DEF Spec
=============================================================================
