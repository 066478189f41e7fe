--------------------------- MODULE OfferMimesProofs ---------------------------
(***************************************************************************)
(* Theorems about OfferMimes, for any mime types with any lengths and      *)
(* ranks, any filter, list of ignored mime types, limit and number of      *)
(* announcements, and for every choice of the settings.                    *)
(***************************************************************************)
EXTENDS OfferMimes, Collections

LEMMA TotalIsSum == \A S : Total(S) = SumOver(Bytes, S)
BY DEF Total, SumOver

-----------------------------------------------------------------------------
(* What Among returns: by induction over how much of the list is done.     *)
IsAmong(list, S, n, g) ==
    g = [i \in 0 .. n |-> IF i = 0 THEN <<>>
                          ELSE IF list[i] \in S THEN Append(g[i - 1], list[i]) ELSE g[i - 1]]

LEMMA AmongIs == \A list, S : Among(list, S) = (CHOOSE g : IsAmong(list, S, Len(list), g))[Len(list)]
BY DEF Among, IsAmong

LEMMA AmongExists ==
    ASSUME NEW list, NEW S, NEW n \in Nat
    PROVE  \E g : IsAmong(list, S, n, g)
<1> DEFINE With == {k \in Nat : \E g : IsAmong(list, S, k, g)}
<1>1. 0 \in With
  <2> DEFINE g == [i \in 0 .. 0 |-> <<>>]
  <2>1. g = [i \in 0 .. 0 |-> IF i = 0 THEN <<>>
                              ELSE IF list[i] \in S THEN Append(g[i - 1], list[i]) ELSE g[i - 1]]
    OBVIOUS
  <2> QED
    BY <2>1 DEF IsAmong
<1>2. ASSUME NEW k \in Nat, k \in With
      PROVE  k + 1 \in With
  <2>1. PICK g : IsAmong(list, S, k, g)
    BY <1>2
  <2> DEFINE Step(f, i) == IF i = 0 THEN <<>>
                           ELSE IF list[i] \in S THEN Append(f[i - 1], list[i]) ELSE f[i - 1]
             h == [i \in 0 .. k + 1 |-> IF i = k + 1 THEN Step(g, i) ELSE g[i]]
  <2>2. ASSUME NEW i \in 0 .. k + 1
        PROVE  h[i] = Step(h, i)
    <3>1. CASE i = k + 1
      <4>1. i # 0 /\ i - 1 \in 0 .. k + 1 /\ i - 1 # k + 1
        BY <3>1
      <4>2. h[i - 1] = g[i - 1] /\ h[i] = Step(g, i)
        BY <3>1, <4>1
      <4> QED
        BY <4>2
    <3>2. CASE i # k + 1
      <4>1. i \in 0 .. k /\ (i # 0 => i - 1 \in 0 .. k + 1 /\ i - 1 # k + 1)
        BY <3>2
      <4>2. h[i] = g[i] /\ (i # 0 => h[i - 1] = g[i - 1])
        BY <3>2, <4>1
      <4>3. g[i] = Step(g, i)
        BY <2>1, <4>1 DEF IsAmong
      <4> HIDE DEF h
      <4> QED
        BY <4>2, <4>3
    <3> QED
      BY <3>1, <3>2
  <2>3. h = [i \in 0 .. k + 1 |-> h[i]]
    OBVIOUS
  <2> HIDE DEF h
  <2>4. IsAmong(list, S, k + 1, h)
    BY <2>2, <2>3 DEF IsAmong
  <2> QED
    BY <2>4
<1> HIDE DEF With
<1>3. n \in With
  BY <1>1, <1>2, NumberInduction
<1> QED
  BY <1>3 DEF With

(* q is what list has of S up to n, as often and in the same order.        *)
Picks(q, list, S, n) ==
    \E h \in [1 .. Len(q) -> 1 .. n] :
       /\ \A i, j \in 1 .. Len(q) : i < j => h[i] < h[j]
       /\ \A i \in 1 .. Len(q) : q[i] = list[h[i]] /\ q[i] \in S
       /\ \A k \in 1 .. n : list[k] \in S => \E i \in 1 .. Len(q) : h[i] = k

LEMMA PicksOneMore ==
    ASSUME NEW T, NEW q \in Seq(T), NEW list, NEW S, NEW n \in Nat, Picks(q, list, S, n),
           list[n + 1] \in T
    PROVE  Picks(IF list[n + 1] \in S THEN Append(q, list[n + 1]) ELSE q, list, S, n + 1)
<1> DEFINE m == list[n + 1]
<1>1. PICK h \in [1 .. Len(q) -> 1 .. n] :
          /\ \A i, j \in 1 .. Len(q) : i < j => h[i] < h[j]
          /\ \A i \in 1 .. Len(q) : q[i] = list[h[i]] /\ q[i] \in S
          /\ \A k \in 1 .. n : list[k] \in S => \E i \in 1 .. Len(q) : h[i] = k
  BY DEF Picks
<1>2. \A k \in 1 .. n + 1 : k \in 1 .. n \/ k = n + 1
  OBVIOUS
<1>3. CASE m \notin S
  <2>1. h \in [1 .. Len(q) -> 1 .. n + 1]
    BY <1>1
  <2>2. \A k \in 1 .. n + 1 : list[k] \in S => \E i \in 1 .. Len(q) : h[i] = k
    BY <1>1, <1>2, <1>3
  <2>3. Picks(q, list, S, n + 1)
    BY <1>1, <2>1, <2>2 DEF Picks
  <2> QED
    BY <1>3, <2>3
<1>4. CASE m \in S
  <2> DEFINE r == Append(q, m)
             last == Len(q) + 1
             f == [i \in 1 .. last |-> IF i = last THEN n + 1 ELSE h[i]]
  <2>1. Len(r) = last /\ Len(q) \in Nat /\ r[last] = m /\ \A i \in 1 .. Len(q) : r[i] = q[i]
    OBVIOUS
  <2>2. \A i \in 1 .. last : i = last \/ (i \in 1 .. Len(q) /\ i < last)
    BY <2>1
  <2>3. last \in 1 .. last /\ \A i \in 1 .. Len(q) : i \in 1 .. last /\ i # last
    BY <2>1
  <2>4. f[last] = n + 1 /\ \A i \in 1 .. Len(q) : f[i] = h[i] /\ h[i] \in 1 .. n
    BY <1>1, <2>3
  <2>5. f \in [1 .. last -> 1 .. n + 1]
    BY <1>1, <2>2
  <2> HIDE DEF r, f, m
  <2>6. \A i, j \in 1 .. last : i < j => f[i] < f[j]
    <3> TAKE i, j \in 1 .. last
    <3> HAVE i < j
    <3>1. i \in 1 .. Len(q)
      BY <2>1, <2>2
    <3>2. CASE j = last
      BY <2>4, <3>1, <3>2
    <3>3. CASE j \in 1 .. Len(q)
      BY <1>1, <2>4, <3>1, <3>3
    <3> QED
      BY <2>2, <3>2, <3>3
  <2>7. \A i \in 1 .. last : r[i] = list[f[i]] /\ r[i] \in S
    <3> TAKE i \in 1 .. last
    <3>1. CASE i = last
      BY <1>4, <2>1, <2>4, <3>1 DEF m
    <3>2. CASE i \in 1 .. Len(q)
      BY <1>1, <2>1, <2>4, <3>2
    <3> QED
      BY <2>2, <3>1, <3>2
  <2>8. \A k \in 1 .. n + 1 : list[k] \in S => \E i \in 1 .. last : f[i] = k
    <3> TAKE k \in 1 .. n + 1
    <3> HAVE list[k] \in S
    <3>1. CASE k = n + 1
      BY <2>3, <2>4, <3>1
    <3>2. CASE k \in 1 .. n
      BY <1>1, <2>3, <2>4, <3>2
    <3> QED
      BY <1>2, <3>1, <3>2
  <2>9. Picks(r, list, S, n + 1)
    BY <2>1, <2>5, <2>6, <2>7, <2>8 DEF Picks
  <2> QED
    BY <1>4, <2>9 DEF r, m
<1> QED
  BY <1>3, <1>4

LEMMA AmongPicks ==
    ASSUME NEW T, NEW list \in Seq(T), NEW S
    PROVE  Among(list, S) \in Seq(T) /\ Picks(Among(list, S), list, S, Len(list))
<1> DEFINE n == Len(list)
<1>1. n \in Nat /\ \A i \in 1 .. n : list[i] \in T
  OBVIOUS
<1>2. PICK g : IsAmong(list, S, n, g) /\ Among(list, S) = g[n]
  BY <1>1, AmongIs, AmongExists
<1> HIDE DEF n
<1> DEFINE Good == {i \in Nat : i <= n => g[i] \in Seq(T) /\ Picks(g[i], list, S, i)}
<1>3. 0 \in Good
  <2>1. g[0] = <<>>
    BY <1>1, <1>2 DEF IsAmong
  <2>2. <<>> \in Seq(T) /\ Len(<<>>) = 0 /\ 1 .. 0 = {} /\ <<>> \in [1 .. 0 -> 1 .. 0]
    OBVIOUS
  <2>3. Picks(<<>>, list, S, 0)
    BY <2>2 DEF Picks
  <2> QED
    BY <2>1, <2>2, <2>3
<1>4. ASSUME NEW i \in Nat, i \in Good, i + 1 <= n
      PROVE  g[i + 1] \in Seq(T) /\ Picks(g[i + 1], list, S, i + 1)
  <2>1. i + 1 \in 0 .. n /\ i + 1 \in 1 .. n /\ i + 1 # 0 /\ (i + 1) - 1 = i
    BY <1>1, <1>4
  <2>2. g[i + 1] = IF list[i + 1] \in S THEN Append(g[i], list[i + 1]) ELSE g[i]
    BY <1>2, <2>1 DEF IsAmong
  <2>3. g[i] \in Seq(T) /\ Picks(g[i], list, S, i) /\ list[i + 1] \in T
    BY <1>1, <1>4, <2>1
  <2>4. Append(g[i], list[i + 1]) \in Seq(T)
    BY <2>3, AppendProperties
  <2>5. Picks(g[i + 1], list, S, i + 1)
    BY <2>2, <2>3, PicksOneMore
  <2> QED
    BY <2>2, <2>3, <2>4, <2>5
<1>5. \A i \in Nat : i \in Good => i + 1 \in Good
  BY <1>4
<1> HIDE DEF Good
<1>6. n \in Good
  BY <1>1, <1>3, <1>5, NumberInduction
<1> QED
  BY <1>1, <1>2, <1>6 DEF Good, n

(* A list again, and not an empty one if there is anything to keep. *)
LEMMA AmongFacts ==
    ASSUME NEW T, NEW list \in Seq(T), NEW S
    PROVE  /\ Among(list, S) \in Seq(T)
           /\ (\E i \in 1 .. Len(list) : list[i] \in S) => Among(list, S) # <<>>
<1>1. Among(list, S) \in Seq(T) /\ Picks(Among(list, S), list, S, Len(list))
  BY AmongPicks
<1>2. Among(list, S) = <<>> => \A k \in 1 .. Len(list) : list[k] \notin S
  BY <1>1 DEF Picks
<1> QED
  BY <1>1, <1>2

-----------------------------------------------------------------------------
LEMMA ListFacts ==
    ASSUME NEW T, NEW s \in Seq(T)
    PROVE  /\ IsFiniteSet(ToSet(s)) /\ ToSet(s) \subseteq T
           /\ ToSet(s) = {s[i] : i \in 1 .. Len(s)}
           /\ \A m : ToSet(Append(s, m)) = ToSet(s) \cup {m}
<1>1. DOMAIN s = 1 .. Len(s) /\ Len(s) \in Nat
  OBVIOUS
<1>2. ToSet(s) = {s[i] : i \in 1 .. Len(s)}
  BY <1>1 DEF ToSet
<1>3. IsFiniteSet(ToSet(s))
  <2>1. s \in Surjection(1 .. Len(s), ToSet(s))
    BY <1>1, <1>2 DEF Surjection
  <2>2. IsFiniteSet(1 .. Len(s))
    BY <1>1, FS_Interval
  <2> QED
    BY <2>1, <2>2, FS_Surjection
<1>4. ASSUME NEW m
      PROVE  ToSet(Append(s, m)) = ToSet(s) \cup {m}
  <2> DEFINE t == Append(s, m)
  <2>1. /\ DOMAIN t = 1 .. Len(s) + 1 /\ t[Len(s) + 1] = m
        /\ \A i \in 1 .. Len(s) : t[i] = s[i]
    BY <1>1
  <2>2. \A i \in 1 .. Len(s) + 1 : i \in 1 .. Len(s) \/ i = Len(s) + 1
    BY <1>1
  <2>3. \A i \in 1 .. Len(s) : i \in 1 .. Len(s) + 1
    BY <1>1
  <2>4. Len(s) + 1 \in 1 .. Len(s) + 1
    BY <1>1
  <2> HIDE DEF t
  <2>5. ToSet(t) = ToSet(s) \cup {m}
    BY <1>2, <2>1, <2>2, <2>3, <2>4 DEF ToSet
  <2> QED
    BY <2>5 DEF t
<1> QED
  BY <1>2, <1>3, <1>4

(* The requests are a list of mime types, up to the one that fails. *)
LEMMA RequestsType ==
    ASSUME NEW T, IsFiniteSet(Wanted), Wanted \subseteq T, NEW order \in RequestOrders, NEW failed
    PROVE  Requests(order, failed) \in Seq(T)
<1>1. order \in Seq(T)
  <2>1. Cardinality(Wanted) \in Nat
    BY FS_CardinalityType
  <2>2. order \in [1 .. Cardinality(Wanted) -> Wanted]
    BY DEF RequestOrders, SetToSeqs
  <2> QED
    BY <2>1, <2>2
<1>2. Among(order, Wanted \ failed) \in Seq(T)
  BY <1>1, AmongFacts
<1> DEFINE at == {i \in 1 .. Len(order) : order[i] \in failed}
           first == SelectInSeq(order, LAMBDA m : m \in failed)
<1>3. first = IF at # {} THEN Min(at) ELSE 0
  BY DEF SelectInSeq
<1>4. first \in 0 .. Len(order)
  <2>1. at \subseteq Nat /\ at \subseteq 1 .. Len(order) /\ Len(order) \in Nat
    BY <1>1
  <2> HIDE DEF at
  <2>2. at # {} => Min(at) \in at
    BY <2>1, LeastNumber
  <2> QED
    BY <1>3, <2>1, <2>2
<1> HIDE DEF first
<1>5. SubSeq(order, 1, first - 1) \in Seq(T)
  BY <1>1, <1>4
<1> QED
  BY <1>2, <1>5 DEF Requests, first
-----------------------------------------------------------------------------
Allowed == IF settings.ignoreHack THEN Announced \ Hack ELSE Announced

(* What is kept of the announcements, and what passed the filter. *)
Collected ==
    /\ pc \in {"collecting", "mimes", "pipes", "data"} /\ ~exceeded => ordered = announced
    /\ pc = "collecting" => requested = <<>>
    /\ pc \in {"mimes", "pipes", "data", "set"} \/ requested # <<>> =>
          ~exceeded /\ (settings.regex => Announced \subseteq Matching)

(* What is left of the mime types in the pipes and in the data. *)
Carried ==
    /\ pc = "pipes" =>
          /\ unique = {} /\ data = {} /\ pipes \subseteq Announced
          /\ settings.ignoreOnError => pipes = Allowed
    /\ pc \in {"data", "set"} =>
          /\ unique = {} /\ pipes = {} /\ data \subseteq Announced /\ data # {}
          /\ settings.ignoreOnError => data = Allowed
    /\ pc \in {"collecting", "mimes"} => pipes = {} /\ data = {}
    /\ pc = "set" => ordered = <<>> /\ offered = Among(announced, data)

Inv == TypeOK /\ LimitExact /\ Collected /\ Carried

LEMMA InitInv == Init => Inv
<1> SUFFICES ASSUME Init
             PROVE  Inv
  OBVIOUS
<1>1. ToSet(<<>>) = {}
  BY DEF ToSet
<1>8. <<>> \in Seq(MimeType)
  OBVIOUS
<1>9. announced \in Seq(MimeType) /\ ordered \in Seq(MimeType) /\ requested \in Seq(MimeType)
      /\ offered \in Seq(MimeType)
  BY <1>8 DEF Init
<1>2. TypeOK
  <2>1. unique = ToSet(ordered)
    BY <1>1 DEF Init
  <2> QED
    BY <1>9, <2>1 DEF Init, TypeOK
<1>3. Total(Announced) = 0
  BY <1>1, SumEmpty, TotalIsSum DEF Init, Announced
<1>4. LimitExact
  BY <1>3, BoundAssumption DEF Init, LimitExact
<1> QED
  BY <1>2, <1>4 DEF Init, Inv, Collected, Carried

(* A mime type more. *)
LEMMA AnnounceInv ==
    ASSUME Inv, NEW m \in MimeType, Announce(m)
    PROVE  Inv'
<1>1. /\ pc = "collecting" /\ announced' = Append(announced, m) /\ announced \in Seq(MimeType)
      /\ ordered \in Seq(MimeType)
      /\ UNCHANGED <<settings, pc, requested, pipes, data, offered>>
  BY DEF Announce, Inv, TypeOK
<1>2. /\ Announced' = Announced \cup {m} /\ IsFiniteSet(Announced) /\ Announced \subseteq MimeType
      /\ announced' \in Seq(MimeType)
  BY <1>1, ListFacts DEF Announced
<1>3. /\ Total(Announced') = Total(Announced) + (IF m \in Announced THEN 0 ELSE Bytes[m])
      /\ Total(Announced) \in Nat /\ Bytes[m] \in Nat
  <2>1. \A x \in Announced \cup {m} : Bytes[x] \in Nat
    BY <1>2, MimeTypeAssumption
  <2> QED
    BY <1>2, <2>1, SumAdd, SumType, TotalIsSum
<1>4. CASE exceeded
  <2>1. UNCHANGED <<ordered, unique, bytesRead, exceeded>>
    BY <1>4 DEF Announce, offer
  <2>2. TypeOK'
    BY <1>1, <1>2, <2>1 DEF Inv, TypeOK
  <2>3. LimitExact'
    BY <1>1, <1>3, <1>4, <2>1, BoundAssumption DEF Inv, LimitExact
  <2>4. Collected' /\ Carried'
    BY <1>1, <1>4, <2>1 DEF Inv, Collected, Carried
  <2> QED
    BY <2>2, <2>3, <2>4 DEF Inv
<1>5. CASE ~exceeded
  <2>1. /\ bytesRead' = BytesWith(m) /\ exceeded' = OverLimit(m)
        /\ ordered' = OrderedWith(m) /\ unique' = UniqueWith(m)
    BY <1>5 DEF Announce
  <2>2. ordered = announced /\ unique = Announced /\ bytesRead = Total(Announced)
    BY <1>1, <1>5 DEF Inv, TypeOK, Collected, LimitExact, Announced
  <2>3. bytesRead' = Total(Announced') /\ bytesRead' \in Nat
    BY <1>3, <2>1, <2>2 DEF BytesWith
  <2>4. exceeded' <=> m \notin Announced /\ settings.limited /\ Total(Announced') > Limit
    BY <2>1, <2>2, <2>3 DEF OverLimit
  <2>5. ~(settings.limited /\ Total(Announced) > Limit)
    BY <1>5 DEF Inv, LimitExact
  <2>6. exceeded' <=> settings.limited /\ Total(Announced') > Limit
    BY <1>3, <2>4, <2>5
  <2>7. exceeded' \in BOOLEAN
    BY <2>1 DEF OverLimit, Inv, TypeOK, Settings
  <2>8. LimitExact'
    BY <1>1, <2>3, <2>6 DEF LimitExact
  <2>9. /\ ordered' \in Seq(MimeType) /\ unique' = ToSet(ordered') /\ unique' \subseteq MimeType
        /\ ~exceeded' => ordered' = announced'
    BY <1>1, <1>2, <2>1, <2>2, ListFacts DEF OrderedWith, UniqueWith, Announced
  <2>10. TypeOK'
    BY <1>1, <1>2, <2>3, <2>7, <2>9 DEF Inv, TypeOK
  <2>11. Collected' /\ Carried'
    BY <1>1, <2>9 DEF Inv, Collected, Carried
  <2> QED
    BY <2>8, <2>10, <2>11 DEF Inv
<1> QED
  BY <1>4, <1>5

(* The steps that announce nothing leave the limit as it is. *)
LEMMA LimitStays ==
    LimitExact /\ UNCHANGED <<settings, announced, bytesRead, exceeded>> => LimitExact'
BY DEF LimitExact, Announced

LEMMA IgnoredInv ==
    ASSUME Inv, Ignore, UNCHANGED <<settings, announced, offered>>, requested' \in Seq(MimeType),
           requested' # requested => ~exceeded /\ (settings.regex => Announced \subseteq Matching)
    PROVE  Inv'
<1>1. /\ pc' = "ignored" /\ ordered' = <<>> /\ unique' = {} /\ pipes' = {} /\ data' = {}
      /\ UNCHANGED <<bytesRead, exceeded>> /\ Announced' = Announced
  BY DEF Ignore, Reset, Announced
<1>2. TypeOK'
  BY <1>1 DEF Inv, TypeOK
<1>3. LimitExact'
  BY <1>1, LimitStays DEF Inv
<1>4. Collected' /\ Carried'
  BY <1>1 DEF Inv, Collected, Carried
<1> QED
  BY <1>2, <1>3, <1>4 DEF Inv

LEMMA SelectedInv == Inv /\ Selected => Inv'
<1> SUFFICES ASSUME Inv, Selected
             PROVE  Inv'
  OBVIOUS
<1>1. pc = "collecting" /\ UNCHANGED <<settings, announced, requested, offered>>
  BY DEF Selected
<1>2. CASE ShouldIgnore
  BY <1>1, <1>2, IgnoredInv DEF Selected, Inv, TypeOK
<1>3. CASE ~ShouldIgnore
  <2>1. pc' = "mimes" /\ UNCHANGED <<ordered, unique, bytesRead, exceeded, pipes, data>> /\ Announced' = Announced
    BY <1>1, <1>3 DEF Selected, offer, Announced
  <2>2. ~exceeded /\ unique = Announced /\ (settings.regex => Announced \subseteq Matching)
    BY <1>1, <1>3 DEF ShouldIgnore, Inv, TypeOK, Collected, Announced
  <2>3. TypeOK'
    BY <1>1, <2>1 DEF Inv, TypeOK
  <2>4. LimitExact'
    BY <1>1, <2>1, LimitStays DEF Inv
  <2>5. Collected' /\ Carried'
    BY <1>1, <2>1, <2>2 DEF Inv, Collected, Carried
  <2> QED
    BY <2>3, <2>4, <2>5 DEF Inv
<1> QED
  BY <1>2, <1>3

LEMMA CreatePipesInv == Inv /\ CreatePipes => Inv'
<1> SUFFICES ASSUME Inv, CreatePipes
             PROVE  Inv'
  OBVIOUS
<1>1. pc = "mimes" /\ UNCHANGED <<settings, announced, offered>> /\ Announced' = Announced
  BY DEF CreatePipes, Announced
<1>2. PICK order \in RequestOrders, failed \in SUBSET Wanted :
          /\ requested' = Requests(order, failed)
          /\ IF Fatal(failed) \/ failed = Wanted
             THEN Ignore
             ELSE /\ pc' = "pipes"
                  /\ pipes' = Wanted \ failed
                  /\ unique' = {}
                  /\ UNCHANGED <<ordered, bytesRead, exceeded, data>>
  BY DEF CreatePipes
<1>3. /\ ~exceeded /\ unique = Announced /\ Wanted = Allowed /\ (settings.regex => Announced \subseteq Matching)
      /\ IsFiniteSet(Announced) /\ Announced \subseteq MimeType
  <2>1. ~exceeded /\ ordered = announced /\ unique = ToSet(ordered) /\ announced \in Seq(MimeType)
    BY <1>1 DEF Inv, TypeOK, Collected
  <2>2. unique = Announced /\ IsFiniteSet(Announced) /\ Announced \subseteq MimeType
    BY <2>1, ListFacts DEF Announced
  <2> QED
    BY <1>1, <2>1, <2>2 DEF Wanted, Allowed, Inv, Collected
<1>4. requested' \in Seq(MimeType)
  <2>1. Wanted \subseteq Announced /\ IsFiniteSet(Wanted)
    BY <1>3, FS_Subset DEF Allowed
  <2> QED
    BY <1>2, <1>3, <2>1, RequestsType
<1>5. CASE Fatal(failed) \/ failed = Wanted
  BY <1>1, <1>2, <1>3, <1>4, <1>5, IgnoredInv
<1>6. CASE ~(Fatal(failed) \/ failed = Wanted)
  <2>1. /\ pc' = "pipes" /\ pipes' = Wanted \ failed /\ unique' = {}
        /\ UNCHANGED <<ordered, bytesRead, exceeded, data>>
    BY <1>2, <1>6
  <2>2. Allowed' = Allowed /\ Allowed \subseteq Announced
    BY <1>1 DEF Allowed
  <2>3. settings.ignoreOnError => failed = {}
    BY <1>6 DEF Fatal
  <2>4. TypeOK'
    BY <1>1, <1>3, <1>4, <2>1, <2>2 DEF Inv, TypeOK
  <2>5. LimitExact'
    BY <1>1, <2>1, LimitStays DEF Inv
  <2>6. Collected'
    BY <1>1, <1>3, <2>1 DEF Inv, Collected
  <2>7. Carried'
    BY <1>1, <1>3, <2>1, <2>2, <2>3 DEF Inv, Carried
  <2> QED
    BY <2>4, <2>5, <2>6, <2>7 DEF Inv
<1> QED
  BY <1>5, <1>6

LEMMA ReadPipesInv == Inv /\ ReadPipes => Inv'
<1> SUFFICES ASSUME Inv, ReadPipes
             PROVE  Inv'
  OBVIOUS
<1>1. pc = "pipes" /\ UNCHANGED <<settings, announced, requested, offered>> /\ Announced' = Announced
  BY DEF ReadPipes, Announced
<1>2. PICK failed \in SUBSET pipes :
          IF Fatal(failed) \/ failed = pipes
          THEN Ignore
          ELSE /\ pc' = "data" /\ data' = pipes \ failed /\ pipes' = PipesLeft /\ UNCHANGED offer
  BY DEF ReadPipes
<1>3. CASE Fatal(failed) \/ failed = pipes
  BY <1>1, <1>2, <1>3, IgnoredInv DEF Inv, TypeOK
<1>4. CASE ~(Fatal(failed) \/ failed = pipes)
  <2>1. /\ pc' = "data" /\ data' = pipes \ failed /\ pipes' = {}
        /\ UNCHANGED <<ordered, unique, bytesRead, exceeded>>
    BY <1>2, <1>4 DEF PipesLeft, offer
  <2>2. Allowed' = Allowed /\ data' # {} /\ data' \subseteq pipes /\ (settings.ignoreOnError => data' = pipes)
    BY <1>1, <1>4, <2>1 DEF Allowed, Fatal
  <2>3. TypeOK'
    BY <1>1, <2>1, <2>2 DEF Inv, TypeOK
  <2>4. LimitExact'
    BY <1>1, <2>1, LimitStays DEF Inv
  <2>5. Collected'
    BY <1>1, <2>1 DEF Inv, Collected
  <2>6. Carried'
    BY <1>1, <2>1, <2>2 DEF Inv, Carried
  <2> QED
    BY <2>3, <2>4, <2>5, <2>6 DEF Inv
<1> QED
  BY <1>3, <1>4

LEMMA SetClipboardInv == Inv /\ SetClipboard => Inv'
<1> SUFFICES ASSUME Inv, SetClipboard
             PROVE  Inv'
  OBVIOUS
<1>1. /\ pc = "data" /\ pc' = "set" /\ offered' = Among(ordered, data) /\ ordered' = <<>>
      /\ UNCHANGED <<settings, announced, unique, bytesRead, exceeded, requested, pipes, data>>
      /\ Announced' = Announced /\ Allowed' = Allowed
  BY DEF SetClipboard, Announced, Allowed
<1>2. ordered = announced /\ Among(ordered, data) \in Seq(MimeType)
  BY <1>1, AmongFacts DEF Inv, TypeOK, Collected
<1>3. TypeOK'
  BY <1>1, <1>2 DEF Inv, TypeOK
<1>4. LimitExact'
  BY <1>1, LimitStays DEF Inv
<1>5. Collected'
  BY <1>1 DEF Inv, Collected
<1>6. Among(announced, data)' = Among(announced, data)
  BY <1>1 DEF Among
<1>7. Carried'
  BY <1>1, <1>2, <1>6 DEF Inv, Carried
<1> QED
  BY <1>3, <1>4, <1>5, <1>7 DEF Inv

LEMMA NextInv == Inv /\ [Next]_vars => Inv'
<1>1. Inv /\ DataExceedsLimit => Inv'
  BY IgnoredInv DEF DataExceedsLimit, Inv, TypeOK
<1>2. Inv /\ UNCHANGED vars => Inv'
  <2> SUFFICES ASSUME Inv, UNCHANGED vars
               PROVE  Inv'
    OBVIOUS
  <2>1. UNCHANGED <<settings, pc, announced, ordered, unique, bytesRead, exceeded, requested, pipes, data, offered>>
    BY DEF vars, offer
  <2>2. Announced' = Announced /\ Allowed' = Allowed /\ Among(announced, data)' = Among(announced, data)
    BY <2>1 DEF Announced, Allowed, Among
  <2> QED
    BY <2>1, <2>2 DEF Inv, TypeOK, LimitExact, Collected, Carried
<1> QED
  BY <1>1, <1>2, AnnounceInv, SelectedInv, CreatePipesInv, ReadPipesInv, SetClipboardInv DEF Next

LEMMA AlwaysInv == Spec => []Inv
BY InitInv, NextInv, PTL DEF Spec

-----------------------------------------------------------------------------
(* Every variable keeps its type; until the requests are made, the unique  *)
(* mime types are those that are kept in order.                            *)
THEOREM TypeCorrect == Spec => []TypeOK
BY AlwaysInv, PTL DEF Inv

(* The limit is exact, however often and in whatever order the mime types  *)
(* are announced.                                                          *)
THEOREM LimitIsExact == Spec => []LimitExact
BY AlwaysInv, PTL DEF Inv

(* No data is asked for of an offer that is to be ignored.                 *)
THEOREM OnlyFilteredRequested == Spec => []FilteredNotRequested
<1>1. Inv => FilteredNotRequested
  <2> SUFFICES ASSUME Inv, requested # <<>>
               PROVE  /\ settings.regex => Announced \subseteq Matching
                      /\ settings.limited => Total(Announced) <= Limit
    BY DEF FilteredNotRequested
  <2>1. ~exceeded /\ (settings.regex => Announced \subseteq Matching)
    BY DEF Inv, Collected
  <2>2. Total(Announced) \in Nat
    BY <2>1 DEF Inv, LimitExact, TypeOK
  <2> QED
    BY <2>1, <2>2, BoundAssumption DEF Inv, LimitExact
<1> QED
  BY <1>1, AlwaysInv, PTL

(* The source offers what the application did, in its order, and something.*)
THEOREM OffersAsAnnounced == Spec => []OfferedAsAnnounced
<1>1. Inv => OfferedAsAnnounced
  <2> SUFFICES ASSUME Inv, pc = "set"
               PROVE  offered = Among(announced, data) /\ offered # <<>>
    BY DEF OfferedAsAnnounced
  <2>1. announced \in Seq(MimeType) /\ offered = Among(announced, data) /\ data \subseteq Announced /\ data # {}
    BY DEF Inv, TypeOK, Carried
  <2>2. \E i \in 1 .. Len(announced) : announced[i] \in data
    BY <2>1, ListFacts DEF Announced
  <2> QED
    BY <2>1, <2>2, AmongFacts
<1> QED
  BY <1>1, AlwaysInv, PTL

(* With errors not tolerated, all or nothing is taken over.                *)
THEOREM TakesAllOrNothing == Spec => []AllOrNothing
<1>1. Inv => AllOrNothing
  BY DEF Inv, Carried, AllOrNothing, Allowed
<1> QED
  BY <1>1, AlwaysInv, PTL

(* The unwrap of Rc::into_inner does not panic.                            *)
THEOREM KeysAreUnshared == Spec => []KeysUnshared
<1>1. Inv => KeysUnshared
  <2> SUFFICES ASSUME Inv, pc = "set", NEW m \in data
               PROVE  References(m) = 1
    BY DEF KeysUnshared
  <2>1. ordered = <<>> /\ unique = {} /\ pipes = {}
    BY DEF Inv, Carried
  <2>2. {i \in 1 .. Len(ordered) : ordered[i] = m} = {}
    BY <2>1
  <2>3. {S \in {<<1, unique>>, <<2, pipes>>, <<3, data>>} : m \in S[2]} = {<<3, data>>}
    BY <2>1
  <2>4. Cardinality({}) = 0 /\ Cardinality({<<3, data>>}) = 1
    BY FS_EmptySet, FS_Singleton
  <2>5. References(m) = Cardinality({}) + Cardinality({<<3, data>>})
    BY <2>2, <2>3 DEF References
  <2> QED
    BY <2>4, <2>5
<1> QED
  BY <1>1, AlwaysInv, PTL

(* The source offers what there is data for, and all of it: each mime type *)
(* as often as it was announced, and in that order.                        *)
THEOREM OffersItsData ==
    Spec => [](pc = "set" => Picks(offered, announced, data, Len(announced)) /\ ToSet(offered) = data)
<1>1. ASSUME Inv, pc = "set"
      PROVE  Picks(offered, announced, data, Len(announced)) /\ ToSet(offered) = data
  <2>1. announced \in Seq(MimeType) /\ offered = Among(announced, data) /\ data \subseteq Announced
    BY <1>1 DEF Inv, TypeOK, Carried
  <2>2. offered \in Seq(MimeType) /\ Picks(offered, announced, data, Len(announced))
    BY <2>1, AmongPicks
  <2>3. ToSet(offered) = {offered[i] : i \in 1 .. Len(offered)}
    BY <2>2, ListFacts
  <2>4. data \subseteq {announced[k] : k \in 1 .. Len(announced)}
    BY <2>1, ListFacts DEF Announced
  <2>5. ToSet(offered) \subseteq data
    BY <2>2, <2>3 DEF Picks
  <2>6. data \subseteq ToSet(offered)
    BY <2>2, <2>3, <2>4 DEF Picks
  <2> QED
    BY <2>2, <2>5, <2>6
<1> QED
  BY <1>1, AlwaysInv, PTL

(* What PipeReader assumes of the mime types it starts with: their bytes do*)
(* not exceed the limit by themselves.                                     *)
THEOREM ReadsStartWithinLimit ==
    Spec => [](pc = "pipes" => bytesRead \in Nat /\ (settings.limited => bytesRead <= Limit))
<1>1. ASSUME Inv, pc = "pipes"
      PROVE  bytesRead \in Nat /\ (settings.limited => bytesRead <= Limit)
  BY <1>1, BoundAssumption DEF Inv, TypeOK, LimitExact, Collected
<1> QED
  BY <1>1, AlwaysInv, PTL
=============================================================================
