---------------------------- MODULE Collections ----------------------------
(***************************************************************************)
(* What the proofs need to know of collections: induction over numbers and *)
(* finite sets, sums over finite sets, and messages in a queue.            *)
(***************************************************************************)
EXTENDS Naturals, Sequences, FiniteSets, FiniteSetsExt, Folds, SequenceTheorems,
        FiniteSetTheorems, WellFoundedInduction, TLAPS

-----------------------------------------------------------------------------
(* Induction, with a set of those that have been shown to satisfy the      *)
(* claim: a set is a term, so each use is an instance of the first-order   *)
(* fact that a set in a well-founded order has a minimal element.          *)

(* Induction over the numbers, with a set for a predicate. *)
LEMMA NumberInduction ==
    ASSUME NEW A, 0 \in A, \A n \in Nat : n \in A => n + 1 \in A
    PROVE  \A n \in Nat : n \in A
<1> DEFINE Out == Nat \ A
           Less == {ss \in Nat \X Nat : ss[1] < ss[2]}
<1> SUFFICES ASSUME Out # {}
             PROVE  FALSE
  OBVIOUS
<1>1. IsWellFoundedOn(Less, Nat)
  BY NatLessThanWellFounded DEF OpToRel
<1>2. Out \subseteq Nat
  OBVIOUS
<1> HIDE DEF Out, Less
<1>3. PICK n \in Out : \A m \in Out : ~(<<m, n>> \in Less)
  BY <1>1, <1>2, WFMin
<1> USE DEF Out, Less
<1>4. n \in Nat /\ n # 0 /\ n - 1 \in Nat /\ (n - 1) + 1 = n
  BY <1>3
<1>5. <<n - 1, n>> \in Less
  BY <1>4
<1> QED
  BY <1>3, <1>4, <1>5

LEMMA LeastNumber ==
    ASSUME NEW A \in SUBSET Nat, A # {}
    PROVE  Min(A) \in A /\ \A n \in A : Min(A) <= n
<1> DEFINE Less == {ss \in Nat \X Nat : ss[1] < ss[2]}
<1>1. IsWellFoundedOn(Less, Nat)
  BY NatLessThanWellFounded DEF OpToRel
<1> HIDE DEF Less
<1>2. PICK n \in A : \A m \in A : ~(<<m, n>> \in Less)
  BY <1>1, WFMin
<1>3. ASSUME NEW m \in A, ~(n <= m)
      PROVE  FALSE
  <2>1. m \in Nat /\ n \in Nat /\ m < n
    BY <1>3
  <2>2. <<m, n>> \in Less
    BY <2>1 DEF Less
  <2> QED
    BY <1>2, <2>2
<1>4. \E x \in A : \A y \in A : x <= y
  BY <1>3
<1> QED
  BY <1>4 DEF Min

(* Induction over the subsets of a finite set, with a set for a predicate. *)
LEMMA SubsetInduction ==
    ASSUME NEW S, IsFiniteSet(S), NEW A,
           \A T \in SUBSET S : (\A U \in SUBSET T : U # T => U \in A) => T \in A
    PROVE  \A T \in SUBSET S : T \in A
<1> DEFINE Out == {T \in SUBSET S : T \notin A}
<1> SUFFICES ASSUME Out # {}
             PROVE  FALSE
  OBVIOUS
<1>1. IsWellFoundedOn(StrictSubsetOrdering(S), SUBSET S)
  <2>1. FiniteSubsetsOf(S) = SUBSET S
    BY FS_FiniteSubsetsOfFinite
  <2>2. IsWellFoundedOn(StrictSubsetOrdering(S), FiniteSubsetsOf(S))
    BY FS_StrictSubsetOrderingWellFounded
  <2> QED
    BY <2>1, <2>2
<1>2. Out \subseteq SUBSET S
  OBVIOUS
<1> HIDE DEF Out
<1>3. PICK T \in Out : \A U \in Out : ~(<<U, T>> \in StrictSubsetOrdering(S))
  BY <1>1, <1>2, WFMin
<1> USE DEF Out
<1>4. ASSUME NEW U \in SUBSET T, U # T
      PROVE  U \in A
  <2>1. <<U, T>> \in (SUBSET S) \X (SUBSET S) /\ <<U, T>>[1] = U /\ <<U, T>>[2] = T
    OBVIOUS
  <2>2. <<U, T>> \in StrictSubsetOrdering(S)
    BY <1>4, <2>1 DEF StrictSubsetOrdering
  <2> QED
    BY <1>3, <2>2
<1> QED
  BY <1>4

-----------------------------------------------------------------------------
(* Sums over finite sets.  The community modules define them by a fold, so *)
(* first of all the fold has to be shown to satisfy its equation: the      *)
(* functions that do agree wherever they are defined, and there is one.    *)

SumOver(f, S) == MapThenSumSet(LAMBDA x : f[x], S)

First(S) == CHOOSE x \in S : TRUE

IsSum(f, S, g) ==
    g = [s \in SUBSET S |-> IF s = {} THEN 0 ELSE f[First(s)] + g[s \ {First(s)}]]

LEMMA FirstIn == \A S : S # {} => First(S) \in S
BY DEF First

LEMMA SumIs == \A f, S : SumOver(f, S) = (CHOOSE g : IsSum(f, S, g))[S]
BY DEF SumOver, MapThenSumSet, MapThenFoldSet, IsSum, First

LEMMA SumUnique ==
    ASSUME NEW f, NEW S, IsFiniteSet(S), NEW T \in SUBSET S,
           NEW g, IsSum(f, S, g), NEW h, IsSum(f, T, h)
    PROVE  \A s \in SUBSET T : g[s] = h[s]
<1> DEFINE Same == {s \in SUBSET T : g[s] = h[s]}
<1>1. ASSUME NEW s \in SUBSET T, \A u \in SUBSET s : u # s => u \in Same
      PROVE  s \in Same
  <2>1. /\ g[s] = IF s = {} THEN 0 ELSE f[First(s)] + g[s \ {First(s)}]
        /\ h[s] = IF s = {} THEN 0 ELSE f[First(s)] + h[s \ {First(s)}]
    BY DEF IsSum
  <2>2. s # {} => s \ {First(s)} \in SUBSET s /\ s \ {First(s)} # s
    BY FirstIn
  <2> QED
    BY <1>1, <2>1, <2>2
<1>2. IsFiniteSet(T)
  BY FS_Subset
<1> HIDE DEF Same
<1>3. \A s \in SUBSET T : s \in Same
  BY <1>1, <1>2, SubsetInduction
<1> QED
  BY <1>3 DEF Same

LEMMA SumExists ==
    ASSUME NEW f, NEW S, IsFiniteSet(S)
    PROVE  \E g : IsSum(f, S, g)
<1> DEFINE With == {T \in SUBSET S : \E g : IsSum(f, T, g)}
<1>1. ASSUME NEW T \in SUBSET S, \A U \in SUBSET T : U # T => U \in With
      PROVE  T \in With
  <2> DEFINE G(s) == CHOOSE g : IsSum(f, s, g)
             x == First(T)
             total == IF T = {} THEN 0 ELSE f[x] + G(T \ {x})[T \ {x}]
             H == [s \in SUBSET T |-> IF s = T THEN total ELSE G(s)[s]]
  <2>1. ASSUME NEW s \in SUBSET T, s # T
        PROVE  IsSum(f, s, G(s)) /\ IsFiniteSet(s)
    BY <1>1, <2>1, FS_Subset
  <2>2. ASSUME NEW s \in SUBSET T
        PROVE  H[s] = IF s = {} THEN 0 ELSE f[First(s)] + H[s \ {First(s)}]
    <3> DEFINE r == s \ {First(s)}
    <3>1. s # {} => r \in SUBSET T /\ r # T /\ r \in SUBSET s /\ H[r] = G(r)[r]
      BY FirstIn
    <3>2. CASE s = T
      BY <3>1, <3>2
    <3>3. CASE s # T
      <4>1. H[s] = G(s)[s] /\ IsSum(f, s, G(s)) /\ IsFiniteSet(s)
        BY <2>1, <3>3
      <4>2. G(s)[s] = IF s = {} THEN 0 ELSE f[First(s)] + G(s)[r]
        BY <4>1 DEF IsSum
      <4>3. s # {} => IsSum(f, r, G(r)) /\ r \in SUBSET r
        BY <2>1, <3>1
      <4> HIDE DEF G, H, r
      <4>4. ASSUME s # {} PROVE G(s)[r] = G(r)[r]
        BY <3>1, <4>1, <4>3, <4>4, SumUnique
      <4> QED
        BY <3>1, <4>1, <4>2, <4>4 DEF r
    <3> QED
      BY <3>2, <3>3
  <2>3. IsSum(f, T, H)
    <3>1. H = [s \in SUBSET T |-> H[s]]
      OBVIOUS
    <3> HIDE DEF H
    <3> QED
      BY <2>2, <3>1 DEF IsSum
  <2> QED
    BY <2>3
<1> HIDE DEF With
<1>2. \A T \in SUBSET S : T \in With
  BY <1>1, SubsetInduction
<1> QED
  BY <1>2 DEF With

(* The equation of the fold. *)
LEMMA SumFold ==
    ASSUME NEW f, NEW S, IsFiniteSet(S)
    PROVE  SumOver(f, S) = IF S = {} THEN 0 ELSE f[First(S)] + SumOver(f, S \ {First(S)})
<1> DEFINE G(s) == CHOOSE g : IsSum(f, s, g)
           T == S \ {First(S)}
<1>1. IsFiniteSet(T) /\ T \in SUBSET S
  BY FS_Subset
<1>2. IsSum(f, S, G(S)) /\ IsSum(f, T, G(T))
  BY <1>1, SumExists
<1>3. SumOver(f, S) = G(S)[S] /\ SumOver(f, T) = G(T)[T]
  BY SumIs
<1>4. G(S)[S] = IF S = {} THEN 0 ELSE f[First(S)] + G(S)[T]
  BY <1>2 DEF IsSum
<1> HIDE DEF G, T
<1>5. G(S)[T] = G(T)[T]
  BY <1>1, <1>2, SumUnique
<1> QED
  BY <1>3, <1>4, <1>5 DEF T

LEMMA SumType ==
    ASSUME NEW f, NEW S, IsFiniteSet(S), \A x \in S : f[x] \in Nat
    PROVE  SumOver(f, S) \in Nat
<1> DEFINE Typed == {T \in SUBSET S : SumOver(f, T) \in Nat}
<1>1. ASSUME NEW T \in SUBSET S, \A U \in SUBSET T : U # T => U \in Typed
      PROVE  T \in Typed
  <2>1. SumOver(f, T) = IF T = {} THEN 0 ELSE f[First(T)] + SumOver(f, T \ {First(T)})
    BY FS_Subset, SumFold
  <2>2. T # {} => First(T) \in T /\ T \ {First(T)} \in SUBSET T /\ T \ {First(T)} # T
    BY FirstIn
  <2> QED
    BY <1>1, <2>1, <2>2
<1> HIDE DEF Typed
<1>2. \A T \in SUBSET S : T \in Typed
  BY <1>1, SubsetInduction
<1> QED
  BY <1>2 DEF Typed

(* In whatever order it is taken. *)
LEMMA SumRemove ==
    ASSUME NEW f, NEW S, IsFiniteSet(S), \A x \in S : f[x] \in Nat, NEW y \in S
    PROVE  SumOver(f, S) = f[y] + SumOver(f, S \ {y})
<1> DEFINE Any == {T \in SUBSET S : \A z \in T : SumOver(f, T) = f[z] + SumOver(f, T \ {z})}
<1>1. ASSUME NEW T \in SUBSET S, \A U \in SUBSET T : U # T => U \in Any, NEW z \in T
      PROVE  SumOver(f, T) = f[z] + SumOver(f, T \ {z})
  <2> DEFINE x == First(T)
  <2>1. x \in T /\ IsFiniteSet(T) /\ T \in SUBSET S /\ f[x] \in Nat /\ f[z] \in Nat
    BY FirstIn, FS_Subset
  <2>2. SumOver(f, T) = f[x] + SumOver(f, T \ {x})
    BY <2>1, SumFold
  <2> HIDE DEF x
  <2>3. CASE x # z
    <3>1. /\ T \ {x} \in SUBSET T /\ T \ {x} # T /\ z \in T \ {x}
          /\ T \ {z} \in SUBSET T /\ T \ {z} # T /\ x \in T \ {z}
      BY <2>1, <2>3
    <3>2. T \ {x} \in Any /\ T \ {z} \in Any
      BY <1>1, <3>1
    <3>3. /\ SumOver(f, T \ {x}) = f[z] + SumOver(f, (T \ {x}) \ {z})
          /\ SumOver(f, T \ {z}) = f[x] + SumOver(f, (T \ {z}) \ {x})
      BY <3>1, <3>2
    <3>4. (T \ {x}) \ {z} = (T \ {z}) \ {x} /\ (T \ {x}) \ {z} \in SUBSET S
      OBVIOUS
    <3>5. IsFiniteSet((T \ {x}) \ {z}) /\ \A w \in (T \ {x}) \ {z} : f[w] \in Nat
      BY <3>4, FS_Subset
    <3> DEFINE rest == SumOver(f, (T \ {x}) \ {z})
    <3>6. rest \in Nat
      BY <3>5, SumType
    <3>7. SumOver(f, T) = f[x] + (f[z] + rest) /\ SumOver(f, T \ {z}) = f[x] + rest
      BY <2>2, <3>3, <3>4
    <3> HIDE DEF rest
    <3> QED
      BY <2>1, <3>6, <3>7
  <2> QED
    BY <2>2, <2>3
<1>2. \A T \in SUBSET S : (\A U \in SUBSET T : U # T => U \in Any) => T \in Any
  BY <1>1
<1> HIDE DEF Any
<1>3. \A T \in SUBSET S : T \in Any
  BY <1>2, SubsetInduction
<1> QED
  BY <1>3 DEF Any

LEMMA SumEmpty == \A f : SumOver(f, {}) = 0
BY FS_EmptySet, SumFold

(* One element more. *)
LEMMA SumAdd ==
    ASSUME NEW f, NEW S, IsFiniteSet(S), NEW y, \A x \in S \cup {y} : f[x] \in Nat
    PROVE  SumOver(f, S \cup {y}) = SumOver(f, S) + (IF y \in S THEN 0 ELSE f[y])
<1>1. SumOver(f, S) \in Nat /\ f[y] \in Nat
  BY SumType
<1>2. CASE y \in S
  <2>1. S \cup {y} = S
    BY <1>2
  <2> QED
    BY <1>1, <1>2, <2>1
<1>3. CASE y \notin S
  <2>1. IsFiniteSet(S \cup {y}) /\ (S \cup {y}) \ {y} = S
    BY <1>3, FS_AddElement
  <2>2. SumOver(f, S \cup {y}) = f[y] + SumOver(f, (S \cup {y}) \ {y})
    BY <2>1, SumRemove
  <2> QED
    BY <1>1, <1>3, <2>1, <2>2
<1> QED
  BY <1>2, <1>3

(* Less of each is less in all. *)
LEMMA SumMonotonic ==
    ASSUME NEW f, NEW g, NEW S, IsFiniteSet(S),
           \A x \in S : f[x] \in Nat /\ g[x] \in Nat /\ f[x] <= g[x]
    PROVE  SumOver(f, S) <= SumOver(g, S)
<1> DEFINE Less == {T \in SUBSET S : SumOver(f, T) <= SumOver(g, T)}
<1>1. ASSUME NEW T \in SUBSET S, \A U \in SUBSET T : U # T => U \in Less
      PROVE  T \in Less
  <2> DEFINE x == First(T)
  <2>1. IsFiniteSet(T) /\ IsFiniteSet(T \ {x})
    BY FS_Subset
  <2>2. /\ SumOver(f, T) = IF T = {} THEN 0 ELSE f[x] + SumOver(f, T \ {x})
        /\ SumOver(g, T) = IF T = {} THEN 0 ELSE g[x] + SumOver(g, T \ {x})
    BY <2>1, SumFold
  <2>3. SumOver(f, T \ {x}) \in Nat /\ SumOver(g, T \ {x}) \in Nat
    BY <2>1, SumType
  <2>4. T # {} => x \in T /\ T \ {x} \in SUBSET T /\ T \ {x} # T
    BY FirstIn
  <2>5. T # {} => SumOver(f, T \ {x}) <= SumOver(g, T \ {x})
    BY <1>1, <2>4
  <2> HIDE DEF x
  <2>6. SumOver(f, T) <= SumOver(g, T)
    BY <2>2, <2>3, <2>4, <2>5
  <2> QED
    BY <2>6
<1> HIDE DEF Less
<1>2. \A T \in SUBSET S : T \in Less
  BY <1>1, SubsetInduction
<1> QED
  BY <1>2 DEF Less

LEMMA SumSame ==
    ASSUME NEW f, NEW g, NEW S, IsFiniteSet(S), \A x \in S : f[x] \in Nat /\ f[x] = g[x]
    PROVE  SumOver(f, S) = SumOver(g, S)
<1>1. SumOver(f, S) <= SumOver(g, S) /\ SumOver(g, S) <= SumOver(f, S)
  BY SumMonotonic
<1>2. SumOver(f, S) \in Nat /\ SumOver(g, S) \in Nat
  BY SumType
<1> QED
  BY <1>1, <1>2

(* More of one is more in all by as much. *)
LEMMA SumIncrease ==
    ASSUME NEW f, NEW S, IsFiniteSet(S), \A x \in S : f[x] \in Nat,
           NEW g, NEW y \in S, NEW k \in Nat, g[y] = f[y] + k, \A x \in S \ {y} : g[x] = f[x]
    PROVE  SumOver(g, S) = SumOver(f, S) + k
<1>1. IsFiniteSet(S \ {y}) /\ \A x \in S : g[x] \in Nat
  BY FS_Subset
<1>2. SumOver(f, S \ {y}) = SumOver(g, S \ {y}) /\ SumOver(f, S \ {y}) \in Nat
  BY <1>1, SumSame, SumType
<1>3. SumOver(f, S) = f[y] + SumOver(f, S \ {y}) /\ SumOver(g, S) = g[y] + SumOver(g, S \ {y})
  BY <1>1, SumRemove
<1> QED
  BY <1>2, <1>3

(* Less of the elements is less in all. *)
LEMMA SumSubset ==
    ASSUME NEW f, NEW S, IsFiniteSet(S), \A x \in S : f[x] \in Nat, NEW T \in SUBSET S
    PROVE  SumOver(f, T) <= SumOver(f, S)
<1> DEFINE More == {U \in SUBSET S : T \subseteq U => SumOver(f, T) <= SumOver(f, U)}
<1>1. IsFiniteSet(T) /\ SumOver(f, T) \in Nat
  BY FS_Subset, SumType
<1>2. ASSUME NEW U \in SUBSET S, \A V \in SUBSET U : V # U => V \in More, T \subseteq U
      PROVE  SumOver(f, T) <= SumOver(f, U)
  <2>1. CASE T = U
    BY <1>1, <2>1
  <2>2. CASE T # U
    <3>1. PICK x \in U : x \notin T
      BY <1>2, <2>2
    <3>2. U \ {x} \in SUBSET U /\ U \ {x} # U /\ T \subseteq U \ {x} /\ f[x] \in Nat
      BY <1>2, <3>1
    <3>3. IsFiniteSet(U) /\ IsFiniteSet(U \ {x})
      BY FS_Subset
    <3>4. SumOver(f, U) = f[x] + SumOver(f, U \ {x}) /\ SumOver(f, U \ {x}) \in Nat
      BY <3>3, SumRemove, SumType
    <3>5. SumOver(f, T) <= SumOver(f, U \ {x})
      BY <1>2, <3>2
    <3> QED
      BY <1>1, <3>2, <3>4, <3>5
  <2> QED
    BY <2>1, <2>2
<1>3. \A U \in SUBSET S : (\A V \in SUBSET U : V # U => V \in More) => U \in More
  BY <1>2
<1> HIDE DEF More
<1>4. \A U \in SUBSET S : U \in More
  BY <1>3, SubsetInduction
<1> QED
  BY <1>4 DEF More

-----------------------------------------------------------------------------
(* Messages in a queue: which there are, how often, and in which order, and*)
(* what of it stays true when the first is taken and others are added.     *)

Within(q) == {q[i] : i \in 1 .. Len(q)}

(* At most one of T. *)
Once(q, T) == \A i, j \in 1 .. Len(q) : q[i] \in T /\ q[j] \in T => i = j

(* Each a is followed by a b. *)
Followed(q, a, b) == \A i \in 1 .. Len(q) : q[i] = a => \E j \in 1 .. Len(q) : j > i /\ q[j] = b

(* The last of T is e. *)
LastOf(q, T, e) == \E i \in 1 .. Len(q) : q[i] = e /\ \A j \in 1 .. Len(q) : j > i => q[j] \notin T

(* An e comes before any of T. *)
Ahead(q, e, T) == \E i \in 1 .. Len(q) : q[i] = e /\ \A j \in 1 .. Len(q) : j <= i => q[j] \notin T

LEMMA QueueTail ==
    ASSUME NEW S, NEW q \in Seq(S), q # <<>>
    PROVE  /\ Tail(q) \in Seq(S) /\ Head(q) = q[1] /\ Head(q) \in S
           /\ Len(q) \in Nat /\ Len(q) > 0 /\ Len(Tail(q)) = Len(q) - 1
           /\ \A i \in 1 .. Len(Tail(q)) : i + 1 \in 1 .. Len(q) /\ Tail(q)[i] = q[i + 1]
           /\ \A i \in 1 .. Len(q) : i # 1 => i - 1 \in 1 .. Len(Tail(q)) /\ Tail(q)[i - 1] = q[i]
BY HeadTailProperties, LenProperties, EmptySeq

LEMMA QueueConcat ==
    ASSUME NEW S, NEW p \in Seq(S), NEW q \in Seq(S)
    PROVE  /\ p \o q \in Seq(S)
           /\ Len(p) \in Nat /\ Len(q) \in Nat /\ Len(p \o q) = Len(p) + Len(q)
           /\ \A i \in 1 .. Len(p) : i \in 1 .. Len(p \o q) /\ (p \o q)[i] = p[i]
           /\ \A i \in 1 .. Len(q) : Len(p) + i \in 1 .. Len(p \o q) /\ (p \o q)[Len(p) + i] = q[i]
           /\ \A i \in 1 .. Len(p \o q) : \/ i \in 1 .. Len(p)
                                          \/ i - Len(p) \in 1 .. Len(q) /\ (p \o q)[i] = q[i - Len(p)]
<1>1. /\ p \o q \in Seq(S)
      /\ Len(p) \in Nat /\ Len(q) \in Nat /\ Len(p \o q) = Len(p) + Len(q)
      /\ \A i \in 1 .. Len(p) + Len(q) : (p \o q)[i] = IF i <= Len(p) THEN p[i] ELSE q[i - Len(p)]
  BY ConcatProperties, LenProperties
<1>2. \A i \in 1 .. Len(q) : ~(Len(p) + i <= Len(p)) /\ (Len(p) + i) - Len(p) = i /\ Len(p) + i \in 1 .. Len(p) + Len(q)
  BY <1>1
<1> QED
  BY <1>1, <1>2

LEMMA WithinTail ==
    ASSUME NEW S, NEW q \in Seq(S), q # <<>>
    PROVE  Within(q) = {Head(q)} \cup Within(Tail(q))
<1>1. Head(q) = q[1] /\ 1 \in 1 .. Len(q)
  BY QueueTail
<1>2. ASSUME NEW i \in 1 .. Len(q)
      PROVE  q[i] \in {Head(q)} \cup Within(Tail(q))
  BY <1>1, QueueTail DEF Within
<1>3. ASSUME NEW i \in 1 .. Len(Tail(q))
      PROVE  Tail(q)[i] \in Within(q)
  BY QueueTail DEF Within
<1> QED
  BY <1>1, <1>2, <1>3 DEF Within

LEMMA WithinConcat ==
    ASSUME NEW S, NEW p \in Seq(S), NEW q \in Seq(S)
    PROVE  Within(p \o q) = Within(p) \cup Within(q)
<1>1. ASSUME NEW i \in 1 .. Len(p \o q)
      PROVE  (p \o q)[i] \in Within(p) \cup Within(q)
  BY QueueConcat DEF Within
<1>2. ASSUME NEW i \in 1 .. Len(p)
      PROVE  p[i] \in Within(p \o q)
  <2>1. i \in 1 .. Len(p \o q) /\ (p \o q)[i] = p[i]
    BY QueueConcat
  <2> QED
    BY <2>1 DEF Within
<1>3. ASSUME NEW i \in 1 .. Len(q)
      PROVE  q[i] \in Within(p \o q)
  <2>1. Len(p) + i \in 1 .. Len(p \o q) /\ (p \o q)[Len(p) + i] = q[i]
    BY QueueConcat
  <2> QED
    BY <2>1 DEF Within
<1> QED
  BY <1>1, <1>2, <1>3 DEF Within

LEMMA WithinOne == \A e : Within(<<e>>) = {e} /\ Within(<<>>) = {}
BY DEF Within

LEMMA WithinTwo == \A d, e : Within(<<d, e>>) = {d, e}
<1> SUFFICES ASSUME NEW d, NEW e PROVE Within(<<d, e>>) = {d, e}
  OBVIOUS
<1>1. Len(<<d, e>>) = 2 /\ <<d, e>>[1] = d /\ <<d, e>>[2] = e
  OBVIOUS
<1>2. 1 .. 2 = {1, 2}
  OBVIOUS
<1> QED
  BY <1>1, <1>2 DEF Within

LEMMA WithinType ==
    ASSUME NEW S, NEW q \in Seq(S)
    PROVE  Within(q) \subseteq S /\ (q = <<>> <=> Within(q) = {})
BY ElementOfSeq, EmptySeq, LenProperties DEF Within

LEMMA OnceTail ==
    ASSUME NEW S, NEW q \in Seq(S), q # <<>>, NEW T, Once(q, T)
    PROVE  /\ Once(Tail(q), T)
           /\ Head(q) \in T => Within(Tail(q)) \cap T = {}
<1>1. Once(Tail(q), T)
  <2> SUFFICES ASSUME NEW i \in 1 .. Len(Tail(q)), NEW j \in 1 .. Len(Tail(q)), Tail(q)[i] \in T, Tail(q)[j] \in T
               PROVE  i = j
    BY DEF Once
  <2>1. i + 1 \in 1 .. Len(q) /\ j + 1 \in 1 .. Len(q) /\ q[i + 1] \in T /\ q[j + 1] \in T
    BY QueueTail
  <2>2. i + 1 = j + 1
    BY <2>1 DEF Once
  <2> QED
    BY <2>2
<1>2. ASSUME Head(q) \in T, NEW i \in 1 .. Len(Tail(q)), Tail(q)[i] \in T
      PROVE  FALSE
  <2>1. 1 \in 1 .. Len(q) /\ q[1] \in T /\ i + 1 \in 1 .. Len(q) /\ q[i + 1] \in T
    BY <1>2, QueueTail
  <2>2. 1 = i + 1
    BY <2>1 DEF Once
  <2> QED
    BY <2>2
<1> QED
  BY <1>1, <1>2 DEF Within

LEMMA OnceConcat ==
    ASSUME NEW S, NEW p \in Seq(S), NEW q \in Seq(S), NEW T, Once(p, T), Once(q, T),
           Within(p) \cap T = {} \/ Within(q) \cap T = {}
    PROVE  Once(p \o q, T)
<1> SUFFICES ASSUME NEW i \in 1 .. Len(p \o q), NEW j \in 1 .. Len(p \o q),
                    (p \o q)[i] \in T, (p \o q)[j] \in T
             PROVE  i = j
  BY DEF Once
<1>1. /\ \A k \in 1 .. Len(p) : (p \o q)[k] = p[k] /\ p[k] \in Within(p)
      /\ \A k \in 1 .. Len(q) : q[k] \in Within(q)
      /\ Len(p) \in Nat /\ Len(q) \in Nat /\ Len(p \o q) = Len(p) + Len(q)
  <2>1. Len(p) \in Nat /\ Len(q) \in Nat /\ Len(p \o q) = Len(p) + Len(q)
    BY QueueConcat
  <2>2. \A k \in 1 .. Len(p) : (p \o q)[k] = p[k]
    BY QueueConcat
  <2>3. (\A k \in 1 .. Len(p) : p[k] \in Within(p)) /\ (\A k \in 1 .. Len(q) : q[k] \in Within(q))
    BY DEF Within
  <2> QED
    BY <2>1, <2>2, <2>3
<1>2. CASE i \in 1 .. Len(p) /\ j \in 1 .. Len(p)
  BY <1>1, <1>2 DEF Once
<1>3. CASE i \notin 1 .. Len(p) /\ j \notin 1 .. Len(p)
  <2>1. /\ i - Len(p) \in 1 .. Len(q) /\ q[i - Len(p)] \in T
        /\ j - Len(p) \in 1 .. Len(q) /\ q[j - Len(p)] \in T
    BY <1>3, QueueConcat
  <2>2. i - Len(p) = j - Len(p)
    BY <2>1 DEF Once
  <2> QED
    BY <1>1, <2>2
<1>4. CASE i \in 1 .. Len(p) /\ j \notin 1 .. Len(p)
  <2>1. j - Len(p) \in 1 .. Len(q) /\ q[j - Len(p)] \in T
    BY <1>4, QueueConcat
  <2> QED
    BY <1>1, <1>4, <2>1
<1>5. CASE i \notin 1 .. Len(p) /\ j \in 1 .. Len(p)
  <2>1. i - Len(p) \in 1 .. Len(q) /\ q[i - Len(p)] \in T
    BY <1>5, QueueConcat
  <2> QED
    BY <1>1, <1>5, <2>1
<1> QED
  BY <1>2, <1>3, <1>4, <1>5

LEMMA OnceFew ==
    ASSUME NEW T
    PROVE  Once(<<>>, T) /\ \A e : Once(<<e>>, T)
BY DEF Once

LEMMA OnceNone ==
    ASSUME NEW S, NEW q \in Seq(S), NEW T, Within(q) \cap T = {}
    PROVE  Once(q, T)
BY DEF Once, Within

LEMMA FollowedTail ==
    ASSUME NEW S, NEW q \in Seq(S), q # <<>>, NEW a, NEW b, Followed(q, a, b)
    PROVE  /\ Followed(Tail(q), a, b)
           /\ Head(q) = a => b \in Within(Tail(q))
<1>1. ASSUME NEW i \in 1 .. Len(q), q[i] = a
      PROVE  \E j \in 1 .. Len(Tail(q)) : j > i - 1 /\ Tail(q)[j] = b
  <2>1. PICK j \in 1 .. Len(q) : j > i /\ q[j] = b
    BY <1>1 DEF Followed
  <2>2. j # 1 /\ j - 1 \in 1 .. Len(Tail(q)) /\ Tail(q)[j - 1] = b /\ j - 1 > i - 1
    BY <2>1, QueueTail
  <2> QED
    BY <2>2
<1>2. Followed(Tail(q), a, b)
  <2> SUFFICES ASSUME NEW i \in 1 .. Len(Tail(q)), Tail(q)[i] = a
               PROVE  \E j \in 1 .. Len(Tail(q)) : j > i /\ Tail(q)[j] = b
    BY DEF Followed
  <2>1. i + 1 \in 1 .. Len(q) /\ q[i + 1] = a /\ (i + 1) - 1 = i
    BY QueueTail
  <2> QED
    BY <1>1, <2>1
<1>3. Head(q) = a => b \in Within(Tail(q))
  BY <1>1, QueueTail DEF Within
<1> QED
  BY <1>2, <1>3

LEMMA FollowedConcat ==
    ASSUME NEW S, NEW p \in Seq(S), NEW q \in Seq(S), NEW a, NEW b, a \notin Within(q),
           Followed(p, a, b) \/ b \in Within(q)
    PROVE  Followed(p \o q, a, b)
<1> SUFFICES ASSUME NEW i \in 1 .. Len(p \o q), (p \o q)[i] = a
             PROVE  \E j \in 1 .. Len(p \o q) : j > i /\ (p \o q)[j] = b
  BY DEF Followed
<1>1. i \in 1 .. Len(p) /\ p[i] = a
  BY QueueConcat DEF Within
<1>2. CASE Followed(p, a, b)
  <2>1. PICK j \in 1 .. Len(p) : j > i /\ p[j] = b
    BY <1>1, <1>2 DEF Followed
  <2>2. j \in 1 .. Len(p \o q) /\ (p \o q)[j] = b
    BY <2>1, QueueConcat
  <2> QED
    BY <2>1, <2>2
<1>3. CASE b \in Within(q)
  <2>1. PICK j \in 1 .. Len(q) : q[j] = b
    BY <1>3 DEF Within
  <2>2. Len(p) + j \in 1 .. Len(p \o q) /\ (p \o q)[Len(p) + j] = b /\ Len(p) + j > i
    BY <1>1, <2>1, QueueConcat
  <2> QED
    BY <2>2
<1> QED
  BY <1>2, <1>3

LEMMA FollowedNone ==
    ASSUME NEW q, NEW a, NEW b, a \notin Within(q)
    PROVE  Followed(q, a, b)
BY DEF Followed, Within

LEMMA LastTail ==
    ASSUME NEW S, NEW q \in Seq(S), q # <<>>, NEW T, NEW e, LastOf(q, T, e)
    PROVE  \/ LastOf(Tail(q), T, e)
           \/ Head(q) = e /\ Within(Tail(q)) \cap T = {}
<1>1. PICK i \in 1 .. Len(q) : q[i] = e /\ \A j \in 1 .. Len(q) : j > i => q[j] \notin T
  BY DEF LastOf
<1>2. \A j \in 1 .. Len(Tail(q)) : j > i - 1 => Tail(q)[j] \notin T
  <2> SUFFICES ASSUME NEW j \in 1 .. Len(Tail(q)), j > i - 1
               PROVE  Tail(q)[j] \notin T
    OBVIOUS
  <2>1. j + 1 \in 1 .. Len(q) /\ Tail(q)[j] = q[j + 1] /\ j + 1 > i
    BY QueueTail
  <2> QED
    BY <1>1, <2>1
<1>3. CASE i = 1
  BY <1>1, <1>2, <1>3, QueueTail DEF Within
<1>4. CASE i # 1
  <2>1. i - 1 \in 1 .. Len(Tail(q)) /\ Tail(q)[i - 1] = e
    BY <1>1, <1>4, QueueTail
  <2> QED
    BY <1>2, <2>1 DEF LastOf
<1> QED
  BY <1>3, <1>4

LEMMA LastConcat ==
    ASSUME NEW S, NEW p \in Seq(S), NEW q \in Seq(S), NEW T, NEW e,
           LastOf(q, T, e) \/ (LastOf(p, T, e) /\ Within(q) \cap T = {})
    PROVE  LastOf(p \o q, T, e)
<1>1. CASE LastOf(q, T, e)
  <2>1. PICK i \in 1 .. Len(q) : q[i] = e /\ \A j \in 1 .. Len(q) : j > i => q[j] \notin T
    BY <1>1 DEF LastOf
  <2>2. Len(p) + i \in 1 .. Len(p \o q) /\ (p \o q)[Len(p) + i] = e
    BY <2>1, QueueConcat
  <2>3. ASSUME NEW j \in 1 .. Len(p \o q), j > Len(p) + i
        PROVE  (p \o q)[j] \notin T
    <3>1. j - Len(p) \in 1 .. Len(q) /\ (p \o q)[j] = q[j - Len(p)] /\ j - Len(p) > i
      BY <2>1, <2>3, QueueConcat
    <3> QED
      BY <2>1, <3>1
  <2> QED
    BY <2>2, <2>3 DEF LastOf
<1>2. CASE LastOf(p, T, e) /\ Within(q) \cap T = {}
  <2>1. PICK i \in 1 .. Len(p) : p[i] = e /\ \A j \in 1 .. Len(p) : j > i => p[j] \notin T
    BY <1>2 DEF LastOf
  <2>2. i \in 1 .. Len(p \o q) /\ (p \o q)[i] = e
    BY <2>1, QueueConcat
  <2>3. ASSUME NEW j \in 1 .. Len(p \o q), j > i
        PROVE  (p \o q)[j] \notin T
    <3>1. CASE j \in 1 .. Len(p)
      BY <2>1, <2>3, <3>1, QueueConcat
    <3>2. CASE j \notin 1 .. Len(p)
      BY <1>2, <3>2, QueueConcat DEF Within
    <3> QED
      BY <3>1, <3>2
  <2> QED
    BY <2>2, <2>3 DEF LastOf
<1> QED
  BY <1>1, <1>2

LEMMA LastIn ==
    ASSUME NEW q, NEW T, NEW e, LastOf(q, T, e)
    PROVE  e \in Within(q)
BY DEF LastOf, Within

LEMMA AheadTail ==
    ASSUME NEW S, NEW q \in Seq(S), q # <<>>, NEW e, NEW T, Ahead(q, e, T)
    PROVE  Head(q) \notin T /\ (Head(q) = e \/ Ahead(Tail(q), e, T))
<1>1. PICK i \in 1 .. Len(q) : q[i] = e /\ \A j \in 1 .. Len(q) : j <= i => q[j] \notin T
  BY DEF Ahead
<1>2. 1 \in 1 .. Len(q) /\ 1 <= i /\ Head(q) = q[1]
  BY QueueTail
<1>3. CASE i # 1
  <2>1. i - 1 \in 1 .. Len(Tail(q)) /\ Tail(q)[i - 1] = e
    BY <1>1, <1>3, QueueTail
  <2>2. ASSUME NEW j \in 1 .. Len(Tail(q)), j <= i - 1
        PROVE  Tail(q)[j] \notin T
    <3>1. j + 1 \in 1 .. Len(q) /\ Tail(q)[j] = q[j + 1] /\ j + 1 <= i
      BY <2>2, QueueTail
    <3> QED
      BY <1>1, <3>1
  <2> QED
    BY <1>1, <1>2, <2>1, <2>2 DEF Ahead
<1> QED
  BY <1>1, <1>2, <1>3

LEMMA AheadConcat ==
    ASSUME NEW S, NEW p \in Seq(S), NEW q \in Seq(S), NEW e, NEW T, Ahead(p, e, T)
    PROVE  Ahead(p \o q, e, T)
<1>1. PICK i \in 1 .. Len(p) : p[i] = e /\ \A j \in 1 .. Len(p) : j <= i => p[j] \notin T
  BY DEF Ahead
<1>2. i \in 1 .. Len(p \o q) /\ (p \o q)[i] = e
  BY <1>1, QueueConcat
<1>3. ASSUME NEW j \in 1 .. Len(p \o q), j <= i
      PROVE  (p \o q)[j] \notin T
  <2>1. j \in 1 .. Len(p) /\ (p \o q)[j] = p[j]
    BY <1>3, QueueConcat
  <2> QED
    BY <1>1, <1>3, <2>1
<1> QED
  BY <1>2, <1>3 DEF Ahead

LEMMA AheadIn ==
    ASSUME NEW q, NEW e, NEW T, e \in Within(q), Within(q) \cap T = {}
    PROVE  Ahead(q, e, T)
BY DEF Ahead, Within

LEMMA OncePart ==
    ASSUME NEW q, NEW T, NEW X, X \subseteq T, Once(q, T)
    PROVE  Once(q, X)
BY DEF Once

LEMMA WithinAppend ==
    ASSUME NEW S, NEW q \in Seq(S), NEW x \in S
    PROVE  <<x>> \in Seq(S) /\ Within(q \o <<x>>) = Within(q) \cup {x}
<1> DEFINE r == <<x>>
<1>1. r \in Seq(S) /\ Within(r) = {x}
  BY WithinOne
<1> HIDE DEF r
<1>2. Within(q \o r) = Within(q) \cup Within(r)
  BY <1>1, WithinConcat
<1>3. r \in Seq(S) /\ Within(q \o r) = Within(q) \cup {x}
  BY <1>1, <1>2
<1> QED
  BY <1>3 DEF r
=============================================================================
