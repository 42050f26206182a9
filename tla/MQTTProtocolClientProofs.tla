---------------------- MODULE MQTTProtocolClientProofs ----------------------
(***************************************************************************)
(* Theorems about MQTTProtocolClient, for any plans, identifiers and       *)
(* bounds: the types, and the agreement of the store with the memory of    *)
(* the process between any two handlers, through crashes, restarts,        *)
(* retries and the queue of refused messages.                              *)
(***************************************************************************)
EXTENDS MQTTProtocolClient, FiniteSetTheorems, WellFoundedInduction, TLAPS

-----------------------------------------------------------------------------
(* Induction over numbers, by the least element of a set of them           *)

LessNat == {p \in Nat \X Nat : p[1] < p[2]}

LEMMA LeastNumber ==
  ASSUME NEW T, T \subseteq Nat, T # {}
  PROVE  \E x \in T : \A y \in T : x <= y
<1>1. IsWellFoundedOn(LessNat, Nat)
  BY NatLessThanWellFounded DEF LessNat, OpToRel
<1>2. \E x \in T : \A y \in T : ~ (<<y, x>> \in LessNat)
  BY <1>1, WFMin
<1>3. PICK x \in T : \A y \in T : ~ (<<y, x>> \in LessNat)
  BY <1>2
<1>4. ASSUME NEW y \in T PROVE x <= y
  <2>1. x \in Nat /\ y \in Nat
    OBVIOUS
  <2>2. <<y, x>> \in LessNat <=> y < x
    BY <2>1 DEF LessNat
  <2>3. QED
    BY <1>3, <2>1, <2>2
<1>5. QED
  BY <1>4

-----------------------------------------------------------------------------
(* Sequences *)

\* FlattenSeq: the parts of a sequence of sequences over S are joined one by one
LEMMA FlattenSteps ==
  ASSUME NEW S, NEW ss \in Seq(Seq(S)), Len(ss) # 0
  PROVE  \E f \in [1..Len(ss) -> Seq(S)] :
           /\ FlattenSeq(ss) = f[Len(ss)]
           /\ \A i \in 1..Len(ss) : f[i] = IF i = 1 THEN ss[i] ELSE f[i - 1] \o ss[i]
<1> DEFINE
      Step(f, i) == IF i = 1 THEN ss[i] ELSE f[i - 1] \o ss[i]
      Good(n) == \E f \in [1..n -> Seq(S)] : \A i \in 1..n : f[i] = Step(f, i)
      Bad == {n \in Nat : n <= Len(ss) /\ ~Good(n)}
      F == CHOOSE f : f = [i \in 1..Len(ss) |-> IF i = 1 THEN ss[i] ELSE f[i - 1] \o ss[i]]
<1>0. Good(0)
  <2>1. [i \in 1..0 |-> <<>>] \in [1..0 -> Seq(S)]
    OBVIOUS
  <2>2. \A i \in 1..0 : FALSE
    OBVIOUS
  <2> HIDE DEF Step
  <2>3. QED
    BY <2>1, <2>2
<1>1. Bad = {}
  <2>1. SUFFICES ASSUME Bad # {} PROVE FALSE
    OBVIOUS
  <2>2. PICK m \in Bad : \A n \in Bad : m <= n
    <3>1. Bad \subseteq Nat
      OBVIOUS
    <3> HIDE DEF Bad
    <3>2. QED
      BY <2>1, <3>1, LeastNumber
  <2> HIDE DEF Good
  <2>3. m # 0
    BY <1>0
  <2>4. Good(m - 1)
    <3>1. m \in Nat /\ m - 1 \in Nat /\ m - 1 <= Len(ss)
      BY <2>3
    <3>2. m - 1 \notin Bad
      <4> HIDE DEF Bad
      <4>1. QED
        BY <2>2, <3>1
    <3>3. QED
      BY <3>1, <3>2
  <2> USE DEF Good
  <2>5. PICK f \in [1..(m - 1) -> Seq(S)] : \A i \in 1..(m - 1) : f[i] = Step(f, i)
    BY <2>4
  <2> DEFINE g == [i \in 1..m |-> IF i = m THEN Step(f, m) ELSE f[i]]
  <2>0. m \in Nat \ {0} /\ m <= Len(ss) /\ ~Good(m)
    BY <2>3
  <2>6. Step(f, m) \in Seq(S)
    <3>1. ss[m] \in Seq(S)
      BY <2>0
    <3>2. m # 1 => f[m - 1] \in Seq(S)
      BY <2>0, <2>5
    <3>3. QED
      BY <3>1, <3>2
  <2>7. g \in [1..m -> Seq(S)]
    <3> HIDE DEF Step
    <3>1. QED
      BY <2>0, <2>5, <2>6
  <2>8. ASSUME NEW i \in 1..m PROVE g[i] = Step(g, i)
    <3>1. CASE i = m
      <4>1. m # 1 => g[m - 1] = f[m - 1]
        BY <2>0
      <4>2. g[m] = Step(f, m)
        BY <2>0
      <4>3. QED
        BY <3>1, <4>1, <4>2
    <3>2. CASE i # m
      <4>1. i \in 1..(m - 1)
        BY <2>0, <3>2
      <4>2. g[i] = f[i] /\ (i # 1 => g[i - 1] = f[i - 1])
        BY <2>0, <3>2, <4>1
      <4>3. QED
        BY <2>5, <4>1, <4>2
    <3>3. QED
      BY <3>1, <3>2
  <2> HIDE DEF g, Step
  <2>9. QED
    BY <2>0, <2>7, <2>8
<1>2. PICK f \in [1..Len(ss) -> Seq(S)] : \A i \in 1..Len(ss) : f[i] = Step(f, i)
  <2>1. Len(ss) \in Nat /\ Len(ss) \notin Bad
    <3> HIDE DEF Bad
    <3>1. QED
      BY <1>1
  <2>2. Good(Len(ss))
    <3> HIDE DEF Good
    <3>1. QED
      BY <2>1
  <2> HIDE DEF Step
  <2>3. QED
    BY <2>2
<1>3. F = [i \in 1..Len(ss) |-> IF i = 1 THEN ss[i] ELSE F[i - 1] \o ss[i]]
  <2>1. f = [i \in 1..Len(ss) |-> IF i = 1 THEN ss[i] ELSE f[i - 1] \o ss[i]]
    BY <1>2
  <2>2. QED
    BY <2>1
<1> DEFINE Differ == {i \in Nat : i \in 1..Len(ss) /\ F[i] # f[i]}
<1>4. Differ = {}
  <2> HIDE DEF F
  <2>1. SUFFICES ASSUME Differ # {} PROVE FALSE
    OBVIOUS
  <2>2. PICK m \in Differ : \A n \in Differ : m <= n
    <3>1. Differ \subseteq Nat
      OBVIOUS
    <3> HIDE DEF Differ
    <3>2. QED
      BY <2>1, <3>1, LeastNumber
  <2>0. m \in 1..Len(ss) /\ F[m] # f[m]
    OBVIOUS
  <2>3. F[m] = Step(F, m) /\ f[m] = Step(f, m)
    BY <1>2, <1>3, <2>0
  <2>4. m # 1 => F[m - 1] = f[m - 1]
    <3>1. ASSUME m # 1 PROVE m - 1 \in Nat /\ m - 1 \in 1..Len(ss) /\ m - 1 \notin Differ
      BY <2>0, <2>2, <3>1
    <3>2. QED
      BY <3>1
  <2>5. QED
    BY <2>0, <2>3, <2>4
<1>5. FlattenSeq(ss) = F[Len(ss)]
  BY DEF FlattenSeq
<1>6. Len(ss) \in Nat /\ Len(ss) \in 1..Len(ss)
  OBVIOUS
<1>7. F[Len(ss)] = f[Len(ss)]
  <2> HIDE DEF F
  <2>1. QED
    BY <1>4, <1>6
<1> HIDE DEF F
<1>8. QED
  BY <1>2, <1>5, <1>7

LEMMA FlattenType ==
  ASSUME NEW S, NEW ss \in Seq(Seq(S))
  PROVE  FlattenSeq(ss) \in Seq(S)
<1>1. CASE Len(ss) = 0
  BY <1>1 DEF FlattenSeq
<1>2. CASE Len(ss) # 0
  <2>1. Len(ss) \in 1..Len(ss)
    BY <1>2
  <2>2. PICK f \in [1..Len(ss) -> Seq(S)] : FlattenSeq(ss) = f[Len(ss)]
    BY <1>2, FlattenSteps
  <2>3. QED
    BY <2>1, <2>2
<1>3. QED
  BY <1>1, <1>2

\* the first element that passes a test
LEMMA FoundProperties ==
  ASSUME NEW S, NEW list \in Seq(S), NEW id
  PROVE  /\ Found(list, id) \in 0..Len(list)
         /\ Found(list, id) = 0 => \A i \in DOMAIN list : list[i].id # id
         /\ Found(list, id) # 0 => list[Found(list, id)].id = id
<1> DEFINE I == {i \in 1..Len(list) : list[i].id = id}
<1>1. Found(list, id) = IF I # {} THEN Min(I) ELSE 0
  BY DEF Found, SelectInSeq
<1>2. CASE I = {}
  BY <1>1, <1>2
<1>3. CASE I # {}
  <2>1. \E x \in I : \A y \in I : x <= y
    <3>1. I \subseteq Nat
      OBVIOUS
    <3>2. QED
      BY <1>3, <3>1, LeastNumber
  <2>2. Min(I) \in I
    BY <2>1 DEF Min
  <2>3. QED
    BY <1>1, <1>3, <2>2
<1>4. QED
  BY <1>2, <1>3

LEMMA RemoveAtProperties ==
  ASSUME NEW S, NEW list \in Seq(S), NEW i \in 1..Len(list)
  PROVE  /\ RemoveAt(list, i) \in Seq(S)
         /\ Len(RemoveAt(list, i)) = Len(list) - 1
         /\ \A k \in 1..(Len(list) - 1) :
              RemoveAt(list, i)[k] = IF k < i THEN list[k] ELSE list[k + 1]
<1> DEFINE before == SubSeq(list, 1, i - 1)
           after == SubSeq(list, i + 1, Len(list))
<1>1. /\ before \in Seq(S) /\ after \in Seq(S)
      /\ Len(before) = i - 1 /\ Len(after) = Len(list) - i
  OBVIOUS
<1>2. /\ \A k \in 1..(i - 1) : before[k] = list[k]
      /\ \A k \in 1..(Len(list) - i) : after[k] = list[i + k]
  OBVIOUS
<1>3. RemoveAt(list, i) = before \o after
  BY DEF RemoveAt
<1> HIDE DEF before, after
<1>4. /\ before \o after \in Seq(S)
      /\ Len(before \o after) = Len(list) - 1
  BY <1>1
<1>5. \A k \in 1..(Len(list) - 1) :
        (before \o after)[k] = IF k < i THEN before[k] ELSE after[k - (i - 1)]
  BY <1>1
<1>6. \A k \in 1..(Len(list) - 1) :
        IF k < i THEN before[k] = list[k] ELSE after[k - (i - 1)] = list[k + 1]
  <2>1. ASSUME NEW k \in 1..(Len(list) - 1), ~(k < i)
        PROVE  after[k - (i - 1)] = list[k + 1]
    <3>1. k - (i - 1) \in 1..(Len(list) - i) /\ i + (k - (i - 1)) = k + 1
      BY <2>1
    <3>2. QED
      BY <1>2, <3>1
  <2>2. ASSUME NEW k \in 1..(Len(list) - 1), k < i
        PROVE  before[k] = list[k]
    <3>1. k \in 1..(i - 1)
      BY <2>2
    <3>2. QED
      BY <1>2, <3>1
  <2>3. QED
    BY <2>1, <2>2
<1>7. QED
  BY <1>3, <1>4, <1>5, <1>6

-----------------------------------------------------------------------------
(* Sorted: every place of the order is taken by one element of the set     *)

StrictOrder(R, S) ==
  /\ \A x \in S : <<x, x>> \notin R
  /\ \A x, y, z \in S : <<x, y>> \in R /\ <<y, z>> \in R => <<x, z>> \in R
  /\ \A x, y \in S : x = y \/ <<x, y>> \in R \/ <<y, x>> \in R

Rank(x, R, S) == Cardinality(SetLessThan(x, R, S))

LEMMA RankGrows ==
  ASSUME NEW S, NEW R, IsFiniteSet(S), StrictOrder(R, S), NEW x \in S, NEW y \in S,
         <<x, y>> \in R
  PROVE  Rank(x, R, S) < Rank(y, R, S)
<1> DEFINE X == SetLessThan(x, R, S)
           Y == SetLessThan(y, R, S)
<1>1. X \subseteq Y
  BY DEF SetLessThan, StrictOrder
<1>2. x \in Y /\ x \notin X
  BY DEF SetLessThan, StrictOrder
<1>3. IsFiniteSet(Y)
  <2>1. Y \in SUBSET S
    BY DEF SetLessThan
  <2>2. QED
    BY <2>1, FS_Subset
<1>4. Cardinality(X) <= Cardinality(Y) /\ Cardinality(X) # Cardinality(Y) /\ IsFiniteSet(X)
  <2> HIDE DEF X, Y
  <2>1. X \in SUBSET Y /\ X # Y
    BY <1>1, <1>2
  <2>2. QED
    BY <1>3, <2>1, FS_Subset
<1>5. Cardinality(X) \in Nat /\ Cardinality(Y) \in Nat
  BY <1>3, <1>4, FS_CardinalityType
<1>6. QED
  BY <1>4, <1>5 DEF Rank

LEMMA Ranks ==
  ASSUME NEW S, NEW R, IsFiniteSet(S), StrictOrder(R, S)
  PROVE  /\ \A x \in S : Rank(x, R, S) \in 0..(Cardinality(S) - 1)
         /\ \A x, y \in S : Rank(x, R, S) < Rank(y, R, S) => <<x, y>> \in R
         /\ \A x, y \in S : Rank(x, R, S) = Rank(y, R, S) => x = y
         /\ \A i \in 1..Cardinality(S) : \E x \in S : Rank(x, R, S) = i - 1
<1>0. Cardinality(S) \in Nat
  BY FS_CardinalityType
<1>1. ASSUME NEW x \in S PROVE Rank(x, R, S) \in 0..(Cardinality(S) - 1)
  <2> DEFINE X == SetLessThan(x, R, S)
  <2>1. X \subseteq S \ {x}
    BY DEF SetLessThan, StrictOrder
  <2>2. IsFiniteSet(S \ {x}) /\ Cardinality(S \ {x}) = Cardinality(S) - 1
    BY FS_RemoveElement
  <2>3. IsFiniteSet(X) /\ Cardinality(X) <= Cardinality(S) - 1
    BY <2>1, <2>2, FS_Subset
  <2>4. Cardinality(X) \in Nat
    BY <2>3, FS_CardinalityType
  <2> HIDE DEF X
  <2>5. QED
    BY <1>0, <2>3, <2>4 DEF Rank, X
<1>2. ASSUME NEW x \in S, NEW y \in S
      PROVE  /\ Rank(x, R, S) < Rank(y, R, S) => <<x, y>> \in R
             /\ Rank(x, R, S) = Rank(y, R, S) => x = y
  <2>1. Rank(x, R, S) \in 0..(Cardinality(S) - 1) /\ Rank(y, R, S) \in 0..(Cardinality(S) - 1)
    BY <1>1
  <2>2. x = y \/ <<x, y>> \in R \/ <<y, x>> \in R
    BY DEF StrictOrder
  <2>3. <<x, y>> \in R => Rank(x, R, S) < Rank(y, R, S)
    BY RankGrows
  <2>4. <<y, x>> \in R => Rank(y, R, S) < Rank(x, R, S)
    BY RankGrows
  <2>5. QED
    BY <1>0, <2>1, <2>2, <2>3, <2>4
<1>3. ASSUME NEW i \in 1..Cardinality(S) PROVE \E x \in S : Rank(x, R, S) = i - 1
  <2> DEFINE T == 0..(Cardinality(S) - 1)
             f == [x \in S |-> Rank(x, R, S)]
  <2>1. f \in Injection(S, T)
    <3>1. f \in [S -> T]
      BY <1>1
    <3>2. \A x, y \in S : f[x] = f[y] => x = y
      BY <1>2
    <3> HIDE DEF f, T
    <3>3. QED
      BY <3>1, <3>2 DEF Injection, IsInjective
  <2>2. IsFiniteSet(T) /\ Cardinality(T) = Cardinality(S)
    <3>1. Cardinality(S) - 1 \in Int /\ 0 \in Int
      BY <1>0
    <3>2. /\ IsFiniteSet(T)
          /\ Cardinality(T) = IF 0 > Cardinality(S) - 1 THEN 0 ELSE (Cardinality(S) - 1) - 0 + 1
      BY <3>1, FS_Interval
    <3> HIDE DEF T
    <3>3. QED
      BY <1>0, <3>2
  <2>3. f \in Surjection(S, T)
    <3> HIDE DEF f, T
    <3>1. QED
      BY <2>1, <2>2, FS_Injection
  <2>4. i - 1 \in T
    BY <1>0
  <2>5. \E x \in S : f[x] = i - 1
    <3> HIDE DEF f, T
    <3>1. QED
      BY <2>3, <2>4 DEF Surjection
  <2>6. QED
    BY <2>5
<1>4. QED
  BY <1>1, <1>2, <1>3

\* s has every element of S in one place
Lists(s, S) ==
  /\ s \in Seq(S)
  /\ \A x \in S : \E i \in DOMAIN s : s[i] = x
  /\ \A i, j \in DOMAIN s : s[i] = s[j] => i = j

LEMMA RankedLists ==
  ASSUME NEW S, NEW R, IsFiniteSet(S), StrictOrder(R, S),
         NEW s \in [1..Cardinality(S) -> S],
         \A i \in 1..Cardinality(S) : Rank(s[i], R, S) = i - 1
  PROVE  Lists(s, S) /\ \A i, j \in DOMAIN s : i < j => <<s[i], s[j]>> \in R
<1>0. Cardinality(S) \in Nat
  BY FS_CardinalityType
<1>1. s \in Seq(S) /\ DOMAIN s = 1..Cardinality(S)
  BY <1>0
<1>2. ASSUME NEW x \in S PROVE \E i \in DOMAIN s : s[i] = x
  <2>1. Rank(x, R, S) \in 0..(Cardinality(S) - 1)
    BY Ranks
  <2>2. Rank(x, R, S) + 1 \in 1..Cardinality(S) /\ Rank(s[Rank(x, R, S) + 1], R, S) = Rank(x, R, S)
    BY <1>0, <2>1
  <2>3. s[Rank(x, R, S) + 1] = x
    BY <2>2, Ranks
  <2>4. QED
    BY <1>1, <2>2, <2>3
<1>3. ASSUME NEW i \in DOMAIN s, NEW j \in DOMAIN s, s[i] = s[j] PROVE i = j
  <2>1. i - 1 = j - 1 /\ i \in Nat /\ j \in Nat
    BY <1>0, <1>1, <1>3
  <2>2. QED
    BY <2>1
<1>4. ASSUME NEW i \in DOMAIN s, NEW j \in DOMAIN s, i < j PROVE <<s[i], s[j]>> \in R
  <2>1. Rank(s[i], R, S) < Rank(s[j], R, S)
    BY <1>0, <1>1, <1>4
  <2>2. QED
    BY <1>1, <2>1, Ranks
<1>5. QED
  BY <1>1, <1>2, <1>3, <1>4 DEF Lists

-----------------------------------------------------------------------------
(* The keys of the store *)

Keys == ToSet(Stems) \X Nat

LEMMA StemsOf ==
  /\ ToSet(Stems) = {"c-", "q-", "r-", "s-", "sc-"}
  /\ \A k \in Keys : k = <<k[1], k[2]>> /\ k[1] \in ToSet(Stems) /\ k[2] \in Nat
<1>1. DOMAIN Stems = 1..5
  BY DEF Stems
<1>2. ToSet(Stems) = {"c-", "q-", "r-", "s-", "sc-"}
  BY <1>1 DEF ToSet, Stems
<1>3. QED
  BY <1>2 DEF Keys

\* the directory lists every file once
LEMMA SortedByName ==
  ASSUME NEW S, S \subseteq Keys, IsFiniteSet(S)
  PROVE  Lists(Sorted(S, ByName), S)
<1> DEFINE Stem(x) == CHOOSE i \in DOMAIN Stems : Stems[i] = x[1]
           Before(k, l) == Stem(k) < Stem(l) \/ (Stem(k) = Stem(l) /\ k[2] < l[2])
           R == {p \in S \X S : Before(p[1], p[2])}
           s == [i \in 1..Cardinality(S) |->
                   CHOOSE x \in S : Cardinality({y \in S : Before(y, x)}) = i - 1]
<1>1. Sorted(S, ByName) = s
  BY DEF Sorted, ByName
<1>2. ASSUME NEW k \in S
      PROVE  Stem(k) \in 1..5 /\ Stems[Stem(k)] = k[1] /\ k[2] \in Nat /\ k = <<k[1], k[2]>>
  <2>1. k[1] \in ToSet(Stems) /\ k[2] \in Nat /\ k = <<k[1], k[2]>>
    BY StemsOf
  <2>2. \E i \in DOMAIN Stems : Stems[i] = k[1]
    BY <2>1 DEF ToSet
  <2>3. Stem(k) \in DOMAIN Stems /\ Stems[Stem(k)] = k[1]
    BY <2>2
  <2>4. DOMAIN Stems = 1..5
    BY DEF Stems
  <2> HIDE DEF Stem
  <2>5. QED
    BY <2>1, <2>3, <2>4
<1> HIDE DEF Stem
<1>3. StrictOrder(R, S)
  <2>1. \A x \in S : <<x, x>> \notin R
    BY <1>2
  <2>2. \A x, y, z \in S : <<x, y>> \in R /\ <<y, z>> \in R => <<x, z>> \in R
    BY <1>2
  <2>3. ASSUME NEW x \in S, NEW y \in S PROVE x = y \/ <<x, y>> \in R \/ <<y, x>> \in R
    <3>1. \/ Stem(x) < Stem(y) \/ Stem(y) < Stem(x)
          \/ Stem(x) = Stem(y) /\ (x[2] < y[2] \/ y[2] < x[2])
          \/ Stem(x) = Stem(y) /\ x[2] = y[2]
      BY <1>2
    <3>2. Stem(x) = Stem(y) /\ x[2] = y[2] => x = y
      BY <1>2
    <3>3. QED
      BY <3>1, <3>2
  <2> HIDE DEF R
  <2>4. QED
    BY <2>1, <2>2, <2>3 DEF StrictOrder
<1>4. ASSUME NEW x \in S PROVE Cardinality({y \in S : Before(y, x)}) = Rank(x, R, S)
  <2>1. {y \in S : Before(y, x)} = SetLessThan(x, R, S)
    BY DEF SetLessThan
  <2>2. QED
    BY <2>1 DEF Rank
<1> HIDE DEF R, Before
<1>5. \A i \in 1..Cardinality(S) : s[i] \in S /\ Rank(s[i], R, S) = i - 1
  <2>1. SUFFICES ASSUME NEW i \in 1..Cardinality(S)
                 PROVE  s[i] \in S /\ Rank(s[i], R, S) = i - 1
    OBVIOUS
  <2>2. \E x \in S : Cardinality({y \in S : Before(y, x)}) = i - 1
    BY <1>3, <1>4, Ranks
  <2>3. s[i] \in S /\ Cardinality({y \in S : Before(y, s[i])}) = i - 1
    BY <2>2
  <2>4. QED
    BY <1>4, <2>3
<1>6. s \in [1..Cardinality(S) -> S]
  BY <1>5
<1> HIDE DEF s
<1>7. QED
  BY <1>1, <1>3, <1>5, <1>6, RankedLists

\* the keys of one kind in the order of their numbers
LEMMA SortedByNumber ==
  ASSUME NEW S, S \subseteq Keys, IsFiniteSet(S), \A k, l \in S : k[1] = l[1]
  PROVE  /\ Lists(InOrderOf(S), S)
         /\ \A i, j \in DOMAIN InOrderOf(S) : i < j => InOrderOf(S)[i][2] < InOrderOf(S)[j][2]
<1> DEFINE R == {p \in S \X S : p[1][2] < p[2][2]}
           s == [i \in 1..Cardinality(S) |->
                   CHOOSE x \in S : Cardinality({y \in S : y[2] < x[2]}) = i - 1]
<1>1. InOrderOf(S) = s
  BY DEF InOrderOf, Sorted, ByNumber
<1>2. \A k \in S : k[2] \in Nat /\ k = <<k[1], k[2]>>
  BY StemsOf
<1>3. StrictOrder(R, S)
  <2>1. \A x \in S : <<x, x>> \notin R
    BY <1>2
  <2>2. \A x, y, z \in S : <<x, y>> \in R /\ <<y, z>> \in R => <<x, z>> \in R
    BY <1>2
  <2>3. ASSUME NEW x \in S, NEW y \in S PROVE x = y \/ <<x, y>> \in R \/ <<y, x>> \in R
    <3>1. x[2] < y[2] \/ y[2] < x[2] \/ x[2] = y[2]
      BY <1>2
    <3>2. x[2] = y[2] => x = y
      BY <1>2
    <3>3. QED
      BY <3>1, <3>2
  <2> HIDE DEF R
  <2>4. QED
    BY <2>1, <2>2, <2>3 DEF StrictOrder
<1>4. ASSUME NEW x \in S PROVE Cardinality({y \in S : y[2] < x[2]}) = Rank(x, R, S)
  <2>1. {y \in S : y[2] < x[2]} = SetLessThan(x, R, S)
    BY DEF SetLessThan
  <2>2. QED
    BY <2>1 DEF Rank
<1>8. \A x, y \in S : <<x, y>> \in R => x[2] < y[2]
  OBVIOUS
<1> HIDE DEF R
<1>5. \A i \in 1..Cardinality(S) : s[i] \in S /\ Rank(s[i], R, S) = i - 1
  <2>1. SUFFICES ASSUME NEW i \in 1..Cardinality(S)
                 PROVE  s[i] \in S /\ Rank(s[i], R, S) = i - 1
    OBVIOUS
  <2>2. \E x \in S : Cardinality({y \in S : y[2] < x[2]}) = i - 1
    BY <1>3, <1>4, Ranks
  <2>3. s[i] \in S /\ Cardinality({y \in S : y[2] < s[i][2]}) = i - 1
    BY <2>2
  <2>4. QED
    BY <1>4, <2>3
<1>6. s \in [1..Cardinality(S) -> S]
  BY <1>5
<1> HIDE DEF s
<1>7. Lists(s, S) /\ \A i, j \in DOMAIN s : i < j => <<s[i], s[j]>> \in R
  <2>1. \A i \in 1..Cardinality(S) : Rank(s[i], R, S) = i - 1
    BY <1>5
  <2>2. QED
    BY <1>3, <1>6, <2>1, RankedLists
<1>9. \A i \in DOMAIN s : s[i] \in S
  BY <1>7 DEF Lists
<1>10. QED
  BY <1>1, <1>7, <1>8, <1>9

\* the keys of a set in the order of the directory
LEMMA SortedAsListed ==
  ASSUME NEW A, NEW keys, Lists(keys, A), NEW S, S \subseteq A, IsFiniteSet(S)
  PROVE  Lists(AsListed(keys, S), S)
<1> DEFINE R == {p \in S \X S : Position(keys, p[1]) < Position(keys, p[2])}
           s == [i \in 1..Cardinality(S) |->
                   CHOOSE x \in S :
                     Cardinality({y \in S : Position(keys, y) < Position(keys, x)}) = i - 1]
<1>1. AsListed(keys, S) = s
  BY DEF AsListed, Sorted
<1>2. ASSUME NEW k \in S
      PROVE  Position(keys, k) \in Nat /\ keys[Position(keys, k)] = k
  <2>1. \E i \in DOMAIN keys : keys[i] = k
    BY DEF Lists
  <2>2. Position(keys, k) \in DOMAIN keys /\ keys[Position(keys, k)] = k
    BY <2>1 DEF Position
  <2>3. QED
    BY <2>2 DEF Lists
<1>3. StrictOrder(R, S)
  <2>1. \A x \in S : <<x, x>> \notin R
    BY <1>2
  <2>2. \A x, y, z \in S : <<x, y>> \in R /\ <<y, z>> \in R => <<x, z>> \in R
    BY <1>2
  <2>3. ASSUME NEW x \in S, NEW y \in S PROVE x = y \/ <<x, y>> \in R \/ <<y, x>> \in R
    <3>1. \/ Position(keys, x) < Position(keys, y) \/ Position(keys, y) < Position(keys, x)
          \/ Position(keys, x) = Position(keys, y)
      BY <1>2
    <3>2. Position(keys, x) = Position(keys, y) => x = y
      BY <1>2
    <3>3. QED
      BY <3>1, <3>2
  <2> HIDE DEF R
  <2>4. QED
    BY <2>1, <2>2, <2>3 DEF StrictOrder
<1>4. ASSUME NEW x \in S
      PROVE  Cardinality({y \in S : Position(keys, y) < Position(keys, x)}) = Rank(x, R, S)
  <2>1. {y \in S : Position(keys, y) < Position(keys, x)} = SetLessThan(x, R, S)
    BY DEF SetLessThan
  <2>2. QED
    BY <2>1 DEF Rank
<1> HIDE DEF R
<1>5. \A i \in 1..Cardinality(S) : s[i] \in S /\ Rank(s[i], R, S) = i - 1
  <2>1. SUFFICES ASSUME NEW i \in 1..Cardinality(S)
                 PROVE  s[i] \in S /\ Rank(s[i], R, S) = i - 1
    OBVIOUS
  <2>2. \E x \in S : Cardinality({y \in S : Position(keys, y) < Position(keys, x)}) = i - 1
    BY <1>3, <1>4, Ranks
  <2>3. /\ s[i] \in S
        /\ Cardinality({y \in S : Position(keys, y) < Position(keys, s[i])}) = i - 1
    BY <2>2
  <2>4. QED
    BY <1>4, <2>3
<1>6. s \in [1..Cardinality(S) -> S]
  BY <1>5
<1> HIDE DEF s
<1>7. QED
  BY <1>1, <1>3, <1>5, <1>6, RankedLists

LEMMA KeysListed ==
  ASSUME NEW d, DOMAIN d.files \subseteq Keys, IsFiniteSet(DOMAIN d.files),
         NEW keys \in PstKeys(d)
  PROVE  Lists(keys, DOMAIN d.files)
<1> DEFINE S == DOMAIN d.files
           byName == Sorted(S, ByName)
<1>1. Lists(byName, S)
  BY SortedByName
<1>2. keys \in {byName, Reverse(byName)}
  BY DEF PstKeys
<1> HIDE DEF byName, S
<1>3. Lists(Reverse(byName), S)
  <2>1. /\ Len(byName) \in Nat /\ byName \in Seq(S)
        /\ DOMAIN byName = 1..Len(byName)
    BY <1>1 DEF Lists
  <2>2. /\ Reverse(byName) \in Seq(S) /\ DOMAIN Reverse(byName) = 1..Len(byName)
        /\ \A i \in 1..Len(byName) : Reverse(byName)[i] = byName[Len(byName) - i + 1]
    BY <2>1 DEF Reverse
  <2>3. ASSUME NEW x \in S PROVE \E i \in DOMAIN Reverse(byName) : Reverse(byName)[i] = x
    <3>1. PICK j \in DOMAIN byName : byName[j] = x
      BY <1>1 DEF Lists
    <3>2. /\ Len(byName) - j + 1 \in 1..Len(byName)
          /\ Len(byName) - (Len(byName) - j + 1) + 1 = j
      BY <2>1
    <3>3. QED
      BY <2>2, <3>1, <3>2
  <2>4. ASSUME NEW i \in DOMAIN Reverse(byName), NEW j \in DOMAIN Reverse(byName),
               Reverse(byName)[i] = Reverse(byName)[j]
        PROVE  i = j
    <3>1. /\ Len(byName) - i + 1 \in DOMAIN byName /\ Len(byName) - j + 1 \in DOMAIN byName
          /\ i \in Nat /\ j \in Nat
      BY <2>1, <2>2
    <3>2. byName[Len(byName) - i + 1] = byName[Len(byName) - j + 1]
      BY <2>2, <2>4
    <3>3. Len(byName) - i + 1 = Len(byName) - j + 1
      BY <1>1, <3>1, <3>2 DEF Lists
    <3>4. QED
      BY <2>1, <3>1, <3>3
  <2>5. QED
    BY <2>2, <2>3, <2>4 DEF Lists
<1>4. QED
  BY <1>1, <1>2, <1>3 DEF S

-----------------------------------------------------------------------------
(* The files that a put and a removal leave *)

IsDirectory(d) == d = Directory(d.exists, d.files) /\ d.exists \in BOOLEAN

LEMMA FilesAfterPut ==
  ASSUME NEW d, IsDirectory(d), NEW key, NEW c
  PROVE  /\ IsDirectory(PstPut(d, key, c))
         /\ DOMAIN PstPut(d, key, c).files = DOMAIN d.files \cup {key}
         /\ PstPut(d, key, c).files[key] = c
         /\ \A k \in DOMAIN d.files : k # key => PstPut(d, key, c).files[k] = d.files[k]
<1>1. /\ PstPut(d, key, c).files =
           [k \in DOMAIN d.files \cup {key} |-> IF k = key THEN c ELSE d.files[k]]
      /\ IsDirectory(PstPut(d, key, c))
  BY DEF PstPut, IsDirectory, Directory
<1>2. QED
  BY <1>1

LEMMA FilesAfterRemove ==
  ASSUME NEW d, IsDirectory(d), NEW key
  PROVE  /\ IsDirectory(PstRemove(d, key))
         /\ DOMAIN PstRemove(d, key).files = DOMAIN d.files \ {key}
         /\ \A k \in DOMAIN d.files : k # key => PstRemove(d, key).files[k] = d.files[k]
<1>1. /\ PstRemove(d, key).files = Restrict(d.files, DOMAIN d.files \ {key})
      /\ IsDirectory(PstRemove(d, key))
  BY DEF PstRemove, IsDirectory, Directory
<1>2. QED
  BY <1>1 DEF Restrict

-----------------------------------------------------------------------------
(* Types *)

CommandContents == {m \in [id : 0..MaxMsgId, n : Out, qos : 0..2] : m.id = 0 <=> m.qos = 0}
OutContents == [id : MsgIds, n : Out, qos : {1, 2}]
InContents == [id : MsgIds, n : In, qos : {2}]

Answers == {"PUBACK", "PUBREC", "PUBCOMP"}
OutMessages ==
  {m \in [id : MsgIds, n : Out, qos : {1, 2}, next : Answers] : m.qos = 1 <=> m.next = "PUBACK"}
InMessages == [id : MsgIds, n : In]
Entries == [seqno : Nat \ {0}, n : In]
Exchanges == [id : MsgIds, n : In, qos : {1, 2}, next : Answers]

Packets(numbers) ==
  {p \in [type : Answers \cup {"PUBLISH", "PUBREL"}, id : 0..MaxMsgId, n : Nat, qos : 0..2,
          dup : BOOLEAN] :
     /\ p.type = "PUBLISH" => p.n \in numbers /\ (p.qos # 0 => p.id # 0)
     /\ p.type # "PUBLISH" => p.id # 0}

Effects ==
  {PutOf(k, c) : k \in Keys, c \in OutContents \cup InContents \cup In}
  \cup {RemoveOf(k) : k \in Keys} \cup {WriteOf(p) : p \in Packets(Out)}
  \cup {DeliverOf(n) : n \in In} \cup {TryQueue}

ClientTyped ==
  /\ plan \in Plans
  /\ running \in BOOLEAN /\ connected \in BOOLEAN
  /\ msgID \in 0..MaxMsgId /\ responses \subseteq MsgIds
  /\ published \in 0..Len(plan.out) /\ sent \in 0..Len(plan.in)
  /\ commands \in Seq(CommandContents)
  /\ \A i \in DOMAIN commands : commands[i].n <= published
  /\ outbound \in Seq(OutMessages) /\ inbound \in Seq(InMessages)
  /\ messageQueue \in Seq(Entries) /\ qentrySeqno \in Nat

EffectsTyped == todo \in Seq(Effects)

\* what a file with the key k may hold
FileOK(k, c) ==
  \/ k[1] = "c-" /\ c \in CommandContents /\ c.n = k[2] /\ c.n <= published
  \/ k[1] \in {"s-", "sc-"} /\ c \in OutContents /\ c.id = k[2]
  \/ k[1] = "r-" /\ c \in InContents /\ c.id = k[2]
  \/ k[1] = "q-" /\ c \in In /\ k[2] # 0

StoreTyped ==
  /\ IsDirectory(store)
  /\ DOMAIN store.files \subseteq Keys /\ IsFiniteSet(DOMAIN store.files)
  /\ \A k \in DOMAIN store.files : FileOK(k, store.files[k])

NetworkTyped ==
  /\ link \in BOOLEAN
  /\ toBroker \in Seq(Packets(Out)) /\ toClient \in Seq(Packets(In))
  /\ held \subseteq MsgIds /\ pending \in Seq(Exchanges)
  /\ received \in Seq(Out) /\ arrived \in Seq(In)

Typed == ClientTyped /\ EffectsTyped /\ StoreTyped /\ NetworkTyped

-----------------------------------------------------------------------------
(* What the restore makes of the files *)

NotTorn(d) == \A k \in DOMAIN d.files : k[1] \in {"r-", "s-", "sc-"} => d.files[k] # Torn

LEMMA WholeFiles ==
  ASSUME StoreTyped
  PROVE  NotTorn(store)
<1>1. ASSUME NEW k \in DOMAIN store.files, k[1] \in {"r-", "s-", "sc-"}
      PROVE  store.files[k].id \in MsgIds
  BY <1>1 DEF StoreTyped, FileOK, OutContents, InContents
<1>2. 0 \notin MsgIds
  BY DEF MsgIds
<1>3. QED
  BY <1>1, <1>2 DEF NotTorn, Torn

LEMMA Restoring ==
  ASSUME StoreTyped, NEW keys \in PstKeys(store)
  PROVE  LET D == DOMAIN store.files
             gone == {k \in D : k[1] = "sc-" /\ SentKey(k[2]) \notin D}
         IN  /\ Lists(keys, D)
             /\ \A key \in D : ~BadRecord(store, key)
             /\ \A key, at \in D : FoundAt(store, keys, key, at)
             /\ \A key, at : key \notin D => ~FoundAt(store, keys, key, at)
             /\ Discarded(store, keys) = gone
             /\ \A stem : OfKind(keys, stem) = {k \in D : k[1] = stem}
<1> DEFINE D == DOMAIN store.files
           gone == {k \in D : k[1] = "sc-" /\ SentKey(k[2]) \notin D}
<1>1. Lists(keys, D)
  BY KeysListed DEF StoreTyped
<1>2. \A key \in D : ~BadRecord(store, key)
  BY WholeFiles DEF NotTorn, BadRecord, PstGet
<1>3. \A key, at \in D : FoundAt(store, keys, key, at)
  <2>1. SUFFICES ASSUME NEW key \in D, NEW at \in D PROVE FoundAt(store, keys, key, at)
    OBVIOUS
  <2>2. PICK i \in DOMAIN keys : keys[i] = key
    BY <1>1 DEF Lists
  <2>3. PICK j \in DOMAIN keys : keys[j] = at
    BY <1>1 DEF Lists
  <2>4. QED
    BY <1>2, <2>2, <2>3 DEF FoundAt, PstContainsKey
<1>4. \A key, at : key \notin D => ~FoundAt(store, keys, key, at)
  BY DEF FoundAt, PstContainsKey
<1>5. ToSet(keys) = D
  BY <1>1 DEF Lists, ToSet
<1>6. Discarded(store, keys) = gone
  BY <1>2, <1>3, <1>4, <1>5 DEF Discarded, Orphan
<1>7. \A stem : OfKind(keys, stem) = {k \in D : k[1] = stem}
  BY <1>5 DEF OfKind
<1>8. QED
  BY <1>1, <1>2, <1>3, <1>4, <1>6, <1>7

\* the files of a kind
Files(stem) == {k \in DOMAIN store.files : k[1] = stem}

LEMMA FilesOfKind ==
  ASSUME StoreTyped, NEW stem
  PROVE  Files(stem) \subseteq Keys /\ IsFiniteSet(Files(stem)) /\ \A k, l \in Files(stem) : k[1] = l[1]
<1>1. Files(stem) \in SUBSET DOMAIN store.files
  BY DEF Files
<1>2. QED
  BY <1>1, FS_Subset DEF StoreTyped, Files

\* the list is turned: it has the same elements, each once
LEMMA Turned ==
  ASSUME NEW S, NEW list \in Seq(S)
  PROVE  /\ WrapMsgID(list) \in Seq(S)
         /\ \A i \in DOMAIN list : \E j \in DOMAIN WrapMsgID(list) : WrapMsgID(list)[j] = list[i]
         /\ \A j \in DOMAIN WrapMsgID(list) : \E i \in DOMAIN list : WrapMsgID(list)[j] = list[i]
         /\ \A i, j \in DOMAIN WrapMsgID(list) :
              (\A k, l \in DOMAIN list : list[k].id = list[l].id => k = l) =>
                (WrapMsgID(list)[i].id = WrapMsgID(list)[j].id => i = j)
<1>1. WrapMsgID(list) = list \/ \E w \in 2..Len(list) :
        WrapMsgID(list) = SubSeq(list, w, Len(list)) \o SubSeq(list, 1, w - 1)
  <2> DEFINE gap(i) == list[i].id - list[i - 1].id
             around == MaxMsgId - list[Len(list)].id + list[1].id
             IsWrap(i) == /\ gap(i) > around
                          /\ \A j \in 2..Len(list) : gap(j) < gap(i) \/ (gap(j) = gap(i) /\ i <= j)
             wrapel == CHOOSE i \in 2..Len(list) : IsWrap(i)
  <2>1. WrapMsgID(list) = IF \E i \in 2..Len(list) : IsWrap(i)
                          THEN SubSeq(list, wrapel, Len(list)) \o SubSeq(list, 1, wrapel - 1)
                          ELSE list
    BY DEF WrapMsgID
  <2>2. (\E i \in 2..Len(list) : IsWrap(i)) => wrapel \in 2..Len(list)
    <3> HIDE DEF IsWrap
    <3>1. QED
      OBVIOUS
  <2> HIDE DEF IsWrap, wrapel
  <2>3. QED
    BY <2>1, <2>2
<1>2. CASE WrapMsgID(list) = list
  BY <1>2
<1>3. ASSUME NEW w \in 2..Len(list),
             WrapMsgID(list) = SubSeq(list, w, Len(list)) \o SubSeq(list, 1, w - 1)
      PROVE  /\ WrapMsgID(list) \in Seq(S) /\ Len(WrapMsgID(list)) = Len(list)
             /\ \A i \in 1..Len(list) :
                  WrapMsgID(list)[i] = IF i <= Len(list) - w + 1 THEN list[i + w - 1]
                                       ELSE list[i - (Len(list) - w + 1)]
  <2> DEFINE a == SubSeq(list, w, Len(list))
             b == SubSeq(list, 1, w - 1)
  <2>1. a \in Seq(S) /\ b \in Seq(S) /\ Len(a) = Len(list) - w + 1 /\ Len(b) = w - 1
    OBVIOUS
  <2>2. \A i \in 1..(Len(list) - w + 1) : a[i] = list[i + w - 1]
    OBVIOUS
  <2>3. \A i \in 1..(w - 1) : b[i] = list[i]
    OBVIOUS
  <2>4. WrapMsgID(list) = a \o b
    BY <1>3
  <2> HIDE DEF a, b
  <2>5. a \o b \in Seq(S) /\ Len(a \o b) = Len(list)
    BY <2>1
  <2>6. \A i \in 1..Len(list) :
          (a \o b)[i] = IF i <= Len(list) - w + 1 THEN a[i] ELSE b[i - (Len(list) - w + 1)]
    BY <2>1
  <2>7. ASSUME NEW i \in 1..Len(list)
        PROVE  (a \o b)[i] = IF i <= Len(list) - w + 1 THEN list[i + w - 1]
                             ELSE list[i - (Len(list) - w + 1)]
    <3>1. CASE i <= Len(list) - w + 1
      <4>1. i \in 1..(Len(list) - w + 1)
        BY <3>1
      <4>2. QED
        BY <2>2, <2>6, <3>1, <4>1
    <3>2. CASE ~(i <= Len(list) - w + 1)
      <4>1. i - (Len(list) - w + 1) \in 1..(w - 1)
        BY <3>2
      <4>2. QED
        BY <2>3, <2>6, <3>2, <4>1
    <3>3. QED
      BY <3>1, <3>2
  <2>8. QED
    BY <2>4, <2>5, <2>7
<1>4. ASSUME NEW w \in 2..Len(list),
             WrapMsgID(list) = SubSeq(list, w, Len(list)) \o SubSeq(list, 1, w - 1)
      PROVE  /\ \A i \in DOMAIN list : \E j \in DOMAIN WrapMsgID(list) : WrapMsgID(list)[j] = list[i]
             /\ \A j \in DOMAIN WrapMsgID(list) : \E i \in DOMAIN list : WrapMsgID(list)[j] = list[i]
             /\ \A i, j \in DOMAIN WrapMsgID(list) :
                  (\A k, l \in DOMAIN list : list[k].id = list[l].id => k = l) =>
                    (WrapMsgID(list)[i].id = WrapMsgID(list)[j].id => i = j)
  <2> DEFINE L == Len(list)
             W == WrapMsgID(list)
             From(i) == IF i <= L - w + 1 THEN i + w - 1 ELSE i - (L - w + 1)
             To(i) == IF i < w THEN i + (L - w + 1) ELSE i - w + 1
  <2>0. /\ L \in Nat /\ DOMAIN list = 1..L /\ DOMAIN W = 1..L
        /\ w \in Nat /\ w >= 2 /\ w <= L
    BY <1>3, <1>4
  <2>1. \A i \in 1..L : From(i) \in 1..L /\ W[i] = list[From(i)]
    BY <1>3, <1>4, <2>0
  <2>2. \A i \in 1..L : To(i) \in 1..L /\ From(To(i)) = i
    BY <2>0
  <2>3. \A i, j \in 1..L : From(i) = From(j) => i = j
    BY <2>0
  <2> HIDE DEF From, To, L, W
  <2>4. \A i \in DOMAIN list : \E j \in DOMAIN W : W[j] = list[i]
    BY <2>0, <2>1, <2>2
  <2>5. \A j \in DOMAIN W : \E i \in DOMAIN list : W[j] = list[i]
    BY <2>0, <2>1
  <2>6. ASSUME NEW i \in DOMAIN W, NEW j \in DOMAIN W,
               \A k, l \in DOMAIN list : list[k].id = list[l].id => k = l,
               W[i].id = W[j].id
        PROVE  i = j
    <3>1. list[From(i)].id = list[From(j)].id
      BY <2>0, <2>1, <2>6
    <3>2. From(i) = From(j)
      BY <2>0, <2>1, <2>6, <3>1
    <3>3. QED
      BY <2>0, <2>3, <3>2
  <2>7. QED
    BY <2>4, <2>5, <2>6 DEF W
<1>5. QED
  BY <1>1, <1>2, <1>3, <1>4

-----------------------------------------------------------------------------
(* The identifier that MQTTAsync_assignMsgId gives *)

Iterates(f, S, a, g, N) ==
  f \in [0..N -> S] /\ f[0] = a /\ \A k \in 1..N : f[k] = g[f[k - 1]]

LEMMA Iteration ==
  ASSUME NEW S, NEW a \in S, NEW g \in [S -> S], NEW N \in Nat
  PROVE  \E f : Iterates(f, S, a, g, N)
<1> USE DEF Iterates
<1> DEFINE Good(n) == \E f \in [0..n -> S] : f[0] = a /\ \A k \in 1..n : f[k] = g[f[k - 1]]
           Bad == {n \in Nat : ~Good(n)}
<1>1. Good(0)
  <2>1. /\ [k \in 0..0 |-> a] \in [0..0 -> S] /\ [k \in 0..0 |-> a][0] = a
        /\ \A k \in 1..0 : FALSE
    OBVIOUS
  <2>2. QED
    BY <2>1
<1>2. SUFFICES ASSUME Bad # {} PROVE FALSE
  <2> HIDE DEF Good
  <2>1. Bad = {} => Good(N)
    OBVIOUS
  <2> USE DEF Good
  <2> HIDE DEF Bad
  <2>2. QED
    BY <2>1
<1>3. PICK m \in Bad : \A n \in Bad : m <= n
  <2>1. Bad \subseteq Nat
    OBVIOUS
  <2> HIDE DEF Bad
  <2>2. QED
    BY <1>2, <2>1, LeastNumber
<1> HIDE DEF Good
<1>4. m \in Nat \ {0} /\ ~Good(m)
  BY <1>1
<1>5. Good(m - 1)
  <2>1. m - 1 \in Nat /\ m - 1 \notin Bad
    <3>1. m - 1 \in Nat /\ ~(m <= m - 1)
      BY <1>4
    <3> HIDE DEF Bad
    <3>2. QED
      BY <1>3, <3>1
  <2>2. QED
    BY <2>1
<1> USE DEF Good
<1>6. PICK f \in [0..(m - 1) -> S] : f[0] = a /\ \A k \in 1..(m - 1) : f[k] = g[f[k - 1]]
  BY <1>5
<1> DEFINE h == [k \in 0..m |-> IF k = m THEN g[f[m - 1]] ELSE f[k]]
<1>7. h \in [0..m -> S]
  <2>1. m - 1 \in 0..(m - 1) /\ f[m - 1] \in S
    BY <1>4
  <2>2. \A k \in 0..m : k # m => k \in 0..(m - 1)
    BY <1>4
  <2>3. QED
    BY <2>1, <2>2
<1>8. h[0] = a /\ \A k \in 1..m : h[k] = g[h[k - 1]]
  <2>1. h[0] = a
    BY <1>4, <1>6
  <2>2. ASSUME NEW k \in 1..m PROVE h[k] = g[h[k - 1]]
    <3>1. h[k - 1] = f[k - 1] /\ k \in 0..m
      BY <1>4
    <3>2. CASE k = m
      BY <3>1, <3>2
    <3>3. CASE k # m
      <4>1. k \in 1..(m - 1) /\ h[k] = f[k]
        BY <1>4, <3>3
      <4>2. QED
        BY <1>6, <3>1, <4>1
    <3>4. QED
      BY <3>2, <3>3
  <2>3. QED
    BY <2>1, <2>2
<1> HIDE DEF h
<1>9. QED
  BY <1>4, <1>7, <1>8

LEMMA AssignedId ==
  ASSUME msgID \in 0..MaxMsgId
  PROVE  AssignMsgId = 0 \/ (AssignMsgId \in MsgIds /\ ~IdInUse(AssignMsgId))
<1> DEFINE S == 0..MaxMsgId
           g == [x \in S |-> IdAfter(x)]
           try == CHOOSE f : f = [k \in 0..MaxMsgId |-> IF k = 0 THEN msgID ELSE IdAfter(f[k - 1])]
           tries == IF msgID = 0 THEN MaxMsgId ELSE MaxMsgId - 1
           free == {k \in 1..tries : ~IdInUse(try[k])}
<1>0. MaxMsgId \in Nat \ {0}
  BY MaxMsgIdAssumption
<1>1. \A x \in S : IdAfter(x) \in MsgIds /\ IdAfter(x) \in S
  BY <1>0 DEF IdAfter, MsgIds
<1>2. PICK f \in [0..MaxMsgId -> S] : f[0] = msgID /\ \A k \in 1..MaxMsgId : f[k] = g[f[k - 1]]
  <2>1. g \in [S -> S]
    BY <1>1
  <2>2. msgID \in S /\ MaxMsgId \in Nat
    BY <1>0
  <2>3. PICK f : Iterates(f, S, msgID, g, MaxMsgId)
    <3> HIDE DEF g, S
    <3>1. QED
      BY <2>1, <2>2, Iteration
  <2>4. QED
    BY <2>3 DEF Iterates
<1>3. f = [k \in 0..MaxMsgId |-> IF k = 0 THEN msgID ELSE IdAfter(f[k - 1])]
  <2>1. ASSUME NEW k \in 0..MaxMsgId PROVE f[k] = IF k = 0 THEN msgID ELSE IdAfter(f[k - 1])
    <3>1. CASE k = 0
      BY <1>2, <3>1
    <3>2. CASE k # 0
      <4>1. k \in 1..MaxMsgId /\ k - 1 \in 0..MaxMsgId
        BY <1>0, <3>2
      <4>2. f[k] = g[f[k - 1]] /\ f[k - 1] \in S
        BY <1>2, <4>1
      <4>3. QED
        BY <3>2, <4>2
    <3>3. QED
      BY <3>1, <3>2
  <2>2. QED
    BY <2>1
<1>4. try = [k \in 0..MaxMsgId |-> IF k = 0 THEN msgID ELSE IdAfter(try[k - 1])]
  BY <1>3
<1>5. AssignMsgId = IF free = {} THEN 0
                    ELSE try[CHOOSE k \in free : \A j \in free : k <= j]
  BY DEF AssignMsgId
<1> HIDE DEF try
<1> DEFINE Bad == {k \in Nat : k \in 0..MaxMsgId /\ try[k] \notin S}
<1>6. Bad = {}
  <2>1. SUFFICES ASSUME Bad # {} PROVE FALSE
    OBVIOUS
  <2>2. PICK m \in Bad : \A n \in Bad : m <= n
    <3>1. Bad \subseteq Nat
      OBVIOUS
    <3> HIDE DEF Bad
    <3>2. QED
      BY <2>1, <3>1, LeastNumber
  <2>3. m \in 0..MaxMsgId /\ m \in Nat /\ try[m] \notin S
    BY <2>2
  <2>4. m # 0
    BY <1>0, <1>4, <2>3
  <2>5. m - 1 \in 0..MaxMsgId /\ m - 1 \in Nat /\ ~(m <= m - 1)
    BY <1>0, <2>3, <2>4
  <2>6. m - 1 \notin Bad
    <3> HIDE DEF Bad
    <3>1. QED
      BY <2>2, <2>5
  <2>7. try[m - 1] \in S /\ try[m] = IdAfter(try[m - 1])
    BY <1>4, <2>3, <2>4, <2>5, <2>6
  <2>8. QED
    BY <1>1, <2>3, <2>7
<1>7. \A k \in 1..MaxMsgId : try[k] \in MsgIds
  <2>1. SUFFICES ASSUME NEW k \in 1..MaxMsgId PROVE try[k] \in MsgIds
    OBVIOUS
  <2>2. k - 1 \in 0..MaxMsgId /\ k - 1 \in Nat /\ k - 1 \notin Bad
    BY <1>0, <1>6
  <2>3. try[k - 1] \in S /\ try[k] = IdAfter(try[k - 1])
    BY <1>4, <2>2
  <2>4. QED
    BY <1>1, <2>3
<1>8. CASE free # {}
  <2>1. free \subseteq Nat /\ free \subseteq 1..MaxMsgId
    <3>1. tries \in Nat /\ tries <= MaxMsgId
      BY <1>0
    <3> HIDE DEF tries
    <3>2. free \subseteq 1..tries
      OBVIOUS
    <3> HIDE DEF free
    <3>3. QED
      BY <1>0, <3>1, <3>2
  <2>2. \E k \in free : \A j \in free : k <= j
    <3> HIDE DEF free
    <3>1. QED
      BY <1>8, <2>1, LeastNumber
  <2> DEFINE k == CHOOSE i \in free : \A j \in free : i <= j
  <2>3. k \in free
    <3> HIDE DEF free
    <3>1. QED
      BY <2>2
  <2>4. AssignMsgId = try[k]
    <3> HIDE DEF free
    <3>1. QED
      BY <1>5, <1>8
  <2> HIDE DEF k
  <2>5. ~IdInUse(try[k]) /\ k \in 1..MaxMsgId
    BY <2>1, <2>3
  <2>6. QED
    BY <1>7, <2>4, <2>5
<1>9. CASE free = {}
  BY <1>5, <1>9
<1>10. QED
  BY <1>8, <1>9

\* the lists that the restore gives, and the files they come from
LEMMA CommandsRestored ==
  ASSUME StoreTyped, NEW keys \in PstKeys(store)
  PROVE  LET cs == RestoreCommands(store, keys)
         IN  /\ cs \in Seq(CommandContents)
             /\ \A i \in DOMAIN cs : /\ cs[i].n <= published
                                     /\ CommandKey(cs[i].n) \in DOMAIN store.files
                                     /\ store.files[CommandKey(cs[i].n)] = cs[i]
             /\ \A k \in Files("c-") : \E i \in DOMAIN cs : k[2] = cs[i].n
             /\ \A i, j \in DOMAIN cs : cs[i].n = cs[j].n => i = j
<1> DEFINE found == AsListed(keys, OfKind(keys, "c-"))
           cs == RestoreCommands(store, keys)
<1>1. OfKind(keys, "c-") = Files("c-")
  BY Restoring DEF Files
<1>2. Lists(found, Files("c-"))
  <2>1. Lists(keys, DOMAIN store.files)
    BY Restoring
  <2>2. Files("c-") \subseteq DOMAIN store.files /\ IsFiniteSet(Files("c-"))
    BY FilesOfKind DEF Files
  <2>3. QED
    BY <1>1, <2>1, <2>2, SortedAsListed
<1>3. cs = [i \in DOMAIN found |-> store.files[found[i]]]
  BY DEF RestoreCommands, PstGet
<1> HIDE DEF cs, found
<1>4. ASSUME NEW k \in Files("c-")
      PROVE  /\ k \in DOMAIN store.files /\ k = CommandKey(store.files[k].n)
             /\ store.files[k] \in CommandContents /\ store.files[k].n <= published
             /\ k[2] = store.files[k].n
  <2>1. k \in DOMAIN store.files /\ k[1] = "c-" /\ k = <<k[1], k[2]>>
    BY StemsOf DEF Files, StoreTyped
  <2>2. FileOK(k, store.files[k])
    BY <2>1 DEF StoreTyped
  <2>3. QED
    BY <2>1, <2>2 DEF FileOK, CommandKey
<1>5. found \in Seq(Files("c-")) /\ DOMAIN cs = DOMAIN found /\ DOMAIN found = 1..Len(found)
      /\ Len(found) \in Nat
  BY <1>2, <1>3 DEF Lists
<1>6. \A i \in DOMAIN found : found[i] \in Files("c-") /\ cs[i] = store.files[found[i]]
  BY <1>3, <1>5
<1>7. cs \in Seq(CommandContents)
  <2>1. \A i \in 1..Len(found) : cs[i] \in CommandContents
    BY <1>4, <1>5, <1>6
  <2>2. cs = [i \in 1..Len(found) |-> cs[i]]
    BY <1>3, <1>5
  <2>3. QED
    BY <1>5, <2>1, <2>2
<1>8. \A i \in DOMAIN cs : /\ cs[i].n <= published
                           /\ CommandKey(cs[i].n) \in DOMAIN store.files
                           /\ store.files[CommandKey(cs[i].n)] = cs[i]
  BY <1>4, <1>5, <1>6
<1>9. ASSUME NEW k \in Files("c-") PROVE \E i \in DOMAIN cs : k[2] = cs[i].n
  <2>1. PICK i \in DOMAIN found : found[i] = k
    BY <1>2 DEF Lists
  <2>2. QED
    BY <1>4, <1>5, <1>6, <2>1
<1>10. ASSUME NEW i \in DOMAIN cs, NEW j \in DOMAIN cs, cs[i].n = cs[j].n PROVE i = j
  <2>1. found[i] = found[j]
    BY <1>4, <1>5, <1>6, <1>10
  <2>2. QED
    BY <1>2, <1>5, <2>1 DEF Lists
<1>11. QED
  BY <1>7, <1>8, <1>9, <1>10 DEF cs

ReceivedOf(m) == [id |-> m.id, n |-> m.n, qos |-> 2]

LEMMA InboundRestored ==
  ASSUME StoreTyped, NEW keys \in PstKeys(store)
  PROVE  LET ms == RestoredInbound(store, keys)
         IN  /\ ms \in Seq(InMessages)
             /\ \A i \in DOMAIN ms :
                  /\ ReceivedKey(ms[i].id) \in DOMAIN store.files
                  /\ store.files[ReceivedKey(ms[i].id)] = ReceivedOf(ms[i])
             /\ \A k \in Files("r-") : \E i \in DOMAIN ms : k[2] = ms[i].id
             /\ \A i, j \in DOMAIN ms : ms[i].id = ms[j].id => i = j
<1> DEFINE found == AsListed(keys, OfKind(keys, "r-") \ Discarded(store, keys))
           ms == RestoredInbound(store, keys)
           Message(k) == Inbound(store.files[k])
<1>1. OfKind(keys, "r-") \ Discarded(store, keys) = Files("r-")
  <2>1. OfKind(keys, "r-") = Files("r-")
    BY Restoring DEF Files
  <2>2. \A k \in Discarded(store, keys) : k[1] = "sc-"
    BY Restoring
  <2>3. QED
    BY <2>1, <2>2 DEF Files
<1>2. Lists(found, Files("r-"))
  <2>1. Lists(keys, DOMAIN store.files)
    BY Restoring
  <2>2. Files("r-") \subseteq DOMAIN store.files /\ IsFiniteSet(Files("r-"))
    BY FilesOfKind DEF Files
  <2>3. QED
    BY <1>1, <2>1, <2>2, SortedAsListed
<1>3. ms = [i \in DOMAIN found |-> Message(found[i])]
  BY DEF RestoredInbound, PstGet
<1> HIDE DEF ms, found
<1>4. ASSUME NEW k \in Files("r-")
      PROVE  /\ k \in DOMAIN store.files /\ k = ReceivedKey(Message(k).id)
             /\ Message(k) \in InMessages
             /\ k[2] = Message(k).id
             /\ store.files[k] = ReceivedOf(Message(k))
  <2>1. k \in DOMAIN store.files /\ k[1] = "r-" /\ k = <<k[1], k[2]>>
    BY StemsOf DEF Files, StoreTyped
  <2>2. store.files[k] \in InContents /\ store.files[k].id = k[2]
    BY <2>1 DEF StoreTyped, FileOK
  <2>3. QED
    BY <2>1, <2>2 DEF InContents, InMessages, Inbound, ReceivedKey, ReceivedOf
<1> HIDE DEF Message
<1>5. found \in Seq(Files("r-")) /\ DOMAIN ms = DOMAIN found /\ DOMAIN found = 1..Len(found)
      /\ Len(found) \in Nat
  BY <1>2, <1>3 DEF Lists
<1>6. \A i \in DOMAIN found : found[i] \in Files("r-") /\ ms[i] = Message(found[i])
  BY <1>3, <1>5
<1>7. ms \in Seq(InMessages)
  <2>1. \A i \in 1..Len(found) : ms[i] \in InMessages
    BY <1>4, <1>5, <1>6
  <2>2. ms = [i \in 1..Len(found) |-> ms[i]]
    BY <1>3, <1>5
  <2>3. QED
    BY <1>5, <2>1, <2>2
<1>8. ASSUME NEW i \in DOMAIN ms
      PROVE  /\ ReceivedKey(ms[i].id) \in DOMAIN store.files
             /\ store.files[ReceivedKey(ms[i].id)] = ReceivedOf(ms[i])
  <2>1. found[i] \in Files("r-") /\ ms[i] = Message(found[i])
    BY <1>5, <1>6
  <2>2. QED
    BY <1>4, <2>1
<1>9. ASSUME NEW k \in Files("r-") PROVE \E i \in DOMAIN ms : k[2] = ms[i].id
  <2>1. PICK i \in DOMAIN found : found[i] = k
    BY <1>2 DEF Lists
  <2>2. QED
    BY <1>4, <1>5, <1>6, <2>1
<1>10. ASSUME NEW i \in DOMAIN ms, NEW j \in DOMAIN ms, ms[i].id = ms[j].id PROVE i = j
  <2>1. found[i] = found[j]
    BY <1>4, <1>5, <1>6, <1>10
  <2>2. QED
    BY <1>2, <1>5, <2>1 DEF Lists
<1>11. QED
  BY <1>7, <1>8, <1>9, <1>10 DEF ms

LEMMA QueueRestored ==
  ASSUME StoreTyped, NEW keys \in PstKeys(store)
  PROVE  LET qs == RestoreMessageQueue(store, keys)
         IN  /\ qs \in Seq(Entries)
             /\ \A i \in DOMAIN qs : /\ QueueKey(qs[i].seqno) \in DOMAIN store.files
                                     /\ store.files[QueueKey(qs[i].seqno)] = qs[i].n
             /\ \A k \in Files("q-") : \E i \in DOMAIN qs : k[2] = qs[i].seqno
             /\ \A i, j \in DOMAIN qs : i < j => qs[i].seqno < qs[j].seqno
<1> DEFINE found == InOrderOf(OfKind(keys, "q-"))
           qs == RestoreMessageQueue(store, keys)
<1>1. OfKind(keys, "q-") = Files("q-")
  BY Restoring DEF Files
<1>2. Lists(found, Files("q-")) /\ \A i, j \in DOMAIN found : i < j => found[i][2] < found[j][2]
  <2>1. Files("q-") \subseteq Keys /\ IsFiniteSet(Files("q-"))
        /\ \A k, l \in Files("q-") : k[1] = l[1]
    BY FilesOfKind
  <2>2. QED
    BY <1>1, <2>1, SortedByNumber
<1>3. qs = [i \in DOMAIN found |-> [seqno |-> found[i][2], n |-> store.files[found[i]]]]
  BY DEF RestoreMessageQueue, PstGet
<1> HIDE DEF qs, found
<1>4. ASSUME NEW k \in Files("q-")
      PROVE  /\ k \in DOMAIN store.files /\ k = QueueKey(k[2])
             /\ k[2] \in Nat \ {0} /\ store.files[k] \in In
  <2>1. k \in DOMAIN store.files /\ k[1] = "q-" /\ k = <<k[1], k[2]>> /\ k[2] \in Nat
    BY StemsOf DEF Files, StoreTyped
  <2>2. store.files[k] \in In /\ k[2] # 0
    BY <2>1 DEF StoreTyped, FileOK
  <2>3. QED
    BY <2>1, <2>2 DEF QueueKey
<1>5. found \in Seq(Files("q-")) /\ DOMAIN qs = DOMAIN found /\ DOMAIN found = 1..Len(found)
      /\ Len(found) \in Nat
  BY <1>2, <1>3 DEF Lists
<1>6. \A i \in DOMAIN found : /\ found[i] \in Files("q-")
                              /\ qs[i] = [seqno |-> found[i][2], n |-> store.files[found[i]]]
  BY <1>3, <1>5
<1>7. qs \in Seq(Entries)
  <2>1. \A i \in 1..Len(found) : qs[i] \in Entries
    BY <1>4, <1>5, <1>6 DEF Entries
  <2>2. qs = [i \in 1..Len(found) |-> qs[i]]
    BY <1>3, <1>5
  <2>3. QED
    BY <1>5, <2>1, <2>2
<1>8. ASSUME NEW i \in DOMAIN qs
      PROVE  /\ QueueKey(qs[i].seqno) \in DOMAIN store.files
             /\ store.files[QueueKey(qs[i].seqno)] = qs[i].n
  <2>1. found[i] \in Files("q-") /\ qs[i] = [seqno |-> found[i][2], n |-> store.files[found[i]]]
    BY <1>5, <1>6
  <2>2. QED
    BY <1>4, <2>1
<1>9. ASSUME NEW k \in Files("q-") PROVE \E i \in DOMAIN qs : k[2] = qs[i].seqno
  <2>1. PICK i \in DOMAIN found : found[i] = k
    BY <1>2 DEF Lists
  <2>2. QED
    BY <1>5, <1>6, <2>1
<1>10. \A i, j \in DOMAIN qs : i < j => qs[i].seqno < qs[j].seqno
  BY <1>2, <1>5, <1>6
<1>11. QED
  BY <1>7, <1>8, <1>9, <1>10 DEF qs

ContentOf(m) == [id |-> m.id, n |-> m.n, qos |-> m.qos]

LEMMA OutboundRestored ==
  ASSUME StoreTyped, NEW keys \in PstKeys(store)
  PROVE  LET ms == RestoredOutbound(store, keys)
         IN  /\ ms \in Seq(OutMessages)
             /\ \A i \in DOMAIN ms :
                  /\ SentKey(ms[i].id) \in DOMAIN store.files
                  /\ store.files[SentKey(ms[i].id)] = ContentOf(ms[i])
                  /\ ms[i].next = "PUBCOMP" <=>
                       ms[i].qos = 2 /\ PubrelKey(ms[i].id) \in DOMAIN store.files
             /\ \A k \in Files("s-") : \E i \in DOMAIN ms : k[2] = ms[i].id
             /\ \A i, j \in DOMAIN ms : ms[i].id = ms[j].id => i = j
<1> DEFINE D == DOMAIN store.files
           found == InOrderOf({k \in OfKind(keys, "s-") : ~BadRecord(store, k)})
           Message(k) == Outbound(store.files[k],
                                  IF store.files[k].qos = 2 /\ PubrelKey(k[2]) \in D
                                  THEN "PUBCOMP" ELSE AnswerTo(store.files[k].qos))
           list == [i \in DOMAIN found |-> Message(found[i])]
<1>0. Files("s-") \subseteq D
  BY DEF Files
<1>1. {k \in OfKind(keys, "s-") : ~BadRecord(store, k)} = Files("s-")
  <2>1. OfKind(keys, "s-") = Files("s-")
    BY Restoring DEF Files
  <2>2. \A k \in Files("s-") : ~BadRecord(store, k)
    BY <1>0, Restoring
  <2>3. QED
    BY <2>1, <2>2
<1>2. Lists(found, Files("s-"))
  <2>1. Files("s-") \subseteq Keys /\ IsFiniteSet(Files("s-"))
        /\ \A k, l \in Files("s-") : k[1] = l[1]
    BY FilesOfKind
  <2>2. QED
    BY <1>1, <2>1, SortedByNumber
<1>3. RestoredOutbound(store, keys) = WrapMsgID(list)
  <2> DEFINE message(k) == Outbound(store.files[k],
                                    IF store.files[k].qos = 2 /\ FoundAt(store, keys, PubrelKey(k[2]), k)
                                    THEN "PUBCOMP" ELSE AnswerTo(store.files[k].qos))
  <2>1. RestoredOutbound(store, keys) = WrapMsgID([i \in DOMAIN found |-> message(found[i])])
    BY DEF RestoredOutbound, PstGet
  <2>2. ASSUME NEW k \in Files("s-") PROVE message(k) = Message(k)
    <3>1. FoundAt(store, keys, PubrelKey(k[2]), k) <=> PubrelKey(k[2]) \in D
      BY <1>0, Restoring
    <3>2. QED
      BY <3>1
  <2>3. \A i \in DOMAIN found : found[i] \in Files("s-")
    BY <1>2 DEF Lists
  <2> HIDE DEF message, Message, found
  <2>4. [i \in DOMAIN found |-> message(found[i])] = list
    BY <2>2, <2>3
  <2>5. QED
    BY <2>1, <2>4
<1>4. ASSUME NEW k \in Files("s-")
      PROVE  /\ k = SentKey(Message(k).id) /\ k[2] = Message(k).id
             /\ Message(k) \in OutMessages
             /\ store.files[k] = ContentOf(Message(k))
             /\ Message(k).next = "PUBCOMP" <=>
                  Message(k).qos = 2 /\ PubrelKey(Message(k).id) \in D
  <2>1. k \in D /\ k[1] = "s-" /\ k = <<k[1], k[2]>>
    BY StemsOf DEF Files, StoreTyped
  <2>2. store.files[k] \in OutContents /\ store.files[k].id = k[2]
    BY <2>1 DEF StoreTyped, FileOK
  <2> DEFINE c == store.files[k]
             next == IF c.qos = 2 /\ PubrelKey(k[2]) \in D THEN "PUBCOMP" ELSE AnswerTo(c.qos)
  <2>3. Message(k) = [id |-> c.id, n |-> c.n, qos |-> c.qos, next |-> next]
    BY DEF Outbound
  <2>4. /\ c.id \in MsgIds /\ c.n \in Out /\ c.qos \in {1, 2} /\ c.id = k[2]
        /\ c = [id |-> c.id, n |-> c.n, qos |-> c.qos]
    BY <2>2 DEF OutContents
  <2>5. /\ next \in Answers /\ (c.qos = 1 <=> next = "PUBACK")
        /\ next = "PUBCOMP" <=> c.qos = 2 /\ PubrelKey(c.id) \in D
    BY <2>4 DEF AnswerTo, Answers
  <2> HIDE DEF Message, next, c
  <2>6. Message(k) \in OutMessages
    BY <2>3, <2>4, <2>5 DEF OutMessages
  <2>7. k = SentKey(Message(k).id) /\ k[2] = Message(k).id /\ c = ContentOf(Message(k))
    BY <2>1, <2>3, <2>4 DEF SentKey, ContentOf
  <2>8. QED
    BY <2>3, <2>5, <2>6, <2>7 DEF c
<1> HIDE DEF Message, found
<1>5. found \in Seq(Files("s-")) /\ DOMAIN list = DOMAIN found /\ DOMAIN found = 1..Len(found)
      /\ Len(found) \in Nat
  BY <1>2 DEF Lists
<1>6. \A i \in DOMAIN found : found[i] \in Files("s-") /\ list[i] = Message(found[i])
  BY <1>5
<1>7. list \in Seq(OutMessages)
  <2>1. \A i \in 1..Len(found) : list[i] \in OutMessages
    BY <1>4, <1>5, <1>6
  <2>2. list = [i \in 1..Len(found) |-> list[i]]
    BY <1>5
  <2> HIDE DEF list
  <2>3. QED
    BY <1>5, <2>1, <2>2
<1> HIDE DEF list
<1>8. ASSUME NEW i \in DOMAIN list
      PROVE  /\ SentKey(list[i].id) \in DOMAIN store.files
             /\ store.files[SentKey(list[i].id)] = ContentOf(list[i])
             /\ list[i].next = "PUBCOMP" <=>
                  list[i].qos = 2 /\ PubrelKey(list[i].id) \in DOMAIN store.files
  <2>1. found[i] \in Files("s-") /\ list[i] = Message(found[i])
    BY <1>5, <1>6
  <2>2. QED
    BY <1>0, <1>4, <2>1
<1>9. ASSUME NEW k \in Files("s-") PROVE \E i \in DOMAIN list : k[2] = list[i].id
  <2>1. PICK i \in DOMAIN found : found[i] = k
    BY <1>2 DEF Lists
  <2>2. QED
    BY <1>4, <1>5, <1>6, <2>1
<1>10. ASSUME NEW i \in DOMAIN list, NEW j \in DOMAIN list, list[i].id = list[j].id PROVE i = j
  <2>1. found[i] = found[j]
    BY <1>4, <1>5, <1>6, <1>10
  <2>2. QED
    BY <1>2, <1>5, <2>1 DEF Lists
<1> DEFINE ms == WrapMsgID(list)
<1>11. /\ ms \in Seq(OutMessages)
       /\ \A i \in DOMAIN list : \E j \in DOMAIN ms : ms[j] = list[i]
       /\ \A j \in DOMAIN ms : \E i \in DOMAIN list : ms[j] = list[i]
       /\ \A i, j \in DOMAIN ms : ms[i].id = ms[j].id => i = j
  BY <1>7, <1>10, Turned
<1> HIDE DEF ms
<1>12. \A i \in DOMAIN ms :
         /\ SentKey(ms[i].id) \in DOMAIN store.files
         /\ store.files[SentKey(ms[i].id)] = ContentOf(ms[i])
         /\ ms[i].next = "PUBCOMP" <=>
              ms[i].qos = 2 /\ PubrelKey(ms[i].id) \in DOMAIN store.files
  BY <1>8, <1>11
<1>13. \A k \in Files("s-") : \E i \in DOMAIN ms : k[2] = ms[i].id
  BY <1>9, <1>11
<1>14. QED
  BY <1>3, <1>11, <1>12, <1>13 DEF ms

-----------------------------------------------------------------------------
(* The session: what is in memory, what is in the store and what is still   *)
(* to be done                                                               *)

HasPut(key, c) ==
  \E j \in DOMAIN todo : todo[j].op = "put" /\ todo[j].key = key /\ todo[j].content = c
HasRemove(key) == \E j \in DOMAIN todo : todo[j].op = "remove" /\ todo[j].key = key
FileIs(key, c) == key \in DOMAIN store.files /\ store.files[key] = c
Kept(key, c) == FileIs(key, c) \/ HasPut(key, c)

Resting ==
  ~running => /\ todo = <<>> /\ ~connected /\ commands = <<>> /\ outbound = <<>>
              /\ inbound = <<>> /\ messageQueue = <<>>

Listed ==
  /\ \A i, j \in DOMAIN commands : commands[i].n = commands[j].n => i = j
  /\ \A i, j \in DOMAIN outbound : outbound[i].id = outbound[j].id => i = j
  /\ \A i, j \in DOMAIN inbound : inbound[i].id = inbound[j].id => i = j
  /\ \A i, j \in DOMAIN messageQueue : i < j => messageQueue[i].seqno < messageQueue[j].seqno
  /\ \A i \in DOMAIN messageQueue : messageQueue[i].seqno <= qentrySeqno

IdsApart ==
  connected \/ ~plan.clean =>
    /\ \A i, j \in DOMAIN commands :
         commands[i].id = commands[j].id /\ commands[i].id # 0 => i = j
    /\ \A i \in DOMAIN commands, j \in DOMAIN outbound : commands[i].id # outbound[j].id

HoldsId(k) == k \in DOMAIN store.files /\ k[1] \in {"c-", "s-"}
FilesApart ==
  ~plan.clean =>
    \A k, l : HoldsId(k) /\ HoldsId(l) /\ store.files[k].id = store.files[l].id
              /\ store.files[k].id # 0 => k = l

PutKnown(j) ==
  LET key == todo[j].key
      c == todo[j].content
  IN  \/ /\ key[1] = "s-"
         /\ \E i \in DOMAIN outbound : /\ key[2] = outbound[i].id /\ c = ContentOf(outbound[i])
                                       /\ outbound[i].next # "PUBCOMP"
      \/ /\ key[1] = "sc-"
         /\ \E i \in DOMAIN outbound : /\ key[2] = outbound[i].id /\ c = ContentOf(outbound[i])
                                       /\ outbound[i].next = "PUBCOMP"
      \/ /\ key[1] = "r-"
         /\ \E i \in DOMAIN inbound : key[2] = inbound[i].id /\ c = ReceivedOf(inbound[i])
      \/ /\ key[1] = "q-" /\ j = 1
         /\ \E i \in DOMAIN messageQueue :
              key[2] = messageQueue[i].seqno /\ c = messageQueue[i].n
PutsKnown == \A j \in DOMAIN todo : todo[j].op = "put" => PutKnown(j)

RemovalKnown(j) ==
  LET key == todo[j].key
  IN  \/ key[1] = "c-" /\ j = 1 /\ \A i \in DOMAIN commands : commands[i].n # key[2]
      \/ key[1] \in {"s-", "sc-"} /\ \A i \in DOMAIN outbound : outbound[i].id # key[2]
      \/ key[1] = "r-" /\ \A i \in DOMAIN inbound : inbound[i].id # key[2]
      \/ /\ key[1] = "q-" /\ key[2] <= qentrySeqno
         /\ \A i \in DOMAIN messageQueue : messageQueue[i].seqno # key[2]
RemovalsKnown == \A j \in DOMAIN todo : todo[j].op = "remove" => RemovalKnown(j)

CommandsSaved == \A i \in DOMAIN commands : FileIs(CommandKey(commands[i].n), commands[i])
OutboundSaved == \A i \in DOMAIN outbound : Kept(SentKey(outbound[i].id), ContentOf(outbound[i]))
PubrelsSaved ==
  \A i \in DOMAIN outbound : outbound[i].next = "PUBCOMP" =>
    \/ PubrelKey(outbound[i].id) \in DOMAIN store.files
    \/ HasPut(PubrelKey(outbound[i].id), ContentOf(outbound[i]))
InboundSaved == \A i \in DOMAIN inbound : Kept(ReceivedKey(inbound[i].id), ReceivedOf(inbound[i]))
QueueSaved ==
  \A i \in DOMAIN messageQueue : Kept(QueueKey(messageQueue[i].seqno), messageQueue[i].n)

InMemory(k) ==
  \/ k[1] = "c-" /\ \E i \in DOMAIN commands : k[2] = commands[i].n
  \/ k[1] = "s-" /\ \E i \in DOMAIN outbound : k[2] = outbound[i].id
  \/ k[1] = "sc-" /\ \E i \in DOMAIN outbound :
                       k[2] = outbound[i].id /\ outbound[i].next = "PUBCOMP"
  \/ k[1] = "r-" /\ \E i \in DOMAIN inbound : k[2] = inbound[i].id
  \/ k[1] = "q-" /\ \E i \in DOMAIN messageQueue : k[2] = messageQueue[i].seqno
NothingElse ==
  running /\ ~plan.clean => \A k \in DOMAIN store.files : InMemory(k) \/ HasRemove(k)

PubrelOfQos2 ==
  ~plan.clean =>
    \A id : PubrelKey(id) \in DOMAIN store.files /\ SentKey(id) \in DOMAIN store.files =>
      store.files[SentKey(id)].qos = 2

Saved == CommandsSaved /\ OutboundSaved /\ PubrelsSaved /\ InboundSaved /\ QueueSaved
Session ==
  /\ Resting /\ Listed /\ IdsApart /\ FilesApart /\ PutsKnown /\ RemovalsKnown
  /\ Saved /\ NothingElse /\ PubrelOfQos2
IInv == Typed /\ Session

session == <<plan, running, connected, commands, outbound, inbound, messageQueue,
             qentrySeqno, todo, store>>

LEMMA SessionStutters ==
  ASSUME Session, UNCHANGED session
  PROVE  Session'
  BY DEF Session, session, Resting, Listed, IdsApart, FilesApart, PutsKnown, PutKnown,
         RemovalsKnown, RemovalKnown, Saved, CommandsSaved, OutboundSaved, PubrelsSaved,
         InboundSaved, QueueSaved, NothingElse, InMemory, PubrelOfQos2, HoldsId, Kept,
         HasPut, HasRemove, FileIs

-----------------------------------------------------------------------------
(* Types and the effects *)

LEMMA PlanTypes ==
  ASSUME plan \in Plans
  PROVE  /\ Len(plan.out) \in Nat /\ Len(plan.in) \in Nat
         /\ \A n \in Out : plan.out[n] \in 0..2
         /\ \A n \in In : plan.in[n] \in 0..2
         /\ plan.clean \in BOOLEAN /\ plan.relDup \in BOOLEAN /\ plan.msgID \in 0..MaxMsgId
<1>1. plan.out \in Seq(0..2) /\ plan.in \in Seq(0..2) /\ plan.clean \in BOOLEAN
      /\ plan.relDup \in BOOLEAN /\ plan.msgID \in 0..MaxMsgId
  BY PlansAssumption
<1>2. QED
  BY <1>1 DEF Out, In

LEMMA EffectForms ==
  /\ \A k, c : /\ PutOf(k, c).op = "put" /\ PutOf(k, c).key = k /\ PutOf(k, c).content = c
  /\ \A k : RemoveOf(k).op = "remove" /\ RemoveOf(k).key = k
  /\ \A p : WriteOf(p).op = "write" /\ WriteOf(p).packet = p
  /\ \A n : DeliverOf(n).op = "deliver" /\ DeliverOf(n).n = n
  /\ TryQueue.op = "queue"
  BY DEF PutOf, RemoveOf, WriteOf, DeliverOf, TryQueue

LEMMA EffectTypes ==
  /\ \A k \in Keys, c \in OutContents \cup InContents \cup In : PutOf(k, c) \in Effects
  /\ \A k \in Keys : RemoveOf(k) \in Effects
  /\ \A p \in Packets(Out) : WriteOf(p) \in Effects
  /\ \A n \in In : DeliverOf(n) \in Effects
  /\ TryQueue \in Effects
  BY DEF Effects

LEMMA EffectCases ==
  ASSUME NEW e \in Effects
  PROVE  /\ e.op = "put" => e.key \in Keys /\ e.content \in OutContents \cup InContents \cup In
         /\ e.op = "remove" => e.key \in Keys
         /\ e.op = "write" => e.packet \in Packets(Out)
         /\ e.op = "deliver" => e.n \in In
<1>1. CASE \E k \in Keys, c \in OutContents \cup InContents \cup In : e = PutOf(k, c)
  BY <1>1, EffectForms
<1>2. CASE \E k \in Keys : e = RemoveOf(k)
  BY <1>2, EffectForms
<1>3. CASE \E p \in Packets(Out) : e = WriteOf(p)
  BY <1>3, EffectForms
<1>4. CASE \E n \in In : e = DeliverOf(n)
  BY <1>4, EffectForms
<1>5. CASE e = TryQueue
  BY <1>5, EffectForms
<1>6. QED
  BY <1>1, <1>2, <1>3, <1>4, <1>5 DEF Effects

LEMMA KeyTypes ==
  /\ \A id \in Nat : /\ SentKey(id) \in Keys /\ PubrelKey(id) \in Keys /\ ReceivedKey(id) \in Keys
                     /\ CommandKey(id) \in Keys /\ QueueKey(id) \in Keys
  /\ MsgIds \subseteq Nat
<1>1. MsgIds \subseteq Nat
  BY MaxMsgIdAssumption DEF MsgIds
<1>2. QED
  BY <1>1, StemsOf DEF Keys, SentKey, PubrelKey, ReceivedKey, CommandKey, QueueKey

LEMMA ContentTypes ==
  /\ \A m \in OutMessages : ContentOf(m) \in OutContents
  /\ \A m \in InMessages : ReceivedOf(m) \in InContents
  BY DEF ContentOf, ReceivedOf, OutContents, InContents, OutMessages, InMessages

LEMMA PacketTypes ==
  /\ \A type \in Answers \cup {"PUBREL"}, id \in MsgIds : \A ns :
       Ack(type, id) \in Packets(ns)
  /\ \A m, dup : dup \in BOOLEAN /\ m.id \in 0..MaxMsgId /\ m.qos \in 0..2 /\ (m.qos # 0 => m.id # 0)
                 /\ m.n \in Nat => \A ns : m.n \in ns => PubPacket(m, dup) \in Packets(ns)
<1>1. MaxMsgId \in Nat
  BY MaxMsgIdAssumption
<1>2. ASSUME NEW type \in Answers \cup {"PUBREL"}, NEW id \in MsgIds, NEW ns
      PROVE  Ack(type, id) \in Packets(ns)
  BY <1>1 DEF Ack, Packet, Packets, MsgIds, Answers
<1>3. ASSUME NEW m, NEW dup, dup \in BOOLEAN, m.id \in 0..MaxMsgId, m.qos \in 0..2,
             m.qos # 0 => m.id # 0, m.n \in Nat, NEW ns, m.n \in ns
      PROVE  PubPacket(m, dup) \in Packets(ns)
  BY <1>1, <1>3 DEF PubPacket, Packet, Packets, Answers
<1>4. QED
  BY <1>2, <1>3

-----------------------------------------------------------------------------
(* Types: what the sets of the plan are while it stays                      *)

LEMMA SameSets ==
  ASSUME plan' = plan
  PROVE  /\ Out' = Out /\ In' = In
         /\ CommandContents' = CommandContents /\ OutContents' = OutContents
         /\ InContents' = InContents /\ OutMessages' = OutMessages /\ InMessages' = InMessages
         /\ Entries' = Entries /\ Exchanges' = Exchanges /\ Effects' = Effects
<1>1. Out' = Out /\ In' = In
  BY DEF Out, In
<1>2. /\ CommandContents' = CommandContents /\ OutContents' = OutContents
      /\ InContents' = InContents /\ OutMessages' = OutMessages /\ InMessages' = InMessages
  BY <1>1 DEF CommandContents, OutContents, InContents, OutMessages, InMessages
<1>3. Entries' = Entries /\ Exchanges' = Exchanges
  BY <1>1 DEF Entries, Exchanges
<1>4. Effects' = Effects
  BY <1>1, <1>2 DEF Effects
<1>5. QED
  BY <1>1, <1>2, <1>3, <1>4

LEMMA StoreTypedStays ==
  ASSUME Typed, plan' = plan, store' = store, published' \in Nat, published <= published'
  PROVE  StoreTyped'
<1>1. \A k, c : FileOK(k, c) => FileOK(k, c)'
  <2>1. ASSUME NEW k, NEW c, FileOK(k, c) PROVE FileOK(k, c)'
    <3>1. k[1] = "c-" /\ c \in CommandContents /\ c.n <= published => c.n <= published'
      <4>1. published \in Nat /\ \A m \in CommandContents : m.n \in Nat
        BY PlanTypes DEF Typed, ClientTyped, CommandContents, Out
      <4>2. QED
        BY <4>1
    <3>2. QED
      BY <2>1, <3>1, SameSets DEF FileOK
  <2>2. QED
    BY <2>1
<1>2. QED
  BY <1>1 DEF Typed, StoreTyped, IsDirectory

LEMMA NetworkStays ==
  ASSUME NetworkTyped, plan' = plan, UNCHANGED <<network, broker, arrived>>
  PROVE  NetworkTyped'
<1>1. Out' = Out /\ In' = In /\ Exchanges' = Exchanges
  BY SameSets
<1>2. Packets(Out)' = Packets(Out) /\ Packets(In)' = Packets(In)
  BY <1>1 DEF Packets
<1>3. QED
  BY <1>1, <1>2 DEF NetworkTyped, network, broker

LEMMA ClientStays ==
  ASSUME ClientTyped, UNCHANGED <<plan, running, connected, memory, published, sent>>
  PROVE  ClientTyped'
  BY SameSets DEF ClientTyped, memory

LEMMA EffectsStay ==
  ASSUME EffectsTyped, UNCHANGED <<plan, todo>>
  PROVE  EffectsTyped'
  BY SameSets DEF EffectsTyped

\* a typed packet at the head of a queue
LEMMA Heads ==
  ASSUME NEW S, NEW s \in Seq(S), s # <<>>
  PROVE  /\ Head(s) \in S /\ Tail(s) \in Seq(S) /\ Head(s) = s[1]
         /\ Len(s) \in Nat \ {0} /\ Len(Tail(s)) = Len(s) - 1
         /\ 1 \in DOMAIN s
         /\ \A j \in DOMAIN Tail(s) : j + 1 \in DOMAIN s /\ Tail(s)[j] = s[j + 1]
         /\ \A j \in DOMAIN s : j # 1 => j - 1 \in DOMAIN Tail(s) /\ Tail(s)[j - 1] = s[j]
  OBVIOUS

LEMMA Appended ==
  ASSUME NEW S, NEW s \in Seq(S), NEW e \in S
  PROVE  /\ Append(s, e) \in Seq(S) /\ Len(s) \in Nat /\ Len(Append(s, e)) = Len(s) + 1
         /\ Append(s, e)[Len(s) + 1] = e
         /\ \A i \in DOMAIN s : i \in DOMAIN Append(s, e) /\ Append(s, e)[i] = s[i]
         /\ \A i \in DOMAIN Append(s, e) : (i \in DOMAIN s /\ Append(s, e)[i] = s[i])
                                           \/ (i = Len(s) + 1 /\ Append(s, e)[i] = e)
         /\ Len(s) + 1 \in DOMAIN Append(s, e)
  OBVIOUS

\* the effects of a handler, and of those after an effect that stands for it
LEMMA Joined ==
  ASSUME NEW S, NEW e \in S, NEW s \in Seq(S)
  PROVE  /\ <<e>> \o s \in Seq(S) /\ Len(s) \in Nat
         /\ Len(<<e>> \o s) = Len(s) + 1
         /\ (<<e>> \o s)[1] = e
         /\ \A j \in DOMAIN s : j + 1 \in DOMAIN (<<e>> \o s) /\ (<<e>> \o s)[j + 1] = s[j]
         /\ \A j \in DOMAIN (<<e>> \o s) : j # 1 => j - 1 \in DOMAIN s /\ (<<e>> \o s)[j] = s[j - 1]
         /\ 1 \in DOMAIN (<<e>> \o s)
<1>1. <<e>> \in Seq(S) /\ Len(<<e>>) = 1 /\ <<e>>[1] = e
  OBVIOUS
<1>2. QED
  BY <1>1

LEMMA Ended ==
  ASSUME NEW S, NEW e \in S, NEW s \in Seq(S)
  PROVE  /\ s \o <<e>> \in Seq(S) /\ Len(s) \in Nat /\ Len(s \o <<e>>) = Len(s) + 1
         /\ (s \o <<e>>)[Len(s) + 1] = e
         /\ \A i \in DOMAIN s : i \in DOMAIN (s \o <<e>>) /\ (s \o <<e>>)[i] = s[i]
         /\ \A i \in DOMAIN (s \o <<e>>) : (i \in DOMAIN s /\ (s \o <<e>>)[i] = s[i])
                                           \/ (i = Len(s) + 1 /\ (s \o <<e>>)[i] = e)
         /\ Len(s) + 1 \in DOMAIN (s \o <<e>>)
<1>1. <<e>> \in Seq(S) /\ Len(<<e>>) = 1 /\ <<e>>[1] = e
  OBVIOUS
<1>2. QED
  BY <1>1

-----------------------------------------------------------------------------
(* Types: the steps of the client                                           *)

LEMMA PublishTyped ==
  ASSUME Typed, Publish
  PROVE  Typed'
<1> DEFINE n == published + 1
           id == IF plan.out[n] = 0 THEN 0 ELSE AssignMsgId
           m == [id |-> id, n |-> n, qos |-> plan.out[n]]
<1>1. /\ n \in Out /\ (plan.out[n] > 0 => id # 0)
      /\ published' = n /\ msgID' = (IF id = 0 THEN msgID ELSE id)
      /\ commands' = Append(commands, m) /\ store' = PstPut(store, CommandKey(n), m)
      /\ UNCHANGED <<plan, running, connected, responses, outbound, inbound, messageQueue,
                     qentrySeqno, todo, network, broker, arrived, faults>>
  BY DEF Publish
<1>2. n \in Nat /\ n \in 0..Len(plan.out) /\ published \in Nat
  BY <1>1, PlanTypes DEF Typed, ClientTyped, Out
<1>3. id \in 0..MaxMsgId /\ (id = 0 <=> plan.out[n] = 0) /\ plan.out[n] \in 0..2
  <2>1. plan.out[n] \in 0..2
    BY <1>1, PlanTypes DEF Typed, ClientTyped
  <2>2. AssignMsgId \in 0..MaxMsgId
    BY AssignedId, MaxMsgIdAssumption DEF Typed, ClientTyped, MsgIds
  <2>3. 0 \in 0..MaxMsgId
    BY MaxMsgIdAssumption
  <2>4. plan.out[n] # 0 => plan.out[n] > 0
    BY <2>1
  <2>5. QED
    BY <1>1, <2>1, <2>2, <2>3, <2>4
<1> HIDE DEF id
<1>4. m \in CommandContents /\ m.n = n
  BY <1>1, <1>3 DEF CommandContents
<1> HIDE DEF m
<1>5. msgID' \in 0..MaxMsgId
  BY <1>1, <1>3 DEF Typed, ClientTyped
<1>6. commands' \in Seq(CommandContents) /\ \A i \in DOMAIN commands' : commands'[i].n <= published'
  <2>1. commands \in Seq(CommandContents) /\ \A i \in DOMAIN commands : commands[i].n <= published
    BY DEF Typed, ClientTyped
  <2>2. commands' \in Seq(CommandContents)
    BY <1>1, <1>4, <2>1
  <2>3. ASSUME NEW i \in DOMAIN commands' PROVE commands'[i].n <= published'
    <3>1. CASE i \in DOMAIN commands /\ commands'[i] = commands[i]
      <4>1. commands[i].n \in Nat
        BY <2>1, <3>1 DEF CommandContents, Out
      <4>2. QED
        BY <1>1, <1>2, <2>1, <3>1, <4>1
    <3>2. CASE commands'[i] = m
      BY <1>1, <1>2, <1>4, <3>2
    <3>3. QED
      BY <1>1, <1>4, <2>1, <3>1, <3>2, Appended
  <2>4. QED
    BY <2>2, <2>3
<1>7. ClientTyped'
  BY <1>1, <1>2, <1>5, <1>6, SameSets DEF Typed, ClientTyped, broker
<1>8. EffectsTyped'
  BY <1>1, EffectsStay DEF Typed
<1>9. NetworkTyped'
  BY <1>1, NetworkStays DEF Typed
<1>10. StoreTyped'
  <2>1. IsDirectory(store)
    BY DEF Typed, StoreTyped
  <2>2. /\ IsDirectory(store') /\ DOMAIN store'.files = DOMAIN store.files \cup {CommandKey(n)}
        /\ store'.files[CommandKey(n)] = m
        /\ \A k \in DOMAIN store.files : k # CommandKey(n) => store'.files[k] = store.files[k]
    BY <1>1, <2>1, FilesAfterPut
  <2>3. DOMAIN store'.files \subseteq Keys /\ IsFiniteSet(DOMAIN store'.files)
    BY <1>2, <2>2, KeyTypes, FS_AddElement DEF Typed, StoreTyped
  <2>4. ASSUME NEW k \in DOMAIN store'.files, NEW c, c = store'.files[k]
        PROVE  FileOK(k, c)'
    <3>1. CASE k = CommandKey(n)
      <4>1. k[1] = "c-" /\ k[2] = n /\ store'.files[k] = m /\ CommandContents' = CommandContents
        BY <1>1, <2>2, <3>1, SameSets DEF CommandKey
      <4>2. QED
        BY <1>1, <1>2, <1>4, <2>4, <4>1 DEF FileOK
    <3>2. CASE k # CommandKey(n)
      <4>1. k \in DOMAIN store.files /\ store'.files[k] = store.files[k]
        BY <2>2, <3>2
      <4>2. FileOK(k, store.files[k])
        BY <4>1 DEF Typed, StoreTyped
      <4>3. \A x \in CommandContents : x.n \in Nat
        BY DEF CommandContents, Out
      <4>4. \A x \in CommandContents : x.n <= published => x.n <= published'
        BY <1>1, <1>2, <4>3
      <4>5. QED
        BY <1>1, <2>4, <4>1, <4>2, <4>4, SameSets DEF FileOK
    <3>3. QED
      BY <3>1, <3>2
  <2>5. QED
    BY <2>2, <2>3, <2>4 DEF StoreTyped
<1>11. QED
  BY <1>7, <1>8, <1>9, <1>10 DEF Typed

\* a message of outboundMsgs
LEMMA MessageTypes ==
  ASSUME plan \in Plans
  PROVE  /\ \A m \in CommandContents : m.qos # 0 => /\ m.id \in MsgIds /\ m \in OutContents
                                                    /\ Outbound(m, AnswerTo(m.qos)) \in OutMessages
         /\ \A m \in CommandContents : PubPacket(m, FALSE) \in Packets(Out)
<1>1. ASSUME NEW m \in CommandContents, m.qos # 0
      PROVE  m.id \in MsgIds /\ m \in OutContents
  BY <1>1, MaxMsgIdAssumption DEF CommandContents, OutContents, MsgIds
<1>2. ASSUME NEW m \in CommandContents, m.qos # 0
      PROVE  Outbound(m, AnswerTo(m.qos)) \in OutMessages
  <2>1. m.id \in MsgIds /\ m.n \in Out /\ m.qos \in {1, 2}
    BY <1>1, <1>2 DEF OutContents
  <2>2. QED
    BY <2>1 DEF Outbound, AnswerTo, OutMessages, Answers
<1>3. ASSUME NEW m \in CommandContents PROVE PubPacket(m, FALSE) \in Packets(Out)
  <2>1. /\ m.id \in 0..MaxMsgId /\ m.qos \in 0..2 /\ (m.qos # 0 => m.id # 0)
        /\ m.n \in Nat /\ m.n \in Out /\ FALSE \in BOOLEAN
    BY DEF CommandContents, Out
  <2>2. QED
    BY <2>1, PacketTypes
<1>4. QED
  BY <1>1, <1>2, <1>3

LEMMA ProcessCommandTyped ==
  ASSUME Typed, ProcessCommand
  PROVE  Typed'
<1> DEFINE m == Head(commands)
           w == WriteOf(PubPacket(m, FALSE))
           c == RemoveOf(CommandKey(m.n))
           s == PutOf(SentKey(m.id), m)
           short == <<c>> \o <<w>>
           long == <<c, s>> \o <<w>>
<1>0. ClientTyped
  BY DEF Typed
<1>1. /\ commands # <<>> /\ commands' = Tail(commands)
      /\ \/ m.qos = 0 /\ todo' = short /\ outbound' = outbound /\ responses' = responses
         \/ /\ m.qos > 0 /\ todo' = long
            /\ outbound' = Append(outbound, Outbound(m, AnswerTo(m.qos)))
            /\ responses' = responses \cup {m.id} \/ responses' = responses
      /\ UNCHANGED <<plan, running, connected, msgID, inbound, messageQueue, qentrySeqno,
                     store, network, broker, published, arrived, faults>>
  BY DEF ProcessCommand
<1>2. commands \in Seq(CommandContents) /\ \A i \in DOMAIN commands : commands[i].n <= published
  BY <1>0 DEF ClientTyped
<1>3. m \in CommandContents /\ m = commands[1]
  BY <1>1, <1>2, Heads
<1>4. commands' \in Seq(CommandContents) /\ \A i \in DOMAIN commands' : commands'[i].n <= published'
  <2>1. commands' \in Seq(CommandContents)
    BY <1>1, <1>2, Heads
  <2>2. ASSUME NEW i \in DOMAIN commands' PROVE commands'[i].n <= published
    <3>1. i + 1 \in DOMAIN commands /\ commands'[i] = commands[i + 1]
      BY <1>1, <1>2, Heads
    <3>2. QED
      BY <1>2, <3>1
  <2>3. QED
    BY <1>1, <2>1, <2>2
<1>5. m.n \in Nat /\ m.id \in Nat /\ m.qos \in 0..2 /\ (m.qos # 0 => m \in OutContents /\ m.id \in MsgIds)
  <2>1. m.n \in Nat /\ m.id \in Nat /\ m.qos \in 0..2
    BY <1>3, MaxMsgIdAssumption DEF CommandContents, Out
  <2>2. QED
    BY <1>0, <1>3, <2>1, MessageTypes DEF ClientTyped
<1> HIDE DEF m
<1>6. w \in Effects /\ c \in Effects /\ (m.qos # 0 => s \in Effects)
  <2>1. w \in Effects
    BY <1>0, <1>3, MessageTypes, EffectTypes DEF ClientTyped
  <2>2. c \in Effects
    BY <1>5, KeyTypes, EffectTypes
  <2>3. m.qos # 0 => s \in Effects
    BY <1>5, KeyTypes, EffectTypes
  <2>4. QED
    BY <2>1, <2>2, <2>3
<1> HIDE DEF w, c, s
<1>7. EffectsTyped'
  <2>1. short \in Seq(Effects)
    <3>1. <<c>> \in Seq(Effects) /\ <<w>> \in Seq(Effects)
      BY <1>6
    <3>2. QED
      BY <3>1
  <2>2. m.qos # 0 => long \in Seq(Effects)
    <3>1. m.qos # 0 => <<c, s>> \in Seq(Effects) /\ <<w>> \in Seq(Effects)
      BY <1>6
    <3>2. QED
      BY <3>1
  <2> HIDE DEF short, long
  <2>3. todo' \in Seq(Effects)
    BY <1>1, <1>5, <2>1, <2>2
  <2>4. QED
    BY <1>1, <2>3, SameSets DEF EffectsTyped
<1>8. outbound' \in Seq(OutMessages) /\ responses' \subseteq MsgIds
  <2>1. outbound \in Seq(OutMessages) /\ responses \subseteq MsgIds
    BY <1>0 DEF ClientTyped
  <2>2. CASE m.qos = 0
    BY <1>1, <2>1, <2>2
  <2>3. CASE m.qos > 0
    <3>1. m.qos # 0 /\ outbound' = Append(outbound, Outbound(m, AnswerTo(m.qos)))
      BY <1>1, <2>3
    <3>2. Outbound(m, AnswerTo(m.qos)) \in OutMessages /\ m.id \in MsgIds
      BY <1>0, <1>3, <3>1, MessageTypes DEF ClientTyped
    <3>3. responses' = responses \cup {m.id} \/ responses' = responses
      BY <1>1, <2>3
    <3>4. QED
      BY <2>1, <3>1, <3>2, <3>3
  <2>4. QED
    BY <1>1, <2>2, <2>3
<1>9. ClientTyped'
  BY <1>0, <1>1, <1>4, <1>8, SameSets DEF ClientTyped, broker
<1>10. NetworkTyped'
  BY <1>1, NetworkStays DEF Typed
<1>11. StoreTyped'
  BY <1>0, <1>1, PlanTypes, StoreTypedStays DEF ClientTyped
<1>12. QED
  BY <1>7, <1>9, <1>10, <1>11 DEF Typed

-----------------------------------------------------------------------------
(* Types: the effects                                                       *)

LEMMA TodoTyped ==
  ASSUME Typed, todo # <<>>
  PROVE  Head(todo) \in Effects /\ Tail(todo) \in Seq(Effects) /\ Head(todo) = todo[1]
  BY Heads DEF Typed, EffectsTyped

LEMMA PutTyped ==
  ASSUME Typed, PutsKnown, Put
  PROVE  Typed'
<1> DEFINE key == Head(todo).key
           c == Head(todo).content
<1>1. /\ todo # <<>> /\ Head(todo).op = "put"
      /\ store' = PstPut(store, key, c) /\ todo' = Tail(todo)
      /\ UNCHANGED <<plan, running, connected, memory, network, broker, published, arrived, faults>>
  BY DEF Put, Effect
<1>2. key \in Keys /\ key = <<key[1], key[2]>> /\ Head(todo) = todo[1] /\ todo' \in Seq(Effects)
  BY <1>1, TodoTyped, EffectCases, StemsOf
<1>3. 1 \in DOMAIN todo
  BY <1>1, Heads DEF Typed, EffectsTyped
<1>4. FileOK(key, c)
  <2>1. PutKnown(1)
    BY <1>1, <1>2, <1>3 DEF PutsKnown
  <2> DEFINE known == PutKnown(1)
  <2>2. \/ key[1] \in {"s-", "sc-"} /\ \E i \in DOMAIN outbound : key[2] = outbound[i].id
                                                              /\ c = ContentOf(outbound[i])
        \/ key[1] = "r-" /\ \E i \in DOMAIN inbound : key[2] = inbound[i].id
                                                      /\ c = ReceivedOf(inbound[i])
        \/ key[1] = "q-" /\ \E i \in DOMAIN messageQueue : key[2] = messageQueue[i].seqno
                                                           /\ c = messageQueue[i].n
    BY <1>2, <2>1 DEF PutKnown
  <2>3. /\ \A i \in DOMAIN outbound : outbound[i] \in OutMessages
        /\ \A i \in DOMAIN inbound : inbound[i] \in InMessages
        /\ \A i \in DOMAIN messageQueue : messageQueue[i] \in Entries
    BY DEF Typed, ClientTyped
  <2>4. CASE key[1] \in {"s-", "sc-"}
    <3>1. PICK i \in DOMAIN outbound : key[2] = outbound[i].id /\ c = ContentOf(outbound[i])
      BY <2>2, <2>4
    <3>2. c \in OutContents /\ c.id = key[2]
      BY <2>3, <3>1, ContentTypes DEF ContentOf
    <3>3. QED
      BY <2>4, <3>2 DEF FileOK
  <2>5. CASE key[1] = "r-"
    <3>1. PICK i \in DOMAIN inbound : key[2] = inbound[i].id /\ c = ReceivedOf(inbound[i])
      BY <2>2, <2>5
    <3>2. c \in InContents /\ c.id = key[2]
      BY <2>3, <3>1, ContentTypes DEF ReceivedOf
    <3>3. QED
      BY <2>5, <3>2 DEF FileOK
  <2>6. CASE key[1] = "q-"
    <3>1. PICK i \in DOMAIN messageQueue : key[2] = messageQueue[i].seqno /\ c = messageQueue[i].n
      BY <2>2, <2>6
    <3>2. c \in In /\ key[2] # 0
      BY <2>3, <3>1 DEF Entries
    <3>3. QED
      BY <2>6, <3>2 DEF FileOK
  <2>7. QED
    BY <2>2, <2>4, <2>5, <2>6
<1> HIDE DEF key, c
<1>5. \A k, x : FileOK(k, x) => FileOK(k, x)'
  <2>1. ASSUME NEW k, NEW x, FileOK(k, x) PROVE FileOK(k, x)'
    BY <1>1, <2>1, SameSets DEF FileOK
  <2>2. QED
    BY <2>1
<1>6. StoreTyped'
  <2>1. IsDirectory(store)
    BY DEF Typed, StoreTyped
  <2>2. /\ IsDirectory(store') /\ DOMAIN store'.files = DOMAIN store.files \cup {key}
        /\ store'.files[key] = c
        /\ \A k \in DOMAIN store.files : k # key => store'.files[k] = store.files[k]
    BY <1>1, <2>1, FilesAfterPut
  <2>3. DOMAIN store'.files \subseteq Keys /\ IsFiniteSet(DOMAIN store'.files)
    BY <1>2, <2>2, FS_AddElement DEF Typed, StoreTyped
  <2>4. ASSUME NEW k \in DOMAIN store'.files, NEW x, x = store'.files[k]
        PROVE  FileOK(k, x)'
    <3>1. CASE k = key
      BY <1>4, <1>5, <2>2, <2>4, <3>1
    <3>2. CASE k # key
      <4>1. k \in DOMAIN store.files /\ x = store.files[k]
        BY <2>2, <2>4, <3>2
      <4>2. FileOK(k, x)
        BY <4>1 DEF Typed, StoreTyped
      <4>3. QED
        BY <1>5, <4>2
    <3>3. QED
      BY <3>1, <3>2
  <2>5. QED
    BY <2>2, <2>3, <2>4 DEF StoreTyped
<1>7. ClientTyped'
  BY <1>1, ClientStays DEF Typed, broker
<1>8. EffectsTyped'
  BY <1>1, <1>2, SameSets DEF EffectsTyped
<1>9. NetworkTyped'
  BY <1>1, NetworkStays DEF Typed
<1>10. QED
  BY <1>6, <1>7, <1>8, <1>9 DEF Typed

\* fewer files
LEMMA StoreShrinks ==
  ASSUME Typed, plan' = plan, published' = published, IsDirectory(store'),
         DOMAIN store'.files \subseteq DOMAIN store.files,
         \A k \in DOMAIN store'.files : store'.files[k] = store.files[k]
  PROVE  StoreTyped'
<1>1. ASSUME NEW k \in DOMAIN store'.files, NEW x, x = store'.files[k]
      PROVE  FileOK(k, x)'
  <2>1. k \in DOMAIN store.files /\ x = store.files[k]
    BY <1>1
  <2>2. FileOK(k, x)
    BY <2>1 DEF Typed, StoreTyped
  <2>3. QED
    BY <2>2, SameSets DEF FileOK
<1>2. DOMAIN store'.files \subseteq Keys /\ IsFiniteSet(DOMAIN store'.files)
  BY FS_Subset DEF Typed, StoreTyped
<1>3. QED
  BY <1>1, <1>2 DEF StoreTyped

LEMMA RemoveKeyTyped ==
  ASSUME Typed, RemoveKey
  PROVE  Typed'
<1> DEFINE key == Head(todo).key
<1>1. /\ todo # <<>> /\ store' = PstRemove(store, key) /\ todo' = Tail(todo)
      /\ UNCHANGED <<plan, running, connected, memory, network, broker, published, arrived, faults>>
  BY DEF RemoveKey, Effect
<1>2. todo' \in Seq(Effects)
  BY <1>1, TodoTyped
<1> HIDE DEF key
<1>3. StoreTyped'
  <2>1. IsDirectory(store)
    BY DEF Typed, StoreTyped
  <2>2. /\ IsDirectory(store') /\ DOMAIN store'.files = DOMAIN store.files \ {key}
        /\ \A k \in DOMAIN store.files : k # key => store'.files[k] = store.files[k]
    BY <1>1, <2>1, FilesAfterRemove
  <2>3. QED
    BY <1>1, <2>2, StoreShrinks
<1>4. ClientTyped'
  BY <1>1, ClientStays DEF Typed, broker
<1>5. EffectsTyped'
  BY <1>1, <1>2, SameSets DEF EffectsTyped
<1>6. NetworkTyped'
  BY <1>1, NetworkStays DEF Typed
<1>7. QED
  BY <1>3, <1>4, <1>5, <1>6 DEF Typed

LEMMA WriteTyped ==
  ASSUME Typed, Write
  PROVE  Typed'
<1>1. /\ todo # <<>> /\ Head(todo).op = "write" /\ todo' = Tail(todo)
      /\ toBroker' = IF link THEN Append(toBroker, Head(todo).packet) ELSE toBroker
      /\ UNCHANGED <<plan, running, connected, memory, store, link, toClient, broker, published,
                     arrived, faults>>
  BY DEF Write, Effect
<1>2. todo' \in Seq(Effects) /\ Head(todo).packet \in Packets(Out)
  BY <1>1, TodoTyped, EffectCases
<1>3. NetworkTyped'
  <2>1. toBroker' \in Seq(Packets(Out))
    BY <1>1, <1>2 DEF Typed, NetworkTyped
  <2>2. Out' = Out /\ In' = In /\ Exchanges' = Exchanges
    BY <1>1, SameSets
  <2>3. Packets(Out)' = Packets(Out) /\ Packets(In)' = Packets(In)
    BY <2>2 DEF Packets
  <2>4. QED
    BY <1>1, <2>1, <2>2, <2>3 DEF Typed, NetworkTyped, broker
<1>4. ClientTyped'
  BY <1>1, ClientStays DEF Typed, broker
<1>5. EffectsTyped'
  BY <1>1, <1>2, SameSets DEF EffectsTyped
<1>6. StoreTyped'
  BY <1>1, PlanTypes, StoreTypedStays DEF Typed, ClientTyped
<1>7. QED
  BY <1>3, <1>4, <1>5, <1>6 DEF Typed

\* the application takes a message, or the queue does
LEMMA NetworkArrives ==
  ASSUME NetworkTyped, plan' = plan, UNCHANGED <<network, broker>>, arrived' \in Seq(In)
  PROVE  NetworkTyped'
<1>1. Out' = Out /\ In' = In /\ Exchanges' = Exchanges
  BY SameSets
<1>2. Packets(Out)' = Packets(Out) /\ Packets(In)' = Packets(In)
  BY <1>1 DEF Packets
<1>3. QED
  BY <1>1, <1>2 DEF NetworkTyped, network, broker

LEMMA DeliverTyped ==
  ASSUME Typed, Deliver
  PROVE  Typed'
<1> DEFINE n == Head(todo).n
           entry == [seqno |-> qentrySeqno + 1, n |-> n]
           put == PutOf(QueueKey(qentrySeqno + 1), n)
           rest == Tail(todo)
           later == <<put>> \o rest
<1>1. /\ todo # <<>> /\ Head(todo).op = "deliver"
      /\ \/ todo' = rest /\ messageQueue' = messageQueue /\ qentrySeqno' = qentrySeqno
         \/ /\ qentrySeqno' = qentrySeqno + 1 /\ messageQueue' = Append(messageQueue, entry)
            /\ todo' = later
      /\ arrived' = Append(arrived, n) \/ arrived' = arrived
      /\ UNCHANGED <<plan, running, connected, msgID, commands, responses, outbound, inbound,
                     store, network, broker, published>>
  BY DEF Deliver, Effect, AppTakes, AppRefuses
<1>2. rest \in Seq(Effects) /\ n \in In
  BY <1>1, TodoTyped, EffectCases
<1>3. qentrySeqno \in Nat /\ messageQueue \in Seq(Entries)
  BY DEF Typed, ClientTyped
<1>4. entry \in Entries /\ Append(messageQueue, entry) \in Seq(Entries)
      /\ Append(arrived, n) \in Seq(In) /\ arrived \in Seq(In)
  <2>1. entry \in Entries
    BY <1>2, <1>3 DEF Entries
  <2>2. arrived \in Seq(In)
    BY DEF Typed, NetworkTyped
  <2> HIDE DEF entry, n
  <2>3. QED
    BY <1>2, <1>3, <2>1, <2>2
<1>5. later \in Seq(Effects)
  <2>1. put \in Effects
    BY <1>2, <1>3, KeyTypes, EffectTypes
  <2> HIDE DEF put, rest
  <2>2. QED
    BY <1>2, <2>1, Joined
<1> HIDE DEF later, rest, entry, n
<1>6. todo' \in Seq(Effects) /\ qentrySeqno' \in Nat /\ messageQueue' \in Seq(Entries)
  <2>1. qentrySeqno + 1 \in Nat
    BY <1>3
  <2>2. QED
    BY <1>1, <1>2, <1>3, <1>4, <1>5, <2>1
<1>7. ClientTyped'
  BY <1>1, <1>6, SameSets DEF Typed, ClientTyped, broker
<1>8. EffectsTyped'
  BY <1>1, <1>6, SameSets DEF EffectsTyped
<1>9. NetworkTyped'
  <2>1. arrived' \in Seq(In)
    BY <1>1, <1>4
  <2>2. QED
    BY <1>1, <2>1, NetworkArrives DEF Typed
<1>10. StoreTyped'
  BY <1>1, PlanTypes, StoreTypedStays DEF Typed, ClientTyped
<1>11. QED
  BY <1>7, <1>8, <1>9, <1>10 DEF Typed

LEMMA TryMessageQueueTyped ==
  ASSUME Typed, TryMessageQueue
  PROVE  Typed'
<1> DEFINE h == Head(messageQueue)
           remove == RemoveOf(QueueKey(h.seqno))
           rest == Tail(todo)
           later == <<remove>> \o rest
<1>1. /\ todo # <<>>
      /\ \/ todo' = rest /\ messageQueue' = messageQueue /\ arrived' = arrived
         \/ /\ messageQueue # <<>> /\ arrived' = Append(arrived, h.n)
            /\ messageQueue' = Tail(messageQueue) /\ todo' = later
      /\ UNCHANGED <<plan, running, connected, msgID, commands, responses, outbound, inbound,
                     qentrySeqno, store, network, broker, published>>
  BY DEF TryMessageQueue, Effect, AppTakes, AppRefuses
<1>2. rest \in Seq(Effects)
  BY <1>1, TodoTyped
<1>3. messageQueue \in Seq(Entries) /\ arrived \in Seq(In)
  BY DEF Typed, ClientTyped, NetworkTyped
<1>4. messageQueue # <<>> =>
        /\ h.seqno \in Nat /\ Tail(messageQueue) \in Seq(Entries)
        /\ Append(arrived, h.n) \in Seq(In)
  <2>1. messageQueue # <<>> => h \in Entries /\ Tail(messageQueue) \in Seq(Entries)
    BY <1>3, Heads
  <2>2. messageQueue # <<>> => h.n \in In /\ h.seqno \in Nat
    BY <2>1 DEF Entries
  <2> HIDE DEF h
  <2>3. QED
    BY <1>3, <2>1, <2>2
<1> HIDE DEF h
<1>5. messageQueue # <<>> => later \in Seq(Effects)
  <2>1. messageQueue # <<>> => remove \in Effects
    BY <1>4, KeyTypes, EffectTypes
  <2> HIDE DEF remove, rest
  <2>2. QED
    BY <1>2, <2>1, Joined
<1> HIDE DEF later, rest
<1>6. todo' \in Seq(Effects) /\ messageQueue' \in Seq(Entries) /\ arrived' \in Seq(In)
  BY <1>1, <1>2, <1>3, <1>4, <1>5
<1>7. ClientTyped'
  BY <1>1, <1>6, SameSets DEF Typed, ClientTyped, broker
<1>8. EffectsTyped'
  BY <1>1, <1>6, SameSets DEF EffectsTyped
<1>9. NetworkTyped'
  BY <1>1, <1>6, NetworkArrives DEF Typed
<1>10. StoreTyped'
  BY <1>1, PlanTypes, StoreTypedStays DEF Typed, ClientTyped
<1>11. QED
  BY <1>7, <1>8, <1>9, <1>10 DEF Typed

-----------------------------------------------------------------------------
(* Types: the packets from the broker                                       *)

\* a handler replaces the effects, the lists and the packets that it has read
LEMMA ReadTyped ==
  ASSUME Typed, toClient # <<>>, Read, todo' \in Seq(Effects),
         responses' \subseteq responses, outbound' \in Seq(OutMessages),
         inbound' \in Seq(InMessages)
  PROVE  Typed'
<1>1. /\ toClient' = Tail(toClient)
      /\ UNCHANGED <<plan, running, connected, msgID, commands, messageQueue, qentrySeqno, store,
                     link, toBroker, broker, published, arrived, faults>>
  BY DEF Read
<1>2. ClientTyped'
  BY <1>1, SameSets DEF Typed, ClientTyped, broker
<1>3. EffectsTyped'
  BY <1>1, SameSets DEF EffectsTyped
<1>4. NetworkTyped'
  <2>1. toClient' \in Seq(Packets(In))
    BY <1>1, Heads DEF Typed, NetworkTyped
  <2>2. Out' = Out /\ In' = In /\ Exchanges' = Exchanges
    BY <1>1, SameSets
  <2>3. Packets(Out)' = Packets(Out) /\ Packets(In)' = Packets(In)
    BY <2>2 DEF Packets
  <2>4. QED
    BY <1>1, <2>1, <2>2, <2>3 DEF Typed, NetworkTyped, broker
<1>5. StoreTyped'
  BY <1>1, PlanTypes, StoreTypedStays DEF Typed, ClientTyped
<1>6. QED
  BY <1>2, <1>3, <1>4, <1>5 DEF Typed

LEMMA PacketRead ==
  ASSUME Typed, toClient # <<>>
  PROVE  LET p == Head(toClient)
         IN  /\ p \in Packets(In)
             /\ p.type = "PUBLISH" => /\ p.n \in In /\ p.qos \in 0..2 /\ p.id \in 0..MaxMsgId
                                      /\ p.qos # 0 => p.id \in MsgIds
             /\ p.type # "PUBLISH" => p.id \in MsgIds /\ p.dup \in BOOLEAN
<1> DEFINE p == Head(toClient)
<1>1. p \in Packets(In)
  BY Heads DEF Typed, NetworkTyped
<1> HIDE DEF p
<1>2. /\ p.type = "PUBLISH" => p.n \in In /\ (p.qos # 0 => p.id # 0)
      /\ p.qos \in 0..2 /\ p.id \in 0..MaxMsgId /\ p.dup \in BOOLEAN
      /\ p.type # "PUBLISH" => p.id # 0
  BY <1>1 DEF Packets
<1>3. p.id # 0 => p.id \in MsgIds
  BY <1>2, MaxMsgIdAssumption DEF MsgIds
<1>4. QED
  BY <1>1, <1>2, <1>3 DEF p

\* what ThenQueue makes of a handler's effects
LEMMA Queued ==
  ASSUME NEW e \in Seq(Effects)
  PROVE  e \o <<TryQueue>> \in Seq(Effects)
<1>1. TryQueue \in Effects
  BY EffectTypes
<1>2. QED
  BY <1>1, Ended

LEMMA HandlePublishTyped ==
  ASSUME Typed, HandlePublish
  PROVE  Typed'
<1> DEFINE p == Head(toClient)
           i == Found(inbound, p.id)
           m == Inbound(p)
           a == DeliverOf(p.n)
           b == WriteOf(Ack("PUBACK", p.id))
           c == PutOf(ReceivedKey(p.id), [id |-> p.id, n |-> p.n, qos |-> 2])
           d == WriteOf(Ack("PUBREC", p.id))
           e0 == <<a>>
           e1 == <<b, a>>
           e2 == <<c, d>>
           f0 == e0 \o <<TryQueue>>
           f1 == e1 \o <<TryQueue>>
           f2 == e2 \o <<TryQueue>>
<1>1. /\ toClient # <<>> /\ p.type = "PUBLISH"
      /\ \/ p.qos = 0 /\ todo' = f0 /\ inbound' = inbound
         \/ p.qos = 1 /\ todo' = f1 /\ inbound' = inbound
         \/ /\ p.qos = 2 /\ todo' = f2
            /\ i = 0 => inbound' = Append(inbound, m)
            /\ i # 0 => inbound' = ReplaceAt(inbound, i, m)
      /\ responses' = responses /\ outbound' = outbound
      /\ Read
  BY DEF HandlePublish, Reading, ThenQueue
<1>2. p.n \in In /\ p.qos \in 0..2 /\ p.id \in 0..MaxMsgId /\ (p.qos # 0 => p.id \in MsgIds)
  BY <1>1, PacketRead
<1> HIDE DEF p
<1>3. f0 \in Seq(Effects)
  <2>1. a \in Effects
    BY <1>2, EffectTypes
  <2> HIDE DEF a
  <2>2. e0 \in Seq(Effects)
    BY <2>1
  <2> HIDE DEF e0
  <2>3. QED
    BY <2>2, Queued
<1>4. p.qos # 0 => f1 \in Seq(Effects)
  <2>1. p.qos # 0 => a \in Effects /\ b \in Effects
    BY <1>2, EffectTypes, PacketTypes DEF Answers
  <2> HIDE DEF a, b
  <2>2. p.qos # 0 => e1 \in Seq(Effects)
    BY <2>1
  <2> HIDE DEF e1
  <2>3. QED
    BY <2>2, Queued
<1>5. p.qos # 0 => f2 \in Seq(Effects)
  <2>1. p.qos # 0 => c \in Effects
    <3>1. p.qos # 0 => [id |-> p.id, n |-> p.n, qos |-> 2] \in InContents
      BY <1>2 DEF InContents
    <3>2. p.qos # 0 => ReceivedKey(p.id) \in Keys
      BY <1>2, KeyTypes
    <3> DEFINE x == [id |-> p.id, n |-> p.n, qos |-> 2]
    <3> HIDE DEF x
    <3>3. QED
      BY <3>1, <3>2, EffectTypes DEF x
  <2>2. p.qos # 0 => d \in Effects
    BY <1>2, EffectTypes, PacketTypes DEF Answers
  <2> HIDE DEF c, d
  <2>3. p.qos # 0 => e2 \in Seq(Effects)
    BY <2>1, <2>2
  <2> HIDE DEF e2
  <2>4. QED
    BY <2>3, Queued
<1>6. inbound \in Seq(InMessages) /\ outbound \in Seq(OutMessages)
  BY DEF Typed, ClientTyped
<1>7. p.qos # 0 => Append(inbound, m) \in Seq(InMessages)
                   /\ (i # 0 => ReplaceAt(inbound, i, m) \in Seq(InMessages))
  <2>1. p.qos # 0 => m \in InMessages
    BY <1>2 DEF Inbound, InMessages
  <2>2. i \in 0..Len(inbound)
    BY <1>6, FoundProperties
  <2> HIDE DEF i, m
  <2>3. QED
    BY <1>6, <2>1, <2>2 DEF ReplaceAt
<1> HIDE DEF f0, f1, f2, i, m
<1>8. todo' \in Seq(Effects) /\ inbound' \in Seq(InMessages)
  <2>1. CASE p.qos = 0
    BY <1>1, <1>3, <1>6, <2>1
  <2>2. CASE p.qos = 1
    BY <1>1, <1>4, <1>6, <2>2
  <2>3. CASE p.qos = 2
    <3>1. p.qos # 0
      BY <2>3
    <3>2. todo' = f2
      BY <1>1, <2>3
    <3>3. inbound' = Append(inbound, m) \/ (i # 0 /\ inbound' = ReplaceAt(inbound, i, m))
      BY <1>1, <2>3
    <3>4. QED
      BY <1>5, <1>7, <3>1, <3>2, <3>3
  <2>4. QED
    BY <1>1, <2>1, <2>2, <2>3
<1>9. QED
  BY <1>1, <1>6, <1>8, ReadTyped

LEMMA HandlePubrelTyped ==
  ASSUME Typed, HandlePubrel
  PROVE  Typed'
<1> DEFINE p == Head(toClient)
           i == Found(inbound, p.id)
           a == WriteOf(Ack("PUBCOMP", p.id))
           b == DeliverOf(inbound[i].n)
           c == RemoveOf(ReceivedKey(p.id))
           e0 == <<a, b, c>>
           e1 == <<a>>
           e2 == <<>>
           f0 == e0 \o <<TryQueue>>
           f1 == e1 \o <<TryQueue>>
           f2 == e2 \o <<TryQueue>>
<1>1. /\ toClient # <<>> /\ p.type # "PUBLISH"
      /\ \/ i # 0 /\ todo' = f0 /\ inbound' = RemoveAt(inbound, i)
         \/ i = 0 /\ (todo' = f1 \/ todo' = f2) /\ inbound' = inbound
      /\ responses' = responses /\ outbound' = outbound
      /\ Read
  BY DEF HandlePubrel, Reading, ThenQueue
<1>2. p.id \in MsgIds
  BY <1>1, PacketRead
<1>3. inbound \in Seq(InMessages) /\ outbound \in Seq(OutMessages)
  BY DEF Typed, ClientTyped
<1>4. i \in 0..Len(inbound) /\ (i # 0 => i \in 1..Len(inbound))
  BY <1>3, FoundProperties
<1> HIDE DEF p, i
<1>5. i # 0 => f0 \in Seq(Effects)
  <2>1. a \in Effects
    BY <1>2, EffectTypes, PacketTypes DEF Answers
  <2>2. i # 0 => b \in Effects
    <3>1. i # 0 => inbound[i] \in InMessages
      BY <1>3, <1>4
    <3>2. i # 0 => inbound[i].n \in In
      BY <3>1 DEF InMessages
    <3>3. QED
      BY <3>2, EffectTypes
  <2>3. c \in Effects
    BY <1>2, KeyTypes, EffectTypes
  <2> HIDE DEF a, b, c
  <2>4. i # 0 => e0 \in Seq(Effects)
    BY <2>1, <2>2, <2>3
  <2> HIDE DEF e0
  <2>5. QED
    BY <2>4, Queued
<1>6. f1 \in Seq(Effects)
  <2>1. a \in Effects
    BY <1>2, EffectTypes, PacketTypes DEF Answers
  <2> HIDE DEF a
  <2>2. e1 \in Seq(Effects)
    BY <2>1
  <2> HIDE DEF e1
  <2>3. QED
    BY <2>2, Queued
<1>7. f2 \in Seq(Effects)
  <2>1. e2 \in Seq(Effects)
    OBVIOUS
  <2> HIDE DEF e2
  <2>2. QED
    BY <2>1, Queued
<1>8. i # 0 => RemoveAt(inbound, i) \in Seq(InMessages)
  BY <1>3, <1>4, RemoveAtProperties
<1> HIDE DEF f0, f1, f2
<1>9. todo' \in Seq(Effects) /\ inbound' \in Seq(InMessages)
  BY <1>1, <1>3, <1>5, <1>6, <1>7, <1>8
<1>10. QED
  BY <1>1, <1>3, <1>9, ReadTyped

\* the keys of a message that is acknowledged
LEMMA KeysRemoved ==
  ASSUME NEW m, m.id \in MsgIds
  PROVE  LET rs == [k \in DOMAIN KeysOf(m) |-> RemoveOf(KeysOf(m)[k])]
         IN  /\ rs \in Seq(Effects)
             /\ \A j \in DOMAIN rs : rs[j] = RemoveOf(SentKey(m.id))
                                     \/ rs[j] = RemoveOf(PubrelKey(m.id))
             /\ \E j \in DOMAIN rs : rs[j] = RemoveOf(SentKey(m.id))
             /\ m.qos = 2 => \E j \in DOMAIN rs : rs[j] = RemoveOf(PubrelKey(m.id))
<1> DEFINE rs == [k \in DOMAIN KeysOf(m) |-> RemoveOf(KeysOf(m)[k])]
<1>1. RemoveOf(SentKey(m.id)) \in Effects /\ RemoveOf(PubrelKey(m.id)) \in Effects
  BY KeyTypes, EffectTypes
<1>2. CASE m.qos = 2
  <2>1. DOMAIN KeysOf(m) = 1..2 /\ KeysOf(m)[1] = SentKey(m.id) /\ KeysOf(m)[2] = PubrelKey(m.id)
    BY <1>2 DEF KeysOf
  <2>2. DOMAIN rs = 1..2 /\ rs[1] = RemoveOf(SentKey(m.id)) /\ rs[2] = RemoveOf(PubrelKey(m.id))
    BY <2>1
  <2>3. rs \in Seq(Effects)
    BY <1>1, <2>1, <2>2
  <2>4. QED
    BY <1>2, <2>2, <2>3
<1>3. CASE m.qos # 2
  <2>1. DOMAIN KeysOf(m) = 1..1 /\ KeysOf(m)[1] = SentKey(m.id)
    BY <1>3 DEF KeysOf
  <2>2. DOMAIN rs = 1..1 /\ rs[1] = RemoveOf(SentKey(m.id))
    BY <2>1
  <2>3. rs \in Seq(Effects)
    BY <1>1, <2>1, <2>2
  <2>4. QED
    BY <1>3, <2>2, <2>3
<1>4. QED
  BY <1>2, <1>3

LEMMA HandleAckTyped ==
  ASSUME Typed, NEW type, type \in {"PUBACK", "PUBCOMP"}, HandleAck(type)
  PROVE  Typed'
<1> DEFINE id == Head(toClient).id
           i == Found(outbound, id)
           awaited == i # 0 /\ outbound[i].next = type
           keys == KeysOf(outbound[i])
           rs == [k \in DOMAIN keys |-> RemoveOf(keys[k])]
           e2 == <<>>
           f0 == rs \o <<TryQueue>>
           f2 == e2 \o <<TryQueue>>
<1>1. /\ toClient # <<>> /\ Head(toClient).type # "PUBLISH"
      /\ \/ i # 0 /\ todo' = f0 /\ outbound' = RemoveAt(outbound, i)
         \/ todo' = f2 /\ outbound' = outbound
      /\ responses' = responses \ {id} /\ inbound' = inbound
      /\ Read
  BY DEF HandleAck, Reading, ThenQueue
<1>3. inbound \in Seq(InMessages) /\ outbound \in Seq(OutMessages)
  BY DEF Typed, ClientTyped
<1>4. i \in 0..Len(outbound) /\ (i # 0 => i \in 1..Len(outbound))
  BY <1>3, FoundProperties
<1> HIDE DEF i
<1>5. i # 0 => f0 \in Seq(Effects)
  <2>1. i # 0 => outbound[i] \in OutMessages
    BY <1>3, <1>4
  <2>2. i # 0 => outbound[i].id \in MsgIds
    BY <2>1 DEF OutMessages
  <2>3. i # 0 => rs \in Seq(Effects)
    BY <2>2, KeysRemoved
  <2> HIDE DEF rs
  <2>4. QED
    BY <2>3, Queued
<1>7. f2 \in Seq(Effects)
  <2>1. e2 \in Seq(Effects)
    OBVIOUS
  <2> HIDE DEF e2
  <2>2. QED
    BY <2>1, Queued
<1>8. i # 0 => RemoveAt(outbound, i) \in Seq(OutMessages)
  BY <1>3, <1>4, RemoveAtProperties
<1> HIDE DEF f0, f2
<1>9. todo' \in Seq(Effects) /\ outbound' \in Seq(OutMessages) /\ responses' \subseteq responses
  BY <1>1, <1>3, <1>5, <1>7, <1>8
<1>10. QED
  BY <1>1, <1>3, <1>9, ReadTyped

-----------------------------------------------------------------------------
(* Types: retries, connections and the process                              *)

\* what the retries of a list put and write
PutFor(e, m) ==
  /\ e.op = "put" /\ e.content = ContentOf(m)
  /\ \/ e.key = SentKey(m.id) /\ m.next # "PUBCOMP"
     \/ e.key = PubrelKey(m.id) /\ m.next = "PUBCOMP"
Resent(list) == {e \in Effects : e.op = "write" \/ \E i \in DOMAIN list : PutFor(e, list[i])}

LEMMA ResendType ==
  ASSUME NEW list, NEW i \in DOMAIN list, list[i] \in OutMessages
  PROVE  /\ Resend(list[i]) \in Seq(Resent(list))
         /\ list[i].next = "PUBCOMP" => /\ SendPubrel(list[i]) \in Seq(Resent(list))
                                        /\ SendPubrel(list[i]) \in Seq(Effects)
                                        /\ Len(SendPubrel(list[i])) = 2
                                        /\ SendPubrel(list[i])[1].op = "put"
                                        /\ SendPubrel(list[i])[1].key = PubrelKey(list[i].id)
                                        /\ SendPubrel(list[i])[1].content = ContentOf(list[i])
<1> DEFINE m == list[i]
           p1 == PutOf(PubrelKey(m.id), ContentOf(m))
           w1 == WriteOf(Ack("PUBREL", m.id))
           p2 == PutOf(SentKey(m.id), ContentOf(m))
           w2 == WriteOf(PubPacket(ContentOf(m), TRUE))
<1>1. m.id \in MsgIds /\ m.n \in Out /\ m.qos \in {1, 2} /\ m.id \in 0..MaxMsgId /\ m.id # 0
      /\ m.id \in Nat /\ m.n \in Nat
  BY MaxMsgIdAssumption DEF OutMessages, MsgIds, Out
<1>2. ContentOf(m) \in OutContents
  BY ContentTypes
<1> HIDE DEF m
<1>3. p1 \in Effects /\ p2 \in Effects
  BY <1>1, <1>2, KeyTypes, EffectTypes
<1>4. w1 \in Effects
  BY <1>1, EffectTypes, PacketTypes
<1>5. w2 \in Effects
  <2> DEFINE x == ContentOf(m)
  <2>1. x.id = m.id /\ x.n = m.n /\ x.qos = m.qos
    BY DEF ContentOf
  <2>2. TRUE \in BOOLEAN /\ x.id \in 0..MaxMsgId /\ x.qos \in 0..2 /\ (x.qos # 0 => x.id # 0)
        /\ x.n \in Nat /\ x.n \in Out
    BY <1>1, <2>1
  <2> HIDE DEF x
  <2>3. PubPacket(x, TRUE) \in Packets(Out)
    BY <2>2, PacketTypes
  <2>4. QED
    BY <2>3, EffectTypes DEF x
<1>6. /\ p1.op = "put" /\ p1.key = PubrelKey(m.id) /\ p1.content = ContentOf(m)
      /\ p2.op = "put" /\ p2.key = SentKey(m.id) /\ p2.content = ContentOf(m)
      /\ w1.op = "write" /\ w2.op = "write"
  BY DEF PutOf, WriteOf
<1> HIDE DEF p1, p2, w1, w2
<1>7. w1 \in Resent(list) /\ w2 \in Resent(list)
  BY <1>4, <1>5, <1>6 DEF Resent
<1>8. m.next = "PUBCOMP" => p1 \in Resent(list)
  <2>1. m.next = "PUBCOMP" => PutFor(p1, m)
    BY <1>6 DEF PutFor
  <2>2. QED
    BY <1>3, <2>1 DEF Resent, m
<1>9. m.next # "PUBCOMP" => p2 \in Resent(list)
  <2>1. m.next # "PUBCOMP" => PutFor(p2, m)
    BY <1>6 DEF PutFor
  <2>2. QED
    BY <1>3, <2>1 DEF Resent, m
<1>10. SendPubrel(m) = <<p1, w1>>
  BY DEF SendPubrel, p1, w1, ContentOf
<1>11. Resend(m) = IF m.next = "PUBCOMP" THEN SendPubrel(m) ELSE <<p2, w2>>
  BY DEF Resend, p2, w2, ContentOf
<1>12. QED
  <2>1. m.next = "PUBCOMP" => /\ SendPubrel(m) \in Seq(Resent(list)) /\ SendPubrel(m) \in Seq(Effects)
                              /\ Len(SendPubrel(m)) = 2 /\ SendPubrel(m)[1] = p1
    BY <1>3, <1>4, <1>7, <1>8, <1>10
  <2>2. m.next # "PUBCOMP" => <<p2, w2>> \in Seq(Resent(list))
    BY <1>7, <1>9
  <2>3. QED
    BY <1>6, <1>11, <2>1, <2>2 DEF m

LEMMA ResendsType ==
  ASSUME NEW list \in Seq(OutMessages)
  PROVE  Resends(list) \in Seq(Resent(list)) /\ Resends(list) \in Seq(Effects)
<1> DEFINE ss == [i \in DOMAIN list |-> Resend(list[i])]
<1>1. ss \in Seq(Seq(Resent(list)))
  <2>1. \A i \in DOMAIN list : Resend(list[i]) \in Seq(Resent(list))
    BY ResendType
  <2>2. DOMAIN list = 1..Len(list) /\ Len(list) \in Nat
    OBVIOUS
  <2>3. QED
    BY <2>1, <2>2
<1>2. Resends(list) = FlattenSeq(ss)
  BY DEF Resends
<1> HIDE DEF ss
<1>3. Resends(list) \in Seq(Resent(list))
  BY <1>1, <1>2, FlattenType
<1>4. Resent(list) \subseteq Effects
  BY DEF Resent
<1>5. QED
  BY <1>3, <1>4

LEMMA ResentPart ==
  ASSUME NEW list \in Seq(OutMessages), NEW k \in DOMAIN list
  PROVE  Resends(SubSeq(list, 1, k)) \in Seq(Resent(list))
<1> DEFINE part == SubSeq(list, 1, k)
<1>1. part \in Seq(OutMessages) /\ \A i \in DOMAIN part : i \in DOMAIN list /\ part[i] = list[i]
  OBVIOUS
<1> HIDE DEF part
<1>2. Resends(part) \in Seq(Resent(part))
  BY <1>1, ResendsType
<1>3. Resent(part) \subseteq Resent(list)
  BY <1>1 DEF Resent
<1>4. QED
  BY <1>2, <1>3 DEF part

LEMMA HandlePubrecTyped ==
  ASSUME Typed, HandlePubrec
  PROVE  Typed'
<1> DEFINE i == Found(outbound, Head(toClient).id)
           e0 == SendPubrel(outbound[i])
           e2 == <<>>
           f0 == e0 \o <<TryQueue>>
           f2 == e2 \o <<TryQueue>>
<1>1. /\ toClient # <<>>
      /\ \/ /\ i # 0 /\ outbound[i].next = "PUBREC" /\ todo' = f0
            /\ outbound' = [outbound EXCEPT ![i].next = "PUBCOMP"]
         \/ todo' = f2 /\ outbound' = outbound
      /\ responses' = responses /\ inbound' = inbound
      /\ Read
  BY DEF HandlePubrec, Reading, ThenQueue
<1>3. inbound \in Seq(InMessages) /\ outbound \in Seq(OutMessages) /\ plan \in Plans
  BY DEF Typed, ClientTyped
<1>4. i \in 0..Len(outbound) /\ (i # 0 => i \in DOMAIN outbound /\ outbound[i] \in OutMessages)
  BY <1>3, FoundProperties
<1> HIDE DEF i
<1>5. i # 0 => f0 \in Seq(Effects)
  <2> DEFINE m == [outbound[i] EXCEPT !.next = "PUBCOMP"]
             x == <<m>>
  <2>1. i # 0 /\ outbound[i].next = "PUBREC" => m \in OutMessages
    BY <1>4 DEF OutMessages, Answers
  <2>2. i # 0 => SendPubrel(outbound[i]) \in Seq(Effects)
    <3> DEFINE p1 == PutOf(PubrelKey(outbound[i].id), ContentOf(outbound[i]))
               w1 == WriteOf(Ack("PUBREL", outbound[i].id))
    <3>1. i # 0 => outbound[i].id \in MsgIds /\ ContentOf(outbound[i]) \in OutContents
      BY <1>4, ContentTypes DEF OutMessages
    <3>2. i # 0 => p1 \in Effects
      BY <3>1, KeyTypes, EffectTypes
    <3>3. i # 0 => w1 \in Effects
      BY <3>1, EffectTypes, PacketTypes
    <3>4. SendPubrel(outbound[i]) = <<p1, w1>>
      BY DEF SendPubrel, ContentOf
    <3> HIDE DEF p1, w1
    <3>5. QED
      BY <3>2, <3>3, <3>4
  <2> HIDE DEF e0
  <2>3. QED
    BY <2>2, Queued DEF e0
<1>7. f2 \in Seq(Effects)
  <2>1. e2 \in Seq(Effects)
    OBVIOUS
  <2> HIDE DEF e2
  <2>2. QED
    BY <2>1, Queued
<1>8. i # 0 /\ outbound[i].next = "PUBREC"
        => [outbound EXCEPT ![i].next = "PUBCOMP"] \in Seq(OutMessages)
  <2> DEFINE m == [outbound[i] EXCEPT !.next = "PUBCOMP"]
  <2>1. i # 0 /\ outbound[i].next = "PUBREC" => m \in OutMessages
    BY <1>4 DEF OutMessages, Answers
  <2>2. [outbound EXCEPT ![i].next = "PUBCOMP"] = [outbound EXCEPT ![i] = m]
    OBVIOUS
  <2> HIDE DEF m
  <2>3. QED
    BY <1>3, <1>4, <2>1, <2>2
<1> HIDE DEF f0, f2
<1>9. todo' \in Seq(Effects) /\ outbound' \in Seq(OutMessages)
  BY <1>1, <1>3, <1>5, <1>7, <1>8
<1>10. QED
  BY <1>1, <1>3, <1>9, ReadTyped

\* effects alone
LEMMA OnlyEffects ==
  ASSUME Typed, todo' \in Seq(Effects),
         UNCHANGED <<plan, running, memory, store, network, broker, published, arrived>>,
         connected' \in BOOLEAN
  PROVE  Typed'
<1>1. ClientTyped'
  BY SameSets DEF Typed, ClientTyped, memory, broker
<1>2. EffectsTyped'
  BY SameSets DEF EffectsTyped
<1>3. NetworkTyped'
  BY NetworkStays DEF Typed
<1>4. StoreTyped'
  BY PlanTypes, StoreTypedStays DEF Typed, ClientTyped
<1>5. QED
  BY <1>1, <1>2, <1>3, <1>4 DEF Typed

LEMMA HandlePingrespTyped ==
  ASSUME Typed, HandlePingresp
  PROVE  Typed'
<1> DEFINE e == <<TryQueue>>
<1>1. /\ todo' = e
      /\ UNCHANGED <<plan, running, connected, memory, store, network, broker, published, arrived,
                     faults>>
  BY DEF HandlePingresp
<1>2. e \in Seq(Effects)
  BY EffectTypes
<1> HIDE DEF e
<1>3. QED
  BY <1>1, <1>2, OnlyEffects DEF Typed, ClientTyped

LEMMA RetryTyped ==
  ASSUME Typed, Retry
  PROVE  Typed'
<1>1. PICK i \in DOMAIN outbound : todo' = Resends(SubSeq(outbound, 1, i))
  BY DEF Retry
<1>2. UNCHANGED <<plan, running, connected, memory, store, network, broker, published, arrived>>
  BY DEF Retry
<1>3. outbound \in Seq(OutMessages)
  BY DEF Typed, ClientTyped
<1>4. todo' \in Seq(Resent(outbound))
  BY <1>1, <1>3, ResentPart
<1>5. todo' \in Seq(Effects)
  <2>1. Resent(outbound) \subseteq Effects
    BY DEF Resent
  <2>2. QED
    BY <1>4, <2>1
<1>6. QED
  BY <1>2, <1>5, OnlyEffects DEF Typed, ClientTyped

LEMMA ForgottenTyped ==
  ASSUME ClientTyped, Forgotten, UNCHANGED <<plan, published, sent>>,
         running' \in BOOLEAN, connected' \in BOOLEAN
  PROVE  ClientTyped'
<1>1. /\ commands' = <<>> /\ responses' = {} /\ outbound' = <<>> /\ inbound' = <<>>
      /\ messageQueue' = <<>> /\ msgID' = 0 /\ qentrySeqno' = qentrySeqno
  BY DEF Forgotten
<1>2. commands' \in Seq(CommandContents) /\ \A i \in DOMAIN commands' : FALSE
  BY <1>1
<1>3. outbound' \in Seq(OutMessages) /\ inbound' \in Seq(InMessages)
  BY <1>1
<1>4. messageQueue' \in Seq(Entries) /\ responses' \subseteq MsgIds
  BY <1>1
<1>5. msgID' \in 0..MaxMsgId /\ qentrySeqno' \in Nat
  BY <1>1, MaxMsgIdAssumption DEF ClientTyped
<1>6. QED
  BY <1>2, <1>3, <1>4, <1>5, SameSets DEF ClientTyped

LEMMA NoticeLostTyped ==
  ASSUME Typed, NoticeLost
  PROVE  Typed'
<1>1. /\ connected' = FALSE
      /\ UNCHANGED <<plan, running, todo, network, broker, published, arrived, faults>>
  BY DEF NoticeLost
<1>2. store' = store
  BY DEF NoticeLost, PstClear
<1>3. CASE Forgotten
  <2>1. ClientTyped'
    BY <1>1, <1>3, ForgottenTyped DEF Typed, ClientTyped, broker
  <2>2. EffectsTyped'
    BY <1>1, EffectsStay DEF Typed
  <2>3. NetworkTyped'
    BY <1>1, NetworkStays DEF Typed
  <2>4. StoreTyped'
    BY <1>1, <1>2, PlanTypes, StoreTypedStays DEF Typed, ClientTyped
  <2>5. QED
    BY <2>1, <2>2, <2>3, <2>4 DEF Typed
<1>4. CASE UNCHANGED memory
  BY <1>1, <1>2, <1>4, OnlyEffects DEF Typed, EffectsTyped
<1>5. QED
  BY <1>3, <1>4 DEF NoticeLost

\* what the broker sends again
LEMMA BrokerPackets ==
  ASSUME Typed
  PROVE  [i \in DOMAIN pending |-> BrokerPacket(pending[i])] \in Seq(Packets(In))
<1>1. pending \in Seq(Exchanges) /\ plan \in Plans
  BY DEF Typed, ClientTyped, NetworkTyped
<1>2. \A m \in Exchanges : BrokerPacket(m) \in Packets(In)
  <2>1. SUFFICES ASSUME NEW m \in Exchanges PROVE BrokerPacket(m) \in Packets(In)
    OBVIOUS
  <2>2. m.id \in MsgIds /\ m.n \in In /\ m.n \in Nat /\ m.qos \in {1, 2}
    BY DEF Exchanges, In
  <2>3. m.id \in 0..MaxMsgId /\ m.id # 0
    BY <2>2, MaxMsgIdAssumption DEF MsgIds
  <2>4. plan.relDup \in BOOLEAN
    BY <1>1, PlanTypes
  <2>5. Packet("PUBREL", m.id, 0, 0, plan.relDup) \in Packets(In)
    BY <2>3, <2>4 DEF Packet, Packets
  <2>6. Packet("PUBLISH", m.id, m.n, m.qos, TRUE) \in Packets(In)
    BY <2>2, <2>3 DEF Packet, Packets
  <2>7. QED
    BY <2>5, <2>6 DEF BrokerPacket
<1>3. QED
  BY <1>1, <1>2

LEMMA ConnectTyped ==
  ASSUME Typed, Connect
  PROVE  Typed'
<1> DEFINE again == [i \in DOMAIN pending |-> BrokerPacket(pending[i])]
           resends == Resends(outbound)
           later == <<TryQueue>> \o resends
           none == <<>>
<1>1. /\ connected' = TRUE /\ link' = TRUE
      /\ UNCHANGED <<plan, running, toBroker, sent, received, published, arrived, faults>>
      /\ \/ /\ Forgotten /\ store' = store /\ toClient' = none /\ held' = {} /\ pending' = none
            /\ todo' = none
         \/ /\ toClient' = again /\ todo' = later /\ UNCHANGED memory
            /\ store' = store /\ held' = held /\ pending' = pending
  BY DEF Connect, PstClear
<1>2. again \in Seq(Packets(In))
  BY BrokerPackets
<1>3. later \in Seq(Effects)
  <2>1. resends \in Seq(Effects)
    BY ResendsType DEF Typed, ClientTyped
  <2>2. TryQueue \in Effects
    BY EffectTypes
  <2> HIDE DEF resends
  <2>3. QED
    BY <2>1, <2>2, Joined
<1>4. none \in Seq(Effects) /\ none \in Seq(Packets(In)) /\ none \in Seq(Exchanges)
  OBVIOUS
<1> HIDE DEF again, later, none
<1>5. /\ todo' \in Seq(Effects) /\ toClient' \in Seq(Packets(In)) /\ store' = store
      /\ pending' \in Seq(Exchanges) /\ held' \subseteq MsgIds
  <2>1. pending \in Seq(Exchanges) /\ held \subseteq MsgIds
    BY DEF Typed, NetworkTyped
  <2>2. QED
    BY <1>1, <1>2, <1>3, <1>4, <2>1
<1>6. ClientTyped'
  <2>1. CASE Forgotten
    BY <1>1, <2>1, ForgottenTyped DEF Typed, ClientTyped
  <2>2. CASE UNCHANGED memory
    BY <1>1, <2>2, SameSets DEF Typed, ClientTyped, memory
  <2>3. QED
    BY <1>1, <2>1, <2>2
<1>7. EffectsTyped'
  BY <1>1, <1>5, SameSets DEF EffectsTyped
<1>8. NetworkTyped'
  <2>1. Out' = Out /\ In' = In /\ Exchanges' = Exchanges
    BY <1>1, SameSets
  <2>2. Packets(Out)' = Packets(Out) /\ Packets(In)' = Packets(In)
    BY <2>1 DEF Packets
  <2>3. QED
    BY <1>1, <1>5, <2>1, <2>2 DEF Typed, NetworkTyped
<1>9. StoreTyped'
  BY <1>1, <1>5, PlanTypes, StoreTypedStays DEF Typed, ClientTyped
<1>10. QED
  BY <1>6, <1>7, <1>8, <1>9 DEF Typed

LEMMA BrokenTyped ==
  ASSUME NetworkTyped, plan' = plan, Broken, UNCHANGED <<broker, arrived>>
  PROVE  NetworkTyped'
<1>1. Out' = Out /\ In' = In /\ Exchanges' = Exchanges
  BY SameSets
<1>2. Packets(Out)' = Packets(Out) /\ Packets(In)' = Packets(In)
  BY <1>1 DEF Packets
<1>3. link' \in BOOLEAN /\ toBroker' \in Seq(Packets(Out)) /\ toClient' \in Seq(Packets(In))
  <2>1. link' = FALSE /\ toBroker' = <<>> /\ toClient' = <<>>
    BY DEF Broken
  <2>2. toBroker' \in Seq(Packets(Out))
    BY <2>1
  <2>3. toClient' \in Seq(Packets(In))
    BY <2>1
  <2>4. QED
    BY <2>1, <2>2, <2>3
<1>4. QED
  BY <1>1, <1>2, <1>3 DEF NetworkTyped, broker

LEMMA DropTyped ==
  ASSUME Typed, Drop
  PROVE  Typed'
<1>1. /\ Broken
      /\ UNCHANGED <<plan, running, connected, memory, todo, store, broker, published, arrived>>
  BY DEF Drop
<1>2. NetworkTyped'
  BY <1>1, BrokenTyped DEF Typed
<1>3. ClientTyped'
  BY <1>1, ClientStays DEF Typed, broker
<1>4. EffectsTyped'
  BY <1>1, EffectsStay DEF Typed
<1>5. StoreTyped'
  BY <1>1, PlanTypes, StoreTypedStays DEF Typed, ClientTyped
<1>6. QED
  BY <1>2, <1>3, <1>4, <1>5 DEF Typed

LEMMA EndProcessTyped ==
  ASSUME Typed, EndProcess, StoreTyped'
  PROVE  Typed'
<1>1. /\ running' = FALSE /\ connected' = FALSE /\ Broken /\ Forgotten /\ todo' = <<>>
      /\ UNCHANGED <<plan, broker, published, arrived>>
  BY DEF EndProcess
<1>2. NetworkTyped'
  BY <1>1, BrokenTyped DEF Typed
<1>3. ClientTyped'
  BY <1>1, ForgottenTyped DEF Typed, broker
<1>4. EffectsTyped'
  BY <1>1, SameSets DEF EffectsTyped
<1>5. QED
  BY <1>2, <1>3, <1>4 DEF Typed

LEMMA CrashTyped ==
  ASSUME Typed, Crash, "torn" \notin Faults
  PROVE  Typed' /\ store' = store /\ EndProcess
<1>1. EndProcess /\ store' = store
  BY DEF Crash
<1>2. plan' = plan /\ published' = published
  BY <1>1 DEF EndProcess
<1>3. StoreTyped'
  BY <1>1, <1>2, PlanTypes, StoreTypedStays DEF Typed, ClientTyped
<1>4. QED
  BY <1>1, <1>3, EndProcessTyped

\* the directory itself may go, when it is empty
LEMMA DestroyTyped ==
  ASSUME Typed, Destroy
  PROVE  Typed' /\ store'.files = store.files /\ EndProcess /\ Idle
<1>1. EndProcess /\ store' = PstClose(store) /\ Idle
  BY DEF Destroy
<1>2. IsDirectory(store)
  BY DEF Typed, StoreTyped
<1>3. store'.files = store.files /\ IsDirectory(store')
  BY <1>1, <1>2 DEF PstClose, IsDirectory, Directory
<1>4. StoreTyped'
  BY <1>1, <1>3, StoreShrinks DEF EndProcess
<1>5. QED
  BY <1>1, <1>3, <1>4, EndProcessTyped

LEMMA RestartStore ==
  ASSUME Typed, NEW keys \in PstKeys(store), store' = PstOpen(RestoredStore(store, keys))
  PROVE  /\ IsDirectory(store') /\ DOMAIN store'.files \subseteq DOMAIN store.files
         /\ \A k \in DOMAIN store'.files : store'.files[k] = store.files[k]
         /\ \A k \in DOMAIN store.files :
              k \in DOMAIN store'.files \/ (k[1] = "sc-" /\ SentKey(k[2]) \notin DOMAIN store.files)
         /\ \A k \in DOMAIN store'.files : k[1] = "sc-" => SentKey(k[2]) \in DOMAIN store.files
<1> DEFINE D == DOMAIN store.files
           gone == {k \in D : k[1] = "sc-" /\ SentKey(k[2]) \notin D}
<1>1. Lists(keys, D) /\ Discarded(store, keys) = gone
  BY Restoring DEF Typed
<1>2. ToSet(keys) = D
  BY <1>1 DEF Lists, ToSet
<1>3. IsDirectory(store)
  BY DEF Typed, StoreTyped
<1> HIDE DEF gone
<1>4. store'.files = Restrict(store.files, D \ gone) /\ IsDirectory(store')
  BY <1>1, <1>2, <1>3 DEF PstOpen, RestoredStore, IsDirectory, Directory
<1>5. DOMAIN store'.files = D \ gone /\ \A k \in D \ gone : store'.files[k] = store.files[k]
  BY <1>4 DEF Restrict
<1>6. QED
  BY <1>4, <1>5 DEF gone

LEMMA RestartTyped ==
  ASSUME Typed, Restart
  PROVE  Typed'
<1>1. PICK keys \in PstKeys(store) :
       /\ commands' = RestoreCommands(store, keys)
       /\ store' = PstOpen(RestoredStore(store, keys))
       /\ inbound' = RestoredInbound(store, keys)
       /\ outbound' = RestoredOutbound(store, keys)
       /\ messageQueue' = RestoreMessageQueue(store, keys)
       /\ qentrySeqno' = IF messageQueue' = <<>> THEN 0 ELSE Last(messageQueue').seqno
  BY DEF Restart
<1>2. /\ running' = TRUE /\ msgID' = 0 /\ responses' = {}
      /\ UNCHANGED <<plan, connected, todo, network, broker, published, arrived, faults>>
  BY DEF Restart
<1>3. StoreTyped
  BY DEF Typed
<1>4. commands' \in Seq(CommandContents) /\ \A i \in DOMAIN commands' : commands'[i].n <= published
  BY <1>1, <1>3, CommandsRestored
<1>5. inbound' \in Seq(InMessages)
  BY <1>1, <1>3, InboundRestored
<1>6. outbound' \in Seq(OutMessages)
  BY <1>1, <1>3, OutboundRestored
<1>7. messageQueue' \in Seq(Entries)
  BY <1>1, <1>3, QueueRestored
<1>8. qentrySeqno' \in Nat
  <2>1. CASE messageQueue' = <<>>
    BY <1>1, <2>1
  <2>2. CASE messageQueue' # <<>>
    <3>1. Len(messageQueue') \in DOMAIN messageQueue'
      BY <1>7, <2>2
    <3>2. messageQueue'[Len(messageQueue')] \in Entries
      BY <1>7, <3>1
    <3>3. messageQueue'[Len(messageQueue')].seqno \in Nat
      BY <3>2 DEF Entries
    <3>4. QED
      BY <1>1, <2>2, <3>3 DEF Last
  <2>3. QED
    BY <2>1, <2>2
<1>9. ClientTyped'
  BY <1>2, <1>4, <1>5, <1>6, <1>7, <1>8, MaxMsgIdAssumption, SameSets
  DEF Typed, ClientTyped, broker
<1>10. EffectsTyped'
  BY <1>2, EffectsStay DEF Typed
<1>11. NetworkTyped'
  BY <1>2, NetworkStays DEF Typed
<1>12. StoreTyped'
  BY <1>1, <1>2, RestartStore, StoreShrinks
<1>13. QED
  BY <1>9, <1>10, <1>11, <1>12 DEF Typed

-----------------------------------------------------------------------------
(* Types: the broker                                                        *)

LEMMA BrokerTyped ==
  ASSUME Typed, UNCHANGED <<plan, running, connected, memory, todo, store, link, published, arrived>>,
         sent' \in 0..Len(plan.in), toBroker' \in Seq(Packets(Out)), toClient' \in Seq(Packets(In)),
         held' \subseteq MsgIds, pending' \in Seq(Exchanges), received' \in Seq(Out)
  PROVE  Typed'
<1>1. ClientTyped'
  BY SameSets DEF Typed, ClientTyped, memory
<1>2. EffectsTyped'
  BY EffectsStay DEF Typed
<1>3. NetworkTyped'
  <2>1. Out' = Out /\ In' = In /\ Exchanges' = Exchanges
    BY SameSets
  <2>2. Packets(Out)' = Packets(Out) /\ Packets(In)' = Packets(In)
    BY <2>1 DEF Packets
  <2>3. QED
    BY <2>1, <2>2 DEF Typed, NetworkTyped
<1>4. StoreTyped'
  BY PlanTypes, StoreTypedStays DEF Typed, ClientTyped
<1>5. QED
  BY <1>1, <1>2, <1>3, <1>4 DEF Typed

LEMMA NetworkTypes ==
  ASSUME Typed
  PROVE  /\ toBroker \in Seq(Packets(Out)) /\ toClient \in Seq(Packets(In))
         /\ held \subseteq MsgIds /\ pending \in Seq(Exchanges) /\ received \in Seq(Out)
         /\ sent \in 0..Len(plan.in)
  BY DEF Typed, NetworkTyped, ClientTyped

LEMMA PacketSent ==
  ASSUME Typed, toBroker # <<>>
  PROVE  LET p == Head(toBroker)
         IN  /\ Tail(toBroker) \in Seq(Packets(Out))
             /\ p.type = "PUBLISH" => /\ p.n \in Out /\ p.qos \in 0..2
                                      /\ p.qos # 0 => p.id \in MsgIds
             /\ p.type # "PUBLISH" => p.id \in MsgIds
<1> DEFINE p == Head(toBroker)
<1>1. p \in Packets(Out) /\ Tail(toBroker) \in Seq(Packets(Out))
  BY Heads, NetworkTypes
<1> HIDE DEF p
<1>2. /\ p.type = "PUBLISH" => p.n \in Out /\ (p.qos # 0 => p.id # 0)
      /\ p.qos \in 0..2 /\ p.id \in 0..MaxMsgId
      /\ p.type # "PUBLISH" => p.id # 0
  BY <1>1 DEF Packets
<1>3. p.id # 0 => p.id \in MsgIds
  BY <1>2, MaxMsgIdAssumption DEF MsgIds
<1>4. QED
  BY <1>1, <1>2, <1>3 DEF p

LEMMA BrokerPublishTyped ==
  ASSUME Typed, BrokerPublish
  PROVE  Typed'
<1> DEFINE p == Head(toBroker)
           a == Ack(AnswerTo(p.qos), p.id)
           one == <<a>>
           none == <<>>
<1>1. /\ toBroker # <<>> /\ p.type = "PUBLISH"
      /\ received' = Append(received, p.n) \/ received' = received
      /\ held' = (IF p.qos = 2 THEN held \cup {p.id} ELSE held)
      /\ toBroker' = Tail(toBroker)
      /\ (p.qos = 0 /\ toClient' = toClient \o none) \/ (p.qos # 0 /\ toClient' = toClient \o one)
      /\ pending' = pending
      /\ UNCHANGED <<plan, running, connected, memory, todo, store, link, sent, published, arrived>>
  BY DEF BrokerPublish, BrokerReads, BrokerAnswers
<1>2. /\ p.n \in Out /\ p.qos \in 0..2 /\ (p.qos # 0 => p.id \in MsgIds)
      /\ toBroker' \in Seq(Packets(Out))
  BY <1>1, PacketSent
<1> HIDE DEF p
<1>3. p.qos # 0 => one \in Seq(Packets(In))
  <2>1. p.qos # 0 => AnswerTo(p.qos) \in Answers \cup {"PUBREL"}
    BY DEF AnswerTo, Answers
  <2>2. p.qos # 0 => a \in Packets(In)
    BY <1>2, <2>1, PacketTypes
  <2> HIDE DEF a
  <2>3. QED
    BY <2>2
<1>4. none \in Seq(Packets(In))
  OBVIOUS
<1> HIDE DEF one, none
<1>5. toClient' \in Seq(Packets(In))
  <2>1. toClient \in Seq(Packets(In))
    BY NetworkTypes
  <2>2. p.qos # 0 => toClient \o one \in Seq(Packets(In))
    BY <1>3, <2>1
  <2>3. toClient \o none \in Seq(Packets(In))
    BY <1>4, <2>1
  <2>4. QED
    BY <1>1, <2>2, <2>3
<1>6. received' \in Seq(Out) /\ held' \subseteq MsgIds
  <2>1. received \in Seq(Out) /\ held \subseteq MsgIds
    BY NetworkTypes
  <2>2. Append(received, p.n) \in Seq(Out)
    BY <1>2, <2>1
  <2>3. received' \in Seq(Out)
    BY <1>1, <2>1, <2>2
  <2>4. p.qos = 2 => p.id \in MsgIds
    BY <1>2
  <2>5. QED
    BY <1>1, <2>1, <2>3, <2>4
<1>7. QED
  BY <1>1, <1>2, <1>5, <1>6, NetworkTypes, BrokerTyped

LEMMA BrokerPubrelTyped ==
  ASSUME Typed, BrokerPubrel
  PROVE  Typed'
<1> DEFINE p == Head(toBroker)
           a == Ack("PUBCOMP", p.id)
           one == <<a>>
<1>1. /\ toBroker # <<>> /\ p.type # "PUBLISH"
      /\ held' = held \ {p.id} /\ toBroker' = Tail(toBroker) /\ toClient' = toClient \o one
      /\ UNCHANGED <<received, pending>>
      /\ UNCHANGED <<plan, running, connected, memory, todo, store, link, sent, published, arrived>>
  BY DEF BrokerPubrel, BrokerReads, BrokerAnswers
<1>2. p.id \in MsgIds /\ toBroker' \in Seq(Packets(Out))
  BY <1>1, PacketSent
<1> HIDE DEF p
<1>3. one \in Seq(Packets(In))
  <2>1. a \in Packets(In)
    BY <1>2, PacketTypes DEF Answers
  <2> HIDE DEF a
  <2>2. QED
    BY <2>1
<1> HIDE DEF one
<1>4. toClient' \in Seq(Packets(In)) /\ held' \subseteq MsgIds
  BY <1>1, <1>3, NetworkTypes
<1>5. QED
  BY <1>1, <1>2, <1>4, NetworkTypes, BrokerTyped

LEMMA BrokerAckTyped ==
  ASSUME Typed, BrokerAck
  PROVE  Typed'
<1> DEFINE p == Head(toBroker)
           i == Found(pending, p.id)
           a == Packet("PUBREL", p.id, 0, 0, FALSE)
           one == <<a>>
           none == <<>>
           after == [pending EXCEPT ![i].next = "PUBCOMP"]
<1>1. /\ toBroker # <<>> /\ p.type # "PUBLISH"
      /\ toBroker' = Tail(toBroker)
      /\ toClient' = toClient \o one \/ toClient' = toClient \o none
      /\ \/ pending' = pending
         \/ i # 0 /\ pending' = after
         \/ i # 0 /\ pending' = RemoveAt(pending, i)
      /\ UNCHANGED <<received, held>>
      /\ UNCHANGED <<plan, running, connected, memory, todo, store, link, sent, published, arrived>>
  BY DEF BrokerAck, BrokerReads, BrokerAnswers
<1>2. p.id \in MsgIds /\ toBroker' \in Seq(Packets(Out))
  BY <1>1, PacketSent
<1>3. i \in 0..Len(pending) /\ pending \in Seq(Exchanges)
  BY FoundProperties, NetworkTypes
<1> HIDE DEF p, i
<1>4. one \in Seq(Packets(In)) /\ none \in Seq(Packets(In))
  <2>1. a \in Packets(In)
    <3>1. p.id \in 0..MaxMsgId /\ p.id # 0
      BY <1>2, MaxMsgIdAssumption DEF MsgIds
    <3>2. QED
      BY <3>1 DEF Packet, Packets
  <2> HIDE DEF a
  <2>2. QED
    BY <2>1
<1>5. i # 0 => after \in Seq(Exchanges)
  <2> DEFINE m == [pending[i] EXCEPT !.next = "PUBCOMP"]
  <2>1. i # 0 => pending[i] \in Exchanges
    BY <1>3
  <2>2. i # 0 => m \in Exchanges
    BY <2>1 DEF Exchanges, Answers
  <2>3. after = [pending EXCEPT ![i] = m]
    OBVIOUS
  <2> HIDE DEF m, after
  <2>4. QED
    BY <1>3, <2>2, <2>3
<1>6. i # 0 => RemoveAt(pending, i) \in Seq(Exchanges)
  BY <1>3, RemoveAtProperties
<1> HIDE DEF one, none, after
<1>7. toClient' \in Seq(Packets(In)) /\ pending' \in Seq(Exchanges)
  <2>1. toClient \o one \in Seq(Packets(In)) /\ toClient \o none \in Seq(Packets(In))
    BY <1>4, NetworkTypes
  <2>2. QED
    BY <1>1, <1>3, <1>5, <1>6, <2>1
<1>8. QED
  BY <1>1, <1>2, <1>7, NetworkTypes, BrokerTyped

LEMMA BrokerSendTyped ==
  ASSUME Typed, BrokerSend
  PROVE  Typed'
<1> DEFINE n == sent + 1
           qos == plan.in[n]
           Free(i) == Found(pending, i) = 0
           id == CHOOSE i \in MsgIds : Found(pending, i) = 0 /\ \A j \in 1..(i - 1) : Found(pending, j) # 0
           m == [id |-> id, n |-> n, qos |-> qos, next |-> AnswerTo(qos)]
           more == Append(toClient, PubPacket(m, FALSE))
           longer == Append(pending, m)
<1>1. /\ n \in In /\ sent' = n /\ \E i \in MsgIds : Free(i)
      /\ pending' = (IF qos = 0 THEN pending ELSE longer)
      /\ toClient' = more \/ toClient' = toClient
      /\ UNCHANGED <<plan, running, connected, memory, todo, store, link, toBroker, held,
                     received, published, arrived, faults>>
  BY DEF BrokerSend
<1>2. id \in MsgIds
  <2> DEFINE T == {i \in Nat : i \in MsgIds /\ Free(i)}
  <2>1. T # {} /\ T \subseteq Nat
    BY <1>1, KeyTypes
  <2>2. PICK i \in T : \A j \in T : i <= j
    <3> HIDE DEF T
    <3>1. QED
      BY <2>1, LeastNumber
  <2>3. i \in MsgIds /\ Free(i) /\ i \in Nat
    BY <2>2
  <2>4. \A j \in 1..(i - 1) : ~Free(j)
    <3>1. SUFFICES ASSUME NEW j \in 1..(i - 1), Free(j) PROVE FALSE
      OBVIOUS
    <3> HIDE DEF Free
    <3>2. j \in MsgIds /\ j \in Nat /\ ~(i <= j)
      BY <2>3, MaxMsgIdAssumption DEF MsgIds
    <3>3. j \in T
      BY <3>1, <3>2
    <3>4. QED
      BY <2>2, <3>2, <3>3
  <2>5. QED
    BY <2>3, <2>4
<1>3. n \in Nat /\ qos \in 0..2 /\ n \in 0..Len(plan.in)
  BY <1>1, PlanTypes DEF Typed, ClientTyped, In
<1> HIDE DEF id, qos, n
<1>4. /\ m.id = id /\ m.n = n /\ m.qos = qos
      /\ id \in 0..MaxMsgId /\ id # 0
  BY <1>2, MaxMsgIdAssumption DEF MsgIds
<1>5. qos # 0 => m \in Exchanges
  <2>1. AnswerTo(qos) \in Answers
    BY DEF AnswerTo, Answers
  <2>2. QED
    BY <1>1, <1>2, <1>3, <2>1 DEF Exchanges
<1>6. PubPacket(m, FALSE) \in Packets(In)
  <2> HIDE DEF m
  <2>1. FALSE \in BOOLEAN /\ m.id \in 0..MaxMsgId /\ m.qos \in 0..2 /\ (m.qos # 0 => m.id # 0)
        /\ m.n \in Nat /\ m.n \in In
    BY <1>1, <1>3, <1>4
  <2>2. QED
    BY <2>1, PacketTypes
<1> HIDE DEF m
<1>7. more \in Seq(Packets(In)) /\ (qos # 0 => longer \in Seq(Exchanges))
  <2> DEFINE x == PubPacket(m, FALSE)
  <2>1. toClient \in Seq(Packets(In)) /\ pending \in Seq(Exchanges)
    BY NetworkTypes
  <2>2. more = Append(toClient, x) /\ x \in Packets(In)
    BY <1>6
  <2> HIDE DEF x, more
  <2>3. more \in Seq(Packets(In))
    BY <2>1, <2>2
  <2>4. qos # 0 => longer \in Seq(Exchanges)
    BY <1>5, <2>1
  <2>5. QED
    BY <2>3, <2>4
<1> HIDE DEF more, longer
<1>8. toClient' \in Seq(Packets(In)) /\ pending' \in Seq(Exchanges)
  BY <1>1, <1>7, NetworkTypes
<1>9. QED
  BY <1>1, <1>3, <1>8, NetworkTypes, BrokerTyped

-----------------------------------------------------------------------------
(* The session: the effects                                                 *)

LEMMA AtRest ==
  ASSUME Session, todo = <<>>
  PROVE  /\ \A i \in DOMAIN outbound : FileIs(SentKey(outbound[i].id), ContentOf(outbound[i]))
         /\ \A i \in DOMAIN outbound : outbound[i].next = "PUBCOMP" =>
              PubrelKey(outbound[i].id) \in DOMAIN store.files
         /\ \A i \in DOMAIN inbound : FileIs(ReceivedKey(inbound[i].id), ReceivedOf(inbound[i]))
         /\ \A i \in DOMAIN messageQueue :
              FileIs(QueueKey(messageQueue[i].seqno), messageQueue[i].n)
         /\ running /\ ~plan.clean => \A k \in DOMAIN store.files : InMemory(k)
<1>1. (\A k, c : ~HasPut(k, c)) /\ (\A k : ~HasRemove(k))
  BY DEF HasPut, HasRemove
<1>2. QED
  BY <1>1 DEF Session, Saved, OutboundSaved, PubrelsSaved, InboundSaved, QueueSaved, Kept,
              NothingElse

LEMMA AfterHead ==
  ASSUME Typed, todo # <<>>, todo' = Tail(todo)
  PROVE  /\ \A k, c : HasPut(k, c) => \/ HasPut(k, c)'
                                      \/ /\ Head(todo).op = "put" /\ Head(todo).key = k
                                         /\ Head(todo).content = c
         /\ \A k : HasRemove(k) => HasRemove(k)' \/ (Head(todo).op = "remove" /\ Head(todo).key = k)
<1>1. /\ Head(todo) = todo[1]
      /\ \A j \in DOMAIN todo : j # 1 => j - 1 \in DOMAIN todo' /\ todo'[j - 1] = todo[j]
  BY Heads DEF Typed, EffectsTyped
<1>2. ASSUME NEW k, NEW c, HasPut(k, c)
      PROVE  HasPut(k, c)' \/ (Head(todo).op = "put" /\ Head(todo).key = k /\ Head(todo).content = c)
  <2>1. PICK j \in DOMAIN todo : todo[j].op = "put" /\ todo[j].key = k /\ todo[j].content = c
    BY <1>2 DEF HasPut
  <2>2. QED
    BY <1>1, <2>1 DEF HasPut
<1>3. ASSUME NEW k, HasRemove(k)
      PROVE  HasRemove(k)' \/ (Head(todo).op = "remove" /\ Head(todo).key = k)
  <2>1. PICK j \in DOMAIN todo : todo[j].op = "remove" /\ todo[j].key = k
    BY <1>3 DEF HasRemove
  <2>2. QED
    BY <1>1, <2>1 DEF HasRemove
<1>4. QED
  BY <1>2, <1>3

\* the memory alone
Remembered == <<plan, running, connected, commands, outbound, inbound, messageQueue, qentrySeqno>>

LEMMA KnownAfterHead ==
  ASSUME Typed, Session, todo # <<>>, todo' = Tail(todo), UNCHANGED Remembered
  PROVE  PutsKnown' /\ RemovalsKnown'
<1>1. \A j \in DOMAIN todo' : /\ j \in Nat \ {0} /\ j + 1 # 1
                              /\ j + 1 \in DOMAIN todo /\ todo'[j] = todo[j + 1]
  BY Heads DEF Typed, EffectsTyped
<1>2. UNCHANGED <<commands, outbound, inbound, messageQueue, qentrySeqno>>
  BY DEF Remembered
<1>3. ASSUME NEW j \in DOMAIN todo', todo'[j].op = "put"
      PROVE  PutKnown(j)'
  <2>1. PutKnown(j + 1)
    BY <1>1, <1>3 DEF Session, PutsKnown
  <2>2. QED
    BY <1>1, <1>2, <2>1 DEF PutKnown
<1>4. ASSUME NEW j \in DOMAIN todo', todo'[j].op = "remove"
      PROVE  RemovalKnown(j)'
  <2>1. RemovalKnown(j + 1)
    BY <1>1, <1>4 DEF Session, RemovalsKnown
  <2>2. QED
    BY <1>1, <1>2, <2>1 DEF RemovalKnown
<1>5. QED
  BY <1>3, <1>4 DEF PutsKnown, RemovalsKnown

LEMMA MemoryStays ==
  ASSUME Session, UNCHANGED Remembered
  PROVE  Listed' /\ IdsApart' /\ (\A k : InMemory(k) => InMemory(k)')
<1>1. UNCHANGED <<plan, connected, commands, outbound, inbound, messageQueue, qentrySeqno>>
  BY DEF Remembered
<1>2. QED
  BY <1>1 DEF Session, Listed, IdsApart, InMemory

LEMMA WriteSession ==
  ASSUME Typed, Session, Write
  PROVE  Session'
<1>1. /\ todo # <<>> /\ Head(todo).op = "write" /\ todo' = Tail(todo) /\ running
      /\ UNCHANGED Remembered /\ store' = store /\ plan' = plan
  BY DEF Write, Effect, Remembered, memory
<1>2. /\ \A k, c : HasPut(k, c) => HasPut(k, c)'
      /\ \A k : HasRemove(k) => HasRemove(k)'
  BY <1>1, AfterHead
<1>3. \A k, c : Kept(k, c) => Kept(k, c)'
  BY <1>1, <1>2 DEF Kept, FileIs
<1>4. PutsKnown' /\ RemovalsKnown'
  BY <1>1, KnownAfterHead
<1>5. Listed' /\ IdsApart' /\ \A k : InMemory(k) => InMemory(k)'
  BY <1>1, MemoryStays
<1>6. UNCHANGED <<commands, outbound, inbound, messageQueue, running>>
  BY <1>1 DEF Remembered
<1>7. Saved'
  BY <1>1, <1>2, <1>3, <1>6 DEF Session, Saved, CommandsSaved, OutboundSaved, PubrelsSaved,
        InboundSaved, QueueSaved, FileIs
<1>8. NothingElse' /\ FilesApart' /\ PubrelOfQos2' /\ Resting'
  BY <1>1, <1>2, <1>5, <1>6
  DEF Session, NothingElse, FilesApart, HoldsId, PubrelOfQos2, Resting
<1>9. QED
  BY <1>4, <1>5, <1>7, <1>8 DEF Session

LEMMA RemoveKeySession ==
  ASSUME Typed, Session, RemoveKey
  PROVE  Session'
<1> DEFINE key == Head(todo).key
<1>1. /\ todo # <<>> /\ Head(todo).op = "remove" /\ todo' = Tail(todo) /\ running
      /\ store' = PstRemove(store, key)
      /\ UNCHANGED Remembered /\ plan' = plan
  BY DEF RemoveKey, Effect, Remembered, memory
<1>2. /\ \A k, c : HasPut(k, c) => HasPut(k, c)'
      /\ \A k : HasRemove(k) => HasRemove(k)' \/ k = key
  BY <1>1, AfterHead
<1>3. /\ DOMAIN store'.files = DOMAIN store.files \ {key}
      /\ \A k \in DOMAIN store.files : k # key => store'.files[k] = store.files[k]
  BY <1>1, FilesAfterRemove DEF Typed, StoreTyped
<1>4. PutsKnown' /\ RemovalsKnown'
  BY <1>1, KnownAfterHead
<1>5. Listed' /\ IdsApart' /\ \A k : InMemory(k) => InMemory(k)'
  BY <1>1, MemoryStays
<1>6. UNCHANGED <<commands, outbound, inbound, messageQueue, running>>
  BY <1>1 DEF Remembered
<1>7. RemovalKnown(1) /\ todo[1].key = key
  <2>1. Head(todo) = todo[1] /\ 1 \in DOMAIN todo
    BY <1>1, Heads DEF Typed, EffectsTyped
  <2>2. QED
    BY <1>1, <2>1 DEF Session, RemovalsKnown
<1> HIDE DEF key
<1>8. /\ \A i \in DOMAIN commands : CommandKey(commands[i].n) # key
      /\ \A i \in DOMAIN outbound : SentKey(outbound[i].id) # key /\ PubrelKey(outbound[i].id) # key
      /\ \A i \in DOMAIN inbound : ReceivedKey(inbound[i].id) # key
      /\ \A i \in DOMAIN messageQueue : QueueKey(messageQueue[i].seqno) # key
  BY <1>7 DEF RemovalKnown, CommandKey, SentKey, PubrelKey, ReceivedKey, QueueKey
<1>9. \A k, c : k # key => (Kept(k, c) => Kept(k, c)') /\ (FileIs(k, c) => FileIs(k, c)')
  BY <1>2, <1>3 DEF Kept, FileIs
<1>10. Saved'
  <2>1. CommandsSaved' /\ OutboundSaved'
    BY <1>6, <1>8, <1>9 DEF Session, Saved, CommandsSaved, OutboundSaved
  <2>2. InboundSaved' /\ QueueSaved'
    BY <1>6, <1>8, <1>9 DEF Session, Saved, InboundSaved, QueueSaved
  <2>3. PubrelsSaved'
    BY <1>2, <1>3, <1>6, <1>8 DEF Session, Saved, PubrelsSaved
  <2>4. QED
    BY <2>1, <2>2, <2>3 DEF Saved
<1>11. NothingElse'
  BY <1>1, <1>2, <1>3, <1>5, <1>6 DEF Session, NothingElse
<1>12. FilesApart' /\ PubrelOfQos2' /\ Resting'
  BY <1>1, <1>3, <1>6 DEF Session, FilesApart, HoldsId, PubrelOfQos2, Resting
<1>13. QED
  BY <1>4, <1>5, <1>10, <1>11, <1>12 DEF Session

\* which message a put is for
LEMMA PutFirst ==
  ASSUME Typed, Session, todo # <<>>, Head(todo).op = "put"
  PROVE  LET key == Head(todo).key
             c == Head(todo).content
         IN  /\ key \in Keys /\ key[1] # "c-"
             /\ key[1] = "s-" => \E i \in DOMAIN outbound :
                  key = SentKey(outbound[i].id) /\ c = ContentOf(outbound[i])
                  /\ outbound[i].next # "PUBCOMP"
             /\ key[1] = "sc-" => \E i \in DOMAIN outbound :
                  key = PubrelKey(outbound[i].id) /\ c = ContentOf(outbound[i])
                  /\ outbound[i].next = "PUBCOMP"
             /\ key[1] = "r-" => \E i \in DOMAIN inbound :
                  key = ReceivedKey(inbound[i].id) /\ c = ReceivedOf(inbound[i])
             /\ key[1] = "q-" => \E i \in DOMAIN messageQueue :
                  key = QueueKey(messageQueue[i].seqno) /\ c = messageQueue[i].n
             /\ key[1] \in {"s-", "sc-", "r-", "q-"}
<1> DEFINE key == Head(todo).key
           c == Head(todo).content
<1>1. key \in Keys /\ key = <<key[1], key[2]>> /\ Head(todo) = todo[1] /\ 1 \in DOMAIN todo
  BY TodoTyped, EffectCases, StemsOf, Heads DEF Typed, EffectsTyped
<1>2. PutKnown(1) /\ key = todo[1].key /\ c = todo[1].content
  BY <1>1 DEF Session, PutsKnown
<1> HIDE DEF key, c
<1>3. QED
  BY <1>1, <1>2 DEF PutKnown, SentKey, PubrelKey, ReceivedKey, QueueKey, key, c

LEMMA PutSession ==
  ASSUME Typed, Session, Put
  PROVE  Session'
<1> DEFINE key == Head(todo).key
           c == Head(todo).content
<1>1. /\ todo # <<>> /\ Head(todo).op = "put" /\ todo' = Tail(todo) /\ running
      /\ store' = PstPut(store, key, c)
      /\ UNCHANGED Remembered /\ plan' = plan
  BY DEF Put, Effect, Remembered, memory
<1>2. /\ \A k, x : HasPut(k, x) => HasPut(k, x)' \/ (k = key /\ x = c)
      /\ \A k : HasRemove(k) => HasRemove(k)'
  BY <1>1, AfterHead
<1>3. /\ DOMAIN store'.files = DOMAIN store.files \cup {key} /\ store'.files[key] = c
      /\ \A k \in DOMAIN store.files : k # key => store'.files[k] = store.files[k]
  BY <1>1, FilesAfterPut DEF Typed, StoreTyped
<1>4. PutsKnown' /\ RemovalsKnown'
  BY <1>1, KnownAfterHead
<1>5. Listed' /\ IdsApart' /\ \A k : InMemory(k) => InMemory(k)'
  BY <1>1, MemoryStays
<1>6. UNCHANGED <<commands, outbound, inbound, messageQueue, running>>
  BY <1>1 DEF Remembered
<1>7. /\ key \in Keys /\ key[1] # "c-"
      /\ key[1] = "s-" => \E i \in DOMAIN outbound :
           key = SentKey(outbound[i].id) /\ c = ContentOf(outbound[i])
           /\ outbound[i].next # "PUBCOMP"
      /\ key[1] = "sc-" => \E i \in DOMAIN outbound :
           key = PubrelKey(outbound[i].id) /\ c = ContentOf(outbound[i])
           /\ outbound[i].next = "PUBCOMP"
      /\ key[1] = "r-" => \E i \in DOMAIN inbound :
           key = ReceivedKey(inbound[i].id) /\ c = ReceivedOf(inbound[i])
      /\ key[1] = "q-" => \E i \in DOMAIN messageQueue :
           key = QueueKey(messageQueue[i].seqno) /\ c = messageQueue[i].n
      /\ key[1] \in {"s-", "sc-", "r-", "q-"}
  BY <1>1, PutFirst
<1> HIDE DEF key, c
<1>8. /\ \A i \in DOMAIN commands : CommandKey(commands[i].n) # key
      /\ \A i \in DOMAIN outbound : SentKey(outbound[i].id) = key => c = ContentOf(outbound[i])
      /\ \A i \in DOMAIN inbound : ReceivedKey(inbound[i].id) = key => c = ReceivedOf(inbound[i])
      /\ \A i \in DOMAIN messageQueue :
           QueueKey(messageQueue[i].seqno) = key => c = messageQueue[i].n
  <2>1. \A i \in DOMAIN commands : CommandKey(commands[i].n) # key
    BY <1>7 DEF CommandKey
  <2>2. ASSUME NEW i \in DOMAIN outbound, SentKey(outbound[i].id) = key
        PROVE  c = ContentOf(outbound[i])
    <3>1. key[1] = "s-"
      BY <2>2 DEF SentKey
    <3>2. PICK l \in DOMAIN outbound : key = SentKey(outbound[l].id) /\ c = ContentOf(outbound[l])
      BY <1>7, <3>1
    <3>3. outbound[i].id = outbound[l].id
      BY <2>2, <3>2 DEF SentKey
    <3>4. QED
      BY <3>2, <3>3 DEF Session, Listed
  <2>3. ASSUME NEW i \in DOMAIN inbound, ReceivedKey(inbound[i].id) = key
        PROVE  c = ReceivedOf(inbound[i])
    <3>1. key[1] = "r-"
      BY <2>3 DEF ReceivedKey
    <3>2. PICK l \in DOMAIN inbound : key = ReceivedKey(inbound[l].id) /\ c = ReceivedOf(inbound[l])
      BY <1>7, <3>1
    <3>3. inbound[i].id = inbound[l].id
      BY <2>3, <3>2 DEF ReceivedKey
    <3>4. QED
      BY <3>2, <3>3 DEF Session, Listed
  <2>4. ASSUME NEW i \in DOMAIN messageQueue, QueueKey(messageQueue[i].seqno) = key
        PROVE  c = messageQueue[i].n
    <3>1. key[1] = "q-"
      BY <2>4 DEF QueueKey
    <3>2. PICK l \in DOMAIN messageQueue :
            key = QueueKey(messageQueue[l].seqno) /\ c = messageQueue[l].n
      BY <1>7, <3>1
    <3>3. messageQueue[i].seqno = messageQueue[l].seqno
      BY <2>4, <3>2 DEF QueueKey
    <3>4. i = l
      <4>1. /\ i \in Nat /\ l \in Nat /\ messageQueue[i].seqno \in Nat /\ messageQueue[l].seqno \in Nat
            /\ i < l => messageQueue[i].seqno < messageQueue[l].seqno
            /\ l < i => messageQueue[l].seqno < messageQueue[i].seqno
        <5>1. messageQueue[i] \in Entries /\ messageQueue[l] \in Entries /\ i \in Nat /\ l \in Nat
          BY DEF Typed, ClientTyped
        <5>2. messageQueue[i].seqno \in Nat /\ messageQueue[l].seqno \in Nat
          BY <5>1 DEF Entries
        <5>3. QED
          BY <5>1, <5>2 DEF Session, Listed
      <4>2. QED
        BY <3>3, <4>1
    <3>5. QED
      BY <3>2, <3>4
  <2>5. QED
    BY <2>1, <2>2, <2>3, <2>4
<1>9. \A k, x : (k = key => x = c) => (Kept(k, x) => Kept(k, x)') /\ (FileIs(k, x) => FileIs(k, x)')
  BY <1>2, <1>3 DEF Kept, FileIs
<1>10. Saved'
  <2>1. CommandsSaved'
    BY <1>6, <1>8, <1>9 DEF Session, Saved, CommandsSaved
  <2>2. OutboundSaved'
    BY <1>6, <1>8, <1>9 DEF Session, Saved, OutboundSaved
  <2>3. InboundSaved'
    BY <1>6, <1>8, <1>9 DEF Session, Saved, InboundSaved
  <2>4. QueueSaved'
    BY <1>6, <1>8, <1>9 DEF Session, Saved, QueueSaved
  <2>5. PubrelsSaved'
    BY <1>2, <1>3, <1>6 DEF Session, Saved, PubrelsSaved
  <2>6. QED
    BY <2>1, <2>2, <2>3, <2>4, <2>5 DEF Saved
<1>11. InMemory(key)
  BY <1>7 DEF InMemory, SentKey, PubrelKey, ReceivedKey, QueueKey
<1>12. NothingElse'
  BY <1>1, <1>2, <1>3, <1>5, <1>6, <1>11 DEF Session, NothingElse
<1>13. Resting'
  BY <1>1, <1>6 DEF Resting
<1>14. ASSUME key[1] = "s-", ~plan.clean, NEW k, HoldsId(k), k # key,
              store.files[k].id # 0
       PROVE  store.files[k].id # c.id
  <2>1. PICK i \in DOMAIN outbound : key = SentKey(outbound[i].id) /\ c = ContentOf(outbound[i])
    BY <1>7, <1>14
  <2>2. c.id = outbound[i].id
    BY <2>1 DEF ContentOf
  <2>3. k \in Keys /\ k = <<k[1], k[2]>> /\ FileOK(k, store.files[k]) /\ k \in DOMAIN store.files
    BY <1>14, StemsOf DEF HoldsId, Typed, StoreTyped
  <2>4. CASE k[1] = "s-"
    <3>1. store.files[k].id = k[2]
      BY <2>3, <2>4 DEF FileOK
    <3>2. QED
      BY <1>14, <2>1, <2>2, <2>3, <2>4, <3>1 DEF SentKey
  <2>5. CASE k[1] = "c-"
    <3>1. ~HasRemove(k)
      <4>1. SUFFICES ASSUME HasRemove(k) PROVE FALSE
        OBVIOUS
      <4>2. PICK j \in DOMAIN todo : todo[j].op = "remove" /\ todo[j].key = k
        BY <4>1 DEF HasRemove
      <4>3. RemovalKnown(j)
        BY <4>2 DEF Session, RemovalsKnown
      <4>4. j = 1
        BY <2>5, <4>2, <4>3 DEF RemovalKnown
      <4>5. todo[1].op = "put"
        BY <1>1, Heads DEF Typed, EffectsTyped
      <4>6. QED
        BY <4>2, <4>4, <4>5
    <3>2. InMemory(k)
      BY <1>1, <1>14, <2>3, <3>1 DEF Session, NothingElse
    <3>3. PICK l \in DOMAIN commands : k[2] = commands[l].n
      BY <2>5, <3>2 DEF InMemory
    <3>4. k = CommandKey(commands[l].n)
      BY <2>3, <2>5, <3>3 DEF CommandKey
    <3>5. store.files[k] = commands[l]
      BY <3>4 DEF Session, Saved, CommandsSaved, FileIs
    <3>6. commands[l].id # outbound[i].id
      BY <1>14 DEF Session, IdsApart
    <3>7. QED
      BY <2>2, <3>5, <3>6
  <2>6. QED
    BY <1>14, <2>4, <2>5 DEF HoldsId
<1>15. FilesApart'
  <2>1. SUFFICES ASSUME ~plan.clean, NEW k, NEW l, NEW x, NEW y,
                        HoldsId(k)', HoldsId(l)', x = store'.files[k], y = store'.files[l],
                        x.id = y.id, x.id # 0
                 PROVE  k = l
    BY <1>1 DEF FilesApart
  <2>2. /\ k # key => HoldsId(k) /\ x = store.files[k]
        /\ l # key => HoldsId(l) /\ y = store.files[l]
        /\ k = key => x = c /\ key[1] = "s-"
        /\ l = key => y = c /\ key[1] = "s-"
    BY <1>3, <1>7, <2>1 DEF HoldsId
  <2>3. CASE k # key /\ l # key
    BY <2>1, <2>2, <2>3 DEF Session, FilesApart
  <2>4. CASE k = key /\ l # key
    BY <1>14, <2>1, <2>2, <2>4
  <2>5. CASE k # key /\ l = key
    BY <1>14, <2>1, <2>2, <2>5
  <2>6. QED
    BY <2>3, <2>4, <2>5
<1>16. PubrelOfQos2'
  <2>1. SUFFICES ASSUME ~plan.clean, NEW id, PubrelKey(id) \in DOMAIN store'.files,
                        SentKey(id) \in DOMAIN store'.files, NEW x, x = store'.files[SentKey(id)]
                 PROVE  x.qos = 2
    BY <1>1 DEF PubrelOfQos2
  <2>2. \A i \in DOMAIN outbound : outbound[i] \in OutMessages
    BY DEF Typed, ClientTyped
  <2>3. CASE key = SentKey(id)
    <3>1. key[1] = "s-"
      BY <2>3 DEF SentKey
    <3>2. PICK i \in DOMAIN outbound : /\ key = SentKey(outbound[i].id) /\ c = ContentOf(outbound[i])
                                       /\ outbound[i].next # "PUBCOMP"
      BY <1>7, <3>1
    <3>3. outbound[i].id = id /\ x = c
      BY <1>3, <2>1, <2>3, <3>2 DEF SentKey
    <3>4. PubrelKey(id) \in DOMAIN store.files
      BY <1>3, <2>1, <2>3 DEF PubrelKey, SentKey
    <3>5. ~HasRemove(PubrelKey(id))
      <4>1. SUFFICES ASSUME HasRemove(PubrelKey(id)) PROVE FALSE
        OBVIOUS
      <4>2. PICK j \in DOMAIN todo : todo[j].op = "remove" /\ todo[j].key = PubrelKey(id)
        BY <4>1 DEF HasRemove
      <4>3. RemovalKnown(j)
        BY <4>2 DEF Session, RemovalsKnown
      <4>4. QED
        BY <3>3, <4>2, <4>3 DEF RemovalKnown, PubrelKey
    <3>6. InMemory(PubrelKey(id))
      BY <1>1, <2>1, <3>4, <3>5 DEF Session, NothingElse
    <3>7. PICK l \in DOMAIN outbound : outbound[l].id = id /\ outbound[l].next = "PUBCOMP"
      BY <3>6 DEF InMemory, PubrelKey
    <3>8. QED
      BY <3>2, <3>3, <3>7 DEF Session, Listed
  <2>4. CASE key # SentKey(id) /\ key = PubrelKey(id)
    <3>1. key[1] = "sc-"
      BY <2>4 DEF PubrelKey
    <3>2. PICK i \in DOMAIN outbound : key = PubrelKey(outbound[i].id) /\ outbound[i].next = "PUBCOMP"
      BY <1>7, <3>1
    <3>3. outbound[i].id = id
      BY <2>4, <3>2 DEF PubrelKey
    <3>4. outbound[i].qos = 2
      BY <2>2, <3>2 DEF OutMessages
    <3>5. Kept(SentKey(id), ContentOf(outbound[i]))
      BY <3>3 DEF Session, Saved, OutboundSaved
    <3>6. SentKey(id) \in DOMAIN store.files /\ x = store.files[SentKey(id)]
      BY <1>3, <2>1, <2>4
    <3>7. ~HasPut(SentKey(id), ContentOf(outbound[i]))
      <4>1. SUFFICES ASSUME HasPut(SentKey(id), ContentOf(outbound[i])) PROVE FALSE
        OBVIOUS
      <4>2. PICK j \in DOMAIN todo : todo[j].op = "put" /\ todo[j].key = SentKey(id)
        BY <4>1 DEF HasPut
      <4>3. PutKnown(j)
        BY <4>2 DEF Session, PutsKnown
      <4>4. PICK l \in DOMAIN outbound : outbound[l].id = id /\ outbound[l].next # "PUBCOMP"
        BY <4>2, <4>3 DEF PutKnown, SentKey
      <4>5. QED
        BY <3>2, <3>3, <4>4 DEF Session, Listed
    <3>8. x = ContentOf(outbound[i])
      BY <3>5, <3>6, <3>7 DEF Kept, FileIs
    <3>9. QED
      BY <3>4, <3>8 DEF ContentOf
  <2>5. CASE key # SentKey(id) /\ key # PubrelKey(id)
    BY <1>3, <2>1, <2>5 DEF Session, PubrelOfQos2
  <2>6. QED
    BY <2>3, <2>4, <2>5
<1>17. QED
  BY <1>4, <1>5, <1>10, <1>12, <1>13, <1>15, <1>16 DEF Session

\* an effect takes the place of the one that is carried out
LEMMA AfterReplaced ==
  ASSUME Typed, todo # <<>>, Head(todo).op \notin {"put", "remove"},
         NEW e \in Effects, todo' = <<e>> \o Tail(todo)
  PROVE  /\ 1 \in DOMAIN todo' /\ todo'[1] = e
         /\ \A j \in DOMAIN todo' : j # 1 => j \in DOMAIN todo /\ todo'[j] = todo[j]
         /\ \A k, c : HasPut(k, c) => HasPut(k, c)'
         /\ \A k : HasRemove(k) => HasRemove(k)'
<1> DEFINE rest == Tail(todo)
<1>1. /\ rest \in Seq(Effects) /\ Head(todo) = todo[1] /\ 1 \in DOMAIN todo
      /\ \A j \in DOMAIN rest : j \in Nat /\ j + 1 \in DOMAIN todo /\ rest[j] = todo[j + 1]
      /\ \A j \in DOMAIN todo : j \in Nat /\ (j # 1 => j - 1 \in DOMAIN rest /\ rest[j - 1] = todo[j])
  BY Heads DEF Typed, EffectsTyped
<1>2. todo' = <<e>> \o rest
  OBVIOUS
<1> HIDE DEF rest
<1>3. /\ 1 \in DOMAIN todo' /\ todo'[1] = e
      /\ \A j \in DOMAIN rest : j + 1 \in DOMAIN todo' /\ todo'[j + 1] = rest[j]
      /\ \A j \in DOMAIN todo' : j \in Nat /\ (j # 1 => j - 1 \in DOMAIN rest /\ todo'[j] = rest[j - 1])
  BY <1>1, <1>2, Joined
<1>4. \A j \in DOMAIN todo' : j # 1 => j \in DOMAIN todo /\ todo'[j] = todo[j]
  BY <1>1, <1>3
<1>5. ASSUME NEW j \in DOMAIN todo, j # 1
      PROVE  j \in DOMAIN todo' /\ todo'[j] = todo[j]
  <2>1. j \in Nat /\ (j - 1) + 1 = j /\ j - 1 \in DOMAIN rest /\ rest[j - 1] = todo[j]
    BY <1>1, <1>5
  <2>2. (j - 1) + 1 \in DOMAIN todo' /\ todo'[(j - 1) + 1] = rest[j - 1]
    BY <1>3, <2>1
  <2>3. QED
    BY <2>1, <2>2
<1>6. ASSUME NEW k, NEW c, HasPut(k, c) PROVE HasPut(k, c)'
  <2>1. PICK j \in DOMAIN todo : todo[j].op = "put" /\ todo[j].key = k /\ todo[j].content = c
    BY <1>6 DEF HasPut
  <2>2. QED
    BY <1>1, <1>5, <2>1 DEF HasPut
<1>7. ASSUME NEW k, HasRemove(k) PROVE HasRemove(k)'
  <2>1. PICK j \in DOMAIN todo : todo[j].op = "remove" /\ todo[j].key = k
    BY <1>7 DEF HasRemove
  <2>2. QED
    BY <1>1, <1>5, <2>1 DEF HasRemove
<1>8. QED
  BY <1>3, <1>4, <1>6, <1>7

\* the effect is over and nothing else changes
LEMMA HeadDone ==
  ASSUME Typed, Session, todo # <<>>, Head(todo).op \notin {"put", "remove"}, todo' = Tail(todo),
         running, UNCHANGED Remembered, store' = store
  PROVE  Session'
<1>1. /\ \A k, c : HasPut(k, c) => HasPut(k, c)'
      /\ \A k : HasRemove(k) => HasRemove(k)'
  BY AfterHead
<1>2. \A k, c : Kept(k, c) => Kept(k, c)'
  BY <1>1 DEF Kept, FileIs
<1>3. PutsKnown' /\ RemovalsKnown'
  BY KnownAfterHead
<1>4. Listed' /\ IdsApart' /\ \A k : InMemory(k) => InMemory(k)'
  BY MemoryStays
<1>5. UNCHANGED <<plan, commands, outbound, inbound, messageQueue, running>>
  BY DEF Remembered
<1>6. Saved'
  BY <1>1, <1>2, <1>5 DEF Session, Saved, CommandsSaved, OutboundSaved, PubrelsSaved,
        InboundSaved, QueueSaved, FileIs
<1>7. NothingElse' /\ FilesApart' /\ PubrelOfQos2' /\ Resting'
  BY <1>1, <1>4, <1>5 DEF Session, NothingElse, FilesApart, HoldsId, PubrelOfQos2, Resting
<1>8. QED
  BY <1>3, <1>4, <1>6, <1>7 DEF Session

LEMMA QueueTypes ==
  ASSUME Typed
  PROVE  /\ messageQueue \in Seq(Entries) /\ qentrySeqno \in Nat
         /\ \A i \in DOMAIN messageQueue : i \in Nat /\ messageQueue[i].seqno \in Nat
<1>1. messageQueue \in Seq(Entries) /\ qentrySeqno \in Nat
  BY DEF Typed, ClientTyped
<1>2. \A i \in DOMAIN messageQueue : i \in Nat /\ messageQueue[i] \in Entries
  BY <1>1
<1>3. QED
  BY <1>1, <1>2 DEF Entries

LEMMA DeliverSession ==
  ASSUME Typed, Session, Deliver
  PROVE  Session'
<1> DEFINE n == Head(todo).n
           q == qentrySeqno + 1
           entry == [seqno |-> q, n |-> n]
           put == PutOf(QueueKey(q), n)
<1>1. /\ todo # <<>> /\ Head(todo).op = "deliver" /\ running
      /\ \/ todo' = Tail(todo) /\ messageQueue' = messageQueue /\ qentrySeqno' = qentrySeqno
         \/ /\ qentrySeqno' = q /\ messageQueue' = Append(messageQueue, entry)
            /\ todo' = <<put>> \o Tail(todo)
      /\ UNCHANGED <<plan, running, connected, commands, outbound, inbound, store>>
  BY DEF Deliver, Effect, AppTakes, AppRefuses
<1>2. CASE todo' = Tail(todo) /\ messageQueue' = messageQueue /\ qentrySeqno' = qentrySeqno
  BY <1>1, <1>2, HeadDone DEF Remembered
<1>3. ASSUME qentrySeqno' = q, messageQueue' = Append(messageQueue, entry),
             todo' = <<put>> \o Tail(todo)
      PROVE  Session'
  <2>1. n \in In /\ q \in Nat \ {0} /\ qentrySeqno \in Nat /\ qentrySeqno < q
    BY <1>1, TodoTyped, EffectCases, QueueTypes
  <2>2. put \in Effects /\ put.op = "put" /\ put.key = QueueKey(q) /\ put.content = n
    BY <2>1, KeyTypes, EffectTypes, EffectForms
  <2>3. entry \in Entries /\ entry.seqno = q /\ entry.n = n
    BY <2>1 DEF Entries
  <2> HIDE DEF put, entry, n, q
  <2>4. /\ 1 \in DOMAIN todo' /\ todo'[1] = put
        /\ \A j \in DOMAIN todo' : j # 1 => j \in DOMAIN todo /\ todo'[j] = todo[j]
        /\ \A k, c : HasPut(k, c) => HasPut(k, c)'
        /\ \A k : HasRemove(k) => HasRemove(k)'
    BY <1>1, <1>3, <2>2, AfterReplaced
  <2>5. /\ Len(messageQueue) \in Nat /\ Len(messageQueue) + 1 \in DOMAIN messageQueue'
        /\ messageQueue'[Len(messageQueue) + 1] = entry
        /\ \A i \in DOMAIN messageQueue : i \in DOMAIN messageQueue' /\ messageQueue'[i] = messageQueue[i]
        /\ \A i \in DOMAIN messageQueue' :
             \/ i \in DOMAIN messageQueue /\ messageQueue'[i] = messageQueue[i]
             \/ i = Len(messageQueue) + 1 /\ messageQueue'[i] = entry
        /\ DOMAIN messageQueue = 1..Len(messageQueue)
    BY <1>3, <2>3, QueueTypes, Appended
  <2>6. Listed'
    <3>1. ASSUME NEW i \in DOMAIN messageQueue', NEW j \in DOMAIN messageQueue', i < j
          PROVE  messageQueue'[i].seqno < messageQueue'[j].seqno
      <4>1. i \in DOMAIN messageQueue /\ messageQueue'[i] = messageQueue[i]
        BY <2>5, <3>1
      <4>2. CASE j \in DOMAIN messageQueue /\ messageQueue'[j] = messageQueue[j]
        BY <3>1, <4>1, <4>2 DEF Session, Listed
      <4>3. CASE messageQueue'[j] = entry
        <5>1. messageQueue[i].seqno <= qentrySeqno /\ messageQueue[i].seqno \in Nat
          BY <4>1, QueueTypes DEF Session, Listed
        <5>2. QED
          BY <2>1, <2>3, <4>1, <4>3, <5>1
      <4>4. QED
        BY <2>5, <4>2, <4>3
    <3>2. ASSUME NEW i \in DOMAIN messageQueue' PROVE messageQueue'[i].seqno <= qentrySeqno'
      <4>1. CASE i \in DOMAIN messageQueue /\ messageQueue'[i] = messageQueue[i]
        <5>1. messageQueue[i].seqno <= qentrySeqno /\ messageQueue[i].seqno \in Nat
          BY <4>1, QueueTypes DEF Session, Listed
        <5>2. QED
          BY <1>3, <2>1, <4>1, <5>1
      <4>2. CASE messageQueue'[i] = entry
        BY <1>3, <2>1, <2>3, <4>2
      <4>3. QED
        BY <2>5, <4>1, <4>2
    <3>3. QED
      BY <1>1, <3>1, <3>2 DEF Session, Listed
  <2>7. PutsKnown'
    <3>1. ASSUME NEW j \in DOMAIN todo', todo'[j].op = "put" PROVE PutKnown(j)'
      <4>1. CASE j = 1
        <5>1. todo'[j].key[1] = "q-" /\ todo'[j].key[2] = q /\ todo'[j].content = n
          BY <2>2, <2>4, <4>1 DEF QueueKey
        <5>2. \E i \in DOMAIN messageQueue' : q = messageQueue'[i].seqno /\ n = messageQueue'[i].n
          BY <2>3, <2>5
        <5>3. QED
          BY <4>1, <5>1, <5>2 DEF PutKnown
      <4>2. CASE j # 1
        <5>1. j \in DOMAIN todo /\ todo'[j] = todo[j]
          BY <2>4, <4>2
        <5>2. PutKnown(j)
          BY <3>1, <5>1 DEF Session, PutsKnown
        <5>3. QED
          BY <1>1, <4>2, <5>1, <5>2 DEF PutKnown
      <4>3. QED
        BY <4>1, <4>2
    <3>2. QED
      BY <3>1 DEF PutsKnown
  <2>8. RemovalsKnown'
    <3>1. ASSUME NEW j \in DOMAIN todo', todo'[j].op = "remove" PROVE RemovalKnown(j)'
      <4>1. j # 1
        BY <2>2, <2>4, <3>1
      <4>2. j \in DOMAIN todo /\ todo'[j] = todo[j]
        BY <2>4, <4>1
      <4>3. RemovalKnown(j)
        BY <3>1, <4>2 DEF Session, RemovalsKnown
      <4>4. todo[j].key[2] \in Nat
        BY <3>1, <4>2, EffectCases, StemsOf DEF Typed, EffectsTyped
      <4>5. todo[j].key[2] <= qentrySeqno => todo[j].key[2] <= qentrySeqno' /\ entry.seqno # todo[j].key[2]
        BY <1>3, <2>1, <2>3, <4>4
      <4>6. QED
        BY <1>1, <2>5, <4>2, <4>3, <4>5 DEF RemovalKnown
    <3>2. QED
      BY <3>1 DEF RemovalsKnown
  <2>9. \A k, c : Kept(k, c) => Kept(k, c)'
    BY <1>1, <2>4 DEF Kept, FileIs
  <2>10. Saved'
    <3>1. CommandsSaved' /\ OutboundSaved' /\ PubrelsSaved' /\ InboundSaved'
      BY <1>1, <2>4, <2>9 DEF Session, Saved, CommandsSaved, OutboundSaved, PubrelsSaved,
            InboundSaved, FileIs
    <3>2. \A k, x : k = QueueKey(q) /\ x = n => HasPut(k, x)'
      BY <2>2, <2>4 DEF HasPut
    <3>3. ASSUME NEW i \in DOMAIN messageQueue', NEW k, k = QueueKey(messageQueue'[i].seqno),
                 NEW x, x = messageQueue'[i].n
          PROVE  Kept(k, x)'
      <4>1. CASE i \in DOMAIN messageQueue /\ messageQueue'[i] = messageQueue[i]
        <5>1. Kept(k, x)
          BY <3>3, <4>1 DEF Session, Saved, QueueSaved
        <5>2. QED
          BY <2>9, <5>1
      <4>2. CASE messageQueue'[i] = entry
        BY <2>3, <3>2, <3>3, <4>2 DEF Kept
      <4>3. QED
        BY <2>5, <4>1, <4>2
    <3>4. QED
      BY <3>1, <3>3 DEF Saved, QueueSaved
  <2>11. \A k : InMemory(k) => InMemory(k)'
    BY <1>1, <2>5 DEF InMemory
  <2>12. NothingElse' /\ FilesApart' /\ PubrelOfQos2' /\ Resting' /\ IdsApart'
    BY <1>1, <2>4, <2>11
    DEF Session, NothingElse, FilesApart, HoldsId, PubrelOfQos2, Resting, IdsApart
  <2>13. QED
    BY <2>6, <2>7, <2>8, <2>10, <2>12 DEF Session
<1>4. QED
  BY <1>1, <1>2, <1>3

LEMMA TryMessageQueueSession ==
  ASSUME Typed, Session, TryMessageQueue
  PROVE  Session'
<1> DEFINE h == Head(messageQueue)
           remove == RemoveOf(QueueKey(h.seqno))
<1>1. /\ todo # <<>> /\ Head(todo).op = "queue" /\ running
      /\ \/ todo' = Tail(todo) /\ messageQueue' = messageQueue
         \/ /\ messageQueue # <<>> /\ messageQueue' = Tail(messageQueue)
            /\ todo' = <<remove>> \o Tail(todo)
      /\ UNCHANGED <<plan, running, connected, commands, outbound, inbound, qentrySeqno, store>>
  BY DEF TryMessageQueue, Effect, AppTakes, AppRefuses
<1>2. CASE todo' = Tail(todo) /\ messageQueue' = messageQueue
  BY <1>1, <1>2, HeadDone DEF Remembered
<1>3. ASSUME messageQueue # <<>>, messageQueue' = Tail(messageQueue),
             todo' = <<remove>> \o Tail(todo)
      PROVE  Session'
  <2>1. /\ h = messageQueue[1] /\ 1 \in DOMAIN messageQueue /\ h \in Entries /\ h.seqno \in Nat
        /\ \A i \in DOMAIN messageQueue' : /\ i \in Nat /\ i + 1 \in DOMAIN messageQueue
                                           /\ messageQueue'[i] = messageQueue[i + 1]
                                           /\ 1 < i + 1
        /\ \A i \in DOMAIN messageQueue : i # 1 =>
             i - 1 \in DOMAIN messageQueue' /\ messageQueue'[i - 1] = messageQueue[i]
    <3>1. /\ h = messageQueue[1] /\ 1 \in DOMAIN messageQueue /\ h \in Entries
          /\ \A i \in DOMAIN messageQueue' : i \in Nat /\ i + 1 \in DOMAIN messageQueue
                                             /\ messageQueue'[i] = messageQueue[i + 1] /\ 1 < i + 1
          /\ \A i \in DOMAIN messageQueue : i # 1 =>
               i - 1 \in DOMAIN messageQueue' /\ messageQueue'[i - 1] = messageQueue[i]
      BY <1>3, QueueTypes, Heads
    <3>2. QED
      BY <3>1, QueueTypes
  <2>2. remove \in Effects /\ remove.op = "remove" /\ remove.key = QueueKey(h.seqno)
    BY <2>1, KeyTypes, EffectTypes, EffectForms
  <2> HIDE DEF remove, h
  <2>3. /\ 1 \in DOMAIN todo' /\ todo'[1] = remove
        /\ \A j \in DOMAIN todo' : j # 1 => j \in DOMAIN todo /\ todo'[j] = todo[j]
        /\ \A k, c : HasPut(k, c) => HasPut(k, c)'
        /\ \A k : HasRemove(k) => HasRemove(k)'
    BY <1>1, <1>3, <2>2, AfterReplaced
  <2>4. \A i \in DOMAIN messageQueue' :
          h.seqno < messageQueue'[i].seqno /\ messageQueue'[i].seqno \in Nat
    BY <2>1, QueueTypes DEF Session, Listed
  <2>5. Listed'
    <3>1. ASSUME NEW i \in DOMAIN messageQueue', NEW j \in DOMAIN messageQueue', i < j
          PROVE  messageQueue'[i].seqno < messageQueue'[j].seqno
      <4>1. i + 1 < j + 1
        BY <2>1, <3>1
      <4>2. QED
        BY <2>1, <4>1 DEF Session, Listed
    <3>2. QED
      BY <1>1, <2>1, <3>1 DEF Session, Listed
  <2>6. PutsKnown'
    <3>1. ASSUME NEW j \in DOMAIN todo', todo'[j].op = "put" PROVE PutKnown(j)'
      <4>1. j # 1
        BY <2>2, <2>3, <3>1
      <4>2. j \in DOMAIN todo /\ todo'[j] = todo[j]
        BY <2>3, <4>1
      <4>3. PutKnown(j)
        BY <3>1, <4>2 DEF Session, PutsKnown
      <4>4. QED
        BY <1>1, <4>1, <4>2, <4>3 DEF PutKnown
    <3>2. QED
      BY <3>1 DEF PutsKnown
  <2>7. RemovalsKnown'
    <3>1. ASSUME NEW j \in DOMAIN todo', todo'[j].op = "remove" PROVE RemovalKnown(j)'
      <4>1. CASE j = 1
        <5>1. todo'[j].key[1] = "q-" /\ todo'[j].key[2] = h.seqno
          BY <2>2, <2>3, <4>1 DEF QueueKey
        <5>2. h.seqno <= qentrySeqno'
          BY <1>1, <2>1 DEF Session, Listed
        <5>3. \A i \in DOMAIN messageQueue' : messageQueue'[i].seqno # h.seqno
          BY <2>1, <2>4
        <5>4. QED
          BY <5>1, <5>2, <5>3 DEF RemovalKnown
      <4>2. CASE j # 1
        <5>1. j \in DOMAIN todo /\ todo'[j] = todo[j]
          BY <2>3, <4>2
        <5>2. RemovalKnown(j)
          BY <3>1, <5>1 DEF Session, RemovalsKnown
        <5>3. QED
          BY <1>1, <2>1, <4>2, <5>1, <5>2 DEF RemovalKnown
      <4>3. QED
        BY <4>1, <4>2
    <3>2. QED
      BY <3>1 DEF RemovalsKnown
  <2>8. \A k, c : Kept(k, c) => Kept(k, c)'
    BY <1>1, <2>3 DEF Kept, FileIs
  <2>9. Saved'
    <3>1. CommandsSaved' /\ OutboundSaved' /\ PubrelsSaved' /\ InboundSaved'
      BY <1>1, <2>3, <2>8 DEF Session, Saved, CommandsSaved, OutboundSaved, PubrelsSaved,
            InboundSaved, FileIs
    <3>2. ASSUME NEW i \in DOMAIN messageQueue', NEW k, k = QueueKey(messageQueue'[i].seqno),
                 NEW x, x = messageQueue'[i].n
          PROVE  Kept(k, x)'
      <4>1. Kept(k, x)
        BY <2>1, <3>2 DEF Session, Saved, QueueSaved
      <4>2. QED
        BY <2>8, <4>1
    <3>3. QED
      BY <3>1, <3>2 DEF Saved, QueueSaved
  <2>10. NothingElse'
    <3>1. SUFFICES ASSUME running, ~plan.clean, NEW k \in DOMAIN store.files,
                          ~HasRemove(k)'
                   PROVE  InMemory(k)'
      BY <1>1 DEF NothingElse
    <3>2. InMemory(k)
      BY <2>3, <3>1 DEF Session, NothingElse
    <3>3. k # QueueKey(h.seqno)
      BY <2>2, <2>3, <3>1 DEF HasRemove
    <3>4. k = <<k[1], k[2]>>
      BY StemsOf DEF Typed, StoreTyped
    <3>5. CASE k[1] = "q-" /\ \E i \in DOMAIN messageQueue : k[2] = messageQueue[i].seqno
      <4>1. PICK i \in DOMAIN messageQueue : k[2] = messageQueue[i].seqno
        BY <3>5
      <4>2. i # 1
        BY <2>1, <3>1, <3>3, <3>4, <3>5, <4>1 DEF QueueKey
      <4>3. QED
        BY <2>1, <3>5, <4>1, <4>2 DEF InMemory
    <3>6. CASE ~(k[1] = "q-" /\ \E i \in DOMAIN messageQueue : k[2] = messageQueue[i].seqno)
      BY <1>1, <3>2, <3>6 DEF InMemory
    <3>7. QED
      BY <3>5, <3>6
  <2>11. FilesApart' /\ PubrelOfQos2' /\ Resting' /\ IdsApart'
    BY <1>1 DEF Session, FilesApart, HoldsId, PubrelOfQos2, Resting, IdsApart
  <2>12. QED
    BY <2>5, <2>6, <2>7, <2>9, <2>10, <2>11 DEF Session
<1>4. QED
  BY <1>1, <1>2, <1>3

-----------------------------------------------------------------------------
(* The session: the handlers                                                *)

\* what a handler that starts between two others has to keep
LEMMA Handled ==
  ASSUME Session, todo = <<>>, running, running' = running, plan' = plan, store' = store,
         Listed', IdsApart', PutsKnown', RemovalsKnown', Saved',
         \A k \in DOMAIN store.files : InMemory(k) => InMemory(k)' \/ HasRemove(k)'
  PROVE  Session'
<1>1. running /\ ~plan.clean => \A k \in DOMAIN store.files : InMemory(k)
  BY AtRest
<1>2. NothingElse'
  BY <1>1 DEF NothingElse
<1>3. FilesApart' /\ PubrelOfQos2' /\ Resting'
  BY DEF Session, FilesApart, HoldsId, PubrelOfQos2, Resting
<1>4. QED
  BY <1>2, <1>3 DEF Session

\* the effects of a handler end with one that is no put and no removal
LEMMA LastEffect ==
  ASSUME NEW e \in Seq(Effects), NEW x \in Effects, x.op \notin {"put", "remove"},
         todo' = e \o <<x>>
  PROVE  /\ \A j \in DOMAIN todo' : todo'[j].op \in {"put", "remove"} =>
              j \in DOMAIN e /\ todo'[j] = e[j]
         /\ \A j \in DOMAIN e : j \in DOMAIN todo' /\ todo'[j] = e[j]
<1>1. /\ Len(e) \in Nat
      /\ \A i \in DOMAIN e : i \in DOMAIN (e \o <<x>>) /\ (e \o <<x>>)[i] = e[i]
      /\ \A i \in DOMAIN (e \o <<x>>) : (i \in DOMAIN e /\ (e \o <<x>>)[i] = e[i])
                                        \/ (i = Len(e) + 1 /\ (e \o <<x>>)[i] = x)
  BY Ended
<1>2. QED
  BY <1>1

LEMMA QueueEffect == TryQueue \in Effects /\ TryQueue.op \notin {"put", "remove"}
  BY EffectTypes, EffectForms

\* a handler that leaves the memory and the store alone
LEMMA OnlyWork ==
  ASSUME Typed, Session, todo = <<>>, running,
         UNCHANGED <<plan, running, commands, outbound, inbound, messageQueue, qentrySeqno, store>>,
         connected' => connected \/ ~plan.clean,
         PutsKnown', RemovalsKnown'
  PROVE  Session'
<1>1. Listed' /\ IdsApart'
  BY DEF Session, Listed, IdsApart
<1>2. \A k : InMemory(k) => InMemory(k)'
  BY DEF InMemory
<1>3. Saved'
  <2>1. CommandsSaved'
    BY DEF Session, Saved, CommandsSaved, FileIs
  <2>2. OutboundSaved'
    BY AtRest DEF OutboundSaved, Kept, FileIs
  <2>3. PubrelsSaved'
    BY AtRest DEF PubrelsSaved
  <2>4. InboundSaved'
    BY AtRest DEF InboundSaved, Kept, FileIs
  <2>5. QueueSaved'
    BY AtRest DEF QueueSaved, Kept, FileIs
  <2>6. QED
    BY <2>1, <2>2, <2>3, <2>4, <2>5 DEF Saved
<1>4. QED
  BY <1>1, <1>2, <1>3, Handled

LEMMA NoFileWork ==
  ASSUME \A j \in DOMAIN todo' : todo'[j].op \notin {"put", "remove"}
  PROVE  PutsKnown' /\ RemovalsKnown'
  BY DEF PutsKnown, RemovalsKnown

LEMMA ReadStays ==
  ASSUME Read
  PROVE  UNCHANGED <<plan, running, connected, commands, messageQueue, qentrySeqno, store>>
  BY DEF Read

LEMMA HandlePingrespSession ==
  ASSUME Typed, Session, HandlePingresp
  PROVE  Session'
<1> DEFINE e == <<TryQueue>>
<1>1. /\ todo = <<>> /\ running /\ connected /\ todo' = e
      /\ UNCHANGED <<plan, running, commands, outbound, inbound, messageQueue, qentrySeqno, store>>
  BY DEF HandlePingresp, Idle, memory
<1>2. \A j \in DOMAIN e : e[j] = TryQueue
  OBVIOUS
<1> HIDE DEF e
<1>3. PutsKnown' /\ RemovalsKnown'
  BY <1>1, <1>2, QueueEffect, NoFileWork
<1>4. QED
  BY <1>1, <1>3, OnlyWork

LEMMA HandlePublishSession ==
  ASSUME Typed, Session, HandlePublish
  PROVE  Session'
<1> DEFINE p == Head(toClient)
           i == Found(inbound, p.id)
           m == Inbound(p)
           x == ReceivedOf(m)
           a == DeliverOf(p.n)
           b == WriteOf(Ack("PUBACK", p.id))
           c == PutOf(ReceivedKey(p.id), x)
           d == WriteOf(Ack("PUBREC", p.id))
           e0 == <<a>>
           e1 == <<b, a>>
           e2 == <<c, d>>
<1>1. /\ toClient # <<>> /\ p.type = "PUBLISH" /\ todo = <<>> /\ running /\ connected
      /\ \/ p.qos = 0 /\ todo' = e0 \o <<TryQueue>> /\ inbound' = inbound
         \/ p.qos = 1 /\ todo' = e1 \o <<TryQueue>> /\ inbound' = inbound
         \/ /\ p.qos = 2 /\ todo' = e2 \o <<TryQueue>>
            /\ i = 0 => inbound' = Append(inbound, m)
            /\ i # 0 => inbound' = ReplaceAt(inbound, i, m)
      /\ UNCHANGED <<plan, running, connected, commands, outbound, messageQueue, qentrySeqno, store>>
  BY ReadStays DEF HandlePublish, Reading, ThenQueue, Idle, ReceivedOf, Inbound
<1>2. p.n \in In /\ p.qos \in 0..2 /\ p.id \in 0..MaxMsgId /\ (p.qos # 0 => p.id \in MsgIds)
  BY <1>1, PacketRead
<1>3. /\ a \in Effects /\ a.op = "deliver" /\ b.op = "write" /\ d.op = "write"
      /\ c.op = "put" /\ c.key = ReceivedKey(p.id) /\ c.content = x
      /\ p.qos # 0 => b \in Effects /\ d \in Effects /\ c \in Effects
  <2>1. a \in Effects
    BY <1>2, EffectTypes
  <2>2. p.qos # 0 => b \in Effects /\ d \in Effects
    BY <1>2, EffectTypes, PacketTypes DEF Answers
  <2>3. p.qos # 0 => c \in Effects
    <3>1. p.qos # 0 => x \in InContents
      BY <1>2 DEF InContents, ReceivedOf, Inbound
    <3>2. p.qos # 0 => ReceivedKey(p.id) \in Keys
      BY <1>2, KeyTypes
    <3> HIDE DEF x
    <3>3. QED
      BY <3>1, <3>2, EffectTypes
  <2> HIDE DEF x, p
  <2>4. QED
    BY <2>1, <2>2, <2>3 DEF DeliverOf, WriteOf, PutOf
<1>4. m.id = p.id
  BY DEF Inbound
<1> HIDE DEF a, b, c, d, p, m, x
<1>5. CASE p.qos = 0
  <2>1. e0 \in Seq(Effects) /\ DOMAIN e0 = 1..1 /\ e0[1] = a
    BY <1>3
  <2> HIDE DEF e0
  <2>2. \A j \in DOMAIN todo' : todo'[j].op \in {"put", "remove"} =>
          j \in DOMAIN e0 /\ todo'[j] = e0[j]
    BY <1>1, <1>5, <2>1, QueueEffect, LastEffect
  <2>3. \A j \in DOMAIN todo' : todo'[j].op \notin {"put", "remove"}
    BY <1>3, <2>1, <2>2
  <2>4. inbound' = inbound
    BY <1>1, <1>5
  <2>5. QED
    BY <1>1, <2>3, <2>4, NoFileWork, OnlyWork
<1>6. CASE p.qos = 1
  <2>1. e1 \in Seq(Effects) /\ DOMAIN e1 = 1..2 /\ e1[1] = b /\ e1[2] = a
    BY <1>3, <1>6
  <2> HIDE DEF e1
  <2>2. \A j \in DOMAIN todo' : todo'[j].op \in {"put", "remove"} =>
          j \in DOMAIN e1 /\ todo'[j] = e1[j]
    BY <1>1, <1>6, <2>1, QueueEffect, LastEffect
  <2>3. \A j \in DOMAIN todo' : todo'[j].op \notin {"put", "remove"}
    BY <1>3, <2>1, <2>2
  <2>4. inbound' = inbound
    BY <1>1, <1>6
  <2>5. QED
    BY <1>1, <2>3, <2>4, NoFileWork, OnlyWork
<1>7. CASE p.qos = 2
  <2>1. e2 \in Seq(Effects) /\ DOMAIN e2 = 1..2 /\ e2[1] = c /\ e2[2] = d
    BY <1>3, <1>7
  <2> HIDE DEF e2
  <2>2. /\ todo' = e2 \o <<TryQueue>>
        /\ i = 0 => inbound' = Append(inbound, m)
        /\ i # 0 => inbound' = ReplaceAt(inbound, i, m)
    BY <1>1, <1>7
  <2>3. /\ \A j \in DOMAIN todo' : todo'[j].op \in {"put", "remove"} => j = 1 /\ todo'[j] = c
        /\ 1 \in DOMAIN todo' /\ todo'[1] = c
    <3>1. /\ \A j \in DOMAIN todo' : todo'[j].op \in {"put", "remove"} =>
               j \in DOMAIN e2 /\ todo'[j] = e2[j]
          /\ \A j \in DOMAIN e2 : j \in DOMAIN todo' /\ todo'[j] = e2[j]
      BY <2>1, <2>2, QueueEffect, LastEffect
    <3>2. QED
      BY <1>3, <2>1, <3>1
  <2>4. /\ inbound \in Seq(InMessages) /\ i \in 0..Len(inbound)
        /\ i = 0 => \A l \in DOMAIN inbound : inbound[l].id # p.id
        /\ i # 0 => inbound[i].id = p.id
    BY FoundProperties DEF Typed, ClientTyped
  <2> HIDE DEF i
  <2>5. /\ \A l \in DOMAIN inbound' : \/ l \in DOMAIN inbound /\ inbound'[l] = inbound[l] /\ l # i
                                      \/ inbound'[l] = m /\ (i = 0 => l = Len(inbound) + 1)
                                                         /\ (i # 0 => l = i)
        /\ \A l \in DOMAIN inbound : /\ l \in DOMAIN inbound'
                                     /\ inbound'[l] = inbound[l] \/ (l = i /\ inbound'[l] = m)
        /\ \E l \in DOMAIN inbound' : inbound'[l] = m
    <3>1. CASE i = 0
      <4>1. inbound' = Append(inbound, m)
        BY <2>2, <3>1
      <4>2. m \in InMessages
        BY <1>2, <1>7 DEF m, Inbound, InMessages
      <4>3. QED
        BY <2>4, <3>1, <4>1, <4>2, Appended
    <3>2. CASE i # 0
      <4>1. inbound' = [inbound EXCEPT ![i] = m] /\ i \in DOMAIN inbound
        BY <2>2, <2>4, <3>2 DEF ReplaceAt
      <4>2. QED
        BY <3>2, <4>1
    <3>3. QED
      BY <3>1, <3>2
  <2>6. Listed'
    <3>1. ASSUME NEW k \in DOMAIN inbound', NEW l \in DOMAIN inbound',
                 inbound'[k].id = inbound'[l].id
          PROVE  k = l
      <4>1. CASE inbound'[k] = inbound[k] /\ k \in DOMAIN inbound /\ k # i
        <5>1. CASE inbound'[l] = inbound[l] /\ l \in DOMAIN inbound
          BY <3>1, <4>1, <5>1 DEF Session, Listed
        <5>2. CASE inbound'[l] = m /\ (i = 0 => l = Len(inbound) + 1) /\ (i # 0 => l = i)
          BY <1>4, <2>4, <3>1, <4>1, <5>2 DEF Session, Listed
        <5>3. QED
          BY <2>5, <5>1, <5>2
      <4>2. CASE inbound'[k] = m /\ (i = 0 => k = Len(inbound) + 1) /\ (i # 0 => k = i)
        <5>1. CASE inbound'[l] = inbound[l] /\ l \in DOMAIN inbound /\ l # i
          BY <1>4, <2>4, <3>1, <4>2, <5>1 DEF Session, Listed
        <5>2. CASE inbound'[l] = m /\ (i = 0 => l = Len(inbound) + 1) /\ (i # 0 => l = i)
          BY <4>2, <5>2
        <5>3. QED
          BY <2>5, <5>1, <5>2
      <4>3. QED
        BY <2>5, <4>1, <4>2
    <3>2. QED
      BY <1>1, <3>1 DEF Session, Listed
  <2>7. IdsApart'
    BY <1>1 DEF Session, IdsApart
  <2>8. PutsKnown' /\ RemovalsKnown'
    <3>1. ASSUME NEW j \in DOMAIN todo', todo'[j].op = "put" PROVE PutKnown(j)'
      <4>1. j = 1 /\ todo'[j].key[1] = "r-" /\ todo'[j].key[2] = p.id /\ todo'[j].content = x
        BY <1>3, <2>3, <3>1 DEF ReceivedKey
      <4>2. PICK l \in DOMAIN inbound' : inbound'[l] = m
        BY <2>5
      <4>3. x = ReceivedOf(inbound'[l]) /\ p.id = inbound'[l].id
        BY <1>4, <4>2 DEF x
      <4>4. QED
        BY <4>1, <4>3 DEF PutKnown
    <3>2. \A j \in DOMAIN todo' : todo'[j].op # "remove"
      BY <1>3, <2>3
    <3>3. QED
      BY <3>1, <3>2 DEF PutsKnown, RemovalsKnown
  <2>9. Saved'
    <3>1. CommandsSaved'
      BY <1>1 DEF Session, Saved, CommandsSaved, FileIs
    <3>2. OutboundSaved' /\ PubrelsSaved' /\ QueueSaved'
      BY <1>1, AtRest DEF OutboundSaved, PubrelsSaved, QueueSaved, Kept, FileIs
    <3>3. ASSUME NEW l \in DOMAIN inbound', NEW k, k = ReceivedKey(inbound'[l].id),
                 NEW y, y = ReceivedOf(inbound'[l])
          PROVE  Kept(k, y)'
      <4>1. CASE l \in DOMAIN inbound /\ inbound'[l] = inbound[l]
        <5>1. FileIs(k, y)
          BY <1>1, <3>3, <4>1, AtRest
        <5>2. QED
          BY <1>1, <5>1 DEF Kept, FileIs
      <4>2. CASE inbound'[l] = m
        <5>1. k = c.key /\ y = c.content
          BY <1>3, <1>4, <3>3, <4>2 DEF x
        <5>2. QED
          BY <1>3, <2>3, <5>1 DEF Kept, HasPut
      <4>3. QED
        BY <2>5, <4>1, <4>2
    <3>4. QED
      BY <3>1, <3>2, <3>3 DEF Saved, InboundSaved
  <2>10. \A k \in DOMAIN store.files : InMemory(k) => InMemory(k)'
    <3>1. \A l \in DOMAIN inbound : l \in DOMAIN inbound' /\ inbound'[l].id = inbound[l].id
      BY <1>4, <2>4, <2>5
    <3>2. QED
      BY <1>1, <3>1 DEF InMemory
  <2>11. QED
    BY <1>1, <2>6, <2>7, <2>8, <2>9, <2>10, Handled
<1>8. QED
  BY <1>2, <1>5, <1>6, <1>7

\* a list without one of its elements
LEMMA RemoveAtElements ==
  ASSUME NEW S, NEW list \in Seq(S), NEW i \in 1..Len(list),
         \A k, l \in DOMAIN list : list[k].id = list[l].id => k = l
  PROVE  LET R == RemoveAt(list, i)
         IN  /\ \A k \in DOMAIN R : \E l \in DOMAIN list : l # i /\ R[k] = list[l]
             /\ \A l \in DOMAIN list : l # i => \E k \in DOMAIN R : R[k] = list[l]
             /\ \A k, l \in DOMAIN R : R[k].id = R[l].id => k = l
             /\ \A k \in DOMAIN R : R[k].id # list[i].id
<1> DEFINE R == RemoveAt(list, i)
           Was(k) == IF k < i THEN k ELSE k + 1
           Is(l) == IF l < i THEN l ELSE l - 1
<1>1. /\ Len(list) \in Nat /\ R \in Seq(S) /\ DOMAIN R = 1..(Len(list) - 1)
      /\ DOMAIN list = 1..Len(list)
      /\ \A k \in 1..(Len(list) - 1) : R[k] = IF k < i THEN list[k] ELSE list[k + 1]
  <2>1. /\ R \in Seq(S) /\ Len(R) = Len(list) - 1
        /\ \A k \in 1..(Len(list) - 1) : R[k] = IF k < i THEN list[k] ELSE list[k + 1]
    BY RemoveAtProperties
  <2> HIDE DEF R
  <2>2. QED
    BY <2>1
<1> HIDE DEF R
<1>2. \A k \in DOMAIN R : Was(k) \in DOMAIN list /\ Was(k) # i /\ R[k] = list[Was(k)]
  BY <1>1
<1>3. \A l \in DOMAIN list : l # i => Is(l) \in DOMAIN R /\ Was(Is(l)) = l
  BY <1>1
<1>4. \A k, l \in DOMAIN R : Was(k) = Was(l) => k = l
  BY <1>1
<1> HIDE DEF Was, Is
<1>5. \A k \in DOMAIN R : \E l \in DOMAIN list : l # i /\ R[k] = list[l]
  BY <1>2
<1>6. ASSUME NEW l \in DOMAIN list, l # i PROVE \E k \in DOMAIN R : R[k] = list[l]
  BY <1>2, <1>3, <1>6
<1>7. ASSUME NEW k \in DOMAIN R, NEW l \in DOMAIN R, R[k].id = R[l].id PROVE k = l
  BY <1>2, <1>4, <1>7
<1>8. ASSUME NEW k \in DOMAIN R PROVE R[k].id # list[i].id
  <2>1. i \in DOMAIN list
    BY <1>1
  <2>2. QED
    BY <1>2, <2>1
<1>9. QED
  BY <1>5, <1>6, <1>7, <1>8 DEF R

LEMMA HandlePubrelSession ==
  ASSUME Typed, Session, HandlePubrel
  PROVE  Session'
<1> DEFINE p == Head(toClient)
           i == Found(inbound, p.id)
           a == WriteOf(Ack("PUBCOMP", p.id))
           b == DeliverOf(inbound[i].n)
           c == RemoveOf(ReceivedKey(p.id))
           e0 == <<a, b, c>>
           e1 == <<a>>
           e2 == <<>>
<1>1. /\ toClient # <<>> /\ p.type # "PUBLISH" /\ todo = <<>> /\ running /\ connected
      /\ \/ i # 0 /\ todo' = e0 \o <<TryQueue>> /\ inbound' = RemoveAt(inbound, i)
         \/ i = 0 /\ todo' = e1 \o <<TryQueue>> /\ inbound' = inbound
         \/ i = 0 /\ todo' = e2 \o <<TryQueue>> /\ inbound' = inbound
      /\ UNCHANGED <<plan, running, connected, commands, outbound, messageQueue, qentrySeqno, store>>
  BY ReadStays DEF HandlePubrel, Reading, ThenQueue, Idle
<1>2. p.id \in MsgIds
  BY <1>1, PacketRead
<1>3. /\ inbound \in Seq(InMessages) /\ i \in 0..Len(inbound)
      /\ i # 0 => i \in 1..Len(inbound) /\ inbound[i].id = p.id /\ inbound[i] \in InMessages
  BY FoundProperties DEF Typed, ClientTyped
<1> HIDE DEF p, i
<1>4. /\ a \in Effects /\ a.op = "write" /\ c \in Effects /\ c.op = "remove"
      /\ c.key = ReceivedKey(p.id) /\ b.op = "deliver" /\ (i # 0 => b \in Effects)
  <2>1. a \in Effects /\ c \in Effects
    BY <1>2, KeyTypes, EffectTypes, PacketTypes DEF Answers
  <2>2. i # 0 => inbound[i].n \in In
    BY <1>3 DEF InMessages
  <2>3. i # 0 => b \in Effects
    BY <2>2, EffectTypes
  <2>4. QED
    BY <2>1, <2>3 DEF WriteOf, RemoveOf, DeliverOf
<1> HIDE DEF a, b, c
<1>5. CASE todo' = e1 \o <<TryQueue>> /\ inbound' = inbound
  <2>1. e1 \in Seq(Effects) /\ DOMAIN e1 = 1..1 /\ e1[1] = a
    BY <1>4
  <2> HIDE DEF e1
  <2>2. \A j \in DOMAIN todo' : todo'[j].op \in {"put", "remove"} =>
          j \in DOMAIN e1 /\ todo'[j] = e1[j]
    BY <1>5, <2>1, QueueEffect, LastEffect
  <2>3. \A j \in DOMAIN todo' : todo'[j].op \notin {"put", "remove"}
    BY <1>4, <2>1, <2>2
  <2>4. QED
    BY <1>1, <1>5, <2>3, NoFileWork, OnlyWork
<1>6. CASE todo' = e2 \o <<TryQueue>> /\ inbound' = inbound
  <2>1. e2 \in Seq(Effects) /\ DOMAIN e2 = {}
    OBVIOUS
  <2> HIDE DEF e2
  <2>2. \A j \in DOMAIN todo' : todo'[j].op \in {"put", "remove"} =>
          j \in DOMAIN e2 /\ todo'[j] = e2[j]
    BY <1>6, <2>1, QueueEffect, LastEffect
  <2>3. \A j \in DOMAIN todo' : todo'[j].op \notin {"put", "remove"}
    BY <2>1, <2>2
  <2>4. QED
    BY <1>1, <1>6, <2>3, NoFileWork, OnlyWork
<1>7. CASE i # 0 /\ todo' = e0 \o <<TryQueue>> /\ inbound' = RemoveAt(inbound, i)
  <2>1. e0 \in Seq(Effects) /\ DOMAIN e0 = 1..3 /\ e0[1] = a /\ e0[2] = b /\ e0[3] = c
    BY <1>4, <1>7
  <2> HIDE DEF e0
  <2>2. /\ \A j \in DOMAIN todo' : todo'[j].op \in {"put", "remove"} => todo'[j] = c
        /\ \E j \in DOMAIN todo' : todo'[j] = c
    <3>1. /\ \A j \in DOMAIN todo' : todo'[j].op \in {"put", "remove"} =>
               j \in DOMAIN e0 /\ todo'[j] = e0[j]
          /\ \A j \in DOMAIN e0 : j \in DOMAIN todo' /\ todo'[j] = e0[j]
      BY <1>7, <2>1, QueueEffect, LastEffect
    <3>2. QED
      BY <1>4, <2>1, <3>1
  <2>3. /\ \A k \in DOMAIN inbound' : \E l \in DOMAIN inbound : l # i /\ inbound'[k] = inbound[l]
        /\ \A l \in DOMAIN inbound : l # i => \E k \in DOMAIN inbound' : inbound'[k] = inbound[l]
        /\ \A k, l \in DOMAIN inbound' : inbound'[k].id = inbound'[l].id => k = l
        /\ \A k \in DOMAIN inbound' : inbound'[k].id # p.id
    <3>1. \A k, l \in DOMAIN inbound : inbound[k].id = inbound[l].id => k = l
      BY DEF Session, Listed
    <3>2. i \in 1..Len(inbound) /\ inbound[i].id = p.id
      BY <1>3, <1>7
    <3>3. QED
      BY <1>3, <1>7, <3>1, <3>2, RemoveAtElements
  <2>4. Listed' /\ IdsApart'
    BY <1>1, <2>3 DEF Session, Listed, IdsApart
  <2>5. PutsKnown' /\ RemovalsKnown'
    <3>1. \A j \in DOMAIN todo' : todo'[j].op # "put"
      BY <1>4, <2>2
    <3>2. ASSUME NEW j \in DOMAIN todo', todo'[j].op = "remove" PROVE RemovalKnown(j)'
      <4>1. todo'[j].key[1] = "r-" /\ todo'[j].key[2] = p.id
        BY <1>4, <2>2, <3>2 DEF ReceivedKey
      <4>2. QED
        BY <2>3, <4>1 DEF RemovalKnown
    <3>3. QED
      BY <3>1, <3>2 DEF PutsKnown, RemovalsKnown
  <2>6. Saved'
    <3>1. CommandsSaved'
      BY <1>1 DEF Session, Saved, CommandsSaved, FileIs
    <3>2. OutboundSaved' /\ PubrelsSaved' /\ QueueSaved'
      BY <1>1, AtRest DEF OutboundSaved, PubrelsSaved, QueueSaved, Kept, FileIs
    <3>3. ASSUME NEW l \in DOMAIN inbound', NEW k, k = ReceivedKey(inbound'[l].id),
                 NEW y, y = ReceivedOf(inbound'[l])
          PROVE  Kept(k, y)'
      <4>1. FileIs(k, y)
        BY <1>1, <2>3, <3>3, AtRest
      <4>2. QED
        BY <1>1, <4>1 DEF Kept, FileIs
    <3>4. QED
      BY <3>1, <3>2, <3>3 DEF Saved, InboundSaved
  <2>7. ASSUME NEW k \in DOMAIN store.files, InMemory(k)
        PROVE  InMemory(k)' \/ HasRemove(k)'
    <3>1. k = <<k[1], k[2]>>
      BY StemsOf DEF Typed, StoreTyped
    <3>2. CASE k[1] = "r-"
      <4>1. PICK l \in DOMAIN inbound : k[2] = inbound[l].id
        BY <2>7, <3>2 DEF InMemory
      <4>2. CASE l = i
        <5>1. k = ReceivedKey(p.id)
          BY <1>3, <1>7, <3>1, <3>2, <4>1, <4>2 DEF ReceivedKey
        <5>2. QED
          BY <1>4, <2>2, <5>1 DEF HasRemove
      <4>3. CASE l # i
        BY <2>3, <3>2, <4>1, <4>3 DEF InMemory
      <4>4. QED
        BY <4>2, <4>3
    <3>3. CASE k[1] # "r-"
      BY <1>1, <2>7, <3>3 DEF InMemory
    <3>4. QED
      BY <3>2, <3>3
  <2>8. QED
    BY <1>1, <2>4, <2>5, <2>6, <2>7, Handled
<1>8. QED
  BY <1>1, <1>5, <1>6, <1>7

LEMMA HandleAckSession ==
  ASSUME Typed, Session, NEW type, type \in {"PUBACK", "PUBCOMP"}, HandleAck(type)
  PROVE  Session'
<1> DEFINE id == Head(toClient).id
           i == Found(outbound, id)
           awaited == i # 0 /\ outbound[i].next = type
           keys == KeysOf(outbound[i])
           rs == [k \in DOMAIN keys |-> RemoveOf(keys[k])]
           e2 == <<>>
<1>1. /\ toClient # <<>> /\ todo = <<>> /\ running /\ connected
      /\ \/ /\ i # 0 /\ outbound[i].next = type
            /\ todo' = rs \o <<TryQueue>> /\ outbound' = RemoveAt(outbound, i)
         \/ todo' = e2 \o <<TryQueue>> /\ outbound' = outbound
      /\ UNCHANGED <<plan, running, connected, commands, inbound, messageQueue, qentrySeqno, store>>
  BY ReadStays DEF HandleAck, Reading, ThenQueue, Idle
<1>2. /\ outbound \in Seq(OutMessages) /\ i \in 0..Len(outbound)
      /\ i # 0 => i \in 1..Len(outbound) /\ outbound[i].id = id /\ outbound[i] \in OutMessages
  BY FoundProperties DEF Typed, ClientTyped
<1> HIDE DEF id, i
<1>3. i # 0 => outbound[i].id \in MsgIds /\ (outbound[i].qos = 1 <=> outbound[i].next = "PUBACK")
               /\ outbound[i].qos \in {1, 2}
  BY <1>2 DEF OutMessages
<1>4. i # 0 => /\ rs \in Seq(Effects)
               /\ \A j \in DOMAIN rs : rs[j] = RemoveOf(SentKey(id)) \/ rs[j] = RemoveOf(PubrelKey(id))
               /\ \E j \in DOMAIN rs : rs[j] = RemoveOf(SentKey(id))
               /\ outbound[i].qos = 2 => \E j \in DOMAIN rs : rs[j] = RemoveOf(PubrelKey(id))
  BY <1>2, <1>3, KeysRemoved
<1> HIDE DEF rs
<1>5. CASE todo' = e2 \o <<TryQueue>> /\ outbound' = outbound
  <2>1. e2 \in Seq(Effects) /\ DOMAIN e2 = {}
    OBVIOUS
  <2> HIDE DEF e2
  <2>2. \A j \in DOMAIN todo' : todo'[j].op \in {"put", "remove"} =>
          j \in DOMAIN e2 /\ todo'[j] = e2[j]
    BY <1>5, <2>1, QueueEffect, LastEffect
  <2>3. \A j \in DOMAIN todo' : todo'[j].op \notin {"put", "remove"}
    BY <2>1, <2>2
  <2>4. QED
    BY <1>1, <1>5, <2>3, NoFileWork, OnlyWork
<1>6. CASE i # 0 /\ todo' = rs \o <<TryQueue>> /\ outbound' = RemoveAt(outbound, i)
  <2>1. /\ \A j \in DOMAIN todo' : todo'[j].op \in {"put", "remove"} =>
             todo'[j] = RemoveOf(SentKey(id)) \/ todo'[j] = RemoveOf(PubrelKey(id))
        /\ \E j \in DOMAIN todo' : todo'[j] = RemoveOf(SentKey(id))
        /\ outbound[i].qos = 2 => \E j \in DOMAIN todo' : todo'[j] = RemoveOf(PubrelKey(id))
    <3>1. /\ \A j \in DOMAIN todo' : todo'[j].op \in {"put", "remove"} =>
               j \in DOMAIN rs /\ todo'[j] = rs[j]
          /\ \A j \in DOMAIN rs : j \in DOMAIN todo' /\ todo'[j] = rs[j]
      BY <1>4, <1>6, QueueEffect, LastEffect
    <3>2. QED
      BY <1>4, <1>6, <3>1
  <2>2. \A k : RemoveOf(k).op = "remove" /\ RemoveOf(k).key = k
    BY EffectForms
  <2>3. /\ \A k \in DOMAIN outbound' : \E l \in DOMAIN outbound : l # i /\ outbound'[k] = outbound[l]
        /\ \A l \in DOMAIN outbound : l # i => \E k \in DOMAIN outbound' : outbound'[k] = outbound[l]
        /\ \A k, l \in DOMAIN outbound' : outbound'[k].id = outbound'[l].id => k = l
        /\ \A k \in DOMAIN outbound' : outbound'[k].id # id
    <3>1. \A k, l \in DOMAIN outbound : outbound[k].id = outbound[l].id => k = l
      BY DEF Session, Listed
    <3>2. i \in 1..Len(outbound) /\ outbound[i].id = id
      BY <1>2, <1>6
    <3>3. QED
      BY <1>2, <1>6, <3>1, <3>2, RemoveAtElements
  <2>4. Listed' /\ IdsApart'
    <3>1. \A k \in DOMAIN outbound' : \E l \in DOMAIN outbound : outbound'[k] = outbound[l]
      BY <2>3
    <3>2. IdsApart'
      BY <1>1, <3>1 DEF Session, IdsApart
    <3>3. QED
      BY <1>1, <2>3, <3>2 DEF Session, Listed
  <2>5. PutsKnown' /\ RemovalsKnown'
    <3>1. \A j \in DOMAIN todo' : todo'[j].op # "put"
      BY <2>1, <2>2
    <3>2. ASSUME NEW j \in DOMAIN todo', todo'[j].op = "remove" PROVE RemovalKnown(j)'
      <4>1. todo'[j].key[1] \in {"s-", "sc-"} /\ todo'[j].key[2] = id
        BY <2>1, <2>2, <3>2 DEF SentKey, PubrelKey
      <4>2. QED
        BY <2>3, <4>1 DEF RemovalKnown
    <3>3. QED
      BY <3>1, <3>2 DEF PutsKnown, RemovalsKnown
  <2>6. Saved'
    <3>1. CommandsSaved'
      BY <1>1 DEF Session, Saved, CommandsSaved, FileIs
    <3>2. InboundSaved' /\ QueueSaved'
      BY <1>1, AtRest DEF InboundSaved, QueueSaved, Kept, FileIs
    <3>3. ASSUME NEW l \in DOMAIN outbound', NEW k, k = SentKey(outbound'[l].id),
                 NEW y, y = ContentOf(outbound'[l])
          PROVE  Kept(k, y)'
      <4>1. FileIs(k, y)
        BY <1>1, <2>3, <3>3, AtRest
      <4>2. QED
        BY <1>1, <4>1 DEF Kept, FileIs
    <3>4. PubrelsSaved'
      BY <1>1, <2>3, AtRest DEF PubrelsSaved
    <3>5. QED
      BY <3>1, <3>2, <3>3, <3>4 DEF Saved, OutboundSaved
  <2>7. ASSUME NEW k \in DOMAIN store.files, InMemory(k)
        PROVE  InMemory(k)' \/ HasRemove(k)'
    <3>1. k = <<k[1], k[2]>>
      BY StemsOf DEF Typed, StoreTyped
    <3>2. CASE k[1] = "s-"
      <4>1. PICK l \in DOMAIN outbound : k[2] = outbound[l].id
        BY <2>7, <3>2 DEF InMemory
      <4>2. CASE l = i
        <5>1. k = SentKey(id)
          BY <1>2, <1>6, <3>1, <3>2, <4>1, <4>2 DEF SentKey
        <5>2. QED
          BY <2>1, <2>2, <5>1 DEF HasRemove
      <4>3. CASE l # i
        BY <2>3, <3>2, <4>1, <4>3 DEF InMemory
      <4>4. QED
        BY <4>2, <4>3
    <3>3. CASE k[1] = "sc-"
      <4>1. PICK l \in DOMAIN outbound : k[2] = outbound[l].id /\ outbound[l].next = "PUBCOMP"
        BY <2>7, <3>3 DEF InMemory
      <4>2. CASE l = i
        <5>1. k = PubrelKey(id) /\ outbound[i].qos = 2
          BY <1>2, <1>3, <1>6, <3>1, <3>3, <4>1, <4>2 DEF PubrelKey
        <5>2. QED
          BY <2>1, <2>2, <5>1 DEF HasRemove
      <4>3. CASE l # i
        BY <2>3, <3>3, <4>1, <4>3 DEF InMemory
      <4>4. QED
        BY <4>2, <4>3
    <3>4. CASE k[1] \notin {"s-", "sc-"}
      BY <1>1, <2>7, <3>4 DEF InMemory
    <3>5. QED
      BY <3>2, <3>3, <3>4
  <2>8. QED
    BY <1>1, <2>4, <2>5, <2>6, <2>7, Handled
<1>7. QED
  BY <1>1, <1>5, <1>6

LEMMA HandlePubrecSession ==
  ASSUME Typed, Session, HandlePubrec
  PROVE  Session'
<1> DEFINE i == Found(outbound, Head(toClient).id)
           m == [outbound[i] EXCEPT !.next = "PUBCOMP"]
           p == PutOf(PubrelKey(outbound[i].id), ContentOf(outbound[i]))
           w == WriteOf(Ack("PUBREL", outbound[i].id))
           e0 == <<p, w>>
           e2 == <<>>
<1>1. /\ toClient # <<>> /\ todo = <<>> /\ running /\ connected
      /\ \/ /\ i # 0 /\ outbound[i].next = "PUBREC" /\ todo' = e0 \o <<TryQueue>>
            /\ outbound' = [outbound EXCEPT ![i] = m]
         \/ todo' = e2 \o <<TryQueue>> /\ outbound' = outbound
      /\ UNCHANGED <<plan, running, connected, commands, inbound, messageQueue, qentrySeqno, store>>
  BY ReadStays DEF HandlePubrec, Reading, ThenQueue, Idle, SendPubrel, ContentOf
<1>2. /\ outbound \in Seq(OutMessages) /\ i \in 0..Len(outbound)
      /\ i # 0 => i \in DOMAIN outbound /\ outbound[i] \in OutMessages
  BY FoundProperties DEF Typed, ClientTyped
<1> HIDE DEF i
<1>3. i # 0 => /\ outbound[i].id \in MsgIds /\ ContentOf(outbound[i]) \in OutContents
               /\ m.id = outbound[i].id /\ m.next = "PUBCOMP" /\ ContentOf(m) = ContentOf(outbound[i])
  <2>1. i # 0 => outbound[i].id \in MsgIds /\ ContentOf(outbound[i]) \in OutContents
    BY <1>2, ContentTypes DEF OutMessages
  <2>2. i # 0 => m.id = outbound[i].id /\ m.n = outbound[i].n /\ m.qos = outbound[i].qos
                 /\ m.next = "PUBCOMP"
    BY <1>2 DEF OutMessages
  <2>3. QED
    BY <2>1, <2>2 DEF ContentOf
<1>4. /\ p.op = "put" /\ p.key = PubrelKey(outbound[i].id) /\ p.content = ContentOf(outbound[i])
      /\ w.op = "write" /\ (i # 0 => p \in Effects /\ w \in Effects)
  <2>1. i # 0 => p \in Effects
    BY <1>3, KeyTypes, EffectTypes
  <2>2. i # 0 => w \in Effects
    BY <1>3, EffectTypes, PacketTypes
  <2>3. QED
    BY <2>1, <2>2 DEF PutOf, WriteOf
<1> HIDE DEF p, w, m
<1>5. CASE todo' = e2 \o <<TryQueue>> /\ outbound' = outbound
  <2>1. e2 \in Seq(Effects) /\ DOMAIN e2 = {}
    OBVIOUS
  <2> HIDE DEF e2
  <2>2. \A j \in DOMAIN todo' : todo'[j].op \in {"put", "remove"} =>
          j \in DOMAIN e2 /\ todo'[j] = e2[j]
    BY <1>5, <2>1, QueueEffect, LastEffect
  <2>3. \A j \in DOMAIN todo' : todo'[j].op \notin {"put", "remove"}
    BY <2>1, <2>2
  <2>4. QED
    BY <1>1, <1>5, <2>3, NoFileWork, OnlyWork
<1>6. CASE i # 0 /\ todo' = e0 \o <<TryQueue>> /\ outbound' = [outbound EXCEPT ![i] = m]
  <2>1. e0 \in Seq(Effects) /\ DOMAIN e0 = 1..2 /\ e0[1] = p /\ e0[2] = w
    BY <1>4, <1>6
  <2> HIDE DEF e0
  <2>2. /\ \A j \in DOMAIN todo' : todo'[j].op \in {"put", "remove"} => todo'[j] = p
        /\ \E j \in DOMAIN todo' : todo'[j] = p
    <3>1. /\ \A j \in DOMAIN todo' : todo'[j].op \in {"put", "remove"} =>
               j \in DOMAIN e0 /\ todo'[j] = e0[j]
          /\ \A j \in DOMAIN e0 : j \in DOMAIN todo' /\ todo'[j] = e0[j]
      BY <1>6, <2>1, QueueEffect, LastEffect
    <3>2. QED
      BY <1>4, <2>1, <3>1
  <2>3. /\ DOMAIN outbound' = DOMAIN outbound /\ i \in DOMAIN outbound /\ outbound'[i] = m
        /\ \A l \in DOMAIN outbound : l # i => outbound'[l] = outbound[l]
    BY <1>2, <1>6
  <2>4. \A l \in DOMAIN outbound : /\ outbound'[l].id = outbound[l].id
                                   /\ ContentOf(outbound'[l]) = ContentOf(outbound[l])
    BY <1>3, <1>6, <2>3
  <2>5. Listed' /\ IdsApart'
    BY <1>1, <2>3, <2>4 DEF Session, Listed, IdsApart
  <2>6. PutsKnown' /\ RemovalsKnown'
    <3>1. ASSUME NEW j \in DOMAIN todo', todo'[j].op = "put" PROVE PutKnown(j)'
      <4>1. /\ todo'[j].key[1] = "sc-" /\ todo'[j].key[2] = outbound'[i].id
            /\ todo'[j].content = ContentOf(outbound'[i]) /\ outbound'[i].next = "PUBCOMP"
        BY <1>3, <1>4, <1>6, <2>2, <2>3, <2>4, <3>1 DEF PubrelKey
      <4>2. QED
        BY <2>3, <4>1 DEF PutKnown
    <3>2. \A j \in DOMAIN todo' : todo'[j].op # "remove"
      BY <1>4, <2>2
    <3>3. QED
      BY <3>1, <3>2 DEF PutsKnown, RemovalsKnown
  <2>7. Saved'
    <3>1. CommandsSaved'
      BY <1>1 DEF Session, Saved, CommandsSaved, FileIs
    <3>2. InboundSaved' /\ QueueSaved'
      BY <1>1, AtRest DEF InboundSaved, QueueSaved, Kept, FileIs
    <3>3. ASSUME NEW l \in DOMAIN outbound', NEW k, k = SentKey(outbound'[l].id),
                 NEW y, y = ContentOf(outbound'[l])
          PROVE  Kept(k, y)'
      <4>1. FileIs(k, y)
        BY <1>1, <2>3, <2>4, <3>3, AtRest
      <4>2. QED
        BY <1>1, <4>1 DEF Kept, FileIs
    <3>4. ASSUME NEW l \in DOMAIN outbound', outbound'[l].next = "PUBCOMP",
                 NEW k, k = PubrelKey(outbound'[l].id), NEW y, y = ContentOf(outbound'[l])
          PROVE  k \in DOMAIN store'.files \/ HasPut(k, y)'
      <4>1. CASE l = i
        <5>1. k = p.key /\ y = p.content
          BY <1>4, <2>3, <2>4, <3>4, <4>1
        <5>2. QED
          BY <1>4, <2>2, <5>1 DEF HasPut
      <4>2. CASE l # i
        BY <1>1, <2>3, <3>4, <4>2, AtRest
      <4>3. QED
        BY <4>1, <4>2
    <3>5. QED
      BY <3>1, <3>2, <3>3, <3>4 DEF Saved, OutboundSaved, PubrelsSaved
  <2>8. \A k : InMemory(k) => InMemory(k)'
    <3>1. \A l \in DOMAIN outbound : outbound[l].next = "PUBCOMP" => outbound'[l].next = "PUBCOMP"
      BY <1>3, <1>6, <2>3
    <3>2. QED
      BY <1>1, <2>3, <2>4, <3>1 DEF InMemory
  <2>9. QED
    BY <1>1, <2>5, <2>6, <2>7, <2>8, Handled
<1>7. QED
  BY <1>1, <1>5, <1>6

LEMMA ProcessCommandSession ==
  ASSUME Typed, Session, ProcessCommand
  PROVE  Session'
<1> DEFINE m == Head(commands)
           o == Outbound(m, AnswerTo(m.qos))
           w == WriteOf(PubPacket(m, FALSE))
           c == RemoveOf(CommandKey(m.n))
           s == PutOf(SentKey(m.id), m)
           short == <<c>>
           long == <<c, s>>
           shortWork == short \o <<w>>
           longWork == long \o <<w>>
<1>1. /\ todo = <<>> /\ running /\ connected /\ commands # <<>> /\ commands' = Tail(commands)
      /\ \/ m.qos = 0 /\ todo' = shortWork /\ outbound' = outbound
         \/ m.qos > 0 /\ todo' = longWork /\ outbound' = Append(outbound, o)
      /\ UNCHANGED <<plan, running, connected, inbound, messageQueue, qentrySeqno, store>>
  BY DEF ProcessCommand, Idle
<1>2. commands \in Seq(CommandContents) /\ outbound \in Seq(OutMessages) /\ plan \in Plans
  BY DEF Typed, ClientTyped
<1>3. /\ m = commands[1] /\ 1 \in DOMAIN commands /\ m \in CommandContents
      /\ \A i \in DOMAIN commands' : /\ i \in Nat /\ i + 1 \in DOMAIN commands /\ i + 1 # 1
                                     /\ commands'[i] = commands[i + 1]
      /\ \A i \in DOMAIN commands : i # 1 => \E j \in DOMAIN commands' : commands'[j] = commands[i]
  <2>1. /\ m = commands[1] /\ 1 \in DOMAIN commands /\ m \in CommandContents
        /\ \A i \in DOMAIN commands' : i \in Nat /\ i + 1 \in DOMAIN commands /\ i + 1 # 1
                                       /\ commands'[i] = commands[i + 1]
        /\ \A i \in DOMAIN commands : i # 1 =>
             i - 1 \in DOMAIN commands' /\ commands'[i - 1] = commands[i]
    BY <1>1, <1>2, Heads
  <2>2. QED
    BY <2>1
<1>4. /\ m.n \in Nat /\ m.id \in Nat /\ m.qos \in 0..2 /\ (m.id = 0 <=> m.qos = 0)
      /\ m.qos # 0 => m \in OutContents /\ m.id \in MsgIds /\ o \in OutMessages
      /\ PubPacket(m, FALSE) \in Packets(Out)
  <2>1. m.n \in Nat /\ m.id \in Nat /\ m.qos \in 0..2 /\ (m.id = 0 <=> m.qos = 0)
    BY <1>3, MaxMsgIdAssumption DEF CommandContents, Out
  <2>2. QED
    BY <1>2, <1>3, <2>1, MessageTypes
<1>5. /\ o.id = m.id /\ ContentOf(o) = [id |-> m.id, n |-> m.n, qos |-> m.qos]
      /\ o.next # "PUBCOMP" /\ (m.qos # 0 => ContentOf(o) = m)
  <2>1. o.id = m.id /\ o.n = m.n /\ o.qos = m.qos /\ o.next = AnswerTo(m.qos)
    BY DEF Outbound
  <2>2. ContentOf(o) = [id |-> m.id, n |-> m.n, qos |-> m.qos]
    BY <2>1 DEF ContentOf
  <2>3. o.next # "PUBCOMP"
    BY <2>1 DEF AnswerTo
  <2>4. m = [id |-> m.id, n |-> m.n, qos |-> m.qos]
    <3>1. m \in [id : 0..MaxMsgId, n : Out, qos : 0..2]
      BY <1>3 DEF CommandContents
    <3> HIDE DEF m
    <3>2. QED
      BY <3>1
  <2>5. QED
    BY <2>1, <2>2, <2>3, <2>4
<1> HIDE DEF m, o
<1>20. /\ m.qos = 0 => todo' = shortWork /\ outbound' = outbound
       /\ m.qos # 0 => todo' = longWork /\ outbound' = Append(outbound, o)
  <2> HIDE DEF shortWork, longWork
  <2>1. QED
    BY <1>1, <1>4
<1>6. /\ w \in Effects /\ c \in Effects /\ (m.qos # 0 => s \in Effects)
      /\ w.op = "write" /\ c.op = "remove" /\ c.key = CommandKey(m.n)
      /\ s.op = "put" /\ s.key = SentKey(m.id) /\ s.content = m
  <2>1. w \in Effects
    BY <1>4, EffectTypes
  <2>2. c \in Effects
    BY <1>4, KeyTypes, EffectTypes
  <2>3. m.qos # 0 => s \in Effects
    BY <1>4, KeyTypes, EffectTypes
  <2>4. QED
    BY <2>1, <2>2, <2>3 DEF WriteOf, RemoveOf, PutOf
<1> HIDE DEF w, c, s
<1>7. /\ \A j \in DOMAIN todo' : todo'[j].op = "remove" => j = 1 /\ todo'[j] = c
      /\ 1 \in DOMAIN todo' /\ todo'[1] = c
      /\ \A j \in DOMAIN todo' : todo'[j].op = "put" => m.qos # 0 /\ todo'[j] = s
      /\ m.qos # 0 => \E j \in DOMAIN todo' : todo'[j] = s
  <2>1. CASE m.qos = 0
    <3>1. todo' = short \o <<w>>
      BY <1>20, <2>1
    <3>2. short \in Seq(Effects) /\ DOMAIN short = 1..1 /\ short[1] = c
      BY <1>6
    <3> HIDE DEF short
    <3>3. /\ \A j \in DOMAIN todo' : todo'[j].op \in {"put", "remove"} =>
               j \in DOMAIN short /\ todo'[j] = short[j]
          /\ \A j \in DOMAIN short : j \in DOMAIN todo' /\ todo'[j] = short[j]
      BY <1>6, <3>1, <3>2, LastEffect
    <3>4. QED
      BY <1>6, <2>1, <3>2, <3>3
  <2>2. CASE m.qos # 0
    <3>1. todo' = long \o <<w>>
      BY <1>20, <2>2
    <3>2. long \in Seq(Effects) /\ DOMAIN long = 1..2 /\ long[1] = c /\ long[2] = s
      BY <1>6, <2>2
    <3> HIDE DEF long
    <3>3. /\ \A j \in DOMAIN todo' : todo'[j].op \in {"put", "remove"} =>
               j \in DOMAIN long /\ todo'[j] = long[j]
          /\ \A j \in DOMAIN long : j \in DOMAIN todo' /\ todo'[j] = long[j]
      BY <1>6, <3>1, <3>2, LastEffect
    <3>4. QED
      BY <1>6, <2>2, <3>2, <3>3
  <2>3. QED
    BY <2>1, <2>2
<1>8. /\ m.qos = 0 => outbound' = outbound
      /\ m.qos # 0 => outbound' = Append(outbound, o)
  BY <1>20
<1> HIDE DEF short, long, shortWork, longWork
<1>9. /\ Len(outbound) \in Nat /\ DOMAIN outbound = 1..Len(outbound)
      /\ \A l \in DOMAIN outbound : l \in DOMAIN outbound' /\ outbound'[l] = outbound[l]
      /\ \A l \in DOMAIN outbound' : \/ l \in DOMAIN outbound /\ outbound'[l] = outbound[l]
                                     \/ m.qos # 0 /\ l = Len(outbound) + 1 /\ outbound'[l] = o
      /\ m.qos # 0 => \E l \in DOMAIN outbound' : outbound'[l] = o
  <2>1. CASE m.qos = 0
    BY <1>2, <1>8, <2>1
  <2>2. CASE m.qos # 0
    BY <1>2, <1>4, <1>8, <2>2, Appended
  <2>3. QED
    BY <2>1, <2>2
<1>10. /\ \A l \in DOMAIN outbound : outbound[l].id # m.id
       /\ \A i \in DOMAIN commands : i # 1 => commands[i].n # m.n /\ (m.id # 0 => commands[i].id # m.id)
  BY <1>1, <1>3 DEF Session, Listed, IdsApart
<1>11. Listed'
  <2>1. \A k, l \in DOMAIN outbound' : outbound'[k].id = outbound'[l].id => k = l
    BY <1>5, <1>9, <1>10 DEF Session, Listed
  <2>2. ASSUME NEW k \in DOMAIN commands', NEW l \in DOMAIN commands', commands'[k].n = commands'[l].n
        PROVE  k = l
    <3>1. k + 1 = l + 1 /\ k \in Nat /\ l \in Nat
      BY <1>3, <2>2 DEF Session, Listed
    <3>2. QED
      BY <3>1
  <2>3. QED
    BY <1>1, <2>1, <2>2 DEF Session, Listed
<1>12. IdsApart'
  <2>1. ASSUME NEW k \in DOMAIN commands', NEW l \in DOMAIN commands',
               commands'[k].id = commands'[l].id, commands'[k].id # 0
        PROVE  k = l
    <3>1. k + 1 = l + 1 /\ k \in Nat /\ l \in Nat
      BY <1>1, <1>3, <2>1 DEF Session, IdsApart
    <3>2. QED
      BY <3>1
  <2>2. ASSUME NEW k \in DOMAIN commands', NEW l \in DOMAIN outbound'
        PROVE  commands'[k].id # outbound'[l].id
    <3>1. k + 1 \in DOMAIN commands /\ k + 1 # 1 /\ commands'[k] = commands[k + 1]
      BY <1>3
    <3>2. CASE l \in DOMAIN outbound /\ outbound'[l] = outbound[l]
      BY <1>1, <3>1, <3>2 DEF Session, IdsApart
    <3>3. CASE m.qos # 0 /\ outbound'[l] = o
      BY <1>4, <1>5, <1>10, <3>1, <3>3
    <3>4. QED
      BY <1>9, <3>2, <3>3
  <2>3. QED
    BY <2>1, <2>2 DEF IdsApart
<1>13. PutsKnown'
  <2>1. ASSUME NEW j \in DOMAIN todo', todo'[j].op = "put" PROVE PutKnown(j)'
    <3>1. /\ m.qos # 0 /\ todo'[j].key[1] = "s-" /\ todo'[j].key[2] = m.id
          /\ todo'[j].content = m
      BY <1>6, <1>7, <2>1 DEF SentKey
    <3>2. PICK l \in DOMAIN outbound' : outbound'[l] = o
      BY <1>9, <3>1
    <3>3. m.id = outbound'[l].id /\ m = ContentOf(outbound'[l]) /\ outbound'[l].next # "PUBCOMP"
      BY <1>5, <3>1, <3>2
    <3>4. QED
      BY <3>1, <3>3 DEF PutKnown
  <2>2. QED
    BY <2>1 DEF PutsKnown
<1>14. RemovalsKnown'
  <2>1. ASSUME NEW j \in DOMAIN todo', todo'[j].op = "remove" PROVE RemovalKnown(j)'
    <3>1. j = 1 /\ todo'[j].key[1] = "c-" /\ todo'[j].key[2] = m.n
      BY <1>6, <1>7, <2>1 DEF CommandKey
    <3>2. \A i \in DOMAIN commands' : commands'[i].n # m.n
      BY <1>3, <1>10
    <3>3. QED
      BY <3>1, <3>2 DEF RemovalKnown
  <2>2. QED
    BY <2>1 DEF RemovalsKnown
<1>15. Saved'
  <2>1. ASSUME NEW l \in DOMAIN commands', NEW k, k = CommandKey(commands'[l].n),
               NEW y, y = commands'[l]
        PROVE  FileIs(k, y)'
    <3>1. FileIs(k, y)
      BY <1>3, <2>1 DEF Session, Saved, CommandsSaved
    <3>2. QED
      BY <1>1, <3>1 DEF FileIs
  <2>2. InboundSaved' /\ QueueSaved'
    BY <1>1, AtRest DEF InboundSaved, QueueSaved, Kept, FileIs
  <2>3. ASSUME NEW l \in DOMAIN outbound', NEW k, k = SentKey(outbound'[l].id),
               NEW y, y = ContentOf(outbound'[l])
        PROVE  Kept(k, y)'
    <3>1. CASE l \in DOMAIN outbound /\ outbound'[l] = outbound[l]
      <4>1. FileIs(k, y)
        BY <1>1, <2>3, <3>1, AtRest
      <4>2. QED
        BY <1>1, <4>1 DEF Kept, FileIs
    <3>2. CASE m.qos # 0 /\ outbound'[l] = o
      <4>1. k = s.key /\ y = s.content
        BY <1>5, <1>6, <2>3, <3>2
      <4>2. QED
        BY <1>6, <1>7, <3>2, <4>1 DEF Kept, HasPut
    <3>3. QED
      BY <1>9, <3>1, <3>2
  <2>4. PubrelsSaved'
    <3>1. \A l \in DOMAIN outbound' : outbound'[l].next = "PUBCOMP" =>
            l \in DOMAIN outbound /\ outbound'[l] = outbound[l]
      BY <1>5, <1>9
    <3>2. QED
      BY <1>1, <3>1, AtRest DEF PubrelsSaved
  <2>5. QED
    BY <2>1, <2>2, <2>3, <2>4 DEF Saved, CommandsSaved, OutboundSaved
<1>16. ASSUME NEW k \in DOMAIN store.files, InMemory(k)
       PROVE  InMemory(k)' \/ HasRemove(k)'
  <2>1. k = <<k[1], k[2]>>
    BY StemsOf DEF Typed, StoreTyped
  <2>2. CASE k[1] = "c-"
    <3>1. PICK l \in DOMAIN commands : k[2] = commands[l].n
      BY <1>16, <2>2 DEF InMemory
    <3>2. CASE l = 1
      <4>1. k = CommandKey(m.n)
        BY <1>3, <2>1, <2>2, <3>1, <3>2 DEF CommandKey
      <4>2. QED
        BY <1>6, <1>7, <4>1 DEF HasRemove
    <3>3. CASE l # 1
      <4>1. PICK j \in DOMAIN commands' : commands'[j] = commands[l]
        BY <1>3, <3>3
      <4>2. QED
        BY <2>2, <3>1, <4>1 DEF InMemory
    <3>4. QED
      BY <3>2, <3>3
  <2>3. CASE k[1] # "c-"
    BY <1>1, <1>9, <1>16, <2>3 DEF InMemory
  <2>4. QED
    BY <2>2, <2>3
<1>17. QED
  BY <1>1, <1>11, <1>12, <1>13, <1>14, <1>15, <1>16, Handled

-----------------------------------------------------------------------------
(* The session: retries, connections and the end of the process             *)

LEMMA ResentKnown ==
  ASSUME outbound' = outbound,
         \A j \in DOMAIN todo' : todo'[j] \in Resent(outbound) \/ todo'[j] = TryQueue
  PROVE  PutsKnown' /\ RemovalsKnown'
<1>1. TryQueue.op = "queue"
  BY EffectForms
<1>2. \A j \in DOMAIN todo' : todo'[j].op \in {"put", "remove"} =>
        \E i \in DOMAIN outbound : PutFor(todo'[j], outbound[i])
  <2>1. ASSUME NEW j \in DOMAIN todo', todo'[j].op \in {"put", "remove"}
        PROVE  \E i \in DOMAIN outbound : PutFor(todo'[j], outbound[i])
    <3>1. todo'[j] \in Resent(outbound)
      BY <1>1, <2>1
    <3>2. QED
      BY <2>1, <3>1 DEF Resent
  <2>2. QED
    BY <2>1
<1>3. ASSUME NEW j \in DOMAIN todo', todo'[j].op = "put"
      PROVE  PutKnown(j)'
  <2>1. PICK i \in DOMAIN outbound : PutFor(todo'[j], outbound[i])
    BY <1>2, <1>3
  <2>2. CASE outbound[i].next # "PUBCOMP"
    <3>1. /\ todo'[j].key[1] = "s-" /\ todo'[j].key[2] = outbound'[i].id
          /\ todo'[j].content = ContentOf(outbound'[i]) /\ outbound'[i].next # "PUBCOMP"
          /\ i \in DOMAIN outbound'
      BY <2>1, <2>2 DEF PutFor, SentKey
    <3>2. QED
      BY <3>1 DEF PutKnown
  <2>3. CASE outbound[i].next = "PUBCOMP"
    <3>1. /\ todo'[j].key[1] = "sc-" /\ todo'[j].key[2] = outbound'[i].id
          /\ todo'[j].content = ContentOf(outbound'[i]) /\ outbound'[i].next = "PUBCOMP"
          /\ i \in DOMAIN outbound'
      BY <2>1, <2>3 DEF PutFor, PubrelKey
    <3>2. QED
      BY <3>1 DEF PutKnown
  <2>4. QED
    BY <2>2, <2>3
<1>4. \A j \in DOMAIN todo' : todo'[j].op # "remove"
  BY <1>2 DEF PutFor
<1>5. QED
  BY <1>3, <1>4 DEF PutsKnown, RemovalsKnown

LEMMA RetrySession ==
  ASSUME Typed, Session, Retry
  PROVE  Session'
<1>1. /\ todo = <<>> /\ running
      /\ UNCHANGED <<plan, running, connected, commands, outbound, inbound, messageQueue,
                     qentrySeqno, store>>
  BY DEF Retry, Idle, memory
<1>2. PICK i \in DOMAIN outbound : todo' = Resends(SubSeq(outbound, 1, i))
  BY DEF Retry
<1>3. outbound \in Seq(OutMessages)
  BY DEF Typed, ClientTyped
<1>4. todo' \in Seq(Resent(outbound))
  BY <1>2, <1>3, ResentPart
<1>5. PutsKnown' /\ RemovalsKnown'
  <2>1. \A j \in DOMAIN todo' : todo'[j] \in Resent(outbound)
    BY <1>4
  <2>2. QED
    BY <1>1, <2>1, ResentKnown
<1>6. QED
  BY <1>1, <1>5, OnlyWork

\* nothing is left in memory: the process has ended, or the session is clean
LEMMA ForgottenSession ==
  ASSUME Session, Forgotten, plan' = plan, todo' = <<>>, store'.files = store.files,
         \/ ~running' /\ ~connected'
         \/ plan.clean /\ running'
  PROVE  Session'
<1>1. commands' = <<>> /\ outbound' = <<>> /\ inbound' = <<>> /\ messageQueue' = <<>>
  BY DEF Forgotten
<1>2. DOMAIN (<<>>) = {}
  OBVIOUS
<1>3. Resting' /\ Listed' /\ IdsApart'
  BY <1>1, <1>2 DEF Resting, Listed, IdsApart
<1>4. PutsKnown' /\ RemovalsKnown'
  BY <1>2, NoFileWork
<1>5. FilesApart' /\ PubrelOfQos2' /\ NothingElse'
  BY DEF Session, FilesApart, HoldsId, PubrelOfQos2, NothingElse
<1>6. Saved'
  BY <1>1, <1>2 DEF Saved, CommandsSaved, OutboundSaved, PubrelsSaved, InboundSaved, QueueSaved
<1>7. QED
  BY <1>3, <1>4, <1>5, <1>6 DEF Session

LEMMA NoticeLostSession ==
  ASSUME Typed, Session, NoticeLost
  PROVE  Session'
<1>1. /\ todo = <<>> /\ running /\ ~connected' /\ UNCHANGED <<plan, running, todo>>
      /\ \/ plan.clean /\ Forgotten /\ store' = store
         \/ UNCHANGED <<memory, store>>
  BY DEF NoticeLost, Idle, PstClear
<1>2. CASE plan.clean /\ Forgotten /\ store' = store
  BY <1>1, <1>2, ForgottenSession
<1>3. CASE UNCHANGED <<memory, store>>
  <2>1. UNCHANGED <<commands, outbound, inbound, messageQueue, qentrySeqno, store>>
    BY <1>3 DEF memory
  <2>2. PutsKnown' /\ RemovalsKnown'
    <3>1. DOMAIN (<<>>) = {}
      OBVIOUS
    <3>2. QED
      BY <1>1, <3>1, NoFileWork
  <2>3. QED
    BY <1>1, <2>1, <2>2, OnlyWork
<1>4. QED
  BY <1>1, <1>2, <1>3

LEMMA ConnectSession ==
  ASSUME Typed, Session, Connect
  PROVE  Session'
<1> DEFINE resends == Resends(outbound)
           later == <<TryQueue>> \o resends
<1>1. /\ todo = <<>> /\ running /\ UNCHANGED <<plan, running>>
      /\ \/ plan.clean /\ Forgotten /\ store' = store /\ todo' = <<>>
         \/ ~plan.clean /\ todo' = later /\ UNCHANGED <<memory, store>>
  BY DEF Connect, Idle, PstClear
<1>2. later \in Seq(Resent(outbound) \cup {TryQueue})
  <2>1. resends \in Seq(Resent(outbound) \cup {TryQueue})
    <3>1. resends \in Seq(Resent(outbound))
      BY ResendsType DEF Typed, ClientTyped
    <3> HIDE DEF resends
    <3>2. QED
      BY <3>1
  <2> HIDE DEF resends
  <2>2. QED
    BY <2>1, Joined
<1> HIDE DEF later
<1>3. CASE plan.clean /\ Forgotten /\ store' = store /\ todo' = <<>>
  BY <1>1, <1>3, ForgottenSession
<1>4. CASE ~plan.clean /\ todo' = later /\ UNCHANGED <<memory, store>>
  <2>1. UNCHANGED <<commands, outbound, inbound, messageQueue, qentrySeqno, store>>
    BY <1>4 DEF memory
  <2>2. \A j \in DOMAIN todo' : todo'[j] \in Resent(outbound) \/ todo'[j] = TryQueue
    BY <1>2, <1>4
  <2>3. PutsKnown' /\ RemovalsKnown'
    BY <2>1, <2>2, ResentKnown
  <2>4. QED
    BY <1>1, <1>4, <2>1, <2>3, OnlyWork
<1>5. QED
  BY <1>1, <1>3, <1>4

LEMMA EndProcessSession ==
  ASSUME Session, EndProcess, store'.files = store.files
  PROVE  Session'
<1>1. ~running' /\ ~connected' /\ Forgotten /\ todo' = <<>> /\ plan' = plan
  BY DEF EndProcess
<1>2. QED
  BY <1>1, ForgottenSession

-----------------------------------------------------------------------------
(* The session: publishing                                                  *)

LEMMA PublishSession ==
  ASSUME Typed, Session, Publish, "ids" \notin Faults
  PROVE  Session'
<1> DEFINE n == published + 1
           id == IF plan.out[n] = 0 THEN 0 ELSE AssignMsgId
           m == [id |-> id, n |-> n, qos |-> plan.out[n]]
           key == CommandKey(n)
<1>1. /\ todo = <<>> /\ running /\ connected /\ n \in Out /\ IdsContinue
      /\ plan.out[n] > 0 => id # 0
      /\ commands' = Append(commands, m) /\ store' = PstPut(store, key, m)
      /\ UNCHANGED <<plan, running, connected, outbound, inbound, messageQueue, qentrySeqno, todo>>
  BY DEF Publish, Idle
<1>2. /\ commands \in Seq(CommandContents) /\ outbound \in Seq(OutMessages) /\ plan \in Plans
      /\ msgID \in 0..MaxMsgId /\ published \in Nat /\ responses \subseteq MsgIds
      /\ \A i \in DOMAIN commands : commands[i].n <= published
  <2>1. published \in 0..Len(plan.out) /\ Len(plan.out) \in Nat
    BY PlanTypes DEF Typed, ClientTyped
  <2>2. QED
    BY <2>1 DEF Typed, ClientTyped
<1>3. plan.out[n] \in 0..2
  BY <1>1, <1>2, PlanTypes
<1>4. id = 0 \/ (id \in MsgIds /\ ~IdInUse(id))
  BY <1>2, AssignedId
<1>5. /\ m.id = id /\ m.n = n /\ m.qos = plan.out[n] /\ (id = 0 <=> plan.out[n] = 0)
      /\ m \in CommandContents
  <2>1. m.id = id /\ m.n = n /\ m.qos = plan.out[n]
    OBVIOUS
  <2>2. id = 0 <=> plan.out[n] = 0
    BY <1>1, <1>3
  <2>3. id \in 0..MaxMsgId
    <3>1. 0 \in 0..MaxMsgId /\ \A x \in MsgIds : x \in 0..MaxMsgId
      BY MaxMsgIdAssumption DEF MsgIds
    <3> HIDE DEF id
    <3>2. QED
      BY <1>4, <3>1
  <2> HIDE DEF id, n
  <2>4. m \in CommandContents
    BY <1>1, <1>3, <2>2, <2>3 DEF CommandContents
  <2>5. QED
    BY <2>1, <2>2, <2>4
<1>6. \A i \in DOMAIN commands : commands[i].n # n /\ commands[i].n \in Nat
  BY <1>2 DEF CommandContents, Out
<1>7. /\ \A i \in DOMAIN commands : id # 0 => commands[i].id # id
      /\ \A i \in DOMAIN outbound : outbound[i].id # id
  <2>1. \A i \in DOMAIN commands : commands[i] \in ToSet(commands)
    BY <1>2 DEF ToSet
  <2>2. \A i \in DOMAIN outbound : outbound[i].id \in responses /\ outbound[i].id # 0
    <3>1. \A i \in DOMAIN outbound : outbound[i].id \in responses
      BY <1>1 DEF IdsContinue
    <3>2. \A x \in MsgIds : x # 0
      BY MaxMsgIdAssumption DEF MsgIds
    <3>3. QED
      BY <1>2, <3>1, <3>2
  <2>3. QED
    BY <1>4, <2>1, <2>2 DEF IdInUse
<1>8. n \in Nat
  BY <1>2
<1> HIDE DEF m, id, n
<1>9. /\ Len(commands) \in Nat
      /\ \A i \in DOMAIN commands : i \in DOMAIN commands' /\ commands'[i] = commands[i]
      /\ \A i \in DOMAIN commands' : (i \in DOMAIN commands /\ commands'[i] = commands[i])
                                     \/ (i = Len(commands) + 1 /\ commands'[i] = m)
      /\ \E i \in DOMAIN commands' : commands'[i] = m
  BY <1>1, <1>2, <1>5, Appended
<1>10. /\ DOMAIN store'.files = DOMAIN store.files \cup {key} /\ store'.files[key] = m
       /\ \A k \in DOMAIN store.files : k # key => store'.files[k] = store.files[k]
  BY <1>1, FilesAfterPut DEF Typed, StoreTyped
<1>11. key \notin DOMAIN store.files
  <2>1. SUFFICES ASSUME key \in DOMAIN store.files PROVE FALSE
    OBVIOUS
  <2>2. FileOK(key, store.files[key])
    BY <2>1 DEF Typed, StoreTyped
  <2>3. store.files[key].n = n /\ store.files[key].n <= published
    BY <2>2 DEF FileOK, CommandKey
  <2>4. QED
    BY <1>2, <2>3 DEF n
<1>12. /\ \A k, c : FileIs(k, c) => FileIs(k, c)'
       /\ \A k, c : Kept(k, c) => Kept(k, c)'
  BY <1>1, <1>10, <1>11 DEF FileIs, Kept, HasPut
<1>13. Listed'
  <2>1. \A i, j \in DOMAIN commands' : commands'[i].n = commands'[j].n => i = j
    BY <1>5, <1>6, <1>9 DEF Session, Listed
  <2>2. QED
    BY <1>1, <2>1 DEF Session, Listed
<1>14. IdsApart'
  <2>1. \A i, j \in DOMAIN commands' : commands'[i].id = commands'[j].id /\ commands'[i].id # 0 => i = j
    BY <1>1, <1>5, <1>7, <1>9 DEF Session, IdsApart
  <2>2. \A i \in DOMAIN commands', j \in DOMAIN outbound' : commands'[i].id # outbound'[j].id
    BY <1>1, <1>5, <1>7, <1>9 DEF Session, IdsApart
  <2>3. QED
    BY <2>1, <2>2 DEF IdsApart
<1>15. ~plan.clean => \A k : HoldsId(k) /\ id # 0 => store.files[k].id # id
  <2>1. ASSUME ~plan.clean, NEW k, HoldsId(k), id # 0 PROVE store.files[k].id # id
    <3>1. k \in DOMAIN store.files /\ k = <<k[1], k[2]>> /\ k[1] \in {"c-", "s-"}
      BY <2>1, StemsOf DEF HoldsId, Typed, StoreTyped
    <3>2. InMemory(k)
      BY <1>1, <2>1, <3>1, AtRest
    <3>3. CASE k[1] = "c-"
      <4>1. PICK i \in DOMAIN commands : k[2] = commands[i].n
        BY <3>2, <3>3 DEF InMemory
      <4>2. FileIs(CommandKey(commands[i].n), commands[i])
        BY DEF Session, Saved, CommandsSaved
      <4>3. CommandKey(commands[i].n) = k
        BY <3>1, <3>3, <4>1 DEF CommandKey
      <4>4. QED
        BY <1>7, <2>1, <4>2, <4>3 DEF FileIs
    <3>4. CASE k[1] = "s-"
      <4>1. PICK i \in DOMAIN outbound : k[2] = outbound[i].id
        BY <3>2, <3>4 DEF InMemory
      <4>2. FileIs(SentKey(outbound[i].id), ContentOf(outbound[i]))
        BY <1>1, AtRest
      <4>3. SentKey(outbound[i].id) = k
        BY <3>1, <3>4, <4>1 DEF SentKey
      <4>4. ContentOf(outbound[i]).id = outbound[i].id
        BY DEF ContentOf
      <4>5. QED
        BY <1>7, <4>2, <4>3, <4>4 DEF FileIs
    <3>5. QED
      BY <3>1, <3>3, <3>4
  <2>2. QED
    BY <2>1
<1>16. FilesApart'
  <2>1. \A k : HoldsId(k)' => \/ k = key /\ store'.files[k].id = id
                              \/ HoldsId(k) /\ store'.files[k] = store.files[k]
    BY <1>5, <1>10, <1>11 DEF HoldsId
  <2>2. ASSUME ~plan.clean, NEW k, NEW l, HoldsId(k)', HoldsId(l)',
               store'.files[k].id = store'.files[l].id, store'.files[k].id # 0
        PROVE  k = l
    BY <1>15, <2>1, <2>2 DEF Session, FilesApart
  <2>3. QED
    BY <1>1, <2>2 DEF FilesApart
<1>17. PutsKnown' /\ RemovalsKnown'
  <2>1. DOMAIN (<<>>) = {}
    OBVIOUS
  <2>2. QED
    BY <1>1, <2>1, NoFileWork
<1>18. CommandsSaved'
  <2>1. ASSUME NEW i \in DOMAIN commands', NEW k, k = CommandKey(commands'[i].n),
               NEW y, y = commands'[i]
        PROVE  FileIs(k, y)'
    <3>1. CASE i \in DOMAIN commands /\ commands'[i] = commands[i]
      <4>1. FileIs(k, y)
        BY <2>1, <3>1 DEF Session, Saved, CommandsSaved
      <4>2. QED
        BY <1>12, <4>1
    <3>2. CASE commands'[i] = m
      BY <1>5, <1>10, <2>1, <3>2 DEF FileIs
    <3>3. QED
      BY <1>9, <3>1, <3>2
  <2>2. QED
    BY <2>1 DEF CommandsSaved
<1>19. OutboundSaved' /\ PubrelsSaved' /\ InboundSaved' /\ QueueSaved'
  <2>1. OutboundSaved'
    BY <1>1, <1>12 DEF Session, Saved, OutboundSaved
  <2>2. InboundSaved' /\ QueueSaved'
    BY <1>1, <1>12 DEF Session, Saved, InboundSaved, QueueSaved
  <2>3. PubrelsSaved'
    BY <1>1, <1>10 DEF Session, Saved, PubrelsSaved, HasPut
  <2>4. QED
    BY <2>1, <2>2, <2>3
<1>20. NothingElse'
  <2>1. ASSUME ~plan.clean, NEW k \in DOMAIN store'.files PROVE InMemory(k)'
    <3>1. CASE k = key
      BY <1>5, <1>9, <3>1 DEF InMemory, CommandKey
    <3>2. CASE k \in DOMAIN store.files
      <4>1. InMemory(k)
        BY <1>1, <2>1, <3>2, AtRest
      <4>2. \A i \in DOMAIN commands : \E j \in DOMAIN commands' : commands'[j] = commands[i]
        BY <1>9
      <4>3. QED
        BY <1>1, <4>1, <4>2 DEF InMemory
    <3>3. QED
      BY <1>10, <3>1, <3>2
  <2>2. QED
    BY <1>1, <2>1 DEF NothingElse
<1>21. PubrelOfQos2' /\ Resting'
  <2>1. \A i : SentKey(i) # key /\ PubrelKey(i) # key
    BY DEF SentKey, PubrelKey, CommandKey
  <2>2. QED
    BY <1>1, <1>10, <2>1 DEF Session, PubrelOfQos2, Resting
<1>22. QED
  BY <1>13, <1>14, <1>16, <1>17, <1>18, <1>19, <1>20, <1>21 DEF Session, Saved

-----------------------------------------------------------------------------
(* The session: a new process                                               *)

LEMMA RestartSession ==
  ASSUME Typed, Session, Restart
  PROVE  Session'
<1>1. PICK keys \in PstKeys(store) :
       /\ commands' = RestoreCommands(store, keys)
       /\ store' = PstOpen(RestoredStore(store, keys))
       /\ inbound' = RestoredInbound(store, keys)
       /\ outbound' = RestoredOutbound(store, keys)
       /\ messageQueue' = RestoreMessageQueue(store, keys)
       /\ qentrySeqno' = IF messageQueue' = <<>> THEN 0 ELSE Last(messageQueue').seqno
  BY DEF Restart
<1>2. ~running /\ running' /\ plan' = plan /\ todo' = <<>> /\ ~connected'
  BY DEF Restart, Session, Resting
<1>3. StoreTyped
  BY DEF Typed
<1>4. /\ DOMAIN store'.files \subseteq DOMAIN store.files
      /\ \A k \in DOMAIN store'.files : store'.files[k] = store.files[k]
      /\ \A k \in DOMAIN store.files :
           k \in DOMAIN store'.files \/ (k[1] = "sc-" /\ SentKey(k[2]) \notin DOMAIN store.files)
      /\ \A k \in DOMAIN store'.files : k[1] = "sc-" => SentKey(k[2]) \in DOMAIN store.files
  BY <1>1, RestartStore
<1>5. /\ commands' \in Seq(CommandContents)
      /\ \A i \in DOMAIN commands' : FileIs(CommandKey(commands'[i].n), commands'[i])
      /\ \A k \in Files("c-") : \E i \in DOMAIN commands' : k[2] = commands'[i].n
      /\ \A i, j \in DOMAIN commands' : commands'[i].n = commands'[j].n => i = j
  BY <1>1, <1>3, CommandsRestored DEF FileIs
<1>6. /\ \A i \in DOMAIN inbound' : FileIs(ReceivedKey(inbound'[i].id), ReceivedOf(inbound'[i]))
      /\ \A k \in Files("r-") : \E i \in DOMAIN inbound' : k[2] = inbound'[i].id
      /\ \A i, j \in DOMAIN inbound' : inbound'[i].id = inbound'[j].id => i = j
  BY <1>1, <1>3, InboundRestored DEF FileIs
<1>7. /\ messageQueue' \in Seq(Entries)
      /\ \A i \in DOMAIN messageQueue' : FileIs(QueueKey(messageQueue'[i].seqno), messageQueue'[i].n)
      /\ \A k \in Files("q-") : \E i \in DOMAIN messageQueue' : k[2] = messageQueue'[i].seqno
      /\ \A i, j \in DOMAIN messageQueue' : i < j => messageQueue'[i].seqno < messageQueue'[j].seqno
  BY <1>1, <1>3, QueueRestored DEF FileIs
<1>8. /\ outbound' \in Seq(OutMessages)
      /\ \A i \in DOMAIN outbound' :
           /\ FileIs(SentKey(outbound'[i].id), ContentOf(outbound'[i]))
           /\ outbound'[i].next = "PUBCOMP" <=>
                outbound'[i].qos = 2 /\ PubrelKey(outbound'[i].id) \in DOMAIN store.files
      /\ \A k \in Files("s-") : \E i \in DOMAIN outbound' : k[2] = outbound'[i].id
      /\ \A i, j \in DOMAIN outbound' : outbound'[i].id = outbound'[j].id => i = j
  BY <1>1, <1>3, OutboundRestored DEF FileIs
<1>9. \A k, c : k[1] # "sc-" /\ FileIs(k, c) => FileIs(k, c)'
  BY <1>4 DEF FileIs
<1>10. Listed'
  <2>1. \A i \in DOMAIN messageQueue' : messageQueue'[i].seqno <= qentrySeqno'
    <3>1. ASSUME NEW i \in DOMAIN messageQueue' PROVE messageQueue'[i].seqno <= qentrySeqno'
      <4>1. /\ i \in Nat /\ Len(messageQueue') \in DOMAIN messageQueue'
            /\ i = Len(messageQueue') \/ i < Len(messageQueue')
            /\ messageQueue' # <<>>
        BY <1>7, <3>1
      <4>2. qentrySeqno' = messageQueue'[Len(messageQueue')].seqno
        BY <1>1, <1>7, <4>1 DEF Last
      <4>3. messageQueue'[i].seqno \in Nat
        <5>1. messageQueue'[i] \in Entries
          BY <1>7, <3>1
        <5>2. QED
          BY <5>1 DEF Entries
      <4>4. CASE i = Len(messageQueue')
        BY <4>2, <4>3, <4>4
      <4>5. CASE i < Len(messageQueue')
        <5>1. messageQueue'[i].seqno < messageQueue'[Len(messageQueue')].seqno
          BY <1>7, <3>1, <4>1, <4>5
        <5>2. messageQueue'[Len(messageQueue')] \in Entries
          BY <1>7, <4>1
        <5>3. messageQueue'[Len(messageQueue')].seqno \in Nat
          BY <5>2 DEF Entries
        <5>4. QED
          BY <4>2, <4>3, <5>1, <5>3
      <4>6. QED
        BY <4>1, <4>4, <4>5
    <3>2. QED
      BY <3>1
  <2>2. QED
    BY <1>5, <1>6, <1>7, <1>8, <2>1 DEF Listed
<1>11. IdsApart'
  <2>1. SUFFICES ASSUME ~plan.clean
                 PROVE  /\ \A i, j \in DOMAIN commands' :
                             commands'[i].id = commands'[j].id /\ commands'[i].id # 0 => i = j
                        /\ \A i \in DOMAIN commands', j \in DOMAIN outbound' :
                             commands'[i].id # outbound'[j].id
    BY <1>2 DEF IdsApart
  <2>2. \A k, l : HoldsId(k) /\ HoldsId(l) /\ store.files[k].id = store.files[l].id
                  /\ store.files[k].id # 0 => k = l
    BY <2>1 DEF Session, FilesApart
  <2>3. \A i \in DOMAIN commands' : HoldsId(CommandKey(commands'[i].n))
                                    /\ store.files[CommandKey(commands'[i].n)] = commands'[i]
    BY <1>5 DEF FileIs, HoldsId, CommandKey
  <2>4. \A i \in DOMAIN outbound' : /\ HoldsId(SentKey(outbound'[i].id))
                                    /\ store.files[SentKey(outbound'[i].id)].id = outbound'[i].id
                                    /\ outbound'[i].id # 0
    <3>1. \A i \in DOMAIN outbound' : outbound'[i].id # 0
      BY <1>8, MaxMsgIdAssumption DEF OutMessages, MsgIds
    <3>2. ASSUME NEW i \in DOMAIN outbound', NEW k, k = SentKey(outbound'[i].id)
          PROVE  HoldsId(k) /\ store.files[k].id = outbound'[i].id
      <4>1. k \in DOMAIN store.files /\ store.files[k] = ContentOf(outbound'[i])
        BY <1>8, <3>2 DEF FileIs
      <4>2. ContentOf(outbound'[i]).id = outbound'[i].id
        BY DEF ContentOf
      <4>3. k[1] = "s-"
        BY <3>2 DEF SentKey
      <4>4. QED
        BY <4>1, <4>2, <4>3 DEF HoldsId
    <3>3. QED
      BY <3>1, <3>2
  <2>5. ASSUME NEW i \in DOMAIN commands', NEW j \in DOMAIN commands',
               commands'[i].id = commands'[j].id, commands'[i].id # 0
        PROVE  i = j
    <3>1. CommandKey(commands'[i].n) = CommandKey(commands'[j].n)
      BY <2>2, <2>3, <2>5
    <3>2. QED
      BY <1>5, <3>1 DEF CommandKey
  <2>6. ASSUME NEW i \in DOMAIN commands', NEW j \in DOMAIN outbound',
               commands'[i].id = outbound'[j].id
        PROVE  FALSE
    <3>1. CommandKey(commands'[i].n) = SentKey(outbound'[j].id)
      BY <2>2, <2>3, <2>4, <2>6
    <3>2. QED
      BY <3>1 DEF CommandKey, SentKey
  <2>7. QED
    BY <2>5, <2>6
<1>12. FilesApart' /\ PubrelOfQos2'
  BY <1>2, <1>4 DEF Session, FilesApart, HoldsId, PubrelOfQos2
<1>13. PutsKnown' /\ RemovalsKnown'
  <2>1. DOMAIN (<<>>) = {}
    OBVIOUS
  <2>2. QED
    BY <1>2, <2>1, NoFileWork
<1>14. Saved'
  <2>1. \A i : CommandKey(i)[1] # "sc-" /\ SentKey(i)[1] # "sc-" /\ ReceivedKey(i)[1] # "sc-"
               /\ QueueKey(i)[1] # "sc-"
    BY DEF CommandKey, SentKey, ReceivedKey, QueueKey
  <2>2. ASSUME NEW k, NEW c, FileIs(k, c), k[1] # "sc-" PROVE FileIs(k, c)' /\ Kept(k, c)'
    BY <1>9, <2>2 DEF Kept
  <2>3. CommandsSaved'
    <3>1. ASSUME NEW i \in DOMAIN commands', NEW k, k = CommandKey(commands'[i].n),
                 NEW c, c = commands'[i]
          PROVE  FileIs(k, c)'
      BY <1>5, <2>1, <2>2, <3>1
    <3>2. QED
      BY <3>1 DEF CommandsSaved
  <2>4. OutboundSaved'
    <3>1. ASSUME NEW i \in DOMAIN outbound', NEW k, k = SentKey(outbound'[i].id),
                 NEW c, c = ContentOf(outbound'[i])
          PROVE  Kept(k, c)'
      BY <1>8, <2>1, <2>2, <3>1
    <3>2. QED
      BY <3>1 DEF OutboundSaved
  <2>5. InboundSaved'
    <3>1. ASSUME NEW i \in DOMAIN inbound', NEW k, k = ReceivedKey(inbound'[i].id),
                 NEW c, c = ReceivedOf(inbound'[i])
          PROVE  Kept(k, c)'
      BY <1>6, <2>1, <2>2, <3>1
    <3>2. QED
      BY <3>1 DEF InboundSaved
  <2>6. QueueSaved'
    <3>1. ASSUME NEW i \in DOMAIN messageQueue', NEW k, k = QueueKey(messageQueue'[i].seqno),
                 NEW c, c = messageQueue'[i].n
          PROVE  Kept(k, c)'
      BY <1>7, <2>1, <2>2, <3>1
    <3>2. QED
      BY <3>1 DEF QueueSaved
  <2>7. PubrelsSaved'
    <3>1. ASSUME NEW i \in DOMAIN outbound', outbound'[i].next = "PUBCOMP"
          PROVE  PubrelKey(outbound'[i].id) \in DOMAIN store'.files
      <4>1. /\ PubrelKey(outbound'[i].id) \in DOMAIN store.files
            /\ SentKey(outbound'[i].id) \in DOMAIN store.files
        BY <1>8, <3>1 DEF FileIs
      <4>2. PubrelKey(outbound'[i].id)[2] = outbound'[i].id
        BY DEF PubrelKey
      <4>3. QED
        BY <1>4, <4>1, <4>2
    <3>2. QED
      BY <3>1 DEF PubrelsSaved
  <2>8. QED
    BY <2>3, <2>4, <2>5, <2>6, <2>7 DEF Saved
<1>15. NothingElse'
  <2>1. ASSUME ~plan.clean, NEW k \in DOMAIN store'.files PROVE InMemory(k)'
    <3>1. k \in DOMAIN store.files /\ k = <<k[1], k[2]>> /\ k[1] \in {"c-", "q-", "r-", "s-", "sc-"}
      BY <1>4, <2>1, StemsOf DEF Typed, StoreTyped
    <3>2. CASE k[1] = "sc-"
      <4>1. SentKey(k[2]) \in DOMAIN store.files /\ SentKey(k[2]) \in Files("s-")
        BY <1>4, <2>1, <3>2 DEF Files, SentKey
      <4>2. PICK i \in DOMAIN outbound' : k[2] = outbound'[i].id
        <5>1. PICK i \in DOMAIN outbound' : SentKey(k[2])[2] = outbound'[i].id
          BY <1>8, <4>1
        <5>2. QED
          BY <5>1 DEF SentKey
      <4>3. k = PubrelKey(k[2])
        BY <3>1, <3>2 DEF PubrelKey
      <4>4. store.files[SentKey(k[2])].qos = 2
        BY <2>1, <3>1, <4>1, <4>3 DEF Session, PubrelOfQos2
      <4>5. outbound'[i].qos = 2
        <5>1. store.files[SentKey(k[2])] = ContentOf(outbound'[i])
          BY <1>8, <4>2 DEF FileIs
        <5>2. QED
          BY <4>4, <5>1 DEF ContentOf
      <4>6. outbound'[i].next = "PUBCOMP"
        BY <1>8, <3>1, <4>2, <4>3, <4>5
      <4>7. QED
        BY <3>2, <4>2, <4>6 DEF InMemory
    <3>3. CASE k[1] # "sc-"
      BY <1>5, <1>6, <1>7, <1>8, <3>1, <3>3 DEF InMemory, Files
    <3>4. QED
      BY <3>2, <3>3
  <2>2. QED
    BY <1>2, <2>1 DEF NothingElse
<1>16. Resting'
  BY <1>2 DEF Resting
<1>17. QED
  BY <1>10, <1>11, <1>12, <1>13, <1>14, <1>15, <1>16 DEF Session

-----------------------------------------------------------------------------
(* The session: what does not touch it                                      *)

LEMMA OutsideSession ==
  ASSUME Session, Drop \/ BrokerReceive \/ BrokerSend
  PROVE  Session'
<1>1. CASE Drop
  <2>1. UNCHANGED session
    BY <1>1 DEF Drop, session, memory
  <2>2. QED
    BY <2>1, SessionStutters
<1>2. CASE BrokerReceive
  <2>1. UNCHANGED session
    BY <1>2 DEF BrokerReceive, BrokerPublish, BrokerPubrel, BrokerAck, BrokerAnswers, session, memory
  <2>2. QED
    BY <2>1, SessionStutters
<1>3. CASE BrokerSend
  <2>1. UNCHANGED session
    BY <1>3 DEF BrokerSend, session, memory
  <2>2. QED
    BY <2>1, SessionStutters
<1>4. QED
  BY <1>1, <1>2, <1>3

-----------------------------------------------------------------------------
(* The inductive invariant                                                  *)

\* The restored messages are delivered before the application publishes again, and
\* no put is interrupted.
OwnIdsWholeFiles == "ids" \notin Faults /\ "torn" \notin Faults

LEMMA InitIInv ==
  ASSUME Init
  PROVE  IInv
<1>1. DOMAIN (<<>>) = {} /\ \A S : <<>> \in Seq(S)
  OBVIOUS
<1>2. DOMAIN store.files = {} /\ IsDirectory(store)
  BY <1>1 DEF Init, Directory, NoFiles, IsDirectory
<1>3. ClientTyped
  <2>1. Len(plan.out) \in Nat /\ Len(plan.in) \in Nat /\ plan.msgID \in 0..MaxMsgId
    BY PlanTypes DEF Init
  <2>2. published \in 0..Len(plan.out) /\ sent \in 0..Len(plan.in) /\ msgID \in 0..MaxMsgId
    BY <2>1 DEF Init
  <2>3. QED
    BY <1>1, <2>2 DEF Init, ClientTyped
<1>4. StoreTyped
  BY <1>2, FS_EmptySet DEF StoreTyped
<1>5. EffectsTyped /\ NetworkTyped
  BY <1>1 DEF Init, EffectsTyped, NetworkTyped
<1>6. Resting /\ Listed /\ IdsApart /\ FilesApart
  BY <1>1, <1>2 DEF Init, Resting, Listed, IdsApart, FilesApart, HoldsId
<1>7. PutsKnown /\ RemovalsKnown /\ Saved /\ NothingElse /\ PubrelOfQos2
  BY <1>1, <1>2 DEF Init, PutsKnown, RemovalsKnown, Saved, CommandsSaved, OutboundSaved, PubrelsSaved,
                    InboundSaved, QueueSaved, NothingElse, PubrelOfQos2
<1>8. QED
  BY <1>3, <1>4, <1>5, <1>6, <1>7 DEF IInv, Typed, Session

LEMMA StutterIInv ==
  ASSUME IInv, UNCHANGED vars
  PROVE  IInv'
<1>1. /\ UNCHANGED <<plan, running, connected, memory, todo, store, network, broker, published, arrived>>
      /\ UNCHANGED session
  BY DEF vars, session, memory
<1>2. connected' \in BOOLEAN /\ todo' \in Seq(Effects)
  BY <1>1 DEF IInv, Typed, ClientTyped, EffectsTyped
<1>3. Typed'
  BY <1>1, <1>2, OnlyEffects DEF IInv
<1>4. Session'
  BY <1>1, SessionStutters DEF IInv
<1>5. QED
  BY <1>3, <1>4 DEF IInv

LEMMA EffectIInv ==
  ASSUME IInv, DoEffect
  PROVE  IInv'
<1>1. Typed /\ Session /\ PutsKnown
  BY DEF IInv, Session
<1>2. CASE Put
  BY <1>1, <1>2, PutTyped, PutSession DEF IInv
<1>3. CASE RemoveKey
  BY <1>1, <1>3, RemoveKeyTyped, RemoveKeySession DEF IInv
<1>4. CASE Write
  BY <1>1, <1>4, WriteTyped, WriteSession DEF IInv
<1>5. CASE Deliver
  BY <1>1, <1>5, DeliverTyped, DeliverSession DEF IInv
<1>6. CASE TryMessageQueue
  BY <1>1, <1>6, TryMessageQueueTyped, TryMessageQueueSession DEF IInv
<1>7. QED
  BY <1>2, <1>3, <1>4, <1>5, <1>6 DEF DoEffect

LEMMA ReceivePacketIInv ==
  ASSUME IInv, ReceivePacket
  PROVE  IInv'
<1>1. Typed /\ Session
  BY DEF IInv
<1>2. CASE HandlePublish
  BY <1>1, <1>2, HandlePublishTyped, HandlePublishSession DEF IInv
<1>3. CASE HandlePubrel
  BY <1>1, <1>3, HandlePubrelTyped, HandlePubrelSession DEF IInv
<1>4. CASE HandlePuback
  <2>1. HandleAck("PUBACK")
    BY <1>4 DEF HandlePuback
  <2>2. QED
    BY <1>1, <2>1, HandleAckTyped, HandleAckSession DEF IInv
<1>5. CASE HandlePubrec
  BY <1>1, <1>5, HandlePubrecTyped, HandlePubrecSession DEF IInv
<1>6. CASE HandlePubcomp
  <2>1. HandleAck("PUBCOMP")
    BY <1>6 DEF HandlePubcomp
  <2>2. QED
    BY <1>1, <2>1, HandleAckTyped, HandleAckSession DEF IInv
<1>7. QED
  BY <1>2, <1>3, <1>4, <1>5, <1>6 DEF ReceivePacket

LEMMA OutsideIInv ==
  ASSUME IInv, Drop \/ BrokerReceive \/ BrokerSend
  PROVE  IInv'
<1>1. Session'
  BY OutsideSession DEF IInv
<1>2. Typed'
  BY DropTyped, BrokerPublishTyped, BrokerPubrelTyped, BrokerAckTyped, BrokerSendTyped
  DEF IInv, BrokerReceive
<1>3. QED
  BY <1>1, <1>2 DEF IInv

LEMMA NextIInv ==
  ASSUME OwnIdsWholeFiles, IInv, [Next]_vars
  PROVE  IInv'
<1>1. Typed /\ Session /\ "ids" \notin Faults /\ "torn" \notin Faults
  BY DEF IInv, OwnIdsWholeFiles
<1>2. CASE Publish
  BY <1>1, <1>2, PublishTyped, PublishSession DEF IInv
<1>3. CASE ProcessCommand
  BY <1>1, <1>3, ProcessCommandTyped, ProcessCommandSession DEF IInv
<1>4. CASE HandlePingresp
  BY <1>1, <1>4, HandlePingrespTyped, HandlePingrespSession DEF IInv
<1>5. CASE Retry
  BY <1>1, <1>5, RetryTyped, RetrySession DEF IInv
<1>6. CASE NoticeLost
  BY <1>1, <1>6, NoticeLostTyped, NoticeLostSession DEF IInv
<1>7. CASE Connect
  BY <1>1, <1>7, ConnectTyped, ConnectSession DEF IInv
<1>8. CASE Crash
  <2>1. Typed' /\ store' = store /\ EndProcess
    BY <1>1, <1>8, CrashTyped
  <2>2. QED
    BY <1>1, <2>1, EndProcessSession DEF IInv
<1>9. CASE Destroy
  <2>1. Typed' /\ store'.files = store.files /\ EndProcess
    BY <1>1, <1>9, DestroyTyped
  <2>2. QED
    BY <1>1, <2>1, EndProcessSession DEF IInv
<1>10. CASE Restart
  BY <1>1, <1>10, RestartTyped, RestartSession DEF IInv
<1>11. CASE UNCHANGED vars
  BY <1>11, StutterIInv
<1>12. QED
  BY <1>2, <1>3, <1>4, <1>5, <1>6, <1>7, <1>8, <1>9, <1>10, <1>11,
     EffectIInv, ReceivePacketIInv, OutsideIInv DEF Next

-----------------------------------------------------------------------------
(* What the invariant says                                                  *)

LEMMA IInvTypeOK ==
  ASSUME IInv
  PROVE  TypeOK
<1>1. ClientTyped /\ StoreTyped /\ NetworkTyped /\ Listed /\ plan \in Plans
  BY DEF IInv, Typed, Session, ClientTyped
<1>2. /\ Len(plan.out) \in Nat /\ Len(plan.in) \in Nat
      /\ 0..MaxMsgId = MsgIds \cup {0}
      /\ published \in {0} \cup Out /\ sent \in {0} \cup In
  <2>1. Len(plan.out) \in Nat /\ Len(plan.in) \in Nat
    BY <1>1, PlanTypes
  <2>2. 0..MaxMsgId = MsgIds \cup {0}
    BY MaxMsgIdAssumption DEF MsgIds
  <2>3. published \in {0} \cup Out /\ sent \in {0} \cup In
    BY <1>1, <2>1 DEF ClientTyped, Out, In
  <2>4. QED
    BY <2>1, <2>2, <2>3
<1>3. \A m \in ToSet(commands) : m.n \in Out /\ m.id \in MsgIds \cup {0}
  <2>1. ToSet(commands) \subseteq CommandContents
    BY <1>1 DEF ClientTyped, ToSet
  <2>2. QED
    BY <1>2, <2>1 DEF CommandContents
<1>4. /\ \A m \in ToSet(outbound) :
           m.id \in MsgIds /\ m.n \in Out /\ m.next \in {"PUBACK", "PUBREC", "PUBCOMP"}
      /\ \A m \in ToSet(inbound) : m.id \in MsgIds /\ m.n \in In
  <2>1. ToSet(outbound) \subseteq OutMessages /\ ToSet(inbound) \subseteq InMessages
    BY <1>1 DEF ClientTyped, ToSet
  <2>2. QED
    BY <2>1 DEF OutMessages, InMessages, Answers
<1>5. \A qe \in ToSet(messageQueue) : qe.n \in In /\ qe.seqno \in 1..qentrySeqno
  <2>1. ASSUME NEW i \in DOMAIN messageQueue
        PROVE  messageQueue[i].n \in In /\ messageQueue[i].seqno \in 1..qentrySeqno
    <3>1. messageQueue[i] \in Entries /\ qentrySeqno \in Nat
      BY <1>1 DEF ClientTyped
    <3>2. messageQueue[i].seqno <= qentrySeqno
      BY <1>1 DEF Listed
    <3>3. messageQueue[i].n \in In /\ messageQueue[i].seqno \in Nat \ {0}
      BY <3>1 DEF Entries
    <3>4. QED
      BY <3>1, <3>2, <3>3
  <2>2. QED
    BY <2>1 DEF ToSet
<1>6. \A k \in DOMAIN store.files : k \in ToSet(Stems) \X Nat
  BY <1>1 DEF StoreTyped, Keys
<1>7. \A p \in ToSet(toBroker \o toClient) : p.id \in MsgIds \cup {0}
  <2> DEFINE P == [id : MsgIds \cup {0}]
             Named == {p \in Packets(Out) \cup Packets(In) : p.id \in MsgIds \cup {0}}
  <2>1. \A ns : \A p \in Packets(ns) : p.id \in MsgIds \cup {0}
    BY <1>2 DEF Packets
  <2>2. toBroker \in Seq(Named) /\ toClient \in Seq(Named)
    <3>1. Packets(Out) \subseteq Named /\ Packets(In) \subseteq Named
      BY <2>1
    <3> HIDE DEF Named
    <3>2. QED
      BY <1>1, <3>1 DEF NetworkTyped
  <2>3. ToSet(toBroker \o toClient) \subseteq Named
    <3> HIDE DEF Named
    <3>1. toBroker \o toClient \in Seq(Named)
      BY <2>2
    <3>2. QED
      BY <3>1 DEF ToSet
  <2>4. QED
    BY <2>3
<1>8. ToSet(received) \subseteq Out /\ ToSet(arrived) \subseteq In
  BY <1>1 DEF NetworkTyped, ToSet
<1>9. QED
  BY <1>1, <1>2, <1>3, <1>4, <1>5, <1>6, <1>7, <1>8 DEF TypeOK, ClientTyped, NetworkTyped

LEMMA IInvStoreAgrees ==
  ASSUME IInv
  PROVE  StoreAgrees
<1>1. SUFFICES ASSUME Idle
               PROVE  /\ KeysInMemory \subseteq DOMAIN store.files
                      /\ ~plan.clean => DOMAIN store.files = KeysInMemory
                      /\ \A m \in ToSet(commands) : PstGet(store, CommandKey(m.n)) = m
                      /\ \A m \in ToSet(outbound) :
                           PstGet(store, SentKey(m.id)) = [id |-> m.id, n |-> m.n, qos |-> m.qos]
                      /\ \A m \in ToSet(inbound) : PstGet(store, ReceivedKey(m.id)).n = m.n
                      /\ \A qe \in ToSet(messageQueue) : PstGet(store, QueueKey(qe.seqno)) = qe.n
  BY DEF StoreAgrees
<1>2. todo = <<>> /\ running /\ Session /\ Typed
  BY <1>1 DEF Idle, IInv
<1>3. \A i \in DOMAIN commands : FileIs(CommandKey(commands[i].n), commands[i])
  BY <1>2 DEF Session, Saved, CommandsSaved
<1>4. /\ \A m \in ToSet(commands) : \E i \in DOMAIN commands : m = commands[i]
      /\ \A m \in ToSet(outbound) : \E i \in DOMAIN outbound : m = outbound[i]
      /\ \A m \in ToSet(inbound) : \E i \in DOMAIN inbound : m = inbound[i]
      /\ \A m \in ToSet(messageQueue) : \E i \in DOMAIN messageQueue : m = messageQueue[i]
  BY DEF ToSet
<1>5. \A m \in ToSet(commands) : FileIs(CommandKey(m.n), m)
  BY <1>3, <1>4
<1>6. \A m \in ToSet(outbound) : /\ FileIs(SentKey(m.id), ContentOf(m))
                                 /\ m.next = "PUBCOMP" => PubrelKey(m.id) \in DOMAIN store.files
  BY <1>2, <1>4, AtRest
<1>7. \A m \in ToSet(inbound) : FileIs(ReceivedKey(m.id), ReceivedOf(m))
  BY <1>2, <1>4, AtRest
<1>8. \A m \in ToSet(messageQueue) : FileIs(QueueKey(m.seqno), m.n)
  BY <1>2, <1>4, AtRest
<1>9. KeysInMemory \subseteq DOMAIN store.files
  BY <1>5, <1>6, <1>7, <1>8 DEF KeysInMemory, FileIs
<1>10. ~plan.clean => DOMAIN store.files \subseteq KeysInMemory
  <2>1. ASSUME ~plan.clean, NEW k \in DOMAIN store.files PROVE k \in KeysInMemory
    <3>1. InMemory(k) /\ k = <<k[1], k[2]>>
      BY <1>2, <2>1, AtRest, StemsOf DEF Typed, StoreTyped
    <3>2. /\ \A i \in DOMAIN commands : commands[i] \in ToSet(commands)
          /\ \A i \in DOMAIN outbound : outbound[i] \in ToSet(outbound)
          /\ \A i \in DOMAIN inbound : inbound[i] \in ToSet(inbound)
          /\ \A i \in DOMAIN messageQueue : messageQueue[i] \in ToSet(messageQueue)
      BY DEF ToSet
    <3>3. CASE k[1] = "c-" /\ \E i \in DOMAIN commands : k[2] = commands[i].n
      <4>1. PICK m \in ToSet(commands) : k = CommandKey(m.n)
        BY <3>1, <3>2, <3>3 DEF CommandKey
      <4>2. QED
        BY <4>1 DEF KeysInMemory
    <3>4. CASE k[1] = "s-" /\ \E i \in DOMAIN outbound : k[2] = outbound[i].id
      <4>1. PICK m \in ToSet(outbound) : k = SentKey(m.id)
        BY <3>1, <3>2, <3>4 DEF SentKey
      <4>2. QED
        BY <4>1 DEF KeysInMemory
    <3>5. CASE k[1] = "sc-" /\ \E i \in DOMAIN outbound :
                                 k[2] = outbound[i].id /\ outbound[i].next = "PUBCOMP"
      <4>1. PICK m \in ToSet(outbound) : k = PubrelKey(m.id) /\ m.next = "PUBCOMP"
        BY <3>1, <3>2, <3>5 DEF PubrelKey
      <4>2. QED
        BY <4>1 DEF KeysInMemory
    <3>6. CASE k[1] = "r-" /\ \E i \in DOMAIN inbound : k[2] = inbound[i].id
      <4>1. PICK m \in ToSet(inbound) : k = ReceivedKey(m.id)
        BY <3>1, <3>2, <3>6 DEF ReceivedKey
      <4>2. QED
        BY <4>1 DEF KeysInMemory
    <3>7. CASE k[1] = "q-" /\ \E i \in DOMAIN messageQueue : k[2] = messageQueue[i].seqno
      <4>1. PICK m \in ToSet(messageQueue) : k = QueueKey(m.seqno)
        BY <3>1, <3>2, <3>7 DEF QueueKey
      <4>2. QED
        BY <4>1 DEF KeysInMemory
    <3>8. QED
      BY <3>1, <3>3, <3>4, <3>5, <3>6, <3>7 DEF InMemory
  <2>2. QED
    BY <2>1
<1>11. \A m \in ToSet(inbound) : ReceivedOf(m).n = m.n
  BY DEF ReceivedOf
<1>12. /\ \A m \in ToSet(commands) : PstGet(store, CommandKey(m.n)) = m
       /\ \A m \in ToSet(outbound) : PstGet(store, SentKey(m.id)) = ContentOf(m)
       /\ \A m \in ToSet(inbound) : PstGet(store, ReceivedKey(m.id)).n = m.n
       /\ \A qe \in ToSet(messageQueue) : PstGet(store, QueueKey(qe.seqno)) = qe.n
  BY <1>5, <1>6, <1>7, <1>8, <1>11 DEF FileIs, PstGet
<1>13. QED
  BY <1>9, <1>10, <1>12 DEF ContentOf

-----------------------------------------------------------------------------

\* The invariant is inductive
LEMMA InvariantHolds == OwnIdsWholeFiles => (Spec => []IInv)
<1> SUFFICES ASSUME OwnIdsWholeFiles PROVE Spec => []IInv
  OBVIOUS
<1>1. Init => IInv
  BY InitIInv
<1>2. IInv /\ [Next]_vars => IInv'
  BY NextIInv
<1>3. QED
  BY <1>1, <1>2, PTL DEF Spec

\* Types: an identifier or a number in memory, on the connection or in a file is one
\* that the plan has, and entries of the queue are numbered up to qentry_seqno.
THEOREM SessionTypeCorrect == OwnIdsWholeFiles => (Spec => []TypeOK)
<1>1. IInv => TypeOK
  BY IInvTypeOK
<1>2. QED
  BY <1>1, InvariantHolds, PTL

\* Between two handlers the files are the messages, PUBRELs, commands and queue
\* entries in memory, each with its content, and nothing else when the session is
\* kept (MQTTPersistence_put, _remove and _restore, MQTTAsync_persistCommand).
THEOREM StoreAgreesCorrect == OwnIdsWholeFiles => (Spec => []StoreAgrees)
<1>1. IInv => StoreAgrees
  BY IInvStoreAgrees
<1>2. QED
  BY <1>1, InvariantHolds, PTL
==============================================================================
