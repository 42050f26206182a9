---------------------------- MODULE PacketIOProofs ----------------------------
(***************************************************************************)
(* Theorems about PacketIO, for any descriptors, traffic, pieces and       *)
(* bounds: what is written to a connection and what is read from it, when  *)
(* descriptors are used again.                                             *)
(***************************************************************************)
EXTENDS PacketIO, Integers, SequenceTheorems, WellFoundedInduction, TLAPS

-----------------------------------------------------------------------------
(* Induction over numbers, by the least element of a set of them           *)

LessNat == {p \in Nat \X Nat : p[1] < p[2]}

LEMMA LeastNumber ==
  ASSUME NEW T, T \subseteq Nat, T # {}
  PROVE  \E x \in T : \A y \in T : x <= y
<1>1. IsWellFoundedOn(LessNat, Nat)
  BY NatLessThanWellFounded DEF LessNat, OpToRel
<1>2. \E x \in T : \A y \in T : ~ (<<y, x>> \in LessNat)
  BY <1>1, WFMin
<1>3. PICK x \in T : \A y \in T : ~ (<<y, x>> \in LessNat)
  BY <1>2
<1>4. ASSUME NEW y \in T PROVE x <= y
  <2>1. x \in Nat /\ y \in Nat
    OBVIOUS
  <2>2. <<y, x>> \in LessNat <=> y < x
    BY <2>1 DEF LessNat
  <2>3. QED
    BY <1>3, <2>1, <2>2
<1>5. QED
  BY <1>4

\* the induction principle, for a property that is written as a set
LEMMA Induction ==
  ASSUME NEW T, 0 \in T, \A n \in Nat : n \in T => n + 1 \in T
  PROVE  Nat \subseteq T
<1>1. SUFFICES ASSUME Nat \ T # {} PROVE FALSE
  OBVIOUS
<1>2. PICK x \in Nat \ T : \A y \in Nat \ T : x <= y
  BY <1>1, LeastNumber
<1>3. x - 1 \in Nat /\ x - 1 \in T
  BY <1>2
<1>4. QED
  BY <1>2, <1>3

LEMMA MinProperties ==
  ASSUME NEW T, T \subseteq Nat, T # {}
  PROVE  Min(T) \in T /\ \A y \in T : Min(T) <= y
<1>1. \E x \in T : \A y \in T : x <= y
  BY LeastNumber
<1>2. QED
  BY <1>1 DEF Min

-----------------------------------------------------------------------------
(* Sequences *)

\* FlattenSeq: the parts of a sequence of sequences over S are joined one by one
LEMMA FlattenSteps ==
  ASSUME NEW S, NEW ss \in Seq(Seq(S)), Len(ss) # 0
  PROVE  \E f \in [1..Len(ss) -> Seq(S)] :
           /\ FlattenSeq(ss) = f[Len(ss)]
           /\ \A i \in 1..Len(ss) : f[i] = IF i = 1 THEN ss[i] ELSE f[i - 1] \o ss[i]
<1> DEFINE
      Step(f, i) == IF i = 1 THEN ss[i] ELSE f[i - 1] \o ss[i]
      Good(n) == \E f \in [1..n -> Seq(S)] : \A i \in 1..n : f[i] = Step(f, i)
      Bad == {n \in Nat : n <= Len(ss) /\ ~Good(n)}
      F == CHOOSE f : f = [i \in 1..Len(ss) |-> IF i = 1 THEN ss[i] ELSE f[i - 1] \o ss[i]]
<1>0. Good(0)
  <2>1. [i \in 1..0 |-> <<>>] \in [1..0 -> Seq(S)]
    OBVIOUS
  <2>2. \A i \in 1..0 : FALSE
    OBVIOUS
  <2> HIDE DEF Step
  <2>3. QED
    BY <2>1, <2>2
<1>1. Bad = {}
  <2>1. SUFFICES ASSUME Bad # {} PROVE FALSE
    OBVIOUS
  <2>2. PICK m \in Bad : \A n \in Bad : m <= n
    <3>1. Bad \subseteq Nat
      OBVIOUS
    <3> HIDE DEF Bad
    <3>2. QED
      BY <2>1, <3>1, LeastNumber
  <2> HIDE DEF Good
  <2>3. m # 0
    BY <1>0
  <2>4. Good(m - 1)
    <3>1. m \in Nat /\ m - 1 \in Nat /\ m - 1 <= Len(ss)
      BY <2>3
    <3>2. m - 1 \notin Bad
      <4> HIDE DEF Bad
      <4>1. QED
        BY <2>2, <3>1
    <3>3. QED
      BY <3>1, <3>2
  <2> USE DEF Good
  <2>5. PICK f \in [1..(m - 1) -> Seq(S)] : \A i \in 1..(m - 1) : f[i] = Step(f, i)
    BY <2>4
  <2> DEFINE g == [i \in 1..m |-> IF i = m THEN Step(f, m) ELSE f[i]]
  <2>0. m \in Nat \ {0} /\ m <= Len(ss) /\ ~Good(m)
    BY <2>3
  <2>6. Step(f, m) \in Seq(S)
    <3>1. ss[m] \in Seq(S)
      BY <2>0
    <3>2. m # 1 => f[m - 1] \in Seq(S)
      BY <2>0, <2>5
    <3>3. QED
      BY <3>1, <3>2
  <2>7. g \in [1..m -> Seq(S)]
    <3> HIDE DEF Step
    <3>1. QED
      BY <2>0, <2>5, <2>6
  <2>8. ASSUME NEW i \in 1..m PROVE g[i] = Step(g, i)
    <3>1. CASE i = m
      <4>1. m # 1 => g[m - 1] = f[m - 1]
        BY <2>0
      <4>2. g[m] = Step(f, m)
        BY <2>0
      <4>3. QED
        BY <3>1, <4>1, <4>2
    <3>2. CASE i # m
      <4>1. i \in 1..(m - 1)
        BY <2>0, <3>2
      <4>2. g[i] = f[i] /\ (i # 1 => g[i - 1] = f[i - 1])
        BY <2>0, <3>2, <4>1
      <4>3. QED
        BY <2>5, <4>1, <4>2
    <3>3. QED
      BY <3>1, <3>2
  <2> HIDE DEF g, Step
  <2>9. QED
    BY <2>0, <2>7, <2>8
<1>2. PICK f \in [1..Len(ss) -> Seq(S)] : \A i \in 1..Len(ss) : f[i] = Step(f, i)
  <2>1. Len(ss) \in Nat /\ Len(ss) \notin Bad
    <3> HIDE DEF Bad
    <3>1. QED
      BY <1>1
  <2>2. Good(Len(ss))
    <3> HIDE DEF Good
    <3>1. QED
      BY <2>1
  <2> HIDE DEF Step
  <2>3. QED
    BY <2>2
<1>3. F = [i \in 1..Len(ss) |-> IF i = 1 THEN ss[i] ELSE F[i - 1] \o ss[i]]
  <2>1. f = [i \in 1..Len(ss) |-> IF i = 1 THEN ss[i] ELSE f[i - 1] \o ss[i]]
    BY <1>2
  <2>2. QED
    BY <2>1
<1> DEFINE Differ == {i \in Nat : i \in 1..Len(ss) /\ F[i] # f[i]}
<1>4. Differ = {}
  <2> HIDE DEF F
  <2>1. SUFFICES ASSUME Differ # {} PROVE FALSE
    OBVIOUS
  <2>2. PICK m \in Differ : \A n \in Differ : m <= n
    <3>1. Differ \subseteq Nat
      OBVIOUS
    <3> HIDE DEF Differ
    <3>2. QED
      BY <2>1, <3>1, LeastNumber
  <2>0. m \in 1..Len(ss) /\ F[m] # f[m]
    OBVIOUS
  <2>3. F[m] = Step(F, m) /\ f[m] = Step(f, m)
    BY <1>2, <1>3, <2>0
  <2>4. m # 1 => F[m - 1] = f[m - 1]
    <3>1. ASSUME m # 1 PROVE m - 1 \in Nat /\ m - 1 \in 1..Len(ss) /\ m - 1 \notin Differ
      BY <2>0, <2>2, <3>1
    <3>2. QED
      BY <3>1
  <2>5. QED
    BY <2>0, <2>3, <2>4
<1>5. FlattenSeq(ss) = F[Len(ss)]
  BY DEF FlattenSeq
<1>6. Len(ss) \in Nat /\ Len(ss) \in 1..Len(ss)
  OBVIOUS
<1>7. F[Len(ss)] = f[Len(ss)]
  <2> HIDE DEF F
  <2>1. QED
    BY <1>4, <1>6
<1> HIDE DEF F
<1>8. QED
  BY <1>2, <1>5, <1>7

LEMMA FlattenType ==
  ASSUME NEW S, NEW ss \in Seq(Seq(S))
  PROVE  FlattenSeq(ss) \in Seq(S)
<1>1. CASE Len(ss) = 0
  BY <1>1 DEF FlattenSeq
<1>2. CASE Len(ss) # 0
  <2>1. Len(ss) \in 1..Len(ss)
    BY <1>2
  <2>2. PICK f \in [1..Len(ss) -> Seq(S)] : FlattenSeq(ss) = f[Len(ss)]
    BY <1>2, FlattenSteps
  <2>3. QED
    BY <2>1, <2>2
<1>3. QED
  BY <1>1, <1>2

LEMMA FlattenEmpty == FlattenSeq(<<>>) = <<>>
BY DEF FlattenSeq

\* one more part comes at the end
LEMMA FlattenAppend ==
  ASSUME NEW S, NEW ss \in Seq(Seq(S)), NEW s \in Seq(S)
  PROVE  FlattenSeq(Append(ss, s)) = FlattenSeq(ss) \o s
<1>0. PICK n \in Nat : n = Len(ss)
  OBVIOUS
<1> DEFINE more == Append(ss, s)
<1>1. /\ more \in Seq(Seq(S)) /\ Len(more) = n + 1 /\ more[n + 1] = s
      /\ \A i \in 1..n : more[i] = ss[i]
  BY <1>0
<1> HIDE DEF more
<1>2. \E g \in [1..(n + 1) -> Seq(S)] :
        /\ FlattenSeq(more) = g[n + 1]
        /\ \A i \in 1..(n + 1) : g[i] = IF i = 1 THEN more[i] ELSE g[i - 1] \o more[i]
  <2>1. Len(more) # 0
    BY <1>1
  <2>2. \E g \in [1..Len(more) -> Seq(S)] :
          /\ FlattenSeq(more) = g[Len(more)]
          /\ \A i \in 1..Len(more) : g[i] = IF i = 1 THEN more[i] ELSE g[i - 1] \o more[i]
    BY <1>1, <2>1, FlattenSteps, ZenonT(60)
  <2>3. QED
    BY <1>1, <2>2
<1>6. PICK g \in [1..(n + 1) -> Seq(S)] :
        /\ FlattenSeq(more) = g[n + 1]
        /\ \A i \in 1..(n + 1) : g[i] = IF i = 1 THEN more[i] ELSE g[i - 1] \o more[i]
  BY <1>2, Zenon
<1>3. CASE n = 0
  <2>1. FlattenSeq(ss) = <<>>
    <3>1. Len(ss) = 0
      BY <1>0, <1>3
    <3>2. ss = <<>>
      BY <3>1
    <3>3. QED
      BY <3>2, FlattenEmpty
  <2>2. FlattenSeq(more) = s
    BY <1>1, <1>6, <1>3
  <2>3. QED
    BY <2>1, <2>2 DEF more
<1>4. CASE n # 0
  <2>0. n \in Nat \ {0} /\ n - 1 \in Nat /\ n \in 1..n /\ 1 \in 1..n
    BY <1>4
  <2>1. PICK f \in [1..n -> Seq(S)] :
          /\ FlattenSeq(ss) = f[n]
          /\ \A i \in 1..n : f[i] = IF i = 1 THEN ss[i] ELSE f[i - 1] \o ss[i]
    <3>1. Len(ss) # 0
      BY <1>0, <1>4
    <3>2. \E f \in [1..Len(ss) -> Seq(S)] :
            /\ FlattenSeq(ss) = f[Len(ss)]
            /\ \A i \in 1..Len(ss) : f[i] = IF i = 1 THEN ss[i] ELSE f[i - 1] \o ss[i]
      BY <3>1, FlattenSteps, Zenon
    <3>3. QED
      BY <1>0, <3>2, Zenon
  <2>2. \A i \in 1..n : i \in 1..(n + 1) /\ ss[i] = more[i]
    BY <1>0, <1>1
  <2> DEFINE T == {i \in Nat : i + 1 \in 1..n => f[i + 1] = g[i + 1]}
  <2>3. 0 \in T
    <3>1. f[1] = ss[1]
      BY <2>0, <2>1, Zenon
    <3>2. g[1] = more[1]
      BY <2>0, <2>2, <1>6, Zenon
    <3>3. f[1] = g[1]
      BY <2>0, <2>2, <3>1, <3>2
    <3>4. QED
      BY <3>3
  <2>4. ASSUME NEW i \in Nat, i \in T PROVE i + 1 \in T
    <3> DEFINE j == i + 1
               k == i + 2
    <3>1. SUFFICES ASSUME k \in 1..n PROVE f[k] = g[k]
      OBVIOUS
    <3>2. j \in 1..n /\ k # 1 /\ k - 1 = j
      BY <3>1, <2>0
    <3>3. f[j] = g[j]
      BY <2>4, <3>2
    <3>4. k \in 1..(n + 1) /\ ss[k] = more[k]
      BY <2>2, <3>1
    <3> HIDE DEF j, k
    <3>5. f[k] = f[j] \o ss[k]
      BY <2>1, <3>1, <3>2, Zenon
    <3>6. g[k] = g[j] \o more[k]
      BY <1>6, <3>2, <3>4, Zenon
    <3>7. QED
      BY <3>3, <3>4, <3>5, <3>6
  <2>5. Nat \subseteq T
    <3> HIDE DEF T
    <3>1. QED
      BY <2>3, <2>4, Induction
  <2>6. f[n] = g[n]
    <3>1. n - 1 \in T
      <4> HIDE DEF T
      <4>1. QED
        BY <2>0, <2>5
    <3>2. (n - 1) + 1 = n
      BY <2>0
    <3>3. QED
      BY <2>0, <3>1, <3>2
  <2>7. g[n + 1] = g[n] \o more[n + 1]
    <3>1. n + 1 \in 1..(n + 1) /\ n + 1 # 1 /\ (n + 1) - 1 = n
      BY <2>0
    <3>2. QED
      BY <1>6, <3>1
  <2>8. FlattenSeq(more) = FlattenSeq(ss) \o s
    BY <1>1, <1>6, <2>1, <2>6, <2>7
  <2>9. QED
    BY <2>8 DEF more
<1>5. QED
  BY <1>3, <1>4

LEMMA RemoveAtProperties ==
  ASSUME NEW S, NEW list \in Seq(S), NEW i \in 1..Len(list)
  PROVE  /\ RemoveAt(list, i) \in Seq(S)
         /\ Len(RemoveAt(list, i)) = Len(list) - 1
         /\ \A k \in 1..(Len(list) - 1) :
              RemoveAt(list, i)[k] = IF k < i THEN list[k] ELSE list[k + 1]
<1> DEFINE before == SubSeq(list, 1, i - 1)
           after == SubSeq(list, i + 1, Len(list))
<1>1. /\ before \in Seq(S) /\ after \in Seq(S)
      /\ Len(before) = i - 1 /\ Len(after) = Len(list) - i
  OBVIOUS
<1>2. /\ \A k \in 1..(i - 1) : before[k] = list[k]
      /\ \A k \in 1..(Len(list) - i) : after[k] = list[i + k]
  OBVIOUS
<1>3. RemoveAt(list, i) = before \o after
  BY DEF RemoveAt
<1> HIDE DEF before, after
<1>4. /\ before \o after \in Seq(S)
      /\ Len(before \o after) = Len(list) - 1
  BY <1>1
<1>5. \A k \in 1..(Len(list) - 1) :
        (before \o after)[k] = IF k < i THEN before[k] ELSE after[k - (i - 1)]
  BY <1>1
<1>6. \A k \in 1..(Len(list) - 1) :
        IF k < i THEN before[k] = list[k] ELSE after[k - (i - 1)] = list[k + 1]
  <2>1. ASSUME NEW k \in 1..(Len(list) - 1), ~(k < i)
        PROVE  after[k - (i - 1)] = list[k + 1]
    <3>1. k - (i - 1) \in 1..(Len(list) - i) /\ i + (k - (i - 1)) = k + 1
      BY <2>1
    <3>2. QED
      BY <1>2, <3>1
  <2>2. ASSUME NEW k \in 1..(Len(list) - 1), k < i
        PROVE  before[k] = list[k]
    <3>1. k \in 1..(i - 1)
      BY <2>2
    <3>2. QED
      BY <1>2, <3>1
  <2>3. QED
    BY <2>1, <2>2
<1>7. QED
  BY <1>3, <1>4, <1>5, <1>6

-----------------------------------------------------------------------------
(* The bytes of a packet *)

Byte == Nat \X Nat

LEMMA BytesType ==
  ASSUME NEW p \in Nat, NEW a \in Nat, NEW b \in Nat, a <= b
  PROVE  /\ Bytes(p, a, b) \in Seq(Byte)
         /\ Len(Bytes(p, a, b)) = b - a
         /\ \A i \in 1..(b - a) : Bytes(p, a, b)[i] = <<p, a + i>>
<1>1. b - a \in Nat
  OBVIOUS
<1>2. \A i \in 1..(b - a) : <<p, a + i>> \in Byte
  BY DEF Byte
<1>3. QED
  BY <1>1, <1>2 DEF Bytes

LEMMA NoBytes ==
  ASSUME NEW p \in Nat, NEW a \in Nat
  PROVE  Bytes(p, a, a) = <<>>
<1>1. Bytes(p, a, a) \in Seq(Byte) /\ Len(Bytes(p, a, a)) = 0
  BY BytesType
<1>2. QED
  BY <1>1

LEMMA BytesJoined ==
  ASSUME NEW p \in Nat, NEW a \in Nat, NEW b \in Nat, NEW c \in Nat, a <= b, b <= c
  PROVE  Bytes(p, a, b) \o Bytes(p, b, c) = Bytes(p, a, c)
<1> DEFINE x == Bytes(p, a, b)
           y == Bytes(p, b, c)
           z == Bytes(p, a, c)
<1>1. /\ x \in Seq(Byte) /\ Len(x) = b - a
      /\ \A i \in 1..(b - a) : x[i] = <<p, a + i>>
  BY BytesType
<1>2. /\ y \in Seq(Byte) /\ Len(y) = c - b
      /\ \A i \in 1..(c - b) : y[i] = <<p, b + i>>
  BY BytesType
<1>3. /\ z \in Seq(Byte) /\ Len(z) = c - a
      /\ \A i \in 1..(c - a) : z[i] = <<p, a + i>>
  <2>1. a <= c
    OBVIOUS
  <2>2. QED
    BY <2>1, BytesType
<1> HIDE DEF x, y, z
<1>4. x \o y \in Seq(Byte) /\ Len(x \o y) = c - a
  BY <1>1, <1>2
<1>5. ASSUME NEW i \in 1..(c - a) PROVE (x \o y)[i] = z[i]
  <2>1. (x \o y)[i] = IF i <= Len(x) THEN x[i] ELSE y[i - Len(x)]
    BY <1>1, <1>2
  <2>2. CASE i <= b - a
    <3>1. i \in 1..(b - a)
      BY <2>2
    <3>2. QED
      BY <1>1, <1>3, <2>1, <2>2, <3>1
  <2>3. CASE ~(i <= b - a)
    <3>1. i - (b - a) \in 1..(c - b) /\ b + (i - (b - a)) = a + i
      BY <2>3
    <3>2. QED
      BY <1>1, <1>2, <1>3, <2>1, <2>3, <3>1
  <2>4. QED
    BY <2>2, <2>3
<1>6. x \o y = z
  <2>1. Len(x \o y) = Len(z) /\ \A i \in 1..Len(z) : (x \o y)[i] = z[i]
    BY <1>3, <1>4, <1>5
  <2>2. QED
    BY <1>3, <1>4, <2>1, SeqEqual
<1>7. QED
  BY <1>6 DEF x, y, z

LEMMA FirstBytes ==
  ASSUME NEW p \in Nat, NEW a \in Nat, NEW b \in Nat, NEW n \in 0..(b - a)
  PROVE  SubSeq(Bytes(p, a, b), 1, n) = Bytes(p, a, a + n)
<1> DEFINE x == Bytes(p, a, b)
           y == Bytes(p, a, a + n)
<1>0. a <= b /\ n \in Nat /\ n <= b - a
  OBVIOUS
<1>1. /\ x \in Seq(Byte) /\ Len(x) = b - a
      /\ \A i \in 1..(b - a) : x[i] = <<p, a + i>>
  BY <1>0, BytesType
<1>2. /\ y \in Seq(Byte) /\ Len(y) = n
      /\ \A i \in 1..n : y[i] = <<p, a + i>>
  <2>1. PICK c \in Nat : c = a + n /\ a <= c /\ c - a = n
    BY <1>0
  <2>2. /\ Bytes(p, a, c) \in Seq(Byte) /\ Len(Bytes(p, a, c)) = c - a
        /\ \A i \in 1..(c - a) : Bytes(p, a, c)[i] = <<p, a + i>>
    BY <2>1, BytesType, ZenonT(60)
  <2>3. QED
    BY <2>1, <2>2
<1> HIDE DEF x, y
<1>3. /\ SubSeq(x, 1, n) \in Seq(Byte) /\ Len(SubSeq(x, 1, n)) = n
      /\ \A i \in 1..n : SubSeq(x, 1, n)[i] = x[i]
  BY <1>1
<1>4. \A i \in 1..n : SubSeq(x, 1, n)[i] = y[i]
  <2>1. \A i \in 1..n : i \in 1..(b - a)
    OBVIOUS
  <2>2. QED
    BY <1>1, <1>2, <1>3, <2>1
<1>5. SubSeq(x, 1, n) = y
  BY <1>2, <1>3, <1>4, SeqEqual
<1>6. QED
  BY <1>5 DEF x, y

-----------------------------------------------------------------------------
(* What is left of a packet *)

\* Sums: how many bytes come before the end of each buffer
LEMMA SumsProperties ==
  ASSUME NEW lens \in Seq(Nat)
  PROVE  /\ Len(lens) \in Nat
         /\ Sums(lens) \in [0..Len(lens) -> Nat]
         /\ Sums(lens)[0] = 0
         /\ \A i \in 1..Len(lens) : Sums(lens)[i] = Sums(lens)[i - 1] + lens[i]
<1>0. PICK n \in Nat : n = Len(lens)
  OBVIOUS
<1> DEFINE
      Step(f, i) == IF i = 0 THEN 0 ELSE f[i - 1] + lens[i]
      F == CHOOSE f : f = [i \in 0..n |-> Step(f, i)]
      Up == {k \in Nat : \E f : f = [i \in 0..k |-> Step(f, i)]}
<1>1. 0 \in Up
  <2>1. [i \in 0..0 |-> 0] = [i \in 0..0 |-> Step([j \in 0..0 |-> 0], i)]
    OBVIOUS
  <2> HIDE DEF Step
  <2>2. QED
    BY <2>1
<1>2. ASSUME NEW k \in Nat, k \in Up PROVE k + 1 \in Up
  <2>1. PICK f : f = [i \in 0..k |-> Step(f, i)]
    BY <1>2
  <2>2. PICK g : g = [i \in 0..(k + 1) |-> Step(f, i)]
    OBVIOUS
  <2>3. \A i \in 0..k : g[i] = f[i]
    <3> HIDE DEF Step
    <3>1. \A i \in 0..k : i \in 0..(k + 1)
      OBVIOUS
    <3>2. QED
      BY <2>1, <2>2, <3>1, Zenon
  <2>4. \A i \in 0..(k + 1) : Step(f, i) = Step(g, i)
    <3>1. \A i \in 0..(k + 1) : i # 0 => i - 1 \in 0..k
      OBVIOUS
    <3>2. QED
      BY <2>3, <3>1, Zenon
  <2>5. g = [i \in 0..(k + 1) |-> Step(g, i)]
    <3> HIDE DEF Step
    <3>1. QED
      BY <2>2, <2>4
  <2> HIDE DEF Step
  <2>6. QED
    BY <2>5
<1>3. \E f : f = [i \in 0..n |-> Step(f, i)]
  <2>1. n \in Up
    <3> HIDE DEF Up
    <3>1. QED
      BY <1>1, <1>2, Induction
  <2> HIDE DEF Step
  <2>2. QED
    BY <2>1
<1>4. F = [i \in 0..n |-> Step(F, i)]
  <2> HIDE DEF Step
  <2>1. QED
    BY <1>3
<1>5. Sums(lens) = F
  BY <1>0 DEF Sums
<1> HIDE DEF F
<1>6. \A i \in 0..n : F[i] = Step(F, i)
  <2> HIDE DEF Step
  <2>1. QED
    BY <1>4, Zenon
<1>7. F[0] = 0 /\ \A i \in 1..n : F[i] = F[i - 1] + lens[i]
  <2>1. 0 \in 0..n /\ \A i \in 1..n : i \in 0..n /\ i # 0
    OBVIOUS
  <2>2. QED
    BY <1>6, <2>1, Zenon
<1> DEFINE Natural == {i \in Nat : i <= n => F[i] \in Nat}
<1>8. ASSUME NEW i \in Nat, i \in Natural PROVE i + 1 \in Natural
  <2>1. SUFFICES ASSUME i + 1 <= n PROVE F[i + 1] \in Nat
    OBVIOUS
  <2>2. i + 1 \in 1..n /\ (i + 1) - 1 = i /\ i <= n
    BY <2>1
  <2>3. F[i + 1] = F[i] + lens[i + 1]
    BY <1>7, <2>2
  <2>4. lens[i + 1] \in Nat
    BY <1>0, <2>2
  <2>5. F[i] \in Nat
    BY <1>8, <2>2
  <2>6. QED
    BY <2>3, <2>4, <2>5
<1>9. Nat \subseteq Natural
  <2>1. 0 \in Natural
    BY <1>7
  <2> HIDE DEF Natural
  <2>2. QED
    BY <1>8, <2>1, Induction
<1>10. \A i \in 0..n : F[i] \in Nat
  BY <1>9
<1>11. F \in [0..n -> Nat]
  <2> HIDE DEF Step
  <2>1. QED
    BY <1>4, <1>10
<1>12. QED
  BY <1>0, <1>5, <1>7, <1>11

LEMMA SumsGrow ==
  ASSUME NEW lens \in Seq(Nat), NEW i \in 0..Len(lens)
  PROVE  Sums(lens)[i] <= Total(lens)
<1> DEFINE S == Sums(lens)
           n == Len(lens)
           T == {k \in Nat : i + k <= n => S[i] <= S[i + k]}
<1>1. /\ n \in Nat /\ S \in [0..n -> Nat]
      /\ \A j \in 1..n : S[j] = S[j - 1] + lens[j]
  BY SumsProperties
<1> HIDE DEF S
<1>2. 0 \in T
  BY <1>1
<1>3. ASSUME NEW k \in Nat, k \in T PROVE k + 1 \in T
  <2>1. SUFFICES ASSUME i + (k + 1) <= n PROVE S[i] <= S[i + (k + 1)]
    BY <1>1
  <2>2. PICK j \in 1..n : j = i + (k + 1) /\ j - 1 = i + k /\ i + k <= n
    BY <1>1, <2>1
  <2>3. S[j] = S[j - 1] + lens[j] /\ lens[j] \in Nat
    <3>1. lens[j] \in Nat
      OBVIOUS
    <3>2. QED
      BY <1>1, <3>1, Zenon
  <2>4. S[i] <= S[j - 1]
    BY <1>3, <2>2
  <2>5. S[i] \in Nat /\ S[j - 1] \in Nat
    <3>1. j - 1 \in 0..n /\ i \in 0..n
      BY <1>1
    <3>2. QED
      BY <1>1, <3>1
  <2>6. QED
    BY <2>2, <2>3, <2>4, <2>5
<1>4. Nat \subseteq T
  <2> HIDE DEF T
  <2>1. QED
    BY <1>2, <1>3, Induction
<1>5. n - i \in Nat /\ i + (n - i) = n
  BY <1>1
<1>6. n - i \in T
  <2> HIDE DEF T
  <2>1. QED
    BY <1>4, <1>5
<1>7. S[i] <= S[n]
  BY <1>5, <1>6
<1>8. QED
  BY <1>7 DEF S, Total

\* the rest of the bytes before a buffer's end: what was left of the earlier
\* buffers, and the whole of the buffer when the writes did not reach it
LEMMA RestExtended ==
  ASSUME NEW p \in Nat, NEW bytes \in Nat, NEW x \in Nat, NEW y \in Nat, x <= y,
         ~(x < bytes /\ bytes < y)
  PROVE  (IF x <= bytes THEN <<>> ELSE Bytes(p, bytes, x))
           \o (IF bytes <= x THEN Bytes(p, x, y) ELSE <<>>)
         = (IF y <= bytes THEN <<>> ELSE Bytes(p, bytes, y))
<1>1. CASE bytes < x
  <2>1. bytes <= x /\ ~(x <= bytes) /\ ~(y <= bytes)
    BY <1>1
  <2>2. Bytes(p, bytes, x) \o Bytes(p, x, y) = Bytes(p, bytes, y)
    BY <2>1, BytesJoined
  <2>3. QED
    BY <2>1, <2>2
<1>2. CASE bytes = x
  <2>1. Bytes(p, bytes, y) \in Seq(Byte)
    <3>1. bytes <= y
      BY <1>2
    <3>2. QED
      BY <3>1, BytesType
  <2>2. y <= bytes => Bytes(p, bytes, y) = <<>>
    <3>1. y <= bytes => y = bytes
      BY <1>2
    <3>2. QED
      BY <3>1, NoBytes
  <2>3. <<>> \o Bytes(p, bytes, y) = Bytes(p, bytes, y)
    BY <2>1, ConcatEmptySeq
  <2>4. QED
    BY <1>2, <2>2, <2>3
<1>3. CASE x < bytes
  <2>1. x <= bytes /\ ~(bytes <= x) /\ y <= bytes
    BY <1>3
  <2>2. QED
    BY <2>1
<1>4. bytes < x \/ bytes = x \/ x < bytes
  OBVIOUS
<1>5. QED
  BY <1>1, <1>2, <1>3, <1>4

LEMMA RestsExtended ==
  \A p, bytes, x, y \in Nat : x <= y /\ ~(x < bytes /\ bytes < y) =>
    (IF x <= bytes THEN <<>> ELSE Bytes(p, bytes, x))
      \o (IF bytes <= x THEN Bytes(p, x, y) ELSE <<>>)
    = (IF y <= bytes THEN <<>> ELSE Bytes(p, bytes, y))
<1>1. TAKE p, bytes, x, y \in Nat
<1>2. HAVE x <= y /\ ~(x < bytes /\ bytes < y)
<1>3. QED
  BY <1>2, RestExtended, ZenonT(60)

\* what is sent next begins where the last write ended
LEMMA RestOfPacket ==
  ASSUME NEW packet \in Nat, NEW lens \in Seq(Nat), NEW bytes \in Nat, bytes < Total(lens),
         NEW pw, pw.packet = packet, pw.lens = lens, pw.bytes = bytes
  PROVE  \E e \in Nat : bytes <= e /\ e <= Total(lens) /\ RestOf(pw) = Bytes(packet, bytes, e)
<1>a. \A x, y \in Nat : x <= y /\ ~(x < bytes /\ bytes < y) =>
        (IF x <= bytes THEN <<>> ELSE Bytes(packet, bytes, x))
          \o (IF bytes <= x THEN Bytes(packet, x, y) ELSE <<>>)
        = (IF y <= bytes THEN <<>> ELSE Bytes(packet, bytes, y))
  BY RestsExtended, Zenon
<1> DEFINE
      S == Sums(lens)
      In(i) == S[i - 1] < bytes /\ bytes < S[i - 1] + lens[i]
      middle == {i \in DOMAIN lens : In(i)}
      whole(i) == IF bytes <= S[i - 1] THEN Bytes(packet, S[i - 1], S[i - 1] + lens[i]) ELSE <<>>
      parts == [i \in DOMAIN lens |-> whole(i)]
<1>0. PICK n \in Nat : n = Len(lens) /\ DOMAIN lens = 1..n
  OBVIOUS
<1>1. /\ S \in [0..n -> Nat] /\ S[0] = 0
      /\ \A i \in 1..n : S[i] = S[i - 1] + lens[i]
  BY <1>0, SumsProperties
<1>2. \A i \in 0..n : S[i] \in Nat
  BY <1>1
<1>3. \A i \in 1..n : i \in 0..n /\ i - 1 \in 0..n
  OBVIOUS
<1>4. RestOf(pw) = IF middle = {} THEN FlattenSeq(parts)
                   ELSE LET i == CHOOSE j \in middle : TRUE
                        IN  Bytes(packet, bytes, S[i - 1] + lens[i])
  BY DEF RestOf, OffsetIn
<1>5. Total(lens) = S[n]
  BY <1>0 DEF Total
<1> HIDE DEF S
<1>6. CASE middle # {}
  <2>1. PICK i \in middle : RestOf(pw) = Bytes(packet, bytes, S[i - 1] + lens[i])
    BY <1>4, <1>6
  <2>2. i \in 1..n /\ bytes < S[i - 1] + lens[i]
    BY <1>0
  <2>3. S[i] = S[i - 1] + lens[i] /\ S[i] \in Nat
    BY <1>1, <1>2, <1>3, <2>2
  <2>4. S[i] <= Total(lens)
    BY <1>0, <1>3, <2>2, SumsGrow DEF S
  <2>5. bytes <= S[i]
    BY <2>2, <2>3
  <2>6. QED
    BY <2>1, <2>3, <2>4, <2>5
<1>7. CASE middle = {}
  <2> DEFINE Left(k) == IF S[k] <= bytes THEN <<>> ELSE Bytes(packet, bytes, S[k])
             First(k) == SubSeq(parts, 1, k)
             T == {k \in Nat : k <= n => FlattenSeq(First(k)) = Left(k)}
  <2>1. \A i \in 1..n : ~In(i)
    BY <1>0, <1>7
  <2>2. \A i \in 1..n : whole(i) \in Seq(Byte)
    <3>1. SUFFICES ASSUME NEW i \in 1..n PROVE whole(i) \in Seq(Byte)
      OBVIOUS
    <3>2. PICK a \in Nat, b \in Nat : a = S[i - 1] /\ b = S[i - 1] + lens[i] /\ a <= b
      <4>1. S[i - 1] \in Nat /\ lens[i] \in Nat
        BY <1>0, <1>2, <1>3
      <4>2. QED
        BY <4>1
    <3>3. Bytes(packet, a, b) \in Seq(Byte)
      BY <3>2, BytesType
    <3>4. QED
      BY <3>2, <3>3
  <2>3. parts \in Seq(Seq(Byte)) /\ Len(parts) = n /\ \A i \in 1..n : parts[i] = whole(i)
    <3> HIDE DEF whole
    <3>1. QED
      BY <1>0, <2>2
  <2> HIDE DEF whole, parts
  <2>4. \A k \in 0..n : First(k) \in Seq(Seq(Byte))
    BY <2>3
  <2>5. 0 \in T
    <3>1. First(0) = <<>>
      BY <2>3
    <3>2. Left(0) = <<>>
      BY <1>1
    <3>3. QED
      BY <3>1, <3>2, FlattenEmpty
  <2>6. ASSUME NEW k \in Nat, k \in T PROVE k + 1 \in T
    <3>1. SUFFICES ASSUME k + 1 <= n PROVE FlattenSeq(First(k + 1)) = Left(k + 1)
      OBVIOUS
    <3>2. PICK m \in 1..n : m = k + 1 /\ m - 1 = k /\ k \in 0..n /\ m \in 0..n
      BY <3>1
    <3>3. FlattenSeq(First(k)) = Left(k)
      BY <2>6, <3>2
    <3>4. First(m) = Append(First(k), whole(m))
      <4>1. parts[m] = whole(m)
        BY <2>3
      <4>2. SubSeq(parts, 1, k) \in Seq(Seq(Byte)) /\ Len(SubSeq(parts, 1, k)) = k
            /\ \A i \in 1..k : SubSeq(parts, 1, k)[i] = parts[i]
        BY <2>3, <3>2
      <4>3. SubSeq(parts, 1, m) \in Seq(Seq(Byte)) /\ Len(SubSeq(parts, 1, m)) = m
            /\ \A i \in 1..m : SubSeq(parts, 1, m)[i] = parts[i]
        BY <2>3, <3>2
      <4>4. SubSeq(parts, 1, m) = Append(SubSeq(parts, 1, k), parts[m])
        BY <4>2, <4>3, <3>2, <2>2, <4>1
      <4>5. QED
        BY <4>1, <4>4
    <3>5. FlattenSeq(First(m)) = Left(k) \o whole(m)
      BY <2>2, <2>4, <3>2, <3>3, <3>4, FlattenAppend
    <3>6. S[m] = S[k] + lens[m] /\ S[m] \in Nat /\ S[k] \in Nat /\ lens[m] \in Nat
      BY <1>0, <1>1, <1>2, <3>2
    <3>7. ~In(m)
      BY <2>1
    <3>8. whole(m) = IF bytes <= S[k] THEN Bytes(packet, S[k], S[m]) ELSE <<>>
      BY <3>2, <3>6 DEF whole
    <3>9. Left(k) \o whole(m) = Left(m)
      <4>1. PICK x \in Nat, y \in Nat : x = S[k] /\ y = S[m]
        BY <3>6
      <4>2. x <= y /\ ~(x < bytes /\ bytes < y)
        BY <3>2, <3>6, <3>7, <4>1
      <4>3. (IF x <= bytes THEN <<>> ELSE Bytes(packet, bytes, x))
              \o (IF bytes <= x THEN Bytes(packet, x, y) ELSE <<>>)
            = (IF y <= bytes THEN <<>> ELSE Bytes(packet, bytes, y))
        BY <4>1, <4>2, <1>a
      <4>4. Left(k) = (IF x <= bytes THEN <<>> ELSE Bytes(packet, bytes, x))
        BY <4>1
      <4>5. Left(m) = (IF y <= bytes THEN <<>> ELSE Bytes(packet, bytes, y))
        BY <4>1
      <4>6. whole(m) = (IF bytes <= x THEN Bytes(packet, x, y) ELSE <<>>)
        BY <3>8, <4>1
      <4>7. QED
        BY <4>3, <4>4, <4>5, <4>6
    <3>10. QED
      BY <3>2, <3>5, <3>9
  <2>7. FlattenSeq(First(n)) = Left(n)
    <3>1. Nat \subseteq T
      <4> HIDE DEF T
      <4>1. QED
        BY <2>5, <2>6, Induction
    <3>2. n \in T
      <4> HIDE DEF T
      <4>1. QED
        BY <3>1
    <3>3. QED
      BY <3>2
  <2>8. First(n) = parts
    BY <2>3
  <2>9. S[n] \in Nat /\ ~(S[n] <= bytes) /\ bytes <= S[n]
    BY <1>2, <1>5
  <2>10. RestOf(pw) = Bytes(packet, bytes, S[n])
    <3>1. RestOf(pw) = FlattenSeq(parts)
      BY <1>4, <1>7
    <3>2. QED
      BY <2>7, <2>8, <2>9, <3>1
  <2>11. QED
    BY <1>5, <2>9, <2>10
<1>8. QED
  BY <1>6, <1>7

-----------------------------------------------------------------------------
(* What is written.  WriteInv says of each connection how what the kernel   *)
(* took, what waits and what was given belong together.                     *)

Parts(b) == [k \in DOMAIN b |-> Bytes(b[k][1], 0, b[k][2])]
Given(s) == FlattenSeq(Parts(begun[s]))
Pending == [socket : Sockets, packet : Nat, lens : Seq(Nat), bytes : Nat]

WriteTyped ==
  /\ traffic \in Traffic
  /\ open \subseteq Sockets /\ write_pending \subseteq open
  /\ writes \in Seq(Pending) /\ puts \in Nat
  /\ begun \in [Sockets -> Seq(Nat \X Nat)]
  /\ output \in [Sockets -> Seq(Byte)]

\* a descriptor with a pending write has one, and the others have none
OnePending ==
  /\ \A i, j \in DOMAIN writes : writes[i].socket = writes[j].socket => i = j
  /\ \A i \in DOMAIN writes : writes[i].socket \in write_pending
  /\ \A s \in write_pending : \E i \in DOMAIN writes : writes[i].socket = s

NewUnwritten == \A s \in Sockets \ open : begun[s] = <<>> /\ output[s] = <<>>

\* the bytes that were given are those that were taken and those that wait
PendingRest ==
  \A i \in DOMAIN writes :
    /\ writes[i].bytes < Total(writes[i].lens)
    /\ output[writes[i].socket]
         \o Bytes(writes[i].packet, writes[i].bytes, Total(writes[i].lens)) = Given(writes[i].socket)
NothingLeft ==
  \A s \in open \ write_pending :
    /\ \E rest \in Seq(Byte) : output[s] \o rest = Given(s)
    /\ s \notin broken => output[s] = Given(s)

WriteInv == WriteTyped /\ OnePending /\ NewUnwritten /\ PendingRest /\ NothingLeft

LEMMA PartsType ==
  ASSUME NEW b \in Seq(Nat \X Nat)
  PROVE  Parts(b) \in Seq(Seq(Byte))
<1>1. \A k \in 1..Len(b) : Bytes(b[k][1], 0, b[k][2]) \in Seq(Byte)
  <2>1. SUFFICES ASSUME NEW k \in 1..Len(b) PROVE Bytes(b[k][1], 0, b[k][2]) \in Seq(Byte)
    OBVIOUS
  <2>2. b[k] \in Nat \X Nat
    OBVIOUS
  <2>3. b[k][1] \in Nat /\ b[k][2] \in Nat /\ 0 <= b[k][2]
    BY <2>2
  <2>4. QED
    BY <2>3, BytesType
<1>2. Len(b) \in Nat /\ DOMAIN b = 1..Len(b)
  OBVIOUS
<1>3. QED
  BY <1>1, <1>2 DEF Parts

LEMMA PartsAppend ==
  ASSUME NEW b \in Seq(Nat \X Nat), NEW p \in Nat, NEW n \in Nat
  PROVE  Parts(Append(b, <<p, n>>)) = Append(Parts(b), Bytes(p, 0, n))
<1> DEFINE c == Append(b, <<p, n>>)
           x == Bytes(p, 0, n)
<1>1. /\ c \in Seq(Nat \X Nat) /\ Len(c) = Len(b) + 1 /\ c[Len(b) + 1] = <<p, n>>
      /\ \A k \in 1..Len(b) : c[k] = b[k]
      /\ Len(b) \in Nat
  OBVIOUS
<1> HIDE DEF c
<1>2. DOMAIN c = 1..(Len(b) + 1) /\ DOMAIN b = 1..Len(b)
  BY <1>1
<1>3. /\ Parts(c) \in Seq(Seq(Byte)) /\ Len(Parts(c)) = Len(b) + 1
      /\ Parts(b) \in Seq(Seq(Byte)) /\ Len(Parts(b)) = Len(b)
  <2>1. Parts(c) \in Seq(Seq(Byte)) /\ Parts(b) \in Seq(Seq(Byte))
    BY <1>1, PartsType
  <2>2. DOMAIN Parts(c) = 1..(Len(b) + 1) /\ DOMAIN Parts(b) = 1..Len(b)
    BY <1>2 DEF Parts
  <2>3. QED
    BY <1>1, <2>1, <2>2
<1>4. \A k \in 1..Len(b) : Parts(c)[k] = Parts(b)[k]
  BY <1>1, <1>2 DEF Parts
<1>5. Parts(c)[Len(b) + 1] = x
  BY <1>1, <1>2 DEF Parts
<1>6. x \in Seq(Byte)
  <2>1. 0 \in Nat /\ 0 <= n
    OBVIOUS
  <2>2. QED
    BY <2>1, BytesType
<1> HIDE DEF x
<1>7. /\ Append(Parts(b), x) \in Seq(Seq(Byte)) /\ Len(Append(Parts(b), x)) = Len(b) + 1
      /\ \A k \in 1..Len(b) : Append(Parts(b), x)[k] = Parts(b)[k]
      /\ Append(Parts(b), x)[Len(b) + 1] = x
  BY <1>3, <1>6
<1>8. \A k \in 1..(Len(b) + 1) : Parts(c)[k] = Append(Parts(b), x)[k]
  <2>1. \A k \in 1..(Len(b) + 1) : k \in 1..Len(b) \/ k = Len(b) + 1
    BY <1>1
  <2>2. QED
    BY <1>4, <1>5, <1>7, <2>1
<1>9. Parts(c) = Append(Parts(b), x)
  BY <1>3, <1>7, <1>8, SeqEqual
<1>10. QED
  BY <1>9 DEF c, x

LEMMA GivenType ==
  ASSUME WriteTyped, NEW s \in Sockets
  PROVE  Given(s) \in Seq(Byte)
<1>1. begun[s] \in Seq(Nat \X Nat)
  BY DEF WriteTyped
<1>2. QED
  BY <1>1, PartsType, FlattenType DEF Given

LEMMA GivenMore ==
  ASSUME WriteTyped, NEW s \in Sockets, NEW p \in Nat, NEW n \in Nat,
         begun'[s] = Append(begun[s], <<p, n>>)
  PROVE  Given(s)' = Given(s) \o Bytes(p, 0, n)
<1>1. begun[s] \in Seq(Nat \X Nat)
  BY DEF WriteTyped
<1>2. Bytes(p, 0, n) \in Seq(Byte)
  BY BytesType
<1>3. Parts(begun[s]) \in Seq(Seq(Byte))
  BY <1>1, PartsType
<1>4. Given(s)' = FlattenSeq(Parts(Append(begun[s], <<p, n>>)))
  BY DEF Given
<1>5. QED
  BY <1>1, <1>2, <1>3, <1>4, PartsAppend, FlattenAppend DEF Given

LEMMA GivenSame ==
  ASSUME NEW s, begun'[s] = begun[s]
  PROVE  Given(s)' = Given(s)
BY DEF Given

LEMMA NothingGiven ==
  ASSUME NEW s, begun[s] = <<>>
  PROVE  Given(s) = <<>>
<1>1. Parts(<<>>) = <<>>
  BY DEF Parts
<1>2. QED
  BY <1>1, FlattenEmpty DEF Given

LEMMA PrefixOfJoined ==
  ASSUME NEW S, NEW x \in Seq(S), NEW y \in Seq(S)
  PROVE  IsPrefix(x, x \o y)
<1>1. Len(x) \in Nat /\ Len(y) \in Nat /\ Len(x \o y) = Len(x) + Len(y)
      /\ x \o y \in Seq(S)
  OBVIOUS
<1>2. SubSeq(x, 1, Len(x)) = x
  BY SubSeqFull
<1>3. SubSeq(x \o y, 1, Len(x)) = x
  <2>1. \A i \in 1..Len(x) : (x \o y)[i] = x[i]
    BY <1>1
  <2>2. SubSeq(x \o y, 1, Len(x)) \in Seq(S) /\ Len(SubSeq(x \o y, 1, Len(x))) = Len(x)
        /\ \A i \in 1..Len(x) : SubSeq(x \o y, 1, Len(x))[i] = (x \o y)[i]
    BY <1>1
  <2>3. QED
    BY <2>1, <2>2, SeqEqual
<1>4. QED
  BY <1>1, <1>2, <1>3 DEF IsPrefix

LEMMA WriteInvWhole ==
  ASSUME WriteInv
  PROVE  WritesWhole
<1>1. SUFFICES ASSUME NEW s \in open
               PROVE  /\ IsPrefix(output[s], Given(s))
                      /\ s \notin write_pending \cup broken => output[s] = Given(s)
  BY DEF WritesWhole, Given, Parts
<1>2. s \in Sockets /\ output[s] \in Seq(Byte)
  BY DEF WriteInv, WriteTyped
<1>3. PICK rest \in Seq(Byte) : output[s] \o rest = Given(s)
  <2>1. CASE s \in write_pending
    <3>1. PICK i \in DOMAIN writes : writes[i].socket = s
      BY <2>1 DEF WriteInv, OnePending
    <3>2. writes[i] \in Pending
      BY DEF WriteInv, WriteTyped
    <3>3. /\ writes[i].packet \in Nat /\ writes[i].bytes \in Nat /\ writes[i].lens \in Seq(Nat)
      BY <3>2 DEF Pending
    <3>4. Total(writes[i].lens) \in Nat
      BY <3>3, SumsProperties DEF Total
    <3>5. Bytes(writes[i].packet, writes[i].bytes, Total(writes[i].lens)) \in Seq(Byte)
      <4>1. writes[i].bytes <= Total(writes[i].lens)
        <5>1. writes[i].bytes < Total(writes[i].lens)
          BY DEF WriteInv, PendingRest
        <5>2. QED
          BY <3>3, <3>4, <5>1
      <4>2. QED
        BY <3>3, <3>4, <4>1, BytesType
    <3>6. QED
      BY <3>1, <3>5 DEF WriteInv, PendingRest
  <2>2. CASE s \notin write_pending
    BY <2>2 DEF WriteInv, NothingLeft
  <2>3. QED
    BY <2>1, <2>2
<1>4. QED
  BY <1>2, <1>3, PrefixOfJoined DEF WriteInv, NothingLeft

LEMMA OutOfTraffic ==
  ASSUME WriteTyped, NEW lens \in ToSet(traffic.out)
  PROVE  lens \in Seq(Nat) /\ Total(lens) \in Nat
<1>1. traffic.out \in Seq(Seq(Nat))
  BY TrafficAssumption DEF WriteTyped
<1>2. lens \in Seq(Nat)
  BY <1>1 DEF ToSet
<1>3. QED
  BY <1>2, SumsProperties DEF Total

\* the pending write of s
LEMMA PendingOf ==
  ASSUME WriteTyped, OnePending, NEW s \in write_pending
  PROVE  /\ SocketBuffer_getWrite(s) \in DOMAIN writes
         /\ writes[SocketBuffer_getWrite(s)].socket = s
<1> DEFINE I == {i \in 1..Len(writes) : writes[i].socket = s}
<1>1. DOMAIN writes = 1..Len(writes) /\ Len(writes) \in Nat
  BY DEF WriteTyped
<1>2. I # {}
  BY <1>1 DEF OnePending
<1>3. SocketBuffer_getWrite(s) = Min(I)
  BY <1>2 DEF SocketBuffer_getWrite, SelectInSeq
<1>4. Min(I) \in I
  <2>1. I \subseteq Nat
    BY <1>1
  <2> HIDE DEF I
  <2>2. QED
    BY <1>2, <2>1, MinProperties
<1>5. QED
  BY <1>1, <1>3, <1>4

LEMMA WriteStutters ==
  ASSUME WriteInv, UNCHANGED <<traffic, open, writing>>, broken \subseteq broken'
  PROVE  WriteInv'
<1>1. \A s : Given(s)' = Given(s)
  BY GivenSame DEF writing
<1>2. WriteTyped' /\ OnePending' /\ NewUnwritten'
  BY DEF WriteInv, WriteTyped, OnePending, NewUnwritten, writing
<1>3. PendingRest'
  BY <1>1 DEF WriteInv, PendingRest, writing
<1>4. NothingLeft'
  BY <1>1 DEF WriteInv, NothingLeft, writing
<1>5. QED
  BY <1>2, <1>3, <1>4 DEF WriteInv

LEMMA PutDatasWrites ==
  ASSUME WriteInv, NEW s \in Sockets, Socket_putdatas(s)
  PROVE  WriteInv'
<1>1. PICK lens \in ToSet(traffic.out) :
        /\ s \in open \ broken /\ s \notin write_pending
        /\ \/ \E n \in 0..Total(lens) :
                /\ puts' = puts + 1
                /\ begun' = [begun EXCEPT ![s] = Append(@, <<puts + 1, Total(lens)>>)]
                /\ output' = [output EXCEPT ![s] = @ \o Bytes(puts + 1, 0, n)]
                /\ IF n = Total(lens) THEN UNCHANGED <<writes, write_pending>>
                   ELSE /\ SocketBuffer_pendingWrite(s, puts + 1, lens, n)
                        /\ write_pending' = write_pending \cup {s}
                /\ UNCHANGED broken
           \/ /\ broken' = broken \cup {s}
              /\ UNCHANGED writing
        /\ UNCHANGED <<traffic, open>>
  BY Zenon DEF Socket_putdatas
<1>2. CASE broken' = broken \cup {s} /\ UNCHANGED writing
  BY <1>1, <1>2, WriteStutters
<1> DEFINE packet == puts + 1
           total == Total(lens)
<1>3. ASSUME NEW n \in 0..total,
             /\ puts' = packet
             /\ begun' = [begun EXCEPT ![s] = Append(@, <<packet, total>>)]
             /\ output' = [output EXCEPT ![s] = @ \o Bytes(packet, 0, n)]
             /\ IF n = total THEN UNCHANGED <<writes, write_pending>>
                ELSE /\ SocketBuffer_pendingWrite(s, packet, lens, n)
                     /\ write_pending' = write_pending \cup {s}
             /\ UNCHANGED broken
      PROVE  WriteInv'
  <2>0. lens \in Seq(Nat) /\ total \in Nat /\ packet \in Nat /\ n \in Nat /\ n <= total
    <3>1. lens \in Seq(Nat) /\ Total(lens) \in Nat
      BY OutOfTraffic DEF WriteInv
    <3>2. QED
      BY <3>1 DEF WriteInv, WriteTyped
  <2> HIDE DEF packet, total
  <2>t. WriteTyped
    BY DEF WriteInv
  <2>1. /\ Bytes(packet, 0, n) \in Seq(Byte) /\ Bytes(packet, n, total) \in Seq(Byte)
        /\ Bytes(packet, 0, total) \in Seq(Byte)
        /\ Bytes(packet, 0, n) \o Bytes(packet, n, total) = Bytes(packet, 0, total)
    <3>1. 0 \in Nat /\ 0 <= n /\ 0 <= total
      BY <2>0
    <3>2. QED
      BY <2>0, <3>1, BytesType, BytesJoined
  <2>2. /\ begun'[s] = Append(begun[s], <<packet, total>>)
        /\ output'[s] = output[s] \o Bytes(packet, 0, n)
        /\ \A q \in Sockets \ {s} : begun'[q] = begun[q] /\ output'[q] = output[q]
    BY <1>3 DEF WriteInv, WriteTyped
  <2>3. output[s] \in Seq(Byte) /\ Given(s) = output[s]
    BY <1>1 DEF WriteInv, WriteTyped, NothingLeft
  <2>4. /\ Given(s)' = output[s] \o Bytes(packet, 0, total)
        /\ \A q \in Sockets \ {s} : Given(q)' = Given(q)
    <3>1. Given(s)' = Given(s) \o Bytes(packet, 0, total)
      BY <2>t, <2>0, <2>2, GivenMore
    <3>2. QED
      BY <2>2, <2>3, <3>1, GivenSame
  <2>5. output'[s] \o Bytes(packet, n, total) = Given(s)'
    <3>1. (output[s] \o Bytes(packet, 0, n)) \o Bytes(packet, n, total)
            = output[s] \o (Bytes(packet, 0, n) \o Bytes(packet, n, total))
      <4>1. \A x, y, z \in Seq(Byte) : (x \o y) \o z = x \o (y \o z)
        BY ConcatAssociative
      <4>2. QED
        BY <2>1, <2>3, <4>1, Zenon
    <3>2. QED
      BY <2>1, <2>2, <2>4, <3>1
  <2>6. begun' \in [Sockets -> Seq(Nat \X Nat)] /\ output' \in [Sockets -> Seq(Byte)]
    <3>1. <<packet, total>> \in Nat \X Nat
      BY <2>0
    <3>2. Append(begun[s], <<packet, total>>) \in Seq(Nat \X Nat)
      BY <2>t, <3>1 DEF WriteTyped
    <3>3. output[s] \o Bytes(packet, 0, n) \in Seq(Byte)
      BY <2>1, <2>3
    <3>4. QED
      BY <1>3, <2>t, <3>2, <3>3 DEF WriteTyped
  <2>7. NewUnwritten'
    BY <1>1, <2>2 DEF WriteInv, NewUnwritten, WriteTyped
  <2>8. \A i \in DOMAIN writes : writes[i].socket # s /\ writes[i].socket \in Sockets
    BY <1>1 DEF WriteInv, OnePending, WriteTyped
  <2>9. CASE n = total
    <3>1. UNCHANGED <<writes, write_pending>>
      BY <1>3, <2>9
    <3>2. WriteTyped' /\ OnePending'
      BY <1>1, <1>3, <2>0, <2>6, <3>1 DEF WriteInv, WriteTyped, OnePending
    <3>3. PendingRest'
      <4>1. \A i \in DOMAIN writes : /\ output'[writes[i].socket] = output[writes[i].socket]
                                     /\ Given(writes[i].socket)' = Given(writes[i].socket)
        <5>1. SUFFICES ASSUME NEW i \in DOMAIN writes
                       PROVE  /\ output'[writes[i].socket] = output[writes[i].socket]
                              /\ Given(writes[i].socket)' = Given(writes[i].socket)
          OBVIOUS
        <5>2. PICK q \in Sockets \ {s} : q = writes[i].socket
          BY <2>8
        <5>3. q = writes'[i].socket
          BY <3>1, <5>2
        <5>4. output'[q] = output[q] /\ Given(q)' = Given(q)
          BY <2>2, <2>4
        <5>5. QED
          BY <5>2, <5>3, <5>4
      <4>2. QED
        BY <3>1, <4>1 DEF WriteInv, PendingRest
    <3>4. NothingLeft'
      <4>1. output'[s] = Given(s)' /\ output'[s] \in Seq(Byte)
        BY <2>1, <2>2, <2>3, <2>4, <2>9
      <4>2. output'[s] \o <<>> = Given(s)' /\ <<>> \in Seq(Byte)
        BY <4>1, ConcatEmptySeq
      <4>3. ASSUME NEW q \in open \ write_pending, q # s
            PROVE  /\ \E rest \in Seq(Byte) : output'[q] \o rest = Given(q)'
                   /\ q \notin broken' => output'[q] = Given(q)'
        <5>1. q \in Sockets \ {s}
          BY <4>3, <2>t DEF WriteTyped
        <5>2. output'[q] = output[q] /\ Given(q)' = Given(q)
          BY <5>1, <2>2, <2>4
        <5>3. QED
          BY <1>3, <5>2 DEF WriteInv, NothingLeft
      <4>4. QED
        BY <1>1, <1>3, <3>1, <4>1, <4>2, <4>3 DEF NothingLeft
    <3>5. QED
      BY <2>7, <3>2, <3>3, <3>4 DEF WriteInv
  <2>10. CASE n # total
    <3> DEFINE w == [socket |-> s, packet |-> packet, lens |-> lens, bytes |-> n]
    <3>1. writes' = Append(writes, w) /\ write_pending' = write_pending \cup {s}
      BY <1>3, <2>10 DEF SocketBuffer_pendingWrite
    <3>2. w \in Pending
      BY <2>0 DEF Pending
    <3>3. w.socket = s /\ w.packet = packet /\ w.lens = lens /\ w.bytes = n
      OBVIOUS
    <3> HIDE DEF w
    <3>4. PICK k \in Nat : k = Len(writes) /\ DOMAIN writes = 1..k
      BY <2>t DEF WriteTyped
    <3>5. /\ writes' \in Seq(Pending) /\ DOMAIN writes' = 1..(k + 1) /\ writes'[k + 1] = w
          /\ \A i \in 1..k : writes'[i] = writes[i]
      BY <2>t, <3>1, <3>2, <3>4 DEF WriteTyped
    <3>6. WriteTyped'
      BY <1>1, <1>3, <2>0, <2>6, <2>t, <3>1, <3>5 DEF WriteTyped
    <3>7. OnePending'
      <4>1. \A i \in 1..(k + 1) : i \in 1..k \/ i = k + 1
        BY <3>4
      <4>2. \A i \in 1..k : writes'[i].socket # s /\ writes'[i].socket \in write_pending
        BY <2>8, <3>4, <3>5 DEF WriteInv, OnePending
      <4>3. \A i, j \in 1..k : writes'[i].socket = writes'[j].socket => i = j
        BY <3>4, <3>5 DEF WriteInv, OnePending
      <4>4. \A q \in write_pending : \E i \in 1..k : writes'[i].socket = q
        BY <3>4, <3>5 DEF WriteInv, OnePending
      <4>5. 1..k \subseteq 1..(k + 1) /\ k + 1 \in 1..(k + 1) /\ writes'[k + 1].socket = s
        BY <3>3, <3>4, <3>5
      <4>6. \A i, j \in DOMAIN writes' : writes'[i].socket = writes'[j].socket => i = j
        BY <3>5, <4>1, <4>2, <4>3, <4>5
      <4>7. \A i \in DOMAIN writes' : writes'[i].socket \in write_pending'
        BY <3>1, <3>5, <4>1, <4>2, <4>5
      <4>8. \A q \in write_pending' : \E i \in DOMAIN writes' : writes'[i].socket = q
        BY <3>1, <3>5, <4>4, <4>5
      <4>9. QED
        BY <4>6, <4>7, <4>8 DEF OnePending
    <3>8. PendingRest'
      <4>1. ASSUME NEW i \in 1..k
            PROVE  (/\ writes[i].bytes < Total(writes[i].lens)
                    /\ output[writes[i].socket]
                         \o Bytes(writes[i].packet, writes[i].bytes, Total(writes[i].lens))
                       = Given(writes[i].socket))'
        <5>1. writes'[i] = writes[i] /\ i \in DOMAIN writes
          BY <3>4, <3>5
        <5>2. PICK q \in Sockets \ {s} : q = writes[i].socket
          BY <2>8, <5>1
        <5>3. output'[q] = output[q] /\ Given(q)' = Given(q)
          BY <2>2, <2>4
        <5>4. /\ writes[i].bytes < Total(writes[i].lens)
              /\ output[q] \o Bytes(writes[i].packet, writes[i].bytes, Total(writes[i].lens)) = Given(q)
          BY <5>1, <5>2 DEF WriteInv, PendingRest
        <5>5. Given(writes[i].socket)' = Given(q)'
          BY <5>1, <5>2
        <5>6. QED
          BY <5>1, <5>2, <5>3, <5>4, <5>5
      <4>2. n < total
        BY <2>0, <2>10
      <4>3. ASSUME NEW i \in DOMAIN writes'
            PROVE  (/\ writes[i].bytes < Total(writes[i].lens)
                    /\ output[writes[i].socket]
                         \o Bytes(writes[i].packet, writes[i].bytes, Total(writes[i].lens))
                       = Given(writes[i].socket))'
        <5>1. CASE i \in 1..k
          BY <4>1, <5>1
        <5>2. CASE i = k + 1
          <6>1. writes'[i].socket = s /\ writes'[i].packet = packet
                /\ writes'[i].lens = lens /\ writes'[i].bytes = n
            BY <3>3, <3>5, <5>2
          <6>2. Given(writes[i].socket)' = Given(s)'
            BY <6>1
          <6>3. QED
            BY <2>5, <4>2, <6>1, <6>2 DEF total
        <5>3. i \in 1..k \/ i = k + 1
          BY <3>4, <3>5
        <5>4. QED
          BY <5>1, <5>2, <5>3
      <4>4. QED
        BY <4>3 DEF PendingRest
    <3>9. NothingLeft'
      <4>1. ASSUME NEW q \in open' \ write_pending'
            PROVE  /\ \E rest \in Seq(Byte) : output'[q] \o rest = Given(q)'
                   /\ q \notin broken' => output'[q] = Given(q)'
        <5>1. q \in Sockets \ {s} /\ q \in open \ write_pending
          BY <1>1, <3>1, <2>t DEF WriteTyped
        <5>2. output'[q] = output[q] /\ Given(q)' = Given(q)
          BY <5>1, <2>2, <2>4
        <5>3. QED
          BY <1>3, <5>1, <5>2 DEF WriteInv, NothingLeft
      <4>2. QED
        BY <4>1 DEF NothingLeft
    <3>10. QED
      BY <2>7, <3>6, <3>7, <3>8, <3>9 DEF WriteInv
  <2>11. QED
    BY <2>9, <2>10
<1>4. QED
  BY <1>1, <1>2, <1>3

\* the pending write of s is taken out
LEMMA WriteDone ==
  ASSUME WriteInv, NEW s \in write_pending, SocketBuffer_writeComplete(s),
         write_pending' = write_pending \ {s}
  PROVE  /\ writes' \in Seq(Pending) /\ OnePending'
         /\ \A j \in DOMAIN writes' :
              \E k \in DOMAIN writes : writes'[j] = writes[k] /\ writes[k].socket # s
<1>1. PICK i : i = SocketBuffer_getWrite(s) /\ i \in DOMAIN writes /\ writes[i].socket = s
  BY PendingOf DEF WriteInv
<1>2. PICK n \in Nat : n = Len(writes) /\ DOMAIN writes = 1..n /\ writes \in Seq(Pending)
  BY DEF WriteInv, WriteTyped
<1>3. writes' = RemoveAt(writes, i)
  BY <1>1 DEF SocketBuffer_writeComplete
<1> DEFINE At(j) == IF j < i THEN j ELSE j + 1
<1>4. /\ writes' \in Seq(Pending) /\ Len(writes') = n - 1
      /\ \A j \in 1..(n - 1) : writes'[j] = writes[At(j)]
  <2>1. i \in 1..Len(writes)
    BY <1>1, <1>2
  <2>2. /\ RemoveAt(writes, i) \in Seq(Pending) /\ Len(RemoveAt(writes, i)) = Len(writes) - 1
        /\ \A j \in 1..(Len(writes) - 1) :
             RemoveAt(writes, i)[j] = IF j < i THEN writes[j] ELSE writes[j + 1]
    BY <1>2, <2>1, RemoveAtProperties
  <2>3. QED
    BY <1>2, <1>3, <2>2
<1>5. DOMAIN writes' = 1..(n - 1)
  BY <1>4
<1>6. /\ \A j \in 1..(n - 1) : At(j) \in 1..n /\ At(j) # i
      /\ \A j, k \in 1..(n - 1) : At(j) = At(k) => j = k
      /\ \A k \in 1..n : k # i => \E j \in 1..(n - 1) : At(j) = k
  <2>1. i \in 1..n
    BY <1>1, <1>2
  <2>2. /\ \A j \in 1..(n - 1) : At(j) \in 1..n /\ At(j) # i
        /\ \A j, k \in 1..(n - 1) : At(j) = At(k) => j = k
    BY <1>2, <2>1
  <2>3. ASSUME NEW k \in 1..n, k # i PROVE \E j \in 1..(n - 1) : At(j) = k
    <3>1. CASE k < i
      <4>1. k \in 1..(n - 1) /\ At(k) = k
        BY <1>2, <2>1, <3>1
      <4>2. QED
        BY <4>1
    <3>2. CASE k > i
      <4>1. k - 1 \in 1..(n - 1) /\ At(k - 1) = k
        BY <1>2, <2>1, <3>2
      <4>2. QED
        BY <4>1
    <3>3. QED
      BY <2>1, <2>3, <3>1, <3>2
  <2>4. QED
    BY <2>2, <2>3
<1> HIDE DEF At
<1>7. OnePending
  BY DEF WriteInv
<1>8. \A k \in 1..n : k # i => writes[k].socket # s
  BY <1>1, <1>2, <1>7 DEF OnePending
<1>9. \A j \in 1..(n - 1) : writes'[j].socket # s /\ writes'[j].socket \in write_pending
  <2>1. \A k \in 1..n : writes[k].socket \in write_pending
    BY <1>2, <1>7 DEF OnePending
  <2>2. QED
    BY <1>4, <1>6, <1>8, <2>1
<1>10. \A j, k \in 1..(n - 1) : writes'[j].socket = writes'[k].socket => j = k
  <2>1. \A j, k \in 1..n : writes[j].socket = writes[k].socket => j = k
    BY <1>2, <1>7 DEF OnePending
  <2>2. SUFFICES ASSUME NEW j \in 1..(n - 1), NEW k \in 1..(n - 1),
                        writes'[j].socket = writes'[k].socket
                 PROVE  j = k
    OBVIOUS
  <2>3. /\ At(j) \in 1..n /\ At(k) \in 1..n
        /\ writes'[j] = writes[At(j)] /\ writes'[k] = writes[At(k)]
    BY <1>4, <1>6
  <2>4. At(j) = At(k)
    BY <2>1, <2>2, <2>3
  <2>5. QED
    BY <1>6, <2>4
<1>11. \A q \in write_pending \ {s} : \E j \in 1..(n - 1) : writes'[j].socket = q
  <2>1. SUFFICES ASSUME NEW q \in write_pending \ {s}
                 PROVE  \E j \in 1..(n - 1) : writes'[j].socket = q
    OBVIOUS
  <2>2. PICK k \in 1..n : writes[k].socket = q
    BY <1>2, <1>7 DEF OnePending
  <2>3. PICK j \in 1..(n - 1) : At(j) = k
    BY <1>1, <1>6, <2>2
  <2>4. QED
    BY <1>4, <2>2, <2>3
<1>12. OnePending'
  BY <1>5, <1>9, <1>10, <1>11 DEF OnePending
<1>13. \A j \in DOMAIN writes' :
         \E k \in DOMAIN writes : writes'[j] = writes[k] /\ writes[k].socket # s
  BY <1>2, <1>4, <1>5, <1>6, <1>8
<1>14. QED
  BY <1>4, <1>12, <1>13

\* the other connections keep what they have
LEMMA OthersRest ==
  ASSUME WriteInv, NEW s, NEW q, q # s, output'[q] = output[q], begun'[q] = begun[q],
         NEW j, NEW k \in DOMAIN writes, writes'[j] = writes[k], writes[k].socket = q
  PROVE  (/\ writes[j].bytes < Total(writes[j].lens)
          /\ output[writes[j].socket]
               \o Bytes(writes[j].packet, writes[j].bytes, Total(writes[j].lens))
             = Given(writes[j].socket))'
<1>1. Given(q)' = Given(q)
  BY GivenSame
<1>2. Given(writes[j].socket)' = Given(q)'
  OBVIOUS
<1>3. /\ writes[k].bytes < Total(writes[k].lens)
      /\ output[q] \o Bytes(writes[k].packet, writes[k].bytes, Total(writes[k].lens)) = Given(q)
  BY DEF WriteInv, PendingRest
<1>4. QED
  BY <1>1, <1>2, <1>3

LEMMA OthersDone ==
  ASSUME WriteInv, NEW s, open' \ {s} = open \ {s}, write_pending' \ {s} = write_pending \ {s},
         broken' \ {s} = broken \ {s},
         \A q \in Sockets \ {s} : output'[q] = output[q] /\ begun'[q] = begun[q]
  PROVE  \A q \in (open' \ write_pending') \ {s} :
           /\ \E rest \in Seq(Byte) : output'[q] \o rest = Given(q)'
           /\ q \notin broken' => output'[q] = Given(q)'
<1>1. SUFFICES ASSUME NEW q \in (open' \ write_pending') \ {s}
               PROVE  /\ \E rest \in Seq(Byte) : output'[q] \o rest = Given(q)'
                      /\ q \notin broken' => output'[q] = Given(q)'
  OBVIOUS
<1>2. q \in open \ write_pending /\ q # s /\ (q \notin broken' => q \notin broken)
  OBVIOUS
<1>3. q \in Sockets
  BY <1>2 DEF WriteInv, WriteTyped
<1>4. output'[q] = output[q] /\ Given(q)' = Given(q)
  BY <1>2, <1>3, GivenSame
<1>5. QED
  BY <1>2, <1>4 DEF WriteInv, NothingLeft

LEMMA ContinueWrites ==
  ASSUME WriteInv, NEW s \in Sockets, Socket_continueWrite(s)
  PROVE  WriteInv'
<1>t. WriteTyped /\ OnePending
  BY DEF WriteInv
<1>1. PICK i : i = SocketBuffer_getWrite(s)
  OBVIOUS
<1>2. PICK pw : pw = writes[i]
  OBVIOUS
<1>3. PICK rest : rest = RestOf(pw)
  OBVIOUS
<1>4. /\ s \in write_pending
      /\ \/ \E n \in 0..Len(rest) :
              /\ output' = [output EXCEPT ![s] = @ \o SubSeq(rest, 1, n)]
              /\ IF pw.bytes + n = Total(pw.lens)
                 THEN SocketBuffer_writeComplete(s) /\ write_pending' = write_pending \ {s}
                 ELSE /\ writes' = [writes EXCEPT ![i].bytes = @ + n]
                      /\ UNCHANGED write_pending
              /\ UNCHANGED broken
         \/ /\ SocketBuffer_writeComplete(s) /\ write_pending' = write_pending \ {s}
            /\ broken' = broken \cup {s}
            /\ UNCHANGED output
      /\ UNCHANGED <<traffic, open, begun, puts>>
  BY <1>1, <1>2, <1>3 DEF Socket_continueWrite
<1>5. i \in DOMAIN writes /\ pw.socket = s /\ pw \in Pending
  BY <1>t, <1>1, <1>2, <1>4, PendingOf DEF WriteTyped
<1>6. PICK packet \in Nat, lens \in Seq(Nat), bytes \in Nat :
        /\ pw.packet = packet /\ pw.lens = lens /\ pw.bytes = bytes
        /\ pw = [socket |-> s, packet |-> packet, lens |-> lens, bytes |-> bytes]
  BY <1>5 DEF Pending
<1>7. PICK total \in Nat : total = Total(lens)
  <2>1. Len(lens) \in 0..Len(lens) /\ Sums(lens) \in [0..Len(lens) -> Nat]
    BY SumsProperties
  <2>2. QED
    BY <2>1 DEF Total
<1>8. bytes < total /\ output[s] \o Bytes(packet, bytes, total) = Given(s)
  BY <1>2, <1>5, <1>6, <1>7 DEF WriteInv, PendingRest
<1>9. PICK e \in Nat : bytes <= e /\ e <= total /\ rest = Bytes(packet, bytes, e)
  BY <1>3, <1>6, <1>7, <1>8, RestOfPacket
<1>10. output[s] \in Seq(Byte) /\ s \in open
  BY <1>t, <1>4 DEF WriteTyped
<1>11. /\ \A q : Given(q)' = Given(q)
       /\ \A q \in Sockets : begun'[q] = begun[q]
  BY <1>4, GivenSame
<1>12. Bytes(packet, bytes, total) \in Seq(Byte)
  BY <1>8, BytesType
<1>13. CASE /\ SocketBuffer_writeComplete(s) /\ write_pending' = write_pending \ {s}
            /\ broken' = broken \cup {s}
            /\ UNCHANGED output
  <2>1. /\ writes' \in Seq(Pending) /\ OnePending'
        /\ \A j \in DOMAIN writes' :
             \E k \in DOMAIN writes : writes'[j] = writes[k] /\ writes[k].socket # s
    BY <1>4, <1>13, WriteDone
  <2>2. WriteTyped' /\ NewUnwritten'
    BY <1>4, <1>13, <2>1 DEF WriteInv, WriteTyped, NewUnwritten
  <2>3. PendingRest'
    <3>1. ASSUME NEW j \in DOMAIN writes'
          PROVE  (/\ writes[j].bytes < Total(writes[j].lens)
                  /\ output[writes[j].socket]
                       \o Bytes(writes[j].packet, writes[j].bytes, Total(writes[j].lens))
                     = Given(writes[j].socket))'
      <4>1. PICK k \in DOMAIN writes : writes'[j] = writes[k] /\ writes[k].socket # s
        BY <2>1
      <4>2. PICK q : q = writes[k].socket
        OBVIOUS
      <4>3. output'[q] = output[q] /\ begun'[q] = begun[q] /\ q # s
        BY <1>4, <1>13, <4>1, <4>2
      <4>4. QED
        BY <4>1, <4>2, <4>3, OthersRest
    <3>2. QED
      BY <3>1 DEF PendingRest
  <2>4. NothingLeft'
    <3>1. \A q \in (open' \ write_pending') \ {s} :
            /\ \E more \in Seq(Byte) : output'[q] \o more = Given(q)'
            /\ q \notin broken' => output'[q] = Given(q)'
      BY <1>4, <1>11, <1>13, OthersDone
    <3>2. output'[s] \o Bytes(packet, bytes, total) = Given(s)' /\ s \in broken'
      BY <1>8, <1>11, <1>13
    <3>3. QED
      BY <1>12, <3>1, <3>2 DEF NothingLeft
  <2>5. QED
    BY <2>1, <2>2, <2>3, <2>4 DEF WriteInv
<1>14. ASSUME NEW n \in 0..Len(rest),
              /\ output' = [output EXCEPT ![s] = @ \o SubSeq(rest, 1, n)]
              /\ IF pw.bytes + n = Total(pw.lens)
                 THEN SocketBuffer_writeComplete(s) /\ write_pending' = write_pending \ {s}
                 ELSE /\ writes' = [writes EXCEPT ![i].bytes = @ + n]
                      /\ UNCHANGED write_pending
              /\ UNCHANGED broken
       PROVE  WriteInv'
  <2>1. n \in Nat /\ n <= e - bytes
    <3>1. Len(rest) = e - bytes
      BY <1>9, BytesType
    <3>2. QED
      BY <1>9, <3>1
  <2>2. PICK b \in Nat : b = bytes + n /\ bytes <= b /\ b <= total
    BY <1>9, <2>1
  <2>3. SubSeq(rest, 1, n) = Bytes(packet, bytes, b)
    <3>1. n \in 0..(e - bytes)
      BY <1>9, <2>1
    <3>2. QED
      BY <1>9, <2>2, <3>1, FirstBytes
  <2>4. /\ Bytes(packet, bytes, b) \in Seq(Byte) /\ Bytes(packet, b, total) \in Seq(Byte)
        /\ Bytes(packet, bytes, b) \o Bytes(packet, b, total) = Bytes(packet, bytes, total)
    <3>1. bytes <= b /\ b <= total
      BY <2>2
    <3>2. Bytes(packet, bytes, b) \o Bytes(packet, b, total) = Bytes(packet, bytes, total)
      BY <3>1, BytesJoined, ZenonT(60)
    <3>3. QED
      BY <3>1, <3>2, BytesType
  <2>5. /\ output'[s] = output[s] \o Bytes(packet, bytes, b)
        /\ output' \in [Sockets -> Seq(Byte)]
        /\ \A q \in Sockets \ {s} : output'[q] = output[q]
    <3>1. output[s] \o Bytes(packet, bytes, b) \in Seq(Byte)
      BY <1>10, <2>4
    <3>2. QED
      BY <1>14, <1>t, <2>3, <3>1 DEF WriteTyped
  <2>6. output'[s] \o Bytes(packet, b, total) = Given(s)'
    <3>1. (output[s] \o Bytes(packet, bytes, b)) \o Bytes(packet, b, total)
            = output[s] \o (Bytes(packet, bytes, b) \o Bytes(packet, b, total))
      <4>1. \A x, y, z \in Seq(Byte) : (x \o y) \o z = x \o (y \o z)
        BY ConcatAssociative, SMTT(60)
      <4>2. QED
        BY <1>10, <2>4, <4>1, Zenon
    <3>2. QED
      BY <1>8, <1>11, <2>4, <2>5, <3>1
  <2>7. NewUnwritten'
    BY <1>4, <1>10, <2>5 DEF WriteInv, NewUnwritten
  <2>8. CASE b = total
    <3>1. SocketBuffer_writeComplete(s) /\ write_pending' = write_pending \ {s}
      BY <1>6, <1>7, <1>14, <2>2, <2>8
    <3>2. /\ writes' \in Seq(Pending) /\ OnePending'
          /\ \A j \in DOMAIN writes' :
               \E k \in DOMAIN writes : writes'[j] = writes[k] /\ writes[k].socket # s
      BY <1>4, <3>1, WriteDone
    <3>3. WriteTyped'
      BY <1>4, <2>5, <3>1, <3>2, <1>t DEF WriteTyped
    <3>4. PendingRest'
      <4>1. ASSUME NEW j \in DOMAIN writes'
            PROVE  (/\ writes[j].bytes < Total(writes[j].lens)
                    /\ output[writes[j].socket]
                         \o Bytes(writes[j].packet, writes[j].bytes, Total(writes[j].lens))
                       = Given(writes[j].socket))'
        <5>1. PICK k \in DOMAIN writes : writes'[j] = writes[k] /\ writes[k].socket # s
          BY <3>2
        <5>2. PICK q : q = writes[k].socket
          OBVIOUS
        <5>3. q \in Sockets
          BY <1>t, <5>2 DEF WriteTyped, OnePending
        <5>4. output'[q] = output[q] /\ begun'[q] = begun[q] /\ q # s
          BY <1>11, <2>5, <5>1, <5>2, <5>3
        <5>5. QED
          BY <5>1, <5>2, <5>4, OthersRest
      <4>2. QED
        BY <4>1 DEF PendingRest
    <3>5. NothingLeft'
      <4>1. \A q \in (open' \ write_pending') \ {s} :
              /\ \E more \in Seq(Byte) : output'[q] \o more = Given(q)'
              /\ q \notin broken' => output'[q] = Given(q)'
        <5>1. /\ open' \ {s} = open \ {s} /\ broken' \ {s} = broken \ {s}
              /\ write_pending' \ {s} = write_pending \ {s}
          BY <1>4, <1>14, <3>1
        <5>2. QED
          BY <1>11, <2>5, <5>1, OthersDone
      <4>2. Bytes(packet, b, total) = <<>>
        BY <2>8, NoBytes
      <4>3. output'[s] \in Seq(Byte)
        BY <2>5
      <4>4. output'[s] \o <<>> = output'[s] /\ <<>> \in Seq(Byte)
        BY <4>3, ConcatEmptySeq
      <4>5. output'[s] \o <<>> = Given(s)' /\ output'[s] = Given(s)'
        BY <2>6, <4>2, <4>4
      <4>6. QED
        BY <4>1, <4>4, <4>5 DEF NothingLeft
    <3>6. QED
      BY <2>7, <3>2, <3>3, <3>4, <3>5 DEF WriteInv
  <2>9. CASE b # total
    <3>1. writes' = [writes EXCEPT ![i].bytes = @ + n] /\ UNCHANGED write_pending
      BY <1>6, <1>7, <1>14, <2>2, <2>9
    <3> DEFINE w == [socket |-> s, packet |-> packet, lens |-> lens, bytes |-> b]
    <3>2. w \in Pending /\ w.socket = s /\ w.packet = packet /\ w.lens = lens /\ w.bytes = b
      BY DEF Pending
    <3>3. [pw EXCEPT !.bytes = @ + n] = w
      BY <1>6, <2>2, SMTT(60)
    <3> HIDE DEF w
    <3>4. writes' = [writes EXCEPT ![i] = w]
      BY <1>2, <3>1, <3>3
    <3>5. /\ writes' \in Seq(Pending) /\ DOMAIN writes' = DOMAIN writes
          /\ writes'[i] = w
          /\ \A j \in DOMAIN writes \ {i} : writes'[j] = writes[j]
      BY <1>t, <1>5, <3>2, <3>4 DEF WriteTyped
    <3>6. WriteTyped'
      BY <1>4, <2>5, <3>1, <3>5, <1>t DEF WriteTyped
    <3>7. \A j \in DOMAIN writes : writes'[j].socket = writes[j].socket
      BY <1>2, <1>5, <3>2, <3>5
    <3>8. OnePending'
      BY <1>t, <3>1, <3>5, <3>7 DEF OnePending
    <3>9. PendingRest'
      <4>1. ASSUME NEW j \in DOMAIN writes'
            PROVE  (/\ writes[j].bytes < Total(writes[j].lens)
                    /\ output[writes[j].socket]
                         \o Bytes(writes[j].packet, writes[j].bytes, Total(writes[j].lens))
                       = Given(writes[j].socket))'
        <5>1. CASE j = i
          <6>1. writes'[j].socket = s /\ writes'[j].packet = packet
                /\ writes'[j].lens = lens /\ writes'[j].bytes = b
            BY <3>2, <3>5, <5>1
          <6>2. Given(writes[j].socket)' = Given(s)'
            BY <6>1
          <6>3. b < total
            BY <2>2, <2>9
          <6>4. QED
            BY <1>7, <2>6, <6>1, <6>2, <6>3
        <5>2. CASE j # i
          <6>1. j \in DOMAIN writes /\ writes'[j] = writes[j]
            BY <3>5, <5>2
          <6>2. PICK q : q = writes[j].socket
            OBVIOUS
          <6>3. q \in Sockets /\ q # s
            BY <1>t, <1>2, <1>5, <5>2, <6>1, <6>2 DEF WriteTyped, OnePending
          <6>4. output'[q] = output[q] /\ begun'[q] = begun[q]
            BY <1>11, <2>5, <6>3
          <6>5. QED
            BY <6>1, <6>2, <6>3, <6>4, OthersRest
        <5>3. QED
          BY <5>1, <5>2
      <4>2. QED
        BY <4>1 DEF PendingRest
    <3>10. NothingLeft'
      <4>1. \A q \in (open' \ write_pending') \ {s} :
              /\ \E more \in Seq(Byte) : output'[q] \o more = Given(q)'
              /\ q \notin broken' => output'[q] = Given(q)'
        BY <1>4, <1>11, <1>14, <2>5, <3>1, OthersDone
      <4>2. s \in write_pending'
        BY <1>4, <3>1
      <4>3. QED
        BY <4>1, <4>2 DEF NothingLeft
    <3>11. QED
      BY <2>7, <3>6, <3>8, <3>9, <3>10 DEF WriteInv
  <2>10. QED
    BY <2>8, <2>9
<1>15. QED
  BY <1>4, <1>13, <1>14

LEMMA NewConnectionWrites ==
  ASSUME WriteInv, NEW s \in Sockets, Socket_new(s)
  PROVE  WriteInv'
<1>t. WriteTyped
  BY DEF WriteInv
<1>1. s \notin open /\ open' = open \cup {s} /\ UNCHANGED <<traffic, broken, writing>>
  BY DEF Socket_new
<1>2. UNCHANGED <<writes, write_pending, begun, puts, output>>
  BY <1>1 DEF writing
<1>3. \A q : Given(q)' = Given(q)
  BY <1>2, GivenSame
<1>4. begun[s] = <<>> /\ output[s] = <<>>
  BY <1>1 DEF WriteInv, NewUnwritten
<1>5. WriteTyped' /\ OnePending' /\ NewUnwritten'
  BY <1>1, <1>2 DEF WriteInv, WriteTyped, OnePending, NewUnwritten
<1>6. PendingRest'
  BY <1>2, <1>3 DEF WriteInv, PendingRest
<1>7. NothingLeft'
  <2>1. Given(s)' = <<>> /\ output'[s] = <<>>
    BY <1>2, <1>3, <1>4, NothingGiven
  <2>2. <<>> \o <<>> = <<>> /\ <<>> \in Seq(Byte)
    BY ConcatEmptySeq
  <2>3. \E rest \in Seq(Byte) : output'[s] \o rest = Given(s)'
    BY <2>1, <2>2
  <2>4. \A q \in open \ write_pending :
          /\ \E rest \in Seq(Byte) : output'[q] \o rest = Given(q)'
          /\ q \notin broken' => output'[q] = Given(q)'
    BY <1>1, <1>2, <1>3 DEF WriteInv, NothingLeft
  <2>5. QED
    BY <1>1, <1>2, <2>1, <2>3, <2>4 DEF NothingLeft
<1>8. QED
  BY <1>5, <1>6, <1>7 DEF WriteInv

LEMMA CloseWrites ==
  ASSUME WriteInv, NEW s \in Sockets, Socket_close(s), "pendingClose" \notin Faults
  PROVE  WriteInv'
<1>t. WriteTyped /\ OnePending
  BY DEF WriteInv
<1>1. /\ s \notin write_pending /\ s \in open
      /\ open' = open \ {s} /\ broken' = broken \ {s} /\ write_pending' = write_pending \ {s}
      /\ begun' = [begun EXCEPT ![s] = <<>>] /\ output' = [output EXCEPT ![s] = <<>>]
      /\ UNCHANGED <<traffic, writes, puts>>
  BY DEF Socket_close
<1>2. /\ begun'[s] = <<>> /\ output'[s] = <<>>
      /\ \A q \in Sockets \ {s} : begun'[q] = begun[q] /\ output'[q] = output[q]
  BY <1>1, <1>t DEF WriteTyped
<1>3. WriteTyped'
  <2>1. begun' \in [Sockets -> Seq(Nat \X Nat)]
    BY <1>1, <1>t DEF WriteTyped
  <2>2. output' \in [Sockets -> Seq(Byte)]
    BY <1>1, <1>t DEF WriteTyped
  <2>3. QED
    BY <1>1, <1>t, <2>1, <2>2 DEF WriteTyped
<1>4. OnePending'
  BY <1>1, <1>t DEF OnePending
<1>5. NewUnwritten'
  BY <1>1, <1>2 DEF WriteInv, NewUnwritten
<1>6. PendingRest'
  <2>1. ASSUME NEW j \in DOMAIN writes'
        PROVE  (/\ writes[j].bytes < Total(writes[j].lens)
                /\ output[writes[j].socket]
                     \o Bytes(writes[j].packet, writes[j].bytes, Total(writes[j].lens))
                   = Given(writes[j].socket))'
    <3>1. j \in DOMAIN writes /\ writes'[j] = writes[j]
      BY <1>1, <2>1
    <3>2. PICK q : q = writes[j].socket
      OBVIOUS
    <3>3. q \in Sockets /\ q # s
      BY <1>1, <1>t, <3>1, <3>2 DEF WriteTyped, OnePending
    <3>4. output'[q] = output[q] /\ begun'[q] = begun[q]
      BY <1>2, <3>3
    <3>5. QED
      BY <3>1, <3>2, <3>3, <3>4, OthersRest
  <2>2. QED
    BY <2>1 DEF PendingRest
<1>7. NothingLeft'
  <2>1. /\ open' \ {s} = open \ {s} /\ broken' \ {s} = broken \ {s}
        /\ write_pending' \ {s} = write_pending \ {s}
    BY <1>1
  <2>2. \A q \in (open' \ write_pending') \ {s} :
          /\ \E rest \in Seq(Byte) : output'[q] \o rest = Given(q)'
          /\ q \notin broken' => output'[q] = Given(q)'
    BY <1>2, <2>1, OthersDone
  <2>3. s \notin open'
    BY <1>1
  <2>4. QED
    BY <2>2, <2>3 DEF NothingLeft
<1>8. QED
  BY <1>3, <1>4, <1>5, <1>6, <1>7 DEF WriteInv

LEMMA InitWrites ==
  ASSUME Init
  PROVE  WriteInv
<1>1. /\ open = {} /\ broken = {} /\ writes = <<>> /\ write_pending = {} /\ puts = 0
      /\ traffic \in Traffic
      /\ begun = [s \in Sockets |-> <<>>] /\ output = [s \in Sockets |-> <<>>]
  BY DEF Init
<1>2. DOMAIN writes = {} /\ writes \in Seq(Pending)
  BY <1>1
<1>3. begun \in [Sockets -> Seq(Nat \X Nat)] /\ output \in [Sockets -> Seq(Byte)]
  BY <1>1
<1>4. WriteTyped /\ OnePending
  BY <1>1, <1>2, <1>3 DEF WriteTyped, OnePending
<1>5. NewUnwritten /\ PendingRest /\ NothingLeft
  BY <1>1, <1>2 DEF NewUnwritten, PendingRest, NothingLeft
<1>6. QED
  BY <1>4, <1>5 DEF WriteInv

LEMMA NextWrites ==
  ASSUME WriteInv, [Next]_vars, "pendingClose" \notin Faults
  PROVE  WriteInv'
<1>1. CASE UNCHANGED vars
  <2>1. UNCHANGED <<traffic, open, writing>> /\ broken \subseteq broken'
    BY <1>1 DEF vars
  <2>2. QED
    BY <2>1, WriteStutters
<1>2. ASSUME NEW s \in Sockets, ReadPacket(s) PROVE WriteInv'
  <2>1. UNCHANGED <<traffic, open, writing>> /\ broken \subseteq broken'
    BY <1>2 DEF ReadPacket
  <2>2. QED
    BY <2>1, WriteStutters
<1>3. QED
  BY <1>1, <1>2, PutDatasWrites, ContinueWrites, NewConnectionWrites, CloseWrites DEF Next

\* The bytes that a connection takes are those of the packets given to it, each once and in
\* order, however the kernel divides them and whatever else is written, closed and opened
\* meanwhile (Socket_putdatas, Socket_continueWrite), as long as no connection is closed while
\* a packet waits: Socket_close leaves that packet in writes.
THEOREM WritesWholeCorrect == "pendingClose" \notin Faults => (Spec => []WritesWhole)
<1>1. SUFFICES ASSUME "pendingClose" \notin Faults PROVE Spec => []WritesWhole
  OBVIOUS
<1>2. Init => WriteInv
  BY InitWrites
<1>3. WriteInv /\ [Next]_vars => WriteInv'
  BY <1>1, NextWrites
<1>4. WriteInv => WritesWhole
  BY WriteInvWhole
<1>5. QED
  BY <1>2, <1>3, <1>4, PTL DEF Spec

LEMMA Division ==
  ASSUME NEW b \in Nat \ {0, 1}, NEW n \in Nat
  PROVE  /\ n % b \in Nat /\ n % b < b
         /\ n \div b \in Nat
         /\ n = (b * (n \div b)) + (n % b)
         /\ n >= b => n \div b < n
<1>0. b \in Nat /\ b > 1
  OBVIOUS
<1>1. n % b \in Nat /\ n % b < b
  BY <1>0
<1>2. n \div b \in Nat
  BY <1>0
<1>3. n = (b * (n \div b)) + (n % b)
  BY <1>0
<1>4. ASSUME n >= b PROVE n \div b < n
  <2>1. PICK q \in Nat, r \in Nat : q = n \div b /\ r = n % b /\ n = (b * q) + r
    BY <1>1, <1>2, <1>3
  <2>2. PICK c \in Nat : b = c + 2
    <3>1. b - 2 \in Nat /\ b = (b - 2) + 2
      BY <1>0
    <3>2. QED
      BY <3>1
  <2>3. b * q = (c * q) + (2 * q)
    BY <2>1, <2>2
  <2>4. c * q \in Nat
    BY <2>1, <2>2
  <2>5. QED
    BY <1>0, <1>1, <1>4, <2>1, <2>3, <2>4
<1>5. QED
  BY <1>1, <1>2, <1>3, <1>4

\* the digits of the numbers up to m
Digits(b, m) ==
  {g \in [0..m -> Seq(Nat)] :
     \A n \in 0..m : g[n] = IF n < b THEN <<n>> ELSE <<(n % b) + b>> \o g[n \div b]}

LEMMA DigitsUnique ==
  ASSUME NEW b \in Nat \ {0, 1}, NEW m \in Nat, NEW k \in Nat,
         NEW g \in Digits(b, m), NEW h \in Digits(b, k)
  PROVE  \A n \in Nat : n <= m /\ n <= k => g[n] = h[n]
<1> DEFINE T == {n \in Nat : n <= m /\ n <= k /\ g[n] # h[n]}
<1>1. SUFFICES ASSUME T # {} PROVE FALSE
  OBVIOUS
<1>2. PICK n \in T : \A y \in T : n <= y
  BY <1>1, LeastNumber
<1>3. n \in Nat /\ n <= m /\ n <= k /\ g[n] # h[n]
  BY <1>2
<1>4. /\ g[n] = IF n < b THEN <<n>> ELSE <<(n % b) + b>> \o g[n \div b]
      /\ h[n] = IF n < b THEN <<n>> ELSE <<(n % b) + b>> \o h[n \div b]
  <2>1. n \in 0..m /\ n \in 0..k
    BY <1>3
  <2>2. QED
    BY <2>1 DEF Digits
<1>5. ~(n < b)
  BY <1>3, <1>4
<1>6. n \div b \in Nat /\ n \div b < n
  BY <1>3, <1>5, Division
<1>7. g[n \div b] = h[n \div b]
  <2>1. n \div b \notin T
    BY <1>2, <1>3, <1>6
  <2>2. QED
    BY <1>3, <1>6, <2>1
<1>8. QED
  BY <1>3, <1>4, <1>7

LEMMA DigitsExist ==
  ASSUME NEW b \in Nat \ {0, 1}
  PROVE  \A m \in Nat : Digits(b, m) # {}
<1> DEFINE T == {m \in Nat : Digits(b, m) # {}}
<1>1. 0 \in T
  <2> DEFINE g == [n \in 0..0 |-> <<0>>]
  <2>1. g \in Digits(b, 0)
    <3>1. <<0>> \in Seq(Nat)
      OBVIOUS
    <3>2. \A n \in 0..0 : n = 0 /\ n < b
      OBVIOUS
    <3>3. QED
      BY <3>1, <3>2 DEF Digits
  <2>2. QED
    BY <2>1
<1>2. ASSUME NEW m \in Nat, m \in T PROVE m + 1 \in T
  <2>1. PICK g : g \in Digits(b, m)
    BY <1>2
  <2> DEFINE last == IF m + 1 < b THEN <<m + 1>>
                     ELSE <<((m + 1) % b) + b>> \o g[(m + 1) \div b]
             h == [n \in 0..(m + 1) |-> IF n = m + 1 THEN last ELSE g[n]]
  <2>2. last \in Seq(Nat)
    <3>1. ASSUME ~(m + 1 < b) PROVE g[(m + 1) \div b] \in Seq(Nat) /\ <<((m + 1) % b) + b>> \in Seq(Nat)
      <4>1. m + 1 \in Nat
        OBVIOUS
      <4>2. (m + 1) \div b \in 0..m /\ (m + 1) % b \in Nat
        BY <3>1, <4>1, Division
      <4>3. QED
        BY <2>1, <4>2 DEF Digits
    <3>2. CASE m + 1 < b
      BY <3>2
    <3>3. CASE ~(m + 1 < b)
      BY <3>1, <3>3
    <3>4. QED
      BY <3>2, <3>3
  <2>3. \A n \in 0..m : g[n] \in Seq(Nat)
    BY <2>1 DEF Digits
  <2>4. h \in [0..(m + 1) -> Seq(Nat)]
    <3> HIDE DEF last
    <3>1. QED
      BY <2>2, <2>3
  <2>5. ASSUME NEW n \in 0..(m + 1)
        PROVE  h[n] = IF n < b THEN <<n>> ELSE <<(n % b) + b>> \o h[n \div b]
    <3>1. CASE n < b
      <4>1. CASE n = m + 1
        BY <3>1, <4>1
      <4>2. CASE n # m + 1
        <5>1. n \in 0..m
          BY <4>2
        <5>2. g[n] = <<n>>
          BY <2>1, <3>1, <5>1 DEF Digits
        <5>3. QED
          BY <3>1, <4>2, <5>2
      <4>3. QED
        BY <4>1, <4>2
    <3>2. CASE ~(n < b)
      <4>1. n \in Nat /\ n \div b \in Nat /\ n \div b < n
        BY <3>2, Division
      <4>2. h[n \div b] = g[n \div b]
        BY <4>1
      <4>3. CASE n = m + 1
        BY <3>2, <4>2, <4>3
      <4>4. CASE n # m + 1
        <5>1. n \in 0..m
          BY <4>4
        <5>2. g[n] = <<(n % b) + b>> \o g[n \div b]
          BY <2>1, <3>2, <5>1 DEF Digits
        <5>3. QED
          BY <3>2, <4>2, <4>4, <5>2
      <4>5. QED
        BY <4>3, <4>4
    <3>3. QED
      BY <3>1, <3>2
  <2>6. h \in Digits(b, m + 1)
    <3> HIDE DEF h
    <3>1. QED
      BY <2>4, <2>5 DEF Digits
  <2>7. QED
    BY <2>6
<1>3. Nat \subseteq T
  <2> HIDE DEF T
  <2>1. QED
    BY <1>1, <1>2, Induction
<1>4. QED
  BY <1>3

\* the recursion of MQTTPacket_encode has a solution, since its argument falls
LEMMA EncodeExists ==
  ASSUME NEW b \in Nat \ {0, 1}
  PROVE  \E f \in [Nat -> Seq(Nat)] :
           f = [n \in Nat |-> IF n < b THEN <<n>> ELSE <<(n % b) + b>> \o f[n \div b]]
<1> DEFINE G(n) == CHOOSE g : g \in Digits(b, n)
           f == [n \in Nat |-> G(n)[n]]
<1>1. \A n \in Nat : G(n) \in Digits(b, n)
  BY DigitsExist
<1> HIDE DEF G
<1>2. f \in [Nat -> Seq(Nat)]
  <2>1. SUFFICES ASSUME NEW n \in Nat PROVE G(n)[n] \in Seq(Nat)
    OBVIOUS
  <2>2. G(n) \in [0..n -> Seq(Nat)] /\ n \in 0..n
    BY <1>1 DEF Digits
  <2>3. QED
    BY <2>2
<1>3. ASSUME NEW n \in Nat
      PROVE  f[n] = IF n < b THEN <<n>> ELSE <<(n % b) + b>> \o f[n \div b]
  <2>1. G(n)[n] = IF n < b THEN <<n>> ELSE <<(n % b) + b>> \o G(n)[n \div b]
    <3>1. n \in 0..n /\ G(n) \in Digits(b, n)
      BY <1>1
    <3>2. QED
      BY <3>1 DEF Digits
  <2>2. ASSUME ~(n < b) PROVE G(n)[n \div b] = f[n \div b]
    <3>1. PICK q \in Nat : q = n \div b /\ q <= n /\ q <= q
      BY <2>2, Division
    <3>2. G(n) \in Digits(b, n) /\ G(q) \in Digits(b, q)
      BY <1>1, <3>1
    <3>3. G(n)[q] = G(q)[q]
      BY <3>1, <3>2, DigitsUnique
    <3>4. QED
      BY <3>1, <3>3
  <2>3. QED
    BY <2>1, <2>2
<1>4. f = [n \in Nat |-> IF n < b THEN <<n>> ELSE <<(n % b) + b>> \o f[n \div b]]
  <2> DEFINE h == [n \in Nat |-> IF n < b THEN <<n>> ELSE <<(n % b) + b>> \o f[n \div b]]
  <2>1. f = [n \in Nat |-> f[n]] /\ h = [n \in Nat |-> h[n]]
    OBVIOUS
  <2>2. \A n \in Nat : h[n] = f[n]
    BY <1>3
  <2> HIDE DEF f, h
  <2>3. f = h
    BY <2>1, <2>2
  <2>4. QED
    BY <2>3 DEF h
<1>5. QED
  BY <1>2, <1>4

\* MQTTPacket_encode: the lowest digit comes first, marked when others follow
LEMMA EncodeProperties ==
  ASSUME traffic.base \in Nat \ {0, 1}
  PROVE  /\ \A n \in Nat : MQTTPacket_encode(n) \in Seq(Nat)
         /\ \A n \in Nat : MQTTPacket_encode(n) =
              IF n < traffic.base THEN <<n>>
              ELSE <<(n % traffic.base) + traffic.base>> \o MQTTPacket_encode(n \div traffic.base)
<1> DEFINE e == CHOOSE f : f = [n \in Nat |->
                  IF n < traffic.base THEN <<n>>
                  ELSE <<(n % traffic.base) + traffic.base>> \o f[n \div traffic.base]]
<1>1. \A n : MQTTPacket_encode(n) = e[n]
  BY DEF MQTTPacket_encode
<1>2. \E f \in [Nat -> Seq(Nat)] :
        f = [n \in Nat |-> IF n < traffic.base THEN <<n>>
                           ELSE <<(n % traffic.base) + traffic.base>> \o f[n \div traffic.base]]
  BY EncodeExists
<1>3. \E f : f \in [Nat -> Seq(Nat)] /\
        f = [n \in Nat |-> IF n < traffic.base THEN <<n>>
                           ELSE <<(n % traffic.base) + traffic.base>> \o f[n \div traffic.base]]
  BY <1>2
<1>4. e = [n \in Nat |-> IF n < traffic.base THEN <<n>>
                         ELSE <<(n % traffic.base) + traffic.base>> \o e[n \div traffic.base]]
  BY <1>3, Zenon
<1>5. \A n \in Nat : e[n] = IF n < traffic.base THEN <<n>>
                         ELSE <<(n % traffic.base) + traffic.base>> \o e[n \div traffic.base]
  BY <1>4
<1> HIDE DEF e
<1>6. \A n \in Nat : e[n] \in Seq(Nat)
  <2> DEFINE T == {n \in Nat : e[n] \notin Seq(Nat)}
  <2>1. SUFFICES ASSUME T # {} PROVE FALSE
    OBVIOUS
  <2>2. PICK n \in T : \A y \in T : n <= y
    BY <2>1, LeastNumber
  <2>3. n \in Nat /\ e[n] \notin Seq(Nat)
    BY <2>2
  <2>4. CASE n < traffic.base
    <3>1. e[n] = <<n>>
      BY <1>5, <2>3, <2>4
    <3>2. QED
      BY <2>3, <3>1
  <2>5. CASE ~(n < traffic.base)
    <3>1. n % traffic.base \in Nat /\ n \div traffic.base \in Nat /\ n \div traffic.base < n
      BY <2>3, <2>5, Division
    <3>2. e[n] = <<(n % traffic.base) + traffic.base>> \o e[n \div traffic.base]
      BY <1>5, <2>3, <2>5
    <3>3. e[n \div traffic.base] \in Seq(Nat)
      BY <2>2, <3>1
    <3>4. <<(n % traffic.base) + traffic.base>> \in Seq(Nat)
      BY <3>1
    <3>5. QED
      BY <2>3, <3>2, <3>3, <3>4
  <2>6. QED
    BY <2>4, <2>5
<1>7. QED
  BY <1>1, <1>5, <1>6

LEMMA TripleConcat ==
  ASSUME NEW S, NEW x \in Seq(S), NEW y \in Seq(S), NEW z \in Seq(S)
  PROVE  /\ x \o y \in Seq(S)
         /\ (x \o y) \o z = x \o (y \o z)
BY ConcatAssociative

\* one more part comes first
LEMMA FlattenCons ==
  ASSUME NEW S, NEW s \in Seq(S), NEW ss \in Seq(Seq(S))
  PROVE  FlattenSeq(<<s>> \o ss) = s \o FlattenSeq(ss)
<1> DEFINE T == {n \in Nat : \A l \in Seq(Seq(S)) :
                   Len(l) = n => FlattenSeq(<<s>> \o l) = s \o FlattenSeq(l)}
<1>1. 0 \in T
  <2>1. SUFFICES ASSUME NEW l \in Seq(Seq(S)), Len(l) = 0
                 PROVE  FlattenSeq(<<s>> \o l) = s \o FlattenSeq(l)
    BY Zenon
  <2>2. l = <<>> /\ <<s>> \o l = Append(<<>>, s) /\ <<>> \in Seq(Seq(S))
    BY <2>1
  <2>3. FlattenSeq(Append(<<>>, s)) = FlattenSeq(<<>>) \o s
    BY <2>2, FlattenAppend
  <2>4. <<>> \o s = s /\ s \o <<>> = s
    BY ConcatEmptySeq
  <2>5. QED
    BY <2>2, <2>3, <2>4, FlattenEmpty
<1>2. ASSUME NEW n \in Nat, n \in T PROVE n + 1 \in T
  <2>0. n + 1 \in Nat
    OBVIOUS
  <2>1. SUFFICES ASSUME NEW l \in Seq(Seq(S)), Len(l) = n + 1
                 PROVE  FlattenSeq(<<s>> \o l) = s \o FlattenSeq(l)
    BY <2>0, Zenon
  <2>2. PICK f \in Seq(Seq(S)), x \in Seq(S) : l = Append(f, x) /\ Len(f) = n
    <3>1. /\ SubSeq(l, 1, n) \in Seq(Seq(S)) /\ Len(SubSeq(l, 1, n)) = n
          /\ \A i \in 1..n : SubSeq(l, 1, n)[i] = l[i]
          /\ l[n + 1] \in Seq(S)
      BY <2>1
    <3>2. l = Append(SubSeq(l, 1, n), l[n + 1])
      BY <2>1, <3>1
    <3>3. QED
      BY <3>1, <3>2
  <2>3. <<s>> \o f \in Seq(Seq(S)) /\ <<s>> \o Append(f, x) = Append(<<s>> \o f, x)
    <3>1. <<s>> \in Seq(Seq(S)) /\ <<x>> \in Seq(Seq(S))
      OBVIOUS
    <3>2. Append(f, x) = f \o <<x>> /\ Append(<<s>> \o f, x) = (<<s>> \o f) \o <<x>>
      BY <2>2, <3>1
    <3>3. <<s>> \o f \in Seq(Seq(S)) /\ (<<s>> \o f) \o <<x>> = <<s>> \o (f \o <<x>>)
      BY <2>2, <3>1, ConcatAssociative
    <3>4. QED
      BY <3>2, <3>3
  <2>4. FlattenSeq(<<s>> \o l) = FlattenSeq(<<s>> \o f) \o x
    BY <2>2, <2>3, FlattenAppend
  <2>5. FlattenSeq(<<s>> \o f) = s \o FlattenSeq(f)
    BY <1>2, <2>2
  <2>6. FlattenSeq(l) = FlattenSeq(f) \o x
    BY <2>2, FlattenAppend
  <2>7. FlattenSeq(f) \in Seq(S)
    BY <2>2, FlattenType
  <2>8. (s \o FlattenSeq(f)) \o x = s \o (FlattenSeq(f) \o x)
    BY <2>2, <2>7, TripleConcat, SMTT(60)
  <2>9. QED
    BY <2>4, <2>5, <2>6, <2>8
<1>3. Nat \subseteq T
  <2> HIDE DEF T
  <2>1. QED
    BY <1>1, <1>2, Induction
<1>4. Len(ss) \in T
  <2> HIDE DEF T
  <2>1. QED
    BY <1>3
<1>5. QED
  BY <1>4

-----------------------------------------------------------------------------
(* The bytes of the peer *)

Packet == [header : Nat, length : Nat]
Parsed == [header : Nat, data : Seq(Nat)]
PacketsOf(p) == [k \in DOMAIN p |->
                   <<p[k].header>> \o MQTTPacket_encode(Len(p[k].data)) \o p[k].data]
BaseTyped == traffic.base \in Nat \ {0, 1}

LEMMA DataType ==
  ASSUME NEW p \in Packet
  PROVE  Data(p) \in Seq(Nat) /\ Len(Data(p)) = p.length
<1>1. p.length \in Nat /\ p.header \in Nat
  BY DEF Packet
<1>2. \A i \in 1..p.length : p.header + i \in Nat
  BY <1>1
<1>3. QED
  BY <1>1, <1>2 DEF Data

LEMMA EncodedType ==
  ASSUME BaseTyped, NEW p \in Packet
  PROVE  Encoded(p) \in Seq(Nat)
<1>1. p.length \in Nat /\ p.header \in Nat
  BY DEF Packet
<1>2. MQTTPacket_encode(p.length) \in Seq(Nat)
  BY <1>1, EncodeProperties DEF BaseTyped
<1>3. <<p.header>> \in Seq(Nat) /\ Data(p) \in Seq(Nat)
  BY <1>1, DataType
<1>4. QED
  BY <1>2, <1>3 DEF Encoded

LEMMA StreamProperties ==
  ASSUME BaseTyped, NEW ps \in Seq(Packet)
  PROVE  /\ Stream(ps) \in Seq(Nat)
         /\ Stream(<<>>) = <<>>
         /\ ps # <<>> => Tail(ps) \in Seq(Packet) /\ Stream(ps) = Encoded(Head(ps)) \o Stream(Tail(ps))
<1> DEFINE E(l) == [i \in DOMAIN l |-> Encoded(l[i])]
<1>1. ASSUME NEW l \in Seq(Packet)
      PROVE  E(l) \in Seq(Seq(Nat)) /\ Len(E(l)) = Len(l) /\ \A i \in 1..Len(l) : E(l)[i] = Encoded(l[i])
  <2>1. \A i \in 1..Len(l) : Encoded(l[i]) \in Seq(Nat)
    BY EncodedType
  <2>2. DOMAIN l = 1..Len(l) /\ Len(l) \in Nat
    OBVIOUS
  <2>3. QED
    BY <2>1, <2>2
<1>2. \A l : Stream(l) = FlattenSeq(E(l))
  BY DEF Stream
<1>3. E(<<>>) = <<>>
  OBVIOUS
<1> HIDE DEF E
<1>4. Stream(ps) \in Seq(Nat)
  BY <1>1, <1>2, FlattenType
<1>5. Stream(<<>>) = <<>>
  BY <1>2, <1>3, FlattenEmpty
<1>6. ASSUME ps # <<>>
      PROVE  Tail(ps) \in Seq(Packet) /\ Stream(ps) = Encoded(Head(ps)) \o Stream(Tail(ps))
  <2>1. /\ Tail(ps) \in Seq(Packet) /\ Len(Tail(ps)) = Len(ps) - 1 /\ Len(ps) \in Nat /\ Len(ps) >= 1
        /\ \A i \in 1..(Len(ps) - 1) : Tail(ps)[i] = ps[i + 1]
        /\ Head(ps) = ps[1] /\ Head(ps) \in Packet
    BY <1>6
  <2>2. PICK t \in Seq(Packet) : t = Tail(ps)
    BY <2>1
  <2>3. PICK x : x = Encoded(Head(ps)) /\ x \in Seq(Nat) /\ x = Encoded(ps[1])
    BY <2>1, EncodedType
  <2>4. E(t) \in Seq(Seq(Nat)) /\ Len(E(t)) = Len(ps) - 1
        /\ \A i \in 1..(Len(ps) - 1) : E(t)[i] = Encoded(ps[i + 1])
    <3>1. /\ E(t) \in Seq(Seq(Nat)) /\ Len(E(t)) = Len(t)
          /\ \A i \in 1..Len(t) : E(t)[i] = Encoded(t[i])
      BY <1>1, <2>2
    <3>2. Len(t) = Len(ps) - 1 /\ \A i \in 1..Len(t) : t[i] = ps[i + 1]
      BY <2>1, <2>2
    <3>3. QED
      BY <3>1, <3>2
  <2>5. E(ps) \in Seq(Seq(Nat)) /\ Len(E(ps)) = Len(ps)
        /\ \A i \in 1..Len(ps) : E(ps)[i] = Encoded(ps[i])
    BY <1>1
  <2>6. /\ <<x>> \o E(t) \in Seq(Seq(Nat)) /\ Len(<<x>> \o E(t)) = Len(ps)
        /\ \A i \in 1..Len(ps) : (<<x>> \o E(t))[i] = IF i = 1 THEN x ELSE E(t)[i - 1]
    <3>1. PICK y \in Seq(Seq(Nat)) : y = E(t) /\ Len(y) = Len(ps) - 1
      BY <2>4
    <3>2. x \in Seq(Nat) /\ Len(ps) \in Nat
      BY <2>1, <2>3
    <3>3. /\ <<x>> \o y \in Seq(Seq(Nat)) /\ Len(<<x>> \o y) = Len(ps)
          /\ \A i \in 1..Len(ps) : (<<x>> \o y)[i] = IF i = 1 THEN x ELSE y[i - 1]
      BY <3>1, <3>2
    <3>4. QED
      BY <3>1, <3>3
  <2>7. \A i \in 1..Len(ps) : (<<x>> \o E(t))[i] = E(ps)[i]
    <3>1. SUFFICES ASSUME NEW i \in 1..Len(ps) PROVE (<<x>> \o E(t))[i] = E(ps)[i]
      OBVIOUS
    <3>2. CASE i = 1
      BY <2>3, <2>5, <2>6, <3>2
    <3>3. CASE i # 1
      <4>1. i - 1 \in 1..(Len(ps) - 1) /\ (i - 1) + 1 = i
        BY <2>1, <3>3
      <4>2. E(t)[i - 1] = Encoded(ps[i])
        BY <2>4, <4>1
      <4>3. QED
        BY <2>5, <2>6, <3>3, <4>2
    <3>4. QED
      BY <3>2, <3>3
  <2>8. <<x>> \o E(t) = E(ps)
    <3>1. Len(<<x>> \o E(t)) = Len(E(ps)) /\ \A i \in 1..Len(<<x>> \o E(t)) : (<<x>> \o E(t))[i] = E(ps)[i]
      BY <2>5, <2>6, <2>7
    <3>2. QED
      BY <2>5, <2>6, <3>1, SeqEqual
  <2>9. FlattenSeq(<<x>> \o E(t)) = x \o FlattenSeq(E(t))
    BY <2>3, <2>4, FlattenCons
  <2>10. QED
    BY <1>2, <2>1, <2>2, <2>3, <2>8, <2>9
<1>7. QED
  BY <1>4, <1>5, <1>6

LEMMA StreamSame ==
  ASSUME traffic' = traffic
  PROVE  /\ \A n : MQTTPacket_encode(n)' = MQTTPacket_encode(n)
         /\ \A ps : Stream(ps)' = Stream(ps)
         /\ \A ps : PacketsOf(ps)' = PacketsOf(ps)
<1>1. \A n : MQTTPacket_encode(n)' = MQTTPacket_encode(n)
  BY DEF MQTTPacket_encode
<1>2. \A p : Encoded(p)' = Encoded(p)
  BY <1>1 DEF Encoded, Data
<1>3. \A ps : Stream(ps)' = Stream(ps)
  BY <1>2 DEF Stream
<1>4. \A ps : PacketsOf(ps)' = PacketsOf(ps)
  BY <1>1 DEF PacketsOf
<1>5. QED
  BY <1>1, <1>3, <1>4

-----------------------------------------------------------------------------
(* SocketBuffer's queues.  Kept is what the list has for a descriptor.      *)

Queue == [socket : Nat, index : Nat, fixed_header : Seq(Nat), data : Seq(Nat)]
Buffers == [def_queue : Queue, queues : Seq(Queue)]
OneQueue(b) ==
  \A i, j \in DOMAIN b.queues :
    b.queues[i].socket = b.queues[j].socket /\ b.queues[i].socket # 0 => i = j
Sound(b) == b \in Buffers /\ OneQueue(b)
Kept(b, t) == IF QueueOf(b, t) = 0 THEN DefQ ELSE b.queues[QueueOf(b, t)]
Descriptor == Nat \ {0}

LEMMA DefQType == DefQ \in Queue /\ DefQ.socket = 0 /\ DefQ.index = 0
                  /\ DefQ.fixed_header = <<>> /\ DefQ.data = <<>>
<1>1. <<>> \in Seq(Nat)
  OBVIOUS
<1>2. QED
  BY <1>1 DEF DefQ, Queue

LEMMA QueueOfProperties ==
  ASSUME NEW b \in Buffers, NEW t \in Nat
  PROVE  \/ QueueOf(b, t) = 0 /\ \A i \in DOMAIN b.queues : b.queues[i].socket # t
         \/ QueueOf(b, t) # 0 /\ QueueOf(b, t) \in DOMAIN b.queues /\ b.queues[QueueOf(b, t)].socket = t
<1> DEFINE I == {i \in 1..Len(b.queues) : b.queues[i].socket = t}
<1>1. b.queues \in Seq(Queue) /\ DOMAIN b.queues = 1..Len(b.queues) /\ Len(b.queues) \in Nat
  BY DEF Buffers
<1>2. QueueOf(b, t) = IF I # {} THEN Min(I) ELSE 0
  BY DEF QueueOf, SelectInSeq
<1>3. ASSUME I # {} PROVE Min(I) \in I
  <2>1. I \subseteq Nat
    BY <1>1
  <2> HIDE DEF I
  <2>2. QED
    BY <1>3, <2>1, MinProperties
<1>4. CASE I = {}
  BY <1>1, <1>2, <1>4
<1>5. CASE I # {}
  <2>1. QueueOf(b, t) \in I
    BY <1>2, <1>3, <1>5
  <2>2. QED
    BY <1>1, <2>1
<1>6. QED
  BY <1>4, <1>5

\* a descriptor has one queue, so what is found is what there is
LEMMA KeptIs ==
  ASSUME NEW b, Sound(b), NEW t \in Descriptor
  PROVE  /\ \A i \in DOMAIN b.queues : b.queues[i].socket = t => Kept(b, t) = b.queues[i] /\ QueueOf(b, t) = i
         /\ (\A i \in DOMAIN b.queues : b.queues[i].socket # t) => Kept(b, t) = DefQ /\ QueueOf(b, t) = 0
         /\ Kept(b, t) \in Queue
         /\ Kept(b, t) = DefQ \/ Kept(b, t).socket = t
         /\ QueueOf(b, t) = 0 <=> Kept(b, t) = DefQ
<1>1. t \in Nat /\ t # 0 /\ b \in Buffers
  BY DEF Sound, Descriptor
<1>2. b.queues \in Seq(Queue)
  BY <1>1 DEF Buffers
<1>3. CASE QueueOf(b, t) = 0
  <2>1. \A i \in DOMAIN b.queues : b.queues[i].socket # t
    BY <1>1, <1>3, QueueOfProperties
  <2>2. QED
    BY <1>3, <2>1, DefQType DEF Kept
<1>4. CASE QueueOf(b, t) # 0
  <2>1. PICK k \in DOMAIN b.queues : k = QueueOf(b, t) /\ b.queues[k].socket = t
    BY <1>1, <1>4, QueueOfProperties
  <2>2. Kept(b, t) = b.queues[k] /\ b.queues[k] \in Queue
    BY <1>2, <1>4, <2>1 DEF Kept
  <2>3. \A i \in DOMAIN b.queues : b.queues[i].socket = t => i = k
    BY <1>1, <2>1 DEF Sound, OneQueue
  <2>4. Kept(b, t) # DefQ
    BY <1>1, <2>1, <2>2, DefQType
  <2>5. QED
    BY <1>4, <2>1, <2>2, <2>3, <2>4
<1>5. QED
  BY <1>3, <1>4

\* the queues of the others are in one list what they are in the other
LEMMA KeptSame ==
  ASSUME NEW b, Sound(b), NEW b2, Sound(b2), NEW t \in Descriptor,
         \A i \in DOMAIN b.queues : b.queues[i].socket = t =>
           \E j \in DOMAIN b2.queues : b2.queues[j] = b.queues[i],
         \A j \in DOMAIN b2.queues : b2.queues[j].socket = t =>
           \E i \in DOMAIN b.queues : b.queues[i].socket = t
  PROVE  Kept(b2, t) = Kept(b, t)
<1>1. CASE \E i \in DOMAIN b.queues : b.queues[i].socket = t
  <2>1. PICK i \in DOMAIN b.queues : b.queues[i].socket = t
    BY <1>1
  <2>2. PICK j \in DOMAIN b2.queues : b2.queues[j] = b.queues[i]
    BY <2>1
  <2>3. Kept(b, t) = b.queues[i] /\ Kept(b2, t) = b2.queues[j]
    BY <2>1, <2>2, KeptIs
  <2>4. QED
    BY <2>2, <2>3
<1>2. CASE ~ \E i \in DOMAIN b.queues : b.queues[i].socket = t
  <2>1. \A j \in DOMAIN b2.queues : b2.queues[j].socket # t
    BY <1>2
  <2>2. Kept(b, t) = DefQ /\ Kept(b2, t) = DefQ
    BY <1>2, <2>1, KeptIs
  <2>3. QED
    BY <2>2
<1>3. QED
  BY <1>1, <1>2

LEMMA QueueReplaced ==
  ASSUME NEW b, Sound(b), NEW s \in Descriptor, NEW q \in Queue, q.socket = s,
         NEW i, i = QueueOf(b, s), i # 0,
         NEW b2 \in Buffers, b2.queues = [b.queues EXCEPT ![i] = q]
  PROVE  /\ Sound(b2)
         /\ Kept(b2, s) = q
         /\ \A t \in Descriptor \ {s} : Kept(b2, t) = Kept(b, t)
<1>1. b \in Buffers /\ b.queues \in Seq(Queue) /\ s \in Nat
  BY DEF Sound, Buffers, Descriptor
<1>2. i \in DOMAIN b.queues /\ b.queues[i].socket = s
  BY <1>1, QueueOfProperties
<1>3. b2 \in Buffers
  OBVIOUS
<1>4. /\ DOMAIN b2.queues = DOMAIN b.queues
      /\ \A k \in DOMAIN b.queues : b2.queues[k] = IF k = i THEN q ELSE b.queues[k]
      /\ \A k \in DOMAIN b.queues : b2.queues[k].socket = b.queues[k].socket
  BY <1>1, <1>2, <1>3
<1>5. Sound(b2)
  BY <1>3, <1>4 DEF Sound, OneQueue
<1>6. Kept(b2, s) = q
  <2>1. i \in DOMAIN b2.queues /\ b2.queues[i] = q /\ b2.queues[i].socket = s
    BY <1>2, <1>4
  <2>2. QED
    BY <1>5, <2>1, KeptIs
<1>7. ASSUME NEW t \in Descriptor \ {s} PROVE Kept(b2, t) = Kept(b, t)
  <2>1. \A k \in DOMAIN b.queues : b.queues[k].socket = t => k \in DOMAIN b2.queues /\ b2.queues[k] = b.queues[k]
    BY <1>2, <1>4
  <2>2. \A k \in DOMAIN b2.queues : b2.queues[k].socket = t => k \in DOMAIN b.queues /\ b.queues[k].socket = t
    BY <1>4
  <2>3. QED
    BY <1>5, <2>1, <2>2, KeptSame
<1>8. QED
  BY <1>3, <1>5, <1>6, <1>7

LEMMA QueueAdded ==
  ASSUME NEW b, Sound(b), NEW q \in Queue, q.socket = 0 \/ Kept(b, q.socket) = DefQ,
         NEW b2 \in Buffers, b2.queues = Append(b.queues, q)
  PROVE  /\ Sound(b2)
         /\ q.socket # 0 => Kept(b2, q.socket) = q
         /\ \A t \in Descriptor \ {q.socket} : Kept(b2, t) = Kept(b, t)
<1>1. b \in Buffers /\ b.queues \in Seq(Queue) /\ q.socket \in Nat
  BY DEF Sound, Buffers, Queue
<1>2. PICK n \in Nat : n = Len(b.queues) /\ DOMAIN b.queues = 1..n
  BY <1>1
<1>3. b2 \in Buffers /\ b2.queues = Append(b.queues, q)
  OBVIOUS
<1>4. /\ DOMAIN b2.queues = 1..(n + 1) /\ b2.queues[n + 1] = q
      /\ \A k \in 1..n : b2.queues[k] = b.queues[k]
  BY <1>1, <1>2, <1>3
<1>5. \A k \in 1..(n + 1) : k = n + 1 \/ k \in 1..n
  BY <1>2
<1>6. \A k \in 1..n : b.queues[k].socket = q.socket => q.socket = 0
  <2>1. SUFFICES ASSUME q.socket # 0 PROVE \A k \in 1..n : b.queues[k].socket # q.socket
    OBVIOUS
  <2>2. q.socket \in Descriptor
    BY <1>1, <2>1 DEF Descriptor
  <2>3. QueueOf(b, q.socket) = 0
    BY <2>1, <2>2, KeptIs
  <2>4. QED
    BY <1>1, <1>2, <2>3, QueueOfProperties
<1>7. Sound(b2)
  <2>1. ASSUME NEW i \in DOMAIN b2.queues, NEW j \in DOMAIN b2.queues,
               b2.queues[i].socket = b2.queues[j].socket, b2.queues[i].socket # 0
        PROVE  i = j
    <3>1. CASE i \in 1..n /\ j \in 1..n
      BY <1>2, <1>4, <2>1, <3>1 DEF Sound, OneQueue
    <3>2. CASE i = n + 1 /\ j \in 1..n
      BY <1>4, <1>6, <2>1, <3>2
    <3>3. CASE i \in 1..n /\ j = n + 1
      BY <1>4, <1>6, <2>1, <3>3
    <3>4. QED
      BY <1>4, <1>5, <3>1, <3>2, <3>3
  <2>2. QED
    BY <1>3, <2>1 DEF Sound, OneQueue
<1>8. ASSUME q.socket # 0 PROVE Kept(b2, q.socket) = q
  <2>1. q.socket \in Descriptor
    BY <1>1, <1>8 DEF Descriptor
  <2>2. n + 1 \in DOMAIN b2.queues /\ b2.queues[n + 1] = q
    BY <1>2, <1>4
  <2>3. QED
    BY <1>7, <2>1, <2>2, KeptIs
<1>9. ASSUME NEW t \in Descriptor \ {q.socket} PROVE Kept(b2, t) = Kept(b, t)
  <2>1. \A k \in DOMAIN b.queues : k \in DOMAIN b2.queues /\ b2.queues[k] = b.queues[k]
    BY <1>2, <1>4
  <2>2. \A k \in DOMAIN b2.queues : b2.queues[k].socket = t => k \in DOMAIN b.queues /\ b.queues[k].socket = t
    BY <1>2, <1>4, <1>5
  <2>3. QED
    BY <1>7, <2>1, <2>2, KeptSame
<1>10. QED
  BY <1>7, <1>8, <1>9

LEMMA QueueRemoved ==
  ASSUME NEW b, Sound(b), NEW s \in Descriptor, NEW d \in Queue,
         NEW b2, b2 = [def_queue |-> d,
                       queues |-> IF QueueOf(b, s) = 0 THEN b.queues
                                  ELSE RemoveAt(b.queues, QueueOf(b, s))]
  PROVE  /\ Sound(b2)
         /\ Kept(b2, s) = DefQ
         /\ \A t \in Descriptor \ {s} : Kept(b2, t) = Kept(b, t)
<1>1. b \in Buffers /\ b.queues \in Seq(Queue) /\ s \in Nat
  BY DEF Sound, Buffers, Descriptor
<1>2. CASE QueueOf(b, s) = 0
  <2>1. b2.queues = b.queues /\ b2 \in Buffers
    BY <1>1, <1>2 DEF Buffers
  <2>2. Sound(b2)
    BY <2>1 DEF Sound, OneQueue
  <2>3. \A t : QueueOf(b2, t) = QueueOf(b, t)
    BY <2>1 DEF QueueOf
  <2>4. QED
    BY <1>2, <2>1, <2>2, <2>3 DEF Kept
<1>3. CASE QueueOf(b, s) # 0
  <2>0. PICK n \in Nat : n = Len(b.queues) /\ DOMAIN b.queues = 1..n
    BY <1>1
  <2>1. PICK i \in 1..n : i = QueueOf(b, s) /\ b.queues[i].socket = s
    BY <1>1, <1>3, <2>0, QueueOfProperties
  <2>2. b2.queues = RemoveAt(b.queues, i)
    BY <1>3, <2>1
  <2>3. /\ b2.queues \in Seq(Queue) /\ Len(b2.queues) = n - 1
        /\ \A k \in 1..(n - 1) : b2.queues[k] = IF k < i THEN b.queues[k] ELSE b.queues[k + 1]
    <3>1. i \in 1..Len(b.queues)
      BY <2>0, <2>1
    <3>2. /\ RemoveAt(b.queues, i) \in Seq(Queue)
          /\ Len(RemoveAt(b.queues, i)) = Len(b.queues) - 1
          /\ \A k \in 1..(Len(b.queues) - 1) :
               RemoveAt(b.queues, i)[k] = IF k < i THEN b.queues[k] ELSE b.queues[k + 1]
      BY <1>1, <3>1, RemoveAtProperties
    <3>3. QED
      BY <2>0, <2>2, <3>2
  <2>4. b2 \in Buffers
    BY <2>3 DEF Buffers
  <2>5. DOMAIN b2.queues = 1..(n - 1)
    BY <2>3
  <2> DEFINE from(k) == IF k < i THEN k ELSE k + 1
  <2>6. \A k \in 1..(n - 1) : from(k) \in 1..n /\ from(k) # i /\ b2.queues[k] = b.queues[from(k)]
    BY <2>0, <2>1, <2>3
  <2>7. \A k, j \in 1..(n - 1) : from(k) = from(j) => k = j
    BY <2>0, <2>1
  <2>8. \A k \in 1..n : k # i => \E j \in 1..(n - 1) : from(j) = k
    <3>1. SUFFICES ASSUME NEW k \in 1..n, k # i PROVE \E j \in 1..(n - 1) : from(j) = k
      OBVIOUS
    <3>2. CASE k < i
      <4>1. k \in 1..(n - 1) /\ from(k) = k
        BY <2>0, <2>1, <3>2
      <4>2. QED
        BY <4>1
    <3>3. CASE ~(k < i)
      <4>1. k - 1 \in 1..(n - 1) /\ from(k - 1) = k
        BY <2>0, <2>1, <3>1, <3>3
      <4>2. QED
        BY <4>1
    <3>4. QED
      BY <3>2, <3>3
  <2> HIDE DEF from
  <2>9. Sound(b2)
    <3>1. ASSUME NEW k \in 1..(n - 1), NEW j \in 1..(n - 1),
                 b2.queues[k].socket = b2.queues[j].socket, b2.queues[k].socket # 0
          PROVE  k = j
      <4>1. from(k) = from(j)
        <5>1. /\ from(k) \in DOMAIN b.queues /\ from(j) \in DOMAIN b.queues
              /\ b2.queues[k] = b.queues[from(k)] /\ b2.queues[j] = b.queues[from(j)]
          BY <2>0, <2>6
        <5>2. OneQueue(b)
          BY DEF Sound
        <5>3. QED
          BY <3>1, <5>1, <5>2 DEF OneQueue
      <4>2. QED
        BY <2>7, <4>1
    <3>2. QED
      BY <2>4, <2>5, <3>1 DEF Sound, OneQueue
  <2>10. \A k \in 1..n : b.queues[k].socket = s => k = i
    BY <2>0, <2>1 DEF Sound, OneQueue, Descriptor
  <2>11. Kept(b2, s) = DefQ
    <3>1. \A k \in DOMAIN b2.queues : b2.queues[k].socket # s
      BY <2>5, <2>6, <2>10
    <3>2. QED
      BY <2>9, <3>1, KeptIs
  <2>12. ASSUME NEW t \in Descriptor \ {s} PROVE Kept(b2, t) = Kept(b, t)
    <3>1. \A k \in DOMAIN b.queues : b.queues[k].socket = t =>
            \E j \in DOMAIN b2.queues : b2.queues[j] = b.queues[k]
      <4>1. SUFFICES ASSUME NEW k \in DOMAIN b.queues, b.queues[k].socket = t
                     PROVE  \E j \in DOMAIN b2.queues : b2.queues[j] = b.queues[k]
        OBVIOUS
      <4>2. k \in 1..n /\ k # i
        BY <2>0, <2>1, <4>1
      <4>3. PICK j \in 1..(n - 1) : from(j) = k
        BY <2>8, <4>2
      <4>4. QED
        BY <2>5, <2>6, <4>3
    <3>2. \A j \in DOMAIN b2.queues : b2.queues[j].socket = t =>
            \E k \in DOMAIN b.queues : b.queues[k].socket = t
      BY <2>0, <2>5, <2>6
    <3>3. QED
      BY <2>9, <3>1, <3>2, KeptSame
  <2>13. QED
    BY <2>9, <2>11, <2>12
<1>4. QED
  BY <1>2, <1>3

-----------------------------------------------------------------------------
(* The buffers while a packet of s is read: Mine is the queue of s, which   *)
(* is the default one when s has no other.                                  *)

Mid(b, s) ==
  /\ Sound(b)
  /\ \/ b.def_queue = DefQ
     \/ b.def_queue.socket = s /\ b.def_queue.data = <<>> /\ Kept(b, s) = DefQ
Mine(b, s) == IF b.def_queue.socket = s THEN b.def_queue ELSE Kept(b, s)
Others(b, b2, s) == \A t \in Descriptor \ {s} : Kept(b2, t) = Kept(b, t)

LEMMA MineIs ==
  ASSUME NEW b, NEW s \in Descriptor, Mid(b, s)
  PROVE  /\ Mine(b, s) \in Queue
         /\ Mine(b, s) = DefQ \/ Mine(b, s).socket = s
         /\ QueueOf(b, s) = 0 => /\ Mine(b, s) = b.def_queue /\ Mine(b, s).data = <<>>
                                 /\ Kept(b, s) = DefQ
         /\ QueueOf(b, s) # 0 => /\ b.def_queue = DefQ /\ QueueOf(b, s) \in DOMAIN b.queues
                                 /\ Mine(b, s) = b.queues[QueueOf(b, s)] /\ Mine(b, s) = Kept(b, s)
                                 /\ Mine(b, s).socket = s
<1>1. b \in Buffers /\ b.def_queue \in Queue /\ s \in Nat /\ s # 0
  BY DEF Mid, Sound, Buffers, Descriptor
<1>2. Sound(b)
  BY DEF Mid
<1>3. /\ Kept(b, s) \in Queue /\ (Kept(b, s) = DefQ \/ Kept(b, s).socket = s)
      /\ QueueOf(b, s) = 0 <=> Kept(b, s) = DefQ
  BY <1>2, KeptIs
<1>4. CASE QueueOf(b, s) = 0
  BY <1>1, <1>3, <1>4, DefQType DEF Mid, Mine
<1>5. CASE QueueOf(b, s) # 0
  <2>1. b.def_queue = DefQ
    BY <1>3, <1>5 DEF Mid
  <2>2. QueueOf(b, s) \in DOMAIN b.queues
    BY <1>1, <1>5, QueueOfProperties
  <2>3. Mine(b, s) = Kept(b, s)
    BY <1>1, <2>1, DefQType DEF Mine
  <2>4. Kept(b, s) = b.queues[QueueOf(b, s)]
    BY <1>5 DEF Kept
  <2>5. Kept(b, s).socket = s
    BY <1>3, <1>5
  <2>6. QED
    BY <1>3, <1>5, <2>1, <2>2, <2>3, <2>4, <2>5
<1>6. QED
  BY <1>4, <1>5

\* only the default queue changes
LEMMA DefaultChanged ==
  ASSUME NEW b, Sound(b), NEW b2 \in Buffers, b2.queues = b.queues
  PROVE  Sound(b2) /\ \A t : Kept(b2, t) = Kept(b, t) /\ QueueOf(b2, t) = QueueOf(b, t)
<1>1. Sound(b2)
  BY DEF Sound, OneQueue
<1>2. \A t : QueueOf(b2, t) = QueueOf(b, t)
  BY DEF QueueOf
<1>3. QED
  BY <1>1, <1>2 DEF Kept

\* the queue of s in the list changes
LEMMA ListedChanged ==
  ASSUME NEW b, NEW s \in Descriptor, Mid(b, s), QueueOf(b, s) # 0, NEW q \in Queue, q.socket = s,
         NEW b2 \in Buffers, b2.def_queue = b.def_queue,
         b2.queues = [b.queues EXCEPT ![QueueOf(b, s)] = q]
  PROVE  Mid(b2, s) /\ Mine(b2, s) = q /\ Others(b, b2, s) /\ b2.def_queue = DefQ /\ Kept(b2, s) = q
<1>1. Sound(b)
  BY DEF Mid
<1>2. Sound(b2) /\ Kept(b2, s) = q /\ \A t \in Descriptor \ {s} : Kept(b2, t) = Kept(b, t)
  BY <1>1, QueueReplaced
<1>3. b2.def_queue = DefQ /\ s # 0
  BY MineIs DEF Descriptor
<1>4. QED
  BY <1>2, <1>3, DefQType DEF Mid, Mine, Others

LEMMA WithCharIs ==
  ASSUME NEW q \in Queue, NEW c
  PROVE  WithChar(q, c) = [socket |-> q.socket, index |-> q.index + 1,
                           fixed_header |-> Append(SubSeq(q.fixed_header, 1, q.index), c),
                           data |-> q.data]
<1>1. PICK x, i, f, d : q = [socket |-> x, index |-> i, fixed_header |-> f, data |-> d]
  BY DEF Queue
<1>2. PICK g : g = Append(SubSeq(q.fixed_header, 1, q.index), c)
  OBVIOUS
<1>3. WithChar(q, c) = [[q EXCEPT !.fixed_header = g] EXCEPT !.index = q.index + 1]
  BY <1>2 DEF WithChar
<1>4. [q EXCEPT !.fixed_header = g] = [socket |-> x, index |-> i, fixed_header |-> g, data |-> d]
  BY <1>1
<1>5. q.index = i /\ q.socket = x /\ q.data = d
  BY <1>1
<1>6. WithChar(q, c) = [socket |-> x, index |-> i + 1, fixed_header |-> g, data |-> d]
  BY <1>3, <1>4, <1>5
<1>7. QED
  BY <1>2, <1>5, <1>6

\* a byte of the header has come
CharAdded(m, m2, c) ==
  /\ m2.socket # 0 /\ m2.index = m.index + 1 /\ m2.data = m.data
  /\ m2.fixed_header = Append(SubSeq(m.fixed_header, 1, m.index), c)

LEMMA QueueCharKeeps ==
  ASSUME NEW b, NEW s \in Descriptor, Mid(b, s), NEW c \in Nat,
         Mine(b, s).index \in 0..Len(Mine(b, s).fixed_header)
  PROVE  /\ Mid(SocketBuffer_queueChar(b, s, c), s)
         /\ Others(b, SocketBuffer_queueChar(b, s, c), s)
         /\ CharAdded(Mine(b, s), Mine(SocketBuffer_queueChar(b, s, c), s), c)
<1> DEFINE m == Mine(b, s)
           b2 == SocketBuffer_queueChar(b, s, c)
<1> HIDE DEF m, b2
<1>m. m = Mine(b, s) /\ b2 = SocketBuffer_queueChar(b, s, c) /\ m.index \in 0..Len(m.fixed_header)
  BY DEF m, b2
<1>1. b \in Buffers /\ Sound(b) /\ s \in Nat /\ s # 0
  BY DEF Mid, Sound, Descriptor
<1>2. b.def_queue \in Queue /\ b.queues \in Seq(Queue)
  BY <1>1 DEF Buffers
<1>3. m \in Queue
  BY <1>m, MineIs
<1>4. m.index \in Nat /\ m.fixed_header \in Seq(Nat) /\ m.data \in Seq(Nat)
  BY <1>3 DEF Queue
<1>5. Append(SubSeq(m.fixed_header, 1, m.index), c) \in Seq(Nat)
  <2>1. SubSeq(m.fixed_header, 1, m.index) \in Seq(Nat)
    BY <1>m, <1>4
  <2>2. QED
    BY <2>1
<1> DEFINE q == [socket |-> s, index |-> m.index + 1,
                 fixed_header |-> Append(SubSeq(m.fixed_header, 1, m.index), c),
                 data |-> m.data]
<1>6. q \in Queue /\ q.socket = s /\ q.data = m.data
  BY <1>1, <1>4, <1>5 DEF Queue
<1>a. CharAdded(m, q, c)
  BY <1>1 DEF CharAdded
<1>7. ASSUME m.socket = s PROVE WithChar(m, c) = q
  BY <1>3, <1>7, WithCharIs
<1> HIDE DEF q
<1>8. CASE QueueOf(b, s) # 0
  <2>1. PICK i : i = QueueOf(b, s) /\ i \in DOMAIN b.queues /\ m = b.queues[i] /\ m.socket = s
    BY <1>m, <1>8, MineIs
  <2>2. b2 = [b EXCEPT !.queues[i] = WithChar(b.queues[i], c)]
    BY <1>m, <1>8, <2>1 DEF SocketBuffer_queueChar
  <2>3. b2 = [b EXCEPT !.queues = [b.queues EXCEPT ![i] = q]]
    BY <1>1, <1>7, <2>1, <2>2 DEF Buffers
  <2>4. [b.queues EXCEPT ![i] = q] \in Seq(Queue)
    BY <1>2, <1>6, <2>1
  <2>5. b2 \in Buffers /\ b2.def_queue = b.def_queue /\ b2.queues = [b.queues EXCEPT ![i] = q]
    BY <1>1, <2>3, <2>4 DEF Buffers
  <2>6. Mid(b2, s) /\ Mine(b2, s) = q /\ Others(b, b2, s)
    BY <1>6, <1>8, <2>1, <2>5, ListedChanged
  <2>7. QED
    BY <1>a, <1>m, <2>6
<1>9. CASE QueueOf(b, s) = 0
  <2>1. m = b.def_queue /\ m.data = <<>> /\ Kept(b, s) = DefQ
    BY <1>m, <1>9, MineIs
  <2>2. b2 = [b EXCEPT !.def_queue = q]
    <3>1. CASE m.socket = s
      BY <1>m, <1>1, <1>7, <1>9, <2>1, <3>1 DEF SocketBuffer_queueChar
    <3>2. CASE m.socket # s
      <4>1. m = DefQ /\ m.socket = 0
        BY <1>m, <3>2, MineIs, DefQType
      <4>2. b2 = [b EXCEPT !.def_queue = WithChar([DefQ EXCEPT !.socket = s], c)]
        BY <1>m, <1>9, <2>1, <4>1 DEF SocketBuffer_queueChar
      <4>3. WithChar([DefQ EXCEPT !.socket = s], c) = q
        <5>1. PICK f : f = [DefQ EXCEPT !.socket = s]
          OBVIOUS
        <5>2. f = [socket |-> s, index |-> 0, fixed_header |-> <<>>, data |-> <<>>]
          BY <5>1 DEF DefQ
        <5>3. f \in Queue /\ f.socket = s /\ f.index = 0 /\ f.fixed_header = <<>> /\ f.data = <<>>
          BY <1>1, <5>2 DEF Queue
        <5>4. m.index = 0 /\ m.fixed_header = <<>> /\ m.data = <<>>
          BY <4>1, DefQType
        <5>5. WithChar(f, c) = [socket |-> f.socket, index |-> f.index + 1,
                                fixed_header |-> Append(SubSeq(f.fixed_header, 1, f.index), c),
                                data |-> f.data]
          BY <5>3, WithCharIs
        <5>6. QED
          BY <5>1, <5>3, <5>4, <5>5 DEF q
      <4>4. QED
        BY <4>2, <4>3
    <3>3. QED
      BY <3>1, <3>2
  <2>3. b2 \in Buffers /\ b2.queues = b.queues /\ b2.def_queue = q
    BY <1>1, <1>6, <2>2 DEF Buffers
  <2>4. Sound(b2) /\ \A t : Kept(b2, t) = Kept(b, t)
    BY <1>1, <2>3, DefaultChanged
  <2>5. Mid(b2, s) /\ Others(b, b2, s) /\ Mine(b2, s) = q
    BY <1>6, <2>1, <2>3, <2>4 DEF Mid, Others, Mine
  <2>6. QED
    BY <1>a, <1>m, <2>5
<1>10. QED
  BY <1>8, <1>9

\* what has been read is kept, if there is any
KeptForLater(m, k, s, d) ==
  IF m.socket = s THEN k.index = 0 /\ k.fixed_header = m.fixed_header /\ k.data = d
  ELSE k = DefQ

LEMMA InterruptedKeeps ==
  ASSUME NEW b, NEW s \in Descriptor, Mid(b, s), NEW d \in Seq(Nat)
  PROVE  /\ Sound(SocketBuffer_interrupted(b, s, d))
         /\ SocketBuffer_interrupted(b, s, d).def_queue = DefQ
         /\ Others(b, SocketBuffer_interrupted(b, s, d), s)
         /\ KeptForLater(Mine(b, s), Kept(SocketBuffer_interrupted(b, s, d), s), s, d)
<1> DEFINE m == Mine(b, s)
           b2 == SocketBuffer_interrupted(b, s, d)
<1> HIDE DEF m, b2
<1>m. m = Mine(b, s) /\ b2 = SocketBuffer_interrupted(b, s, d)
  BY DEF m, b2
<1>1. b \in Buffers /\ Sound(b) /\ s \in Nat /\ s # 0
  BY DEF Mid, Sound, Descriptor
<1>2. b.def_queue \in Queue /\ b.queues \in Seq(Queue)
  BY <1>1 DEF Buffers
<1>3. m \in Queue /\ (m = DefQ \/ m.socket = s)
  BY <1>m, MineIs
<1> DEFINE q == [m EXCEPT !.index = 0, !.data = d]
<1>4. q \in Queue /\ q.socket = m.socket /\ q = Interrupted(m, d)
  BY <1>3 DEF Queue, Interrupted
<1>a. q.index = 0 /\ q.fixed_header = m.fixed_header /\ q.data = d
  BY <1>3 DEF Queue
<1> HIDE DEF q
<1>5. CASE QueueOf(b, s) # 0
  <2>1. PICK i : i = QueueOf(b, s) /\ i \in DOMAIN b.queues /\ m = b.queues[i] /\ m.socket = s
    BY <1>m, <1>5, MineIs
  <2>2. b2 = [b EXCEPT !.queues[i] = Interrupted(b.queues[i], d)]
    BY <1>m, <1>5, <2>1 DEF SocketBuffer_interrupted
  <2>3. b2 = [b EXCEPT !.queues = [b.queues EXCEPT ![i] = q]]
    BY <1>1, <1>4, <2>1, <2>2 DEF Buffers
  <2>4. [b.queues EXCEPT ![i] = q] \in Seq(Queue)
    BY <1>2, <1>4, <2>1
  <2>5. b2 \in Buffers /\ b2.def_queue = b.def_queue /\ b2.queues = [b.queues EXCEPT ![i] = q]
    BY <1>1, <2>3, <2>4 DEF Buffers
  <2>6. Mid(b2, s) /\ Kept(b2, s) = q /\ Others(b, b2, s) /\ b2.def_queue = DefQ
    BY <1>4, <1>5, <2>1, <2>5, ListedChanged
  <2>7. QED
    <3>1. KeptForLater(m, Kept(b2, s), s, d)
      BY <1>a, <2>1, <2>6 DEF KeptForLater
    <3>2. QED
      BY <1>m, <2>6, <3>1 DEF Mid
<1>6. CASE QueueOf(b, s) = 0
  <2>1. m = b.def_queue /\ Kept(b, s) = DefQ
    BY <1>m, <1>6, MineIs
  <2>2. b2 = [def_queue |-> DefQ, queues |-> Append(b.queues, q)]
    BY <1>m, <1>4, <1>6, <2>1 DEF SocketBuffer_interrupted
  <2>3. q.socket = 0 \/ Kept(b, q.socket) = DefQ
    BY <1>3, <1>4, <2>1, DefQType
  <2>4. /\ Sound(b2)
        /\ q.socket # 0 => Kept(b2, q.socket) = q
        /\ \A t \in Descriptor \ {q.socket} : Kept(b2, t) = Kept(b, t)
    <3>1. b2 \in Buffers /\ b2.queues = Append(b.queues, q)
      BY <1>2, <1>4, <2>2, DefQType DEF Buffers
    <3>2. QED
      BY <1>1, <1>4, <2>3, <3>1, QueueAdded
  <2>5. b2.def_queue = DefQ
    BY <2>2
  <2>6. CASE m.socket = s
    <3>1. Others(b, b2, s) /\ Kept(b2, s) = q
      BY <1>1, <1>4, <2>4, <2>6 DEF Others
    <3>2. KeptForLater(m, Kept(b2, s), s, d)
      BY <1>a, <2>6, <3>1 DEF KeptForLater
    <3>3. QED
      BY <1>m, <2>4, <2>5, <3>1, <3>2
  <2>7. CASE m.socket # s
    <3>1. q.socket = 0
      BY <1>3, <1>4, <2>7, DefQType
    <3>2. Others(b, b2, s) /\ Kept(b2, s) = DefQ
      BY <1>1, <2>1, <2>4, <3>1 DEF Others, Descriptor
    <3>3. KeptForLater(m, Kept(b2, s), s, d)
      BY <2>7, <3>2 DEF KeptForLater
    <3>4. QED
      BY <1>m, <2>4, <2>5, <3>2, <3>3
  <2>8. QED
    BY <2>6, <2>7
<1>7. QED
  BY <1>5, <1>6

LEMMA CompleteKeeps ==
  ASSUME NEW b, NEW s \in Descriptor, Sound(b), NEW b2, b2 = SocketBuffer_complete(b, s)
  PROVE  Sound(b2) /\ b2.def_queue = DefQ /\ Others(b, b2, s) /\ Kept(b2, s) = DefQ
<1>1. b2 = [def_queue |-> DefQ,
            queues |-> IF QueueOf(b, s) = 0 THEN b.queues
                       ELSE RemoveAt(b.queues, QueueOf(b, s))]
  BY DEF SocketBuffer_complete
<1>2. QED
  BY <1>1, QueueRemoved, DefQType DEF Others

LEMMA CleanupKeeps ==
  ASSUME NEW b, NEW s \in Descriptor, Sound(b), NEW b2, b2 = SocketBuffer_cleanup(b, s)
  PROVE  /\ Sound(b2) /\ Others(b, b2, s) /\ Kept(b2, s) = DefQ
         /\ b2.def_queue = IF b.def_queue.socket = s THEN DefQ ELSE b.def_queue
<1> DEFINE d == IF b.def_queue.socket = s THEN DefQ ELSE b.def_queue
<1>1. d \in Queue
  BY DefQType DEF Sound, Buffers
<1>2. b2 = [def_queue |-> d,
            queues |-> IF QueueOf(b, s) = 0 THEN b.queues
                       ELSE RemoveAt(b.queues, QueueOf(b, s))]
  BY DEF SocketBuffer_cleanup
<1> HIDE DEF d
<1>3. b2.def_queue = d
  BY <1>2
<1>4. QED
  BY <1>1, <1>2, <1>3, QueueRemoved DEF Others, d

-----------------------------------------------------------------------------
(* A reader of a packet of s.  w is what was saved for s and what has come, *)
(* and lh and ld are the lengths of the header and the data of the packet   *)
(* that it begins with.                                                     *)

Reader == [b : Buffers, left : Seq(Nat), eof : BOOLEAN, rc : {"complete", "interrupted", "error"},
           c : Nat, value : Nat, multiplier : Nat, header : Nat, data : Seq(Nat)]

\* what the queue q has, and what is left, make up w
Splits(q, left, w, lh, ld) ==
  /\ q.fixed_header \o (q.data \o left) = w
  /\ Len(q.fixed_header) <= lh /\ Len(q.data) <= ld
  /\ q.data # <<>> => Len(q.fixed_header) = lh

\* h bytes of w have been read
At(r, s, b0, w, h, lh, ld) ==
  /\ r \in Reader /\ r.rc = "complete"
  /\ Mid(r.b, s) /\ Others(b0, r.b, s)
  /\ Mine(r.b, s).index = h /\ h <= Len(Mine(r.b, s).fixed_header)
  /\ QueueOf(r.b, s) = 0 => h = Len(Mine(r.b, s).fixed_header)
  /\ Splits(Mine(r.b, s), r.left, w, lh, ld)

\* w is kept, to be read again
Ended(r, s, b0, w, lh, ld) ==
  /\ r \in Reader /\ r.rc = "interrupted"
  /\ Sound(r.b) /\ r.b.def_queue = DefQ /\ Others(b0, r.b, s)
  /\ Kept(r.b, s).index = 0
  /\ Splits(Kept(r.b, s), r.left, w, lh, ld)

Failed(r, s, b0) ==
  /\ r \in Reader /\ r.rc = "error"
  /\ Sound(r.b) /\ Others(b0, r.b, s)
  /\ r.b.def_queue = DefQ \/ r.b.def_queue.socket = s

SameButChar(r, r2) ==
  /\ r2.eof = r.eof /\ r2.value = r.value /\ r2.multiplier = r.multiplier
  /\ r2.header = r.header /\ r2.data = r.data

LEMMA AppendConcat ==
  ASSUME NEW S, NEW f \in Seq(S), NEW c \in S, NEW rest \in Seq(S)
  PROVE  /\ Append(f, c) \in Seq(S) /\ Len(Append(f, c)) = Len(f) + 1
         /\ Append(f, c) \o rest = f \o (<<c>> \o rest)
<1>1. <<c>> \in Seq(S) /\ Append(f, c) = f \o <<c>>
  OBVIOUS
<1>2. (f \o <<c>>) \o rest = f \o (<<c>> \o rest)
  BY <1>1, ConcatAssociative
<1>3. QED
  BY <1>1, <1>2

LEMMA RestAfter ==
  ASSUME NEW S, NEW f \in Seq(S), NEW h \in Nat, h < Len(f)
  PROVE  /\ SubSeq(f, h + 1, Len(f)) # <<>>
         /\ Head(SubSeq(f, h + 1, Len(f))) = f[h + 1] /\ f[h + 1] \in S
<1>1. PICK n \in Nat : n = Len(f)
  OBVIOUS
<1>2. h + 1 \in 1..n
  BY <1>1
<1>3. SubSeq(f, h + 1, n) \in Seq(S) /\ Len(SubSeq(f, h + 1, n)) = n - h
  BY <1>1, <1>2
<1>4. SubSeq(f, h + 1, n)[1] = f[h + 1]
  BY <1>1, <1>2
<1>5. SubSeq(f, h + 1, n) # <<>>
  <2>1. n - h # 0
    BY <1>1
  <2>2. QED
    BY <1>3, <2>1
<1>6. QED
  BY <1>1, <1>2, <1>3, <1>4, <1>5

LEMMA NextIndex ==
  ASSUME NEW m \in Queue
  PROVE  /\ [m EXCEPT !.index = m.index + 1] \in Queue
         /\ [m EXCEPT !.index = m.index + 1].index = m.index + 1
         /\ [m EXCEPT !.index = m.index + 1].socket = m.socket
         /\ [m EXCEPT !.index = m.index + 1].fixed_header = m.fixed_header
         /\ [m EXCEPT !.index = m.index + 1].data = m.data
BY SMTT(60) DEF Queue

LEMMA OthersTrans ==
  ASSUME NEW b0, NEW b, NEW b2, NEW s, Others(b0, b, s), Others(b, b2, s)
  PROVE  Others(b0, b2, s)
BY DEF Others

\* Socket_getch, when the byte comes from the kernel
LEMMA RecvReads ==
  ASSUME NEW s \in Descriptor, NEW b0, NEW w \in Seq(Nat), NEW h \in Nat, NEW lh \in Nat, NEW ld \in Nat,
         h < lh, NEW r, At(r, s, b0, w, h, lh, ld), h = Len(Mine(r.b, s).fixed_header),
         NEW r2, r2 = Recv(r, s)
  PROVE  \/ /\ At(r2, s, b0, w, h + 1, lh, ld) /\ SameButChar(r, r2)
            /\ h + 1 <= Len(w) /\ r2.c = w[h + 1]
         \/ Ended(r2, s, b0, w, lh, ld)
         \/ Failed(r2, s, b0)
<1>1. PICK b, m, f, l : b = r.b /\ m = Mine(b, s) /\ f = m.fixed_header /\ l = r.left
  OBVIOUS
<1>2. /\ m \in Queue /\ (m = DefQ \/ m.socket = s) /\ m.index = h /\ h = Len(f)
      /\ Mid(b, s) /\ Others(b0, b, s) /\ Splits(m, l, w, lh, ld)
      /\ r \in Reader
  BY <1>1, MineIs DEF At
<1>3. f \in Seq(Nat) /\ m.data \in Seq(Nat) /\ l \in Seq(Nat) /\ r.eof \in BOOLEAN
  BY <1>1, <1>2 DEF Queue, Reader
<1>4. m.data = <<>>
  BY <1>1, <1>2 DEF Splits
<1>5. f \o l = w
  <2>1. <<>> \o l = l
    BY <1>3, ConcatEmptySeq
  <2>2. QED
    BY <1>1, <1>2, <1>4, <2>1 DEF Splits
<1>6. CASE l # <<>>
  <2>1. PICK c \in Nat, rest \in Seq(Nat) : c = Head(l) /\ rest = Tail(l) /\ l = <<c>> \o rest
    <3>1. Head(l) \in Nat /\ Tail(l) \in Seq(Nat)
      BY <1>3, <1>6
    <3>2. l = <<Head(l)>> \o Tail(l)
      BY <1>3, <1>6
    <3>3. QED
      BY <3>1, <3>2
  <2>2. PICK b2 : b2 = SocketBuffer_queueChar(b, s, c)
    OBVIOUS
  <2>3. r2 = [r EXCEPT !.rc = "complete", !.c = c, !.left = rest, !.b = b2]
    BY <1>1, <1>6, <2>1, <2>2 DEF Recv
  <2>4. Mid(b2, s) /\ Others(b, b2, s) /\ CharAdded(m, Mine(b2, s), c)
    <3>1. Mine(b, s).index \in 0..Len(Mine(b, s).fixed_header)
      BY <1>1, <1>2, <1>3
    <3>2. Mid(b, s) /\ c \in Nat
      BY <1>2, <2>1
    <3>3. /\ Mid(SocketBuffer_queueChar(b, s, c), s)
          /\ Others(b, SocketBuffer_queueChar(b, s, c), s)
          /\ CharAdded(Mine(b, s), Mine(SocketBuffer_queueChar(b, s, c), s), c)
      BY <3>1, <3>2, QueueCharKeeps
    <3>4. QED
      BY <1>1, <2>2, <3>3
  <2>5. SubSeq(m.fixed_header, 1, m.index) = f
    <3>1. SubSeq(f, 1, Len(f)) = f
      BY <1>3
    <3>2. QED
      BY <1>1, <1>2, <3>1
  <2>6. PICK q, g : q = Mine(b2, s) /\ q.index = h + 1 /\ q.fixed_header = g /\ g = Append(f, c) /\ q.data = <<>>
    <3>1. /\ Mine(b2, s).index = m.index + 1 /\ Mine(b2, s).data = m.data
          /\ Mine(b2, s).fixed_header = Append(f, c)
      BY <2>4, <2>5 DEF CharAdded
    <3>2. m.index = h
      BY <1>2
    <3>3. QED
      BY <1>4, <3>1, <3>2
  <2>7. g \in Seq(Nat) /\ Len(g) = h + 1 /\ g \o rest = w
    <3>1. Append(f, c) \in Seq(Nat) /\ Len(Append(f, c)) = Len(f) + 1
          /\ Append(f, c) \o rest = f \o (<<c>> \o rest)
      <4>1. f \in Seq(Nat) /\ c \in Nat /\ rest \in Seq(Nat)
        BY <1>3, <2>1
      <4>2. QED
        BY <4>1, AppendConcat, SMTT(60)
    <3>2. g = Append(f, c) /\ Len(f) = h /\ <<c>> \o rest = l
      BY <1>2, <2>1, <2>6
    <3>3. QED
      BY <1>5, <3>1, <3>2
  <2>8. Splits(q, rest, w, lh, ld)
    <3>1. <<>> \o rest = rest
      BY <2>1, ConcatEmptySeq
    <3>2. q.fixed_header \o (q.data \o rest) = w
      BY <2>6, <2>7, <3>1
    <3>3. Len(q.fixed_header) <= lh /\ Len(q.data) <= ld
      BY <2>6, <2>7
    <3>4. QED
      BY <2>6, <3>2, <3>3 DEF Splits
  <2>9. /\ r2 \in Reader /\ r2.rc = "complete" /\ r2.b = b2 /\ r2.left = rest /\ r2.c = c
        /\ SameButChar(r, r2)
    <3>1. b2 \in Buffers
      BY <2>4 DEF Mid, Sound
    <3>2. QED
      BY <1>2, <2>1, <2>3, <3>1, ZenonT(60) DEF Reader, SameButChar
  <2>10. Others(b0, b2, s)
    BY <1>2, <2>4, OthersTrans
  <2>11. At(r2, s, b0, w, h + 1, lh, ld)
    <3>1. Mine(r2.b, s) = q /\ Len(q.fixed_header) = h + 1
      BY <2>6, <2>7, <2>9
    <3>2. Mine(r2.b, s).index = h + 1 /\ h + 1 <= Len(Mine(r2.b, s).fixed_header)
          /\ h + 1 = Len(Mine(r2.b, s).fixed_header)
      BY <2>6, <2>7, <3>1
    <3>3. Mid(r2.b, s) /\ Others(b0, r2.b, s) /\ Splits(Mine(r2.b, s), r2.left, w, lh, ld)
      BY <2>4, <2>8, <2>9, <2>10, <3>1
    <3>4. QED
      BY <2>9, <3>2, <3>3 DEF At
  <2>12. h + 1 <= Len(w) /\ w[h + 1] = c
    <3>1. PICK n \in Nat : n = Len(l) /\ n >= 1
      BY <1>3, <1>6
    <3>2. Len(w) = h + n
      BY <1>2, <1>3, <1>5, <3>1
    <3>3. w[h + 1] = l[1]
      BY <1>2, <1>3, <1>5, <3>1
    <3>4. QED
      BY <1>3, <1>6, <2>1, <3>1, <3>2, <3>3
  <2>13. QED
    BY <2>9, <2>11, <2>12
<1>7. CASE l = <<>> /\ r.eof
  <2>1. r2 = [r EXCEPT !.rc = "error"]
    BY <1>1, <1>7 DEF Recv
  <2>2. r2 \in Reader /\ r2.rc = "error" /\ r2.b = b
    BY <1>1, <1>2, <2>1 DEF Reader
  <2>3. Failed(r2, s, b0)
    BY <1>2, <2>2 DEF Failed, Mid
  <2>4. QED
    BY <2>3
<1>8. CASE l = <<>> /\ ~r.eof
  <2>1. PICK b2, d : d = <<>> /\ b2 = SocketBuffer_interrupted(b, s, d)
    OBVIOUS
  <2>2. r2 = [r EXCEPT !.rc = "interrupted", !.b = b2]
    BY <1>1, <1>8, <2>1 DEF Recv
  <2>3. d \in Seq(Nat)
    BY <2>1
  <2>4. Sound(b2) /\ b2.def_queue = DefQ /\ Others(b, b2, s) /\ KeptForLater(m, Kept(b2, s), s, d)
    <3>1. Mid(b, s)
      BY <1>2
    <3>2. /\ Sound(SocketBuffer_interrupted(b, s, d))
          /\ SocketBuffer_interrupted(b, s, d).def_queue = DefQ
          /\ Others(b, SocketBuffer_interrupted(b, s, d), s)
          /\ KeptForLater(Mine(b, s), Kept(SocketBuffer_interrupted(b, s, d), s), s, d)
      BY <2>3, <3>1, InterruptedKeeps
    <3>3. QED
      BY <1>1, <2>1, <3>2
  <2>5. PICK q : q = Kept(b2, s) /\ q.index = 0 /\ q.fixed_header = f /\ q.data = <<>>
    <3>1. CASE m.socket = s
      BY <1>1, <2>1, <2>4, <3>1 DEF KeptForLater
    <3>2. CASE m.socket # s
      BY <1>1, <1>2, <2>4, <3>2, DefQType DEF KeptForLater
    <3>3. QED
      BY <3>1, <3>2
  <2>6. r2 \in Reader /\ r2.rc = "interrupted" /\ r2.b = b2 /\ r2.left = l
    <3>1. b2 \in Buffers
      BY <2>4 DEF Sound
    <3>2. QED
      BY <1>1, <1>2, <2>2, <3>1 DEF Reader
  <2>7. Splits(q, l, w, lh, ld)
    BY <1>1, <1>2, <1>4, <2>5 DEF Splits
  <2>8. Others(b0, b2, s)
    BY <1>2, <2>4, OthersTrans
  <2>9. Ended(r2, s, b0, w, lh, ld)
    BY <2>4, <2>5, <2>6, <2>7, <2>8 DEF Ended
  <2>10. QED
    BY <2>9
<1>9. QED
  BY <1>3, <1>6, <1>7, <1>8

LEMMA GetchReads ==
  ASSUME NEW s \in Descriptor, NEW b0, NEW w \in Seq(Nat), NEW h \in Nat, NEW lh \in Nat, NEW ld \in Nat,
         h < lh, NEW r, At(r, s, b0, w, h, lh, ld), NEW r2, r2 = Socket_getch(r, s)
  PROVE  \/ /\ At(r2, s, b0, w, h + 1, lh, ld) /\ SameButChar(r, r2)
            /\ h + 1 <= Len(w) /\ r2.c = w[h + 1]
         \/ Ended(r2, s, b0, w, lh, ld)
         \/ Failed(r2, s, b0)
<1>1. PICK b, m, f, l, i : b = r.b /\ m = Mine(b, s) /\ f = m.fixed_header /\ l = r.left /\ i = QueueOf(b, s)
  OBVIOUS
<1>2. /\ m \in Queue /\ m.index = h /\ h <= Len(f)
      /\ Mid(b, s) /\ Others(b0, b, s) /\ Splits(m, l, w, lh, ld)
      /\ r \in Reader
      /\ i = 0 => h = Len(f)
  BY <1>1, MineIs DEF At
<1>3. f \in Seq(Nat) /\ m.data \in Seq(Nat) /\ l \in Seq(Nat) /\ m.socket \in Nat
  BY <1>1, <1>2 DEF Queue, Reader
<1>4. PICK n \in Nat : n = Len(f)
  BY <1>3
<1>5. i # 0 => i \in DOMAIN b.queues /\ b.queues[i] = m /\ b.def_queue = DefQ /\ m.socket = s
  BY <1>1, <1>2, MineIs
<1>6. CASE i # 0 /\ h < n
  <2>1. PICK u : u = Unread(b, s) /\ u # <<>> /\ Head(u) = f[h + 1] /\ f[h + 1] \in Nat
    <3>1. Unread(b, s) = SubSeq(f, h + 1, n)
      BY <1>1, <1>2, <1>4, <1>5, <1>6 DEF Unread
    <3>2. SubSeq(f, h + 1, n) # <<>> /\ Head(SubSeq(f, h + 1, n)) = f[h + 1] /\ f[h + 1] \in Nat
      BY <1>3, <1>4, <1>6, RestAfter
    <3>3. QED
      BY <3>1, <3>2
  <2> DEFINE q == [m EXCEPT !.index = m.index + 1]
             b2 == [b EXCEPT !.queues = [b.queues EXCEPT ![i] = q]]
  <2>2. q \in Queue /\ q.index = h + 1 /\ q.fixed_header = f /\ q.data = m.data
    <3>1. m \in Queue /\ m.index = h /\ m.fixed_header = f
      BY <1>1, <1>2
    <3>2. QED
      BY <3>1, NextIndex
  <2>a. q.socket = s
    BY <1>2, <1>5, <1>6, NextIndex
  <2>3. r2 = [r EXCEPT !.rc = "complete", !.c = Head(u), !.b = b2]
    <3>1. SocketBuffer_getQueuedChar(b, s) = "complete"
      BY <1>1, <1>6, <2>1 DEF SocketBuffer_getQueuedChar
    <3>2. r2 = [r EXCEPT !.rc = "complete", !.c = Head(u),
                         !.b.queues[i].index = r.b.queues[i].index + 1]
      BY <1>1, <2>1, <3>1 DEF Socket_getch
    <3>3. QED
      BY <1>1, <1>2, <1>5, <1>6, <3>2 DEF Reader, Buffers
  <2>4. b2 \in Buffers /\ b2.def_queue = b.def_queue /\ b2.queues = [b.queues EXCEPT ![i] = q]
    <3>1. b \in Buffers /\ b.queues \in Seq(Queue)
      BY <1>2 DEF Mid, Sound, Buffers
    <3> HIDE DEF q
    <3>2. [b.queues EXCEPT ![i] = q] \in Seq(Queue)
      BY <1>5, <1>6, <2>2, <3>1
    <3>3. QED
      BY <3>1, <3>2 DEF Buffers
  <2> HIDE DEF q, b2
  <2>5. Mid(b2, s) /\ Mine(b2, s) = q /\ Others(b, b2, s) /\ b2.def_queue = DefQ /\ Kept(b2, s) = q
    BY <1>1, <1>2, <1>6, <2>2, <2>a, <2>4, ListedChanged
  <2>6. QueueOf(b2, s) # 0
    <3>1. Sound(b2) /\ q # DefQ /\ s # 0
      BY <2>2, <2>5, <2>a, DefQType DEF Mid, Descriptor
    <3>2. QED
      BY <2>5, <3>1, KeptIs
  <2>7. r2 \in Reader /\ r2.rc = "complete" /\ r2.b = b2 /\ r2.left = l /\ r2.c = Head(u)
        /\ SameButChar(r, r2)
    BY <1>1, <1>2, <2>1, <2>3, <2>4 DEF Reader, SameButChar
  <2>8. Others(b0, b2, s)
    BY <1>2, <2>5, OthersTrans
  <2>9. At(r2, s, b0, w, h + 1, lh, ld)
    <3>1. Splits(q, l, w, lh, ld)
      BY <1>1, <1>2, <2>2 DEF Splits
    <3>2. h + 1 <= Len(q.fixed_header)
      BY <1>4, <1>6, <2>2
    <3>3. QED
      BY <2>2, <2>5, <2>6, <2>7, <2>8, <3>1, <3>2 DEF At
  <2>10. h + 1 <= Len(w) /\ w[h + 1] = f[h + 1]
    <3>0. m.data \o l \in Seq(Nat)
      BY <1>3
    <3>1. PICK z \in Seq(Nat) : z = m.data \o l
      BY <3>0
    <3>2. w = f \o z
      BY <1>1, <1>2, <3>1 DEF Splits
    <3>3. Len(w) = n + Len(z) /\ Len(z) \in Nat
      BY <1>3, <1>4, <3>1, <3>2
    <3>4. h + 1 \in 1..n
      BY <1>4, <1>6
    <3>5. w[h + 1] = f[h + 1]
      BY <1>3, <1>4, <3>1, <3>2, <3>4
    <3>6. QED
      BY <3>3, <3>4, <3>5
  <2>11. QED
    BY <2>1, <2>7, <2>9, <2>10
<1>a. ASSUME i # 0, ~(h < n) PROVE Unread(b, s) = <<>>
  <2>1. Unread(b, s) = SubSeq(f, h + 1, n)
    BY <1>1, <1>2, <1>4, <1>5, <1>a DEF Unread
  <2>2. SubSeq(f, h + 1, n) \in Seq(Nat) /\ Len(SubSeq(f, h + 1, n)) = 0
    BY <1>2, <1>3, <1>4, <1>a
  <2>3. QED
    BY <2>1, <2>2
<1>7. CASE i # 0 /\ ~(h < n) /\ m.index > 4
  <2>1. SocketBuffer_getQueuedChar(b, s) = "error"
    BY <1>1, <1>5, <1>7, <1>a DEF SocketBuffer_getQueuedChar
  <2>2. r2 = [r EXCEPT !.rc = "error"]
    BY <1>1, <2>1 DEF Socket_getch
  <2>3. r2 \in Reader /\ r2.rc = "error" /\ r2.b = b
    BY <1>1, <1>2, <2>2 DEF Reader
  <2>4. Failed(r2, s, b0)
    BY <1>2, <2>3 DEF Failed, Mid
  <2>5. QED
    BY <2>4
<1>8. CASE i = 0 \/ (~(h < n) /\ ~(m.index > 4))
  <2>1. SocketBuffer_getQueuedChar(b, s) = "interrupted"
    BY <1>1, <1>5, <1>8, <1>a DEF SocketBuffer_getQueuedChar
  <2>2. r2 = Recv(r, s)
    BY <1>1, <2>1 DEF Socket_getch
  <2>3. h = Len(Mine(r.b, s).fixed_header)
    BY <1>1, <1>2, <1>4, <1>8
  <2>4. QED
    BY <2>2, <2>3, RecvReads
<1>9. QED
  BY <1>6, <1>7, <1>8

-----------------------------------------------------------------------------
(* The remaining length.  p is the packet that is read, u what follows it,  *)
(* and w, then z, are the bytes of both.                                    *)

HeaderLength(p) == 1 + Len(MQTTPacket_encode(p.length))

\* the digits of n are still to be read
ToDecode(r, s, b0, w, z, p, u) ==
  \E h, n \in Nat, pre \in Seq(Nat) :
    /\ At(r, s, b0, w, h, HeaderLength(p), p.length)
    /\ Len(pre) = h /\ w \o z = pre \o (MQTTPacket_encode(n) \o (Data(p) \o u))
    /\ h + Len(MQTTPacket_encode(n)) = HeaderLength(p)
    /\ r.value + (r.multiplier * n) = p.length
    /\ r.header = p.header

Decoded(r, s, b0, w, p) ==
  /\ At(r, s, b0, w, HeaderLength(p), HeaderLength(p), p.length)
  /\ r.value = p.length /\ r.header = p.header

\* what one byte does, as in MQTTPacket_decode
WithDigit(r) == [r EXCEPT !.value = @ + DigitOf(r.c) * r.multiplier, !.multiplier = @ * traffic.base]
DecodeByte(r, s) ==
  LET r2 == Socket_getch(r, s) IN IF r2.rc = "complete" THEN WithDigit(r2) ELSE r2
DecodeStep(k, r, s) ==
  IF ~(r.rc = "complete" /\ (k = 1 \/ More(r.c))) THEN r
  ELSE IF k > 4 THEN [r EXCEPT !.rc = "error"]
  ELSE DecodeByte(r, s)

LEMMA DigitAdded ==
  ASSUME NEW v \in Nat, NEW m \in Nat, NEW b \in Nat, NEW q \in Nat, NEW d \in Nat
  PROVE  (v + d * m) + ((m * b) * q) = v + (m * ((b * q) + d))
<1>1. m * ((b * q) + d) = (m * (b * q)) + (m * d)
  OBVIOUS
<1>2. (m * b) * q = m * (b * q)
  OBVIOUS
<1>3. d * m = m * d
  OBVIOUS
<1>4. /\ d * m \in Nat /\ (m * b) * q \in Nat /\ m * (b * q) \in Nat
      /\ m * ((b * q) + d) \in Nat
  OBVIOUS
<1>5. QED
  BY <1>1, <1>2, <1>3, <1>4

LEMMA WithDigitIs ==
  ASSUME BaseTyped, NEW r \in Reader
  PROVE  /\ WithDigit(r) \in Reader
         /\ WithDigit(r).value = r.value + DigitOf(r.c) * r.multiplier
         /\ WithDigit(r).multiplier = r.multiplier * traffic.base
         /\ WithDigit(r).rc = r.rc /\ WithDigit(r).b = r.b /\ WithDigit(r).left = r.left
         /\ WithDigit(r).c = r.c /\ WithDigit(r).header = r.header
<1>1. r.c \in Nat /\ r.multiplier \in Nat /\ r.value \in Nat
  BY DEF Reader
<1>2. DigitOf(r.c) \in Nat
  BY <1>1 DEF DigitOf, BaseTyped
<1>3. PICK v \in Nat, m \in Nat : v = r.value + DigitOf(r.c) * r.multiplier /\ m = r.multiplier * traffic.base
  <2>1. DigitOf(r.c) * r.multiplier \in Nat /\ r.multiplier * traffic.base \in Nat
    BY <1>1, <1>2 DEF BaseTyped
  <2>2. QED
    BY <1>1, <2>1
<1>4. WithDigit(r) = [r EXCEPT !.value = v, !.multiplier = m]
  BY <1>3 DEF WithDigit
<1>5. QED
  BY <1>3, <1>4 DEF Reader

\* only the buffers and what is left say where a reader is
LEMMA AtSame ==
  ASSUME NEW r, NEW s, NEW b0, NEW w, NEW h, NEW lh, NEW ld, At(r, s, b0, w, h, lh, ld),
         NEW r2 \in Reader, r2.rc = r.rc, r2.b = r.b, r2.left = r.left
  PROVE  At(r2, s, b0, w, h, lh, ld)
BY DEF At

LEMMA BytesConcat ==
  \A x1, x2, x3 \in Seq(Nat) : (x1 \o x2) \o x3 = x1 \o (x2 \o x3)
BY ConcatAssociative, SMTT(60)

LEMMA FirstOfRest ==
  ASSUME NEW x \in Seq(Nat), NEW y \in Seq(Nat), NEW z \in Seq(Nat)
  PROVE  /\ \A k \in 1..Len(x) : (x \o y)[k] = x[k]
         /\ Len(y) >= 1 => (x \o (y \o z))[Len(x) + 1] = y[1]
<1>1. \A k \in 1..Len(x) : (x \o y)[k] = x[k]
  OBVIOUS
<1>2. ASSUME Len(y) >= 1 PROVE (x \o (y \o z))[Len(x) + 1] = y[1]
  <2>1. PICK h \in Nat : h = Len(x)
    OBVIOUS
  <2>2. y \o z \in Seq(Nat) /\ Len(y \o z) = Len(y) + Len(z) /\ (y \o z)[1] = y[1]
    BY <1>2
  <2>3. PICK v \in Seq(Nat) : v = y \o z /\ Len(v) >= 1
    <3>1. Len(z) \in Nat /\ Len(y) \in Nat
      OBVIOUS
    <3>2. Len(y \o z) >= 1
      BY <1>2, <2>2, <3>1
    <3>3. QED
      BY <2>2, <3>2
  <2>4. (x \o v)[h + 1] = v[1]
    BY <2>1, <2>3
  <2>5. QED
    BY <2>1, <2>2, <2>3, <2>4
<1>3. QED
  BY <1>1, <1>2

LEMMA EncodeLength ==
  ASSUME BaseTyped, NEW n \in Nat
  PROVE  /\ MQTTPacket_encode(n) \in Seq(Nat) /\ Len(MQTTPacket_encode(n)) >= 1
         /\ n < traffic.base => MQTTPacket_encode(n) = <<n>>
         /\ ~(n < traffic.base) =>
              \E q, d \in Nat : /\ n = (traffic.base * q) + d /\ d < traffic.base
                                /\ MQTTPacket_encode(q) \in Seq(Nat)
                                /\ MQTTPacket_encode(n) = <<d + traffic.base>> \o MQTTPacket_encode(q)
<1>0. PICK b \in Nat \ {0, 1} : b = traffic.base
  BY DEF BaseTyped
<1>1. /\ \A k \in Nat : MQTTPacket_encode(k) \in Seq(Nat)
      /\ \A k \in Nat : MQTTPacket_encode(k) =
           IF k < traffic.base THEN <<k>>
           ELSE <<(k % traffic.base) + traffic.base>> \o MQTTPacket_encode(k \div traffic.base)
  BY EncodeProperties DEF BaseTyped
<1>2. CASE n < b
  <2>1. n < traffic.base
    BY <1>0, <1>2
  <2>2. MQTTPacket_encode(n) = <<n>>
    BY <1>1, <2>1
  <2>3. <<n>> \in Seq(Nat) /\ Len(<<n>>) = 1
    OBVIOUS
  <2>4. MQTTPacket_encode(n) \in Seq(Nat) /\ Len(MQTTPacket_encode(n)) >= 1
    BY <2>2, <2>3
  <2>5. QED
    BY <2>1, <2>2, <2>4, Zenon
<1>3. CASE ~(n < b)
  <2>1. PICK q, d \in Nat : q = n \div b /\ d = n % b /\ n = (b * q) + d /\ d < b
    BY Division
  <2>2. MQTTPacket_encode(n) = <<d + b>> \o MQTTPacket_encode(q) /\ MQTTPacket_encode(q) \in Seq(Nat)
    BY <1>0, <1>1, <1>3, <2>1
  <2>3. Len(MQTTPacket_encode(n)) >= 1
    <3>a. d \in Nat /\ b \in Nat
      BY <1>0, <2>1, Zenon
    <3>0. d + b \in Nat
      BY <3>a
    <3>1. <<d + b>> \in Seq(Nat) /\ Len(<<d + b>>) = 1
      BY <3>0
    <3>2. QED
      BY <2>2, <3>1
  <2>4. QED
    BY <1>0, <1>1, <1>3, <2>1, <2>2, <2>3
<1>4. QED
  BY <1>2, <1>3

LEMMA ModOfDigit ==
  ASSUME NEW b \in Nat \ {0, 1}, NEW d \in Nat, d < b
  PROVE  d % b = d /\ (d + b) % b = d
OBVIOUS

LEMMA ByteDecodes ==
  ASSUME BaseTyped, NEW s \in Descriptor, NEW b0, NEW w \in Seq(Nat), NEW z \in Seq(Nat),
         NEW p \in Packet, NEW u \in Seq(Nat),
         NEW r, ToDecode(r, s, b0, w, z, p, u)
  PROVE  \/ Ended(DecodeByte(r, s), s, b0, w, HeaderLength(p), p.length)
         \/ Failed(DecodeByte(r, s), s, b0)
         \/ ~More(DecodeByte(r, s).c) /\ Decoded(DecodeByte(r, s), s, b0, w, p)
         \/ More(DecodeByte(r, s).c) /\ ToDecode(DecodeByte(r, s), s, b0, w, z, p, u)
<1>1. PICK h \in Nat, n \in Nat, pre \in Seq(Nat) :
        /\ At(r, s, b0, w, h, HeaderLength(p), p.length)
        /\ Len(pre) = h /\ w \o z = pre \o (MQTTPacket_encode(n) \o (Data(p) \o u))
        /\ h + Len(MQTTPacket_encode(n)) = HeaderLength(p)
        /\ r.value + (r.multiplier * n) = p.length
        /\ r.header = p.header
  BY DEF ToDecode
<1>2. PICK b \in Nat \ {0, 1} : b = traffic.base
  BY DEF BaseTyped
<1>3. PICK e, lh, ld, t :
        /\ e = MQTTPacket_encode(n) /\ lh = HeaderLength(p) /\ ld = p.length /\ t = Data(p) \o u
        /\ e \in Seq(Nat) /\ Len(e) >= 1 /\ lh \in Nat /\ ld \in Nat /\ t \in Seq(Nat)
        /\ Data(p) \in Seq(Nat)
  <2>1. MQTTPacket_encode(n) \in Seq(Nat) /\ Len(MQTTPacket_encode(n)) >= 1
    BY <1>1, EncodeLength
  <2>2. p.length \in Nat
    BY DEF Packet
  <2>3. HeaderLength(p) \in Nat
    BY <2>2, EncodeLength DEF HeaderLength
  <2>4. Data(p) \in Seq(Nat) /\ Data(p) \o u \in Seq(Nat)
    <3>1. Data(p) \in Seq(Nat)
      BY DataType
    <3>2. QED
      BY <3>1
  <2>5. QED
    BY <2>1, <2>2, <2>3, <2>4
<1>4. PICK r2 : r2 = Socket_getch(r, s)
  OBVIOUS
<1>5. h < lh /\ At(r, s, b0, w, h, lh, ld)
  BY <1>1, <1>3
<1>6. \/ /\ At(r2, s, b0, w, h + 1, lh, ld) /\ SameButChar(r, r2)
         /\ h + 1 <= Len(w) /\ r2.c = w[h + 1]
      \/ Ended(r2, s, b0, w, lh, ld)
      \/ Failed(r2, s, b0)
  BY <1>1, <1>3, <1>4, <1>5, GetchReads
<1>7. CASE Ended(r2, s, b0, w, lh, ld) \/ Failed(r2, s, b0)
  <2>1. r2.rc # "complete"
    BY <1>7 DEF Ended, Failed
  <2>2. DecodeByte(r, s) = r2
    BY <1>4, <2>1 DEF DecodeByte
  <2>3. QED
    BY <1>3, <1>7, <2>2
<1>8. CASE /\ At(r2, s, b0, w, h + 1, lh, ld) /\ SameButChar(r, r2)
           /\ h + 1 <= Len(w) /\ r2.c = w[h + 1]
  <2>1. r \in Reader /\ r2 \in Reader /\ r2.rc = "complete"
    BY <1>5, <1>8 DEF At
  <2>2. PICK r3 : r3 = DecodeByte(r, s) /\ r3 = WithDigit(r2)
    BY <1>4, <2>1 DEF DecodeByte
  <2>3. PICK v, m, c \in Nat : /\ v = r.value /\ m = r.multiplier /\ c = r2.c
                               /\ r2.value = v /\ r2.multiplier = m
    BY <1>8, <2>1 DEF Reader, SameButChar
  <2>4. /\ r3 \in Reader /\ r3.rc = "complete" /\ r3.b = r2.b /\ r3.left = r2.left
        /\ r3.c = c /\ r3.header = p.header
        /\ r3.value = v + (c % b) * m /\ r3.multiplier = m * b
    <3>1. /\ WithDigit(r2) \in Reader
          /\ WithDigit(r2).value = r2.value + DigitOf(r2.c) * r2.multiplier
          /\ WithDigit(r2).multiplier = r2.multiplier * traffic.base
          /\ WithDigit(r2).rc = r2.rc /\ WithDigit(r2).b = r2.b /\ WithDigit(r2).left = r2.left
          /\ WithDigit(r2).c = r2.c /\ WithDigit(r2).header = r2.header
      BY <2>1, WithDigitIs
    <3>2. r2.header = p.header
      BY <1>1, <1>8 DEF SameButChar
    <3>3. DigitOf(r2.c) = c % b
      BY <1>2, <2>3 DEF DigitOf
    <3>4. QED
      BY <1>2, <2>1, <2>2, <2>3, <3>1, <3>2, <3>3
  <2>5. At(r3, s, b0, w, h + 1, lh, ld)
    <3>1. r3.rc = r2.rc
      BY <2>1, <2>4
    <3>2. QED
      BY <1>8, <2>4, <3>1, AtSame
  <2>6. c = e[1]
    <3>1. w \o z = pre \o (e \o t) /\ Len(pre) + 1 <= Len(w) /\ Len(pre) = h
      BY <1>1, <1>3, <1>8
    <3>a. /\ w \in Seq(Nat) /\ z \in Seq(Nat) /\ pre \in Seq(Nat)
          /\ e \in Seq(Nat) /\ t \in Seq(Nat) /\ Len(e) >= 1
      BY <1>1, <1>3
    <3>2. w[Len(pre) + 1] = e[1]
      <4>1. (w \o z)[Len(pre) + 1] = w[Len(pre) + 1]
        <5>1. Len(pre) + 1 \in 1..Len(w)
          BY <3>a, <3>1
        <5>2. QED
          BY <3>a, <5>1, FirstOfRest
      <4>2. (pre \o (e \o t))[Len(pre) + 1] = e[1]
        BY <3>a, FirstOfRest
      <4>3. QED
        BY <3>1, <4>1, <4>2
    <3>3. QED
      BY <1>8, <2>3, <3>1, <3>2
  <2>7. v + (m * n) = ld
    BY <1>1, <1>3, <2>3
  <2>8. CASE n < b
    <3>0. n \in Nat /\ n < traffic.base
      BY <1>1, <1>2, <2>8
    <3>a. MQTTPacket_encode(n) = <<n>>
      BY <3>0, EncodeLength
    <3>1. e = <<n>> /\ c = n /\ Len(e) = 1
      BY <1>3, <2>6, <3>a
    <3>2. c % b = n
      BY <1>1, <1>2, <2>8, <3>1, ModOfDigit
    <3>3. n * m = m * n
      BY <1>1, <2>3
    <3>4. r3.value = ld
      BY <2>4, <2>7, <3>2, <3>3
    <3>5. h + 1 = lh
      BY <1>1, <1>3, <3>1
    <3>6. Decoded(r3, s, b0, w, p)
      BY <1>3, <2>4, <2>5, <3>4, <3>5 DEF Decoded
    <3>7. ~More(r3.c)
      BY <1>1, <1>2, <2>4, <2>8, <3>1 DEF More
    <3>8. QED
      BY <2>2, <3>6, <3>7
  <2>9. CASE ~(n < b)
    <3>1. PICK q, d \in Nat : /\ n = (b * q) + d /\ d < b
                              /\ MQTTPacket_encode(q) \in Seq(Nat)
                              /\ e = <<d + b>> \o MQTTPacket_encode(q)
      <4>1. n \in Nat /\ ~(n < traffic.base)
        BY <1>1, <1>2, <2>9
      <4>2. \E q, d \in Nat : /\ n = (traffic.base * q) + d /\ d < traffic.base
                             /\ MQTTPacket_encode(q) \in Seq(Nat)
                             /\ MQTTPacket_encode(n) = <<d + traffic.base>> \o MQTTPacket_encode(q)
        BY <4>1, EncodeLength, ZenonT(60)
      <4>3. QED
        BY <1>2, <1>3, <4>2
    <3>2. PICK f \in Seq(Nat) : f = MQTTPacket_encode(q)
      BY <3>1
    <3>3. <<d + b>> \in Seq(Nat) /\ e = <<d + b>> \o f /\ e[1] = d + b /\ Len(e) = 1 + Len(f)
      BY <1>2, <3>1, <3>2, SMTT(60)
    <3>4. c = d + b /\ c % b = d
      BY <1>2, <2>6, <3>1, <3>3, ModOfDigit
    <3>5. More(r3.c)
      BY <1>2, <2>4, <3>1, <3>4, SMTT(60) DEF More
    <3>6. r3.value + (r3.multiplier * q) = ld
      <4>1. (v + d * m) + ((m * b) * q) = v + (m * ((b * q) + d))
        <5>1. v \in Nat /\ m \in Nat /\ b \in Nat /\ q \in Nat /\ d \in Nat
          BY <1>2, <2>3, <3>1
        <5>2. QED
          BY <5>1, DigitAdded
      <4>2. QED
        BY <2>4, <2>7, <3>1, <3>4, <4>1
    <3>7. PICK pre2 \in Seq(Nat) : pre2 = pre \o <<d + b>> /\ Len(pre2) = h + 1
      <4>1. pre \o <<d + b>> \in Seq(Nat) /\ Len(pre \o <<d + b>>) = h + 1
        BY <1>1, <3>3
      <4>2. QED
        BY <4>1
    <3>8. w \o z = pre2 \o (f \o t)
      <4>1. (<<d + b>> \o f) \o t = <<d + b>> \o (f \o t)
        <5>1. <<d + b>> \in Seq(Nat) /\ f \in Seq(Nat) /\ t \in Seq(Nat)
          BY <1>3, <3>2, <3>3
        <5>2. QED
          BY <5>1, TripleConcat, SMTT(60)
      <4>2. f \o t \in Seq(Nat)
        BY <1>3, <3>2
      <4>3. (pre \o <<d + b>>) \o (f \o t) = pre \o (<<d + b>> \o (f \o t))
        <5>1. pre \in Seq(Nat) /\ <<d + b>> \in Seq(Nat)
          BY <1>1, <3>3
        <5>2. PICK y, x : y = <<d + b>> /\ x = f \o t /\ y \in Seq(Nat) /\ x \in Seq(Nat)
          BY <4>2, <5>1
        <5>3. (pre \o y) \o x = pre \o (y \o x)
          <6>1. pre \in Seq(Nat) /\ y \in Seq(Nat) /\ x \in Seq(Nat)
            BY <5>1, <5>2
          <6>2. QED
            BY <6>1, BytesConcat, ZenonT(60)
        <5>4. y \o x = <<d + b>> \o (f \o t)
          BY <5>2
        <5>5. QED
          BY <5>2, <5>3, <5>4
      <4>4. w \o z = pre \o (e \o t)
        BY <1>1, <1>3
      <4>5. QED
        BY <3>3, <3>7, <4>1, <4>3, <4>4
    <3>9. (h + 1) + Len(f) = lh
      BY <1>1, <1>3, <3>2, <3>3
    <3>10. ToDecode(r3, s, b0, w, z, p, u)
      <4>1. /\ h + 1 \in Nat /\ q \in Nat /\ pre2 \in Seq(Nat)
            /\ At(r3, s, b0, w, h + 1, HeaderLength(p), p.length)
            /\ Len(pre2) = h + 1 /\ w \o z = pre2 \o (MQTTPacket_encode(q) \o (Data(p) \o u))
            /\ (h + 1) + Len(MQTTPacket_encode(q)) = HeaderLength(p)
            /\ r3.value + (r3.multiplier * q) = p.length
            /\ r3.header = p.header
        <5>1. h + 1 \in Nat /\ q \in Nat /\ pre2 \in Seq(Nat) /\ Len(pre2) = h + 1
          <6>1. h \in Nat
            BY <1>1
          <6>2. h + 1 \in Nat
            BY <6>1
          <6>3. q \in Nat
            BY <3>1, Zenon
          <6>4. pre2 \in Seq(Nat) /\ Len(pre2) = h + 1
            BY <3>7, Zenon
          <6>5. QED
            BY <6>2, <6>3, <6>4, Zenon
        <5>2. At(r3, s, b0, w, h + 1, HeaderLength(p), p.length)
          BY <1>3, <2>5
        <5>3. w \o z = pre2 \o (MQTTPacket_encode(q) \o (Data(p) \o u))
          BY <1>3, <3>2, <3>8
        <5>4. (h + 1) + Len(MQTTPacket_encode(q)) = HeaderLength(p)
          BY <1>3, <3>2, <3>9
        <5>5. r3.value + (r3.multiplier * q) = p.length /\ r3.header = p.header
          BY <1>3, <2>4, <3>6
        <5>6. QED
          BY <5>1, <5>2, <5>3, <5>4, <5>5
      <4>2. QED
        BY <4>1 DEF ToDecode
    <3>11. QED
      BY <2>2, <3>5, <3>10
  <2>10. QED
    BY <2>8, <2>9
<1>9. QED
  BY <1>6, <1>7, <1>8

LEMMA DecodeSteps ==
  ASSUME NEW r0, NEW s,
         NEW d1, d1 = DecodeStep(1, r0, s), NEW d2, d2 = DecodeStep(2, d1, s),
         NEW d3, d3 = DecodeStep(3, d2, s), NEW d4, d4 = DecodeStep(4, d3, s),
         NEW d5, d5 = DecodeStep(5, d4, s)
  PROVE  MQTTPacket_decode(r0, s) = d5
<1> DEFINE F(f) ==
             [k \in 0..(MAX_NO_OF_REMAINING_LENGTH_BYTES + 1) |->
               IF k = 0 THEN r0
               ELSE IF ~(f[k - 1].rc = "complete" /\ (k = 1 \/ More(f[k - 1].c))) THEN f[k - 1]
               ELSE IF k > MAX_NO_OF_REMAINING_LENGTH_BYTES THEN [f[k - 1] EXCEPT !.rc = "error"]
               ELSE IF Socket_getch(f[k - 1], s).rc = "complete"
               THEN WithDigit(Socket_getch(f[k - 1], s)) ELSE Socket_getch(f[k - 1], s)]
           step == CHOOSE f : f = F(f)
<1>1. \A f : F(f) = [k \in 0..5 |-> IF k = 0 THEN r0 ELSE DecodeStep(k, f[k - 1], s)]
  <2>1. 0..(MAX_NO_OF_REMAINING_LENGTH_BYTES + 1) = 0..5 /\ MAX_NO_OF_REMAINING_LENGTH_BYTES = 4
    BY DEF MAX_NO_OF_REMAINING_LENGTH_BYTES
  <2>2. QED
    BY <2>1 DEF DecodeStep, DecodeByte
<1>2. MQTTPacket_decode(r0, s) = step[5]
  <2>1. MAX_NO_OF_REMAINING_LENGTH_BYTES + 1 = 5
    BY DEF MAX_NO_OF_REMAINING_LENGTH_BYTES
  <2>2. MQTTPacket_decode(r0, s) = step[MAX_NO_OF_REMAINING_LENGTH_BYTES + 1]
    BY DEF MQTTPacket_decode, WithDigit
  <2>3. QED
    BY <2>1, <2>2
<1> HIDE DEF F
<1> DEFINE g == [k \in 0..5 |-> IF k = 0 THEN r0 ELSE IF k = 1 THEN d1 ELSE IF k = 2 THEN d2
                                ELSE IF k = 3 THEN d3 ELSE IF k = 4 THEN d4 ELSE d5]
<1>3. g = [k \in 0..5 |-> IF k = 0 THEN r0 ELSE DecodeStep(k, g[k - 1], s)]
  <2>1. /\ g[0] = r0 /\ g[1] = d1 /\ g[2] = d2 /\ g[3] = d3 /\ g[4] = d4 /\ g[5] = d5
        /\ g = [k \in 0..5 |-> g[k]]
    OBVIOUS
  <2> HIDE DEF g
  <2>2. \A k \in 0..5 : g[k] = IF k = 0 THEN r0 ELSE DecodeStep(k, g[k - 1], s)
    <3>1. SUFFICES ASSUME NEW k \in 0..5
                   PROVE  g[k] = IF k = 0 THEN r0 ELSE DecodeStep(k, g[k - 1], s)
      OBVIOUS
    <3>2. k = 0 \/ k = 1 \/ k = 2 \/ k = 3 \/ k = 4 \/ k = 5
      OBVIOUS
    <3>3. QED
      BY <2>1, <3>2
  <2>3. QED
    BY <2>1, <2>2
<1> HIDE DEF g
<1>4. step = [k \in 0..5 |-> IF k = 0 THEN r0 ELSE DecodeStep(k, step[k - 1], s)]
  <2>1. g = F(g)
    BY <1>1, <1>3
  <2>2. step = F(step)
    BY <2>1
  <2>3. QED
    BY <1>1, <2>2
<1> HIDE DEF step
<1>5. \A k \in 1..5 : step[k] = DecodeStep(k, step[k - 1], s)
  BY <1>4
<1>6. step[0] = r0
  BY <1>4
<1>7. step[1] = d1
  BY <1>5, <1>6
<1>8. step[2] = d2
  BY <1>5, <1>7
<1>9. step[3] = d3
  BY <1>5, <1>8
<1>10. step[4] = d4
  BY <1>5, <1>9
<1>11. step[5] = d5
  BY <1>5, <1>10
<1>12. QED
  BY <1>2, <1>11

\* after k digits at most
Decoding(k, r, s, b0, w, z, p, u) ==
  \/ Ended(r, s, b0, w, HeaderLength(p), p.length)
  \/ Failed(r, s, b0)
  \/ k # 0 /\ ~More(r.c) /\ Decoded(r, s, b0, w, p)
  \/ (k = 0 \/ More(r.c)) /\ ToDecode(r, s, b0, w, z, p, u)

LEMMA DecodeStepKeeps ==
  ASSUME BaseTyped, NEW s \in Descriptor, NEW b0, NEW w \in Seq(Nat), NEW z \in Seq(Nat),
         NEW p \in Packet, NEW u \in Seq(Nat), NEW k \in 1..5,
         NEW r, Decoding(k - 1, r, s, b0, w, z, p, u)
  PROVE  \/ k = 5 /\ Failed(DecodeStep(k, r, s), s, b0)
         \/ k = 5 /\ ~More(r.c) /\ DecodeStep(k, r, s) = r /\ Decoding(k, r, s, b0, w, z, p, u)
         \/ k = 5 /\ DecodeStep(k, r, s) = r /\ Ended(r, s, b0, w, HeaderLength(p), p.length)
         \/ k # 5 /\ Decoding(k, DecodeStep(k, r, s), s, b0, w, z, p, u)
<1>1. CASE r.rc # "complete"
  <2>1. DecodeStep(k, r, s) = r
    BY <1>1 DEF DecodeStep
  <2>2. Ended(r, s, b0, w, HeaderLength(p), p.length) \/ Failed(r, s, b0)
    BY <1>1 DEF Decoding, Decoded, ToDecode, At
  <2>3. QED
    BY <2>1, <2>2 DEF Decoding
<1>2. CASE r.rc = "complete" /\ k # 1 /\ ~More(r.c)
  <2>1. DecodeStep(k, r, s) = r
    BY <1>2 DEF DecodeStep
  <2>2. k - 1 # 0 /\ k # 0
    BY <1>2
  <2>3. Decoded(r, s, b0, w, p)
    BY <1>2, <2>2 DEF Decoding, Ended, Failed
  <2>4. QED
    BY <1>2, <2>1, <2>2, <2>3 DEF Decoding
<1>3. CASE r.rc = "complete" /\ (k = 1 \/ More(r.c))
  <2>1. ToDecode(r, s, b0, w, z, p, u)
    <3>1. k = 1 => k - 1 = 0
      OBVIOUS
    <3>2. QED
      BY <1>3, <3>1 DEF Decoding, Ended, Failed
  <2>2. CASE k = 5
    <3>1. DecodeStep(k, r, s) = [r EXCEPT !.rc = "error"]
      BY <1>3, <2>2 DEF DecodeStep
    <3>2. r \in Reader /\ Mid(r.b, s) /\ Others(b0, r.b, s)
      BY <2>1 DEF ToDecode, At
    <3>3. DecodeStep(k, r, s) \in Reader /\ DecodeStep(k, r, s).rc = "error" /\ DecodeStep(k, r, s).b = r.b
      BY <3>1, <3>2 DEF Reader
    <3>4. QED
      BY <2>2, <3>2, <3>3 DEF Failed, Mid
  <2>3. CASE k # 5
    <3>1. DecodeStep(k, r, s) = DecodeByte(r, s)
      <4>1. ~(k > 4)
        BY <2>3
      <4>2. QED
        BY <1>3, <4>1 DEF DecodeStep
    <3>2. k # 0
      OBVIOUS
    <3>3. QED
      BY <2>1, <2>3, <3>1, <3>2, ByteDecodes DEF Decoding
  <2>4. QED
    BY <2>2, <2>3
<1>4. QED
  BY <1>1, <1>2, <1>3

\* MQTTPacket_decode
LEMMA DecodeReads ==
  ASSUME BaseTyped, NEW s \in Descriptor, NEW b0, NEW w \in Seq(Nat), NEW z \in Seq(Nat),
         NEW p \in Packet, NEW u \in Seq(Nat),
         NEW r, ToDecode(r, s, b0, w, z, p, u), NEW r2, r2 = MQTTPacket_decode(r, s)
  PROVE  \/ Ended(r2, s, b0, w, HeaderLength(p), p.length)
         \/ Failed(r2, s, b0)
         \/ Decoded(r2, s, b0, w, p)
<1>1. PICK d1, d2, d3, d4, d5 : /\ d1 = DecodeStep(1, r, s) /\ d2 = DecodeStep(2, d1, s)
                                /\ d3 = DecodeStep(3, d2, s) /\ d4 = DecodeStep(4, d3, s)
                                /\ d5 = DecodeStep(5, d4, s)
  OBVIOUS
<1>2. r2 = d5
  BY <1>1, DecodeSteps
<1> DEFINE D(k, x) == Decoding(k, x, s, b0, w, z, p, u)
<1>3. \A k \in 1..4 : \A x : D(k - 1, x) => D(k, DecodeStep(k, x, s))
  <2>1. SUFFICES ASSUME NEW k \in 1..4, NEW x, D(k - 1, x) PROVE D(k, DecodeStep(k, x, s))
    OBVIOUS
  <2>2. k \in 1..5 /\ k # 5
    OBVIOUS
  <2>3. QED
    BY <2>1, <2>2, DecodeStepKeeps
<1>4. D(0, r)
  BY DEF Decoding
<1> HIDE DEF D
<1>5. D(1, d1)
  BY <1>1, <1>3, <1>4
<1>6. D(2, d2)
  BY <1>1, <1>3, <1>5
<1>7. D(3, d3)
  BY <1>1, <1>3, <1>6
<1>8. D(4, d4)
  BY <1>1, <1>3, <1>7
<1>9. Decoding(5 - 1, d4, s, b0, w, z, p, u) /\ 5 \in 1..5
  BY <1>8 DEF D
<1>10. \/ Failed(d5, s, b0)
       \/ ~More(d4.c) /\ d5 = d4 /\ Decoding(5, d4, s, b0, w, z, p, u)
       \/ d5 = d4 /\ Ended(d4, s, b0, w, HeaderLength(p), p.length)
  BY <1>1, <1>9, DecodeStepKeeps
<1>11. QED
  BY <1>2, <1>10 DEF Decoding

LEMMA ConcatParts ==
  ASSUME NEW x \in Seq(Nat), NEW y \in Seq(Nat)
  PROVE  /\ x \o y \in Seq(Nat) /\ Len(x \o y) = Len(x) + Len(y)
         /\ \A i \in 1..Len(x) : (x \o y)[i] = x[i]
         /\ \A i \in 1..Len(y) : (x \o y)[Len(x) + i] = y[i]
<1>1. x \o y \in Seq(Nat) /\ Len(x \o y) = Len(x) + Len(y)
  OBVIOUS
<1>2. \A i \in 1..Len(x) : (x \o y)[i] = x[i]
  OBVIOUS
<1>3. \A i \in 1..Len(y) : (x \o y)[Len(x) + i] = y[i]
  OBVIOUS
<1>4. QED
  BY <1>1, <1>2, <1>3

LEMMA SameBeginning ==
  ASSUME NEW x \in Seq(Nat), NEW y \in Seq(Nat), NEW v \in Seq(Nat), NEW t \in Seq(Nat),
         Len(x) = Len(v), NEW c, c = x \o y, c = v \o t
  PROVE  x = v /\ y = t
<1>1. PICK n \in Nat, k \in Nat, j \in Nat : n = Len(x) /\ n = Len(v) /\ k = Len(y) /\ j = Len(t)
  OBVIOUS
<1>2. /\ Len(c) = n + k /\ \A i \in 1..n : c[i] = x[i]
      /\ \A i \in 1..k : c[n + i] = y[i]
  <2>1. /\ Len(x \o y) = Len(x) + Len(y)
        /\ \A i \in 1..Len(x) : (x \o y)[i] = x[i]
        /\ \A i \in 1..Len(y) : (x \o y)[Len(x) + i] = y[i]
    BY ConcatParts, Zenon
  <2>2. QED
    BY <1>1, <2>1, Zenon
<1>3. /\ Len(c) = n + j /\ \A i \in 1..n : c[i] = v[i]
      /\ \A i \in 1..j : c[n + i] = t[i]
  BY <1>1, ConcatParts
<1>4. x = v
  <2>1. Len(x) = Len(v) /\ \A i \in 1..Len(x) : x[i] = v[i]
    BY <1>1, <1>2, <1>3
  <2>2. QED
    BY <2>1, SeqEqual
<1>5. k = j
  BY <1>2, <1>3
<1>6. y = t
  <2>1. Len(y) = Len(t) /\ \A i \in 1..Len(y) : y[i] = t[i]
    BY <1>1, <1>2, <1>3, <1>5
  <2>2. QED
    BY <2>1, SeqEqual
<1>7. QED
  BY <1>4, <1>6

\* what is taken and what is left
Taken(l, k) == IF Len(l) < k THEN l ELSE SubSeq(l, 1, k)
After(l, k) == SubSeq(l, Len(Taken(l, k)) + 1, Len(l))

LEMMA TakenAndLeft ==
  ASSUME NEW whole \in Seq(Nat), NEW wanted \in Nat
  PROVE  /\ Taken(whole, wanted) \in Seq(Nat) /\ After(whole, wanted) \in Seq(Nat)
         /\ Taken(whole, wanted) \o After(whole, wanted) = whole
         /\ Len(Taken(whole, wanted)) <= wanted
         /\ Len(Taken(whole, wanted)) # wanted => After(whole, wanted) = <<>>
<1>0. PICK taken, after :
        /\ taken = Taken(whole, wanted) /\ after = After(whole, wanted)
        /\ taken = IF Len(whole) < wanted THEN whole ELSE SubSeq(whole, 1, wanted)
        /\ after = SubSeq(whole, Len(taken) + 1, Len(whole))
  BY DEF Taken, After
<1>1. PICK n \in Nat : n = Len(whole)
  OBVIOUS
<1>2. ASSUME n < wanted
      PROVE  /\ taken \in Seq(Nat) /\ after \in Seq(Nat) /\ taken \o after = whole
             /\ Len(taken) <= wanted /\ (Len(taken) # wanted => after = <<>>)
  <2>1. taken = whole
    BY <1>0, <1>1, <1>2
  <2>2. after = SubSeq(whole, n + 1, n)
    BY <1>0, <1>1, <2>1
  <2>3. SubSeq(whole, n + 1, n) \in Seq(Nat) /\ Len(SubSeq(whole, n + 1, n)) = 0
    BY <1>1
  <2>4. after = <<>>
    <3>1. PICK e \in Seq(Nat) : e = after /\ Len(e) = 0
      BY <2>2, <2>3
    <3>2. e = <<>>
      BY <3>1, EmptySeq
    <3>3. QED
      BY <3>1, <3>2
  <2>5. whole \o <<>> = whole /\ <<>> \in Seq(Nat)
    BY ConcatEmptySeq
  <2>6. QED
    BY <1>1, <1>2, <2>1, <2>4, <2>5
<1>3. ASSUME ~(n < wanted)
      PROVE  /\ taken \in Seq(Nat) /\ after \in Seq(Nat) /\ taken \o after = whole
             /\ Len(taken) <= wanted /\ (Len(taken) # wanted => after = <<>>)
  <2>1. taken = SubSeq(whole, 1, wanted)
    BY <1>0, <1>1, <1>3
  <2>2. /\ SubSeq(whole, 1, wanted) \in Seq(Nat) /\ Len(SubSeq(whole, 1, wanted)) = wanted
        /\ \A i \in 1..wanted : SubSeq(whole, 1, wanted)[i] = whole[i]
    BY <1>1, <1>3
  <2>3. after = SubSeq(whole, wanted + 1, n)
    BY <1>0, <1>1, <2>1, <2>2
  <2>4. /\ SubSeq(whole, wanted + 1, n) \in Seq(Nat) /\ Len(SubSeq(whole, wanted + 1, n)) = n - wanted
        /\ \A i \in 1..(n - wanted) : SubSeq(whole, wanted + 1, n)[i] = whole[wanted + i]
    BY <1>1, <1>3
  <2>5. taken \in Seq(Nat) /\ after \in Seq(Nat) /\ Len(taken) = wanted /\ Len(after) = n - wanted
    BY <2>1, <2>2, <2>3, <2>4
  <2>a. PICK x, y \in Seq(Nat), m \in Nat :
          x = taken /\ y = after /\ m = n - wanted /\ Len(x) = wanted /\ Len(y) = m /\ wanted + m = n
    <3>1. n - wanted \in Nat /\ wanted + (n - wanted) = n
      BY <1>1, <1>3
    <3>2. QED
      BY <2>5, <3>1
  <2>6. PICK c \in Seq(Nat) : c = x \o y /\ Len(c) = n
    <3>1. x \o y \in Seq(Nat) /\ Len(x \o y) = wanted + m
      <4>1. Len(x \o y) = Len(x) + Len(y) /\ x \o y \in Seq(Nat)
        BY <2>a, ConcatParts
      <4>2. QED
        BY <2>a, <4>1
    <3>2. QED
      BY <2>a, <3>1
  <2>7. \A i \in 1..n : c[i] = whole[i]
    <3>1. SUFFICES ASSUME NEW i \in 1..n PROVE c[i] = whole[i]
      OBVIOUS
    <3>2. CASE i <= wanted
      <4>1. i \in 1..wanted
        BY <3>2
      <4>2. c[i] = taken[i]
        <5>1. \A e \in 1..Len(x) : (x \o y)[e] = x[e]
          BY ConcatParts, Zenon
        <5>2. QED
          BY <2>a, <2>6, <4>1, <5>1, Zenon
      <4>3. QED
        BY <2>1, <2>2, <4>1, <4>2
    <3>3. CASE ~(i <= wanted)
      <4>1. PICK j \in 1..(n - wanted) : i = wanted + j
        <5>1. i - wanted \in 1..(n - wanted) /\ i = wanted + (i - wanted)
          BY <1>1, <1>3, <3>3
        <5>2. QED
          BY <5>1
      <4>2. c[wanted + j] = after[j]
        <5>1. \A e \in 1..Len(y) : (x \o y)[Len(x) + e] = y[e]
          BY ConcatParts, Zenon
        <5>2. j \in 1..Len(y)
          BY <2>a
        <5>3. QED
          BY <2>a, <2>6, <5>1, <5>2, Zenon
      <4>3. QED
        BY <2>3, <2>4, <4>1, <4>2
    <3>4. QED
      BY <3>2, <3>3
  <2>8. c = whole
    BY <1>1, <2>6, <2>7, SeqEqual
  <2>9. QED
    <3>1. taken \o after = whole
      BY <2>a, <2>6, <2>8
    <3>2. Len(taken) <= wanted /\ Len(taken) = wanted
      BY <2>5
    <3>3. QED
      BY <2>5, <3>1, <3>2, Zenon
<1>4. /\ taken \in Seq(Nat) /\ after \in Seq(Nat) /\ taken \o after = whole
      /\ Len(taken) <= wanted /\ (Len(taken) # wanted => after = <<>>)
  BY <1>2, <1>3, Zenon
<1>5. QED
  BY <1>0, <1>4, Zenon

\* the packet p has been read, and u follows
Read(r, s, b0, z, p, u) ==
  /\ r \in Reader /\ r.rc = "complete"
  /\ Sound(r.b) /\ r.b.def_queue = DefQ /\ Others(b0, r.b, s) /\ Kept(r.b, s) = DefQ
  /\ r.header = p.header /\ r.data = Data(p) /\ r.left \o z = u

\* w and then z are the packet p and then u
BeginsWith(w, z, p, u) ==
  w \in Seq(Nat) /\ z \in Seq(Nat) /\ u \in Seq(Nat) /\ w \o z = Encoded(p) \o u
HeaderBytes(p) == <<p.header>> \o MQTTPacket_encode(p.length)

LEMMA EncodedParts ==
  ASSUME BaseTyped, NEW p \in Packet
  PROVE  /\ HeaderBytes(p) \in Seq(Nat) /\ Len(HeaderBytes(p)) = HeaderLength(p)
         /\ HeaderLength(p) \in Nat /\ HeaderLength(p) >= 2
         /\ Encoded(p) = HeaderBytes(p) \o Data(p)
<1>1. PICK e : e = MQTTPacket_encode(p.length) /\ e \in Seq(Nat) /\ Len(e) >= 1
  BY EncodeLength DEF Packet
<1>2. PICK x : x = <<p.header>> /\ x \in Seq(Nat) /\ Len(x) = 1
  <2>1. p.header \in Nat
    BY DEF Packet
  <2>2. <<p.header>> \in Seq(Nat) /\ Len(<<p.header>>) = 1
    BY <2>1
  <2>3. QED
    BY <2>2
<1>3. HeaderBytes(p) = x \o e /\ HeaderLength(p) = 1 + Len(e)
  BY <1>1, <1>2 DEF HeaderBytes, HeaderLength
<1>4. x \o e \in Seq(Nat) /\ Len(x \o e) = Len(x) + Len(e)
  BY <1>1, <1>2
<1>5. Encoded(p) = (x \o e) \o Data(p)
  BY <1>1, <1>2 DEF Encoded
<1>6. Len(e) \in Nat
  BY <1>1
<1>7. QED
  BY <1>1, <1>2, <1>3, <1>4, <1>5, <1>6

LEMMA DataReads ==
  ASSUME BaseTyped, NEW s \in Descriptor, NEW b0, NEW w, NEW z, NEW p \in Packet, NEW u,
         BeginsWith(w, z, p, u),
         NEW r, Decoded(r, s, b0, w, p), NEW r2, r2 = Socket_getdata(r, s, r.value)
  PROVE  \/ Ended(r2, s, b0, w, HeaderLength(p), p.length)
         \/ Failed(r2, s, b0)
         \/ Read(r2, s, b0, z, p, u)
<1>0. w \in Seq(Nat) /\ z \in Seq(Nat) /\ u \in Seq(Nat)
  BY DEF BeginsWith
<1>1. PICK b, m, f, d, l, n, h :
        /\ b = r.b /\ m = Mine(b, s) /\ f = m.fixed_header /\ d = m.data /\ l = r.left
        /\ n = p.length /\ h = HeaderLength(p)
  OBVIOUS
<1>2. /\ r \in Reader /\ r.rc = "complete" /\ r.header = p.header
      /\ Mid(b, s) /\ Others(b0, b, s) /\ m \in Queue /\ m.index = h
      /\ h <= Len(f) /\ Splits(m, l, w, h, n) /\ r.value = n
      /\ m = DefQ \/ m.socket = s
  BY <1>1, MineIs DEF Decoded, At
<1>3. /\ f \in Seq(Nat) /\ d \in Seq(Nat) /\ l \in Seq(Nat) /\ n \in Nat /\ r.header \in Nat
      /\ b \in Buffers /\ r.eof \in BOOLEAN
  BY <1>1, <1>2 DEF Queue, Reader, Packet
<1>4. h \in Nat /\ h >= 2 /\ HeaderBytes(p) \in Seq(Nat) /\ Len(HeaderBytes(p)) = h
      /\ Encoded(p) = HeaderBytes(p) \o Data(p)
  BY <1>1, EncodedParts
<1>5. m.socket = s
  <2>1. m # DefQ
    BY <1>2, <1>4, DefQType
  <2>2. QED
    BY <1>2, <2>1
<1>6. Len(f) = h /\ Len(d) <= n /\ f \o (d \o l) = w
  <2>1. Len(f) <= h /\ Len(d) <= n /\ f \o (d \o l) = w
    BY <1>1, <1>2 DEF Splits
  <2>2. Len(f) \in Nat
    BY <1>3
  <2>3. QED
    BY <1>2, <1>4, <2>1, <2>2
<1>7. Data(p) \in Seq(Nat) /\ Len(Data(p)) = n
  BY <1>1, DataType
<1>8. f = HeaderBytes(p) /\ d \o (l \o z) = Data(p) \o u
  <2>1. d \o l \in Seq(Nat) /\ l \o z \in Seq(Nat) /\ Data(p) \o u \in Seq(Nat)
        /\ d \o (l \o z) \in Seq(Nat) /\ z \in Seq(Nat)
    BY <1>0, <1>3, <1>7, ConcatParts
  <2>2. (f \o (d \o l)) \o z = f \o ((d \o l) \o z) /\ (d \o l) \o z = d \o (l \o z)
    <3>1. f \in Seq(Nat) /\ d \in Seq(Nat) /\ l \in Seq(Nat) /\ z \in Seq(Nat)
      BY <1>3, <2>1
    <3>2. (f \o (d \o l)) \o z = f \o ((d \o l) \o z)
      <4>1. PICK e \in Seq(Nat) : e = d \o l
        BY <2>1
      <4>2. (f \o e) \o z = f \o (e \o z)
        BY <3>1, <4>1, BytesConcat, ZenonT(60)
      <4>3. QED
        BY <4>1, <4>2
    <3>3. (d \o l) \o z = d \o (l \o z)
      BY <3>1, BytesConcat, Zenon
    <3>4. QED
      BY <3>2, <3>3
  <2>3. (HeaderBytes(p) \o Data(p)) \o u = HeaderBytes(p) \o (Data(p) \o u)
    BY <1>0, <1>4, <1>7, BytesConcat, Zenon
  <2>4. PICK c : c = f \o (d \o (l \o z)) /\ c = HeaderBytes(p) \o (Data(p) \o u)
    BY <1>4, <1>6, <2>2, <2>3 DEF BeginsWith
  <2>5. Len(f) = Len(HeaderBytes(p))
    BY <1>4, <1>6
  <2>6. f \in Seq(Nat) /\ HeaderBytes(p) \in Seq(Nat)
    BY <1>3, <1>4
  <2>7. QED
    <3>1. PICK y, t \in Seq(Nat) : /\ y = d \o (l \o z) /\ t = Data(p) \o u
                                   /\ c = f \o y /\ c = HeaderBytes(p) \o t
      BY <2>1, <2>4
    <3>2. f = HeaderBytes(p) /\ y = t
      <4>1. PICK x : x = HeaderBytes(p)
        OBVIOUS
      <4>2. c = f \o y /\ c = x \o t /\ Len(f) = Len(x)
        BY <2>5, <3>1, <4>1, Zenon
      <4>3. f \in Seq(Nat) /\ x \in Seq(Nat) /\ y \in Seq(Nat) /\ t \in Seq(Nat)
        BY <2>6, <3>1, <4>1
      <4>4. f = x /\ y = t
        BY <4>2, <4>3, SameBeginning, ZenonT(60)
      <4>5. QED
        BY <4>1, <4>4
    <3>3. QED
      BY <3>1, <3>2
<1>9. SocketBuffer_getQueuedData(b, s) = d
  <2>1. CASE QueueOf(b, s) = 0
    BY <1>1, <1>2, <2>1, MineIs DEF SocketBuffer_getQueuedData
  <2>2. CASE QueueOf(b, s) # 0
    BY <1>1, <1>2, <2>2, MineIs DEF SocketBuffer_getQueuedData
  <2>3. QED
    BY <2>1, <2>2
<1>10. PICK k, got, left, data :
         /\ k = n - Len(d) /\ got = (IF Len(l) < k THEN l ELSE SubSeq(l, 1, k))
         /\ left = SubSeq(l, Len(got) + 1, Len(l)) /\ data = d \o got
  OBVIOUS
<1>11. k \in Nat /\ Len(d) \in Nat /\ Len(d) + k = n
  BY <1>3, <1>6, <1>10
<1>12. /\ got \in Seq(Nat) /\ left \in Seq(Nat) /\ got \o left = l
       /\ Len(got) <= k /\ (Len(got) # k => left = <<>>)
  <2>1. l \in Seq(Nat) /\ k \in Nat
    BY <1>3, <1>11
  <2>2. got = Taken(l, k) /\ left = After(l, k)
    BY <1>10 DEF Taken, After
  <2>3. QED
    <3>1. /\ Taken(l, k) \in Seq(Nat) /\ After(l, k) \in Seq(Nat)
          /\ Taken(l, k) \o After(l, k) = l /\ Len(Taken(l, k)) <= k
          /\ Len(Taken(l, k)) # k => After(l, k) = <<>>
      BY <2>1, TakenAndLeft, Zenon
    <3>2. QED
      BY <2>2, <3>1, Zenon
<1>13. data \in Seq(Nat) /\ Len(data) = Len(d) + Len(got) /\ Len(got) \in Nat
  <2>1. d \in Seq(Nat) /\ got \in Seq(Nat) /\ data = d \o got
    BY <1>3, <1>10, <1>12
  <2>2. d \o got \in Seq(Nat) /\ Len(d \o got) = Len(d) + Len(got)
    BY <2>1, ConcatParts
  <2>3. Len(got) \in Nat
    BY <2>1
  <2>4. QED
    BY <2>1, <2>2, <2>3, Zenon
<1>14. data \o left = d \o l
  <2>1. d \in Seq(Nat) /\ got \in Seq(Nat) /\ left \in Seq(Nat)
    BY <1>3, <1>12
  <2>2. (d \o got) \o left = d \o (got \o left)
    BY <2>1, BytesConcat, Zenon
  <2>3. data = d \o got /\ got \o left = l
    BY <1>10, <1>12, Zenon
  <2>4. QED
    BY <2>2, <2>3, Zenon
<1> DEFINE rest == [r EXCEPT !.left = left, !.data = data]
<1>15. rest = [r EXCEPT !.left = SubSeq(@, Len(got) + 1, Len(@)), !.data = data]
  BY <1>1, <1>10
<1>16. /\ rest \in Reader /\ rest.b = b /\ rest.left = left /\ rest.data = data
       /\ rest.header = p.header
  BY <1>1, <1>2, <1>12, <1>13 DEF Reader
<1> HIDE DEF rest
<1>17. r2 = IF n # 0 /\ got = <<>> /\ r.eof THEN [r EXCEPT !.rc = "error"]
            ELSE IF n = 0 \/ Len(data) = n
            THEN [rest EXCEPT !.rc = "complete", !.b = SocketBuffer_complete(rest.b, s)]
            ELSE [rest EXCEPT !.rc = "interrupted", !.b = SocketBuffer_interrupted(rest.b, s, data)]
  BY <1>1, <1>2, <1>9, <1>10, <1>15 DEF Socket_getdata
<1>18. CASE n # 0 /\ got = <<>> /\ r.eof
  <2>1. r2 = [r EXCEPT !.rc = "error"]
    BY <1>17, <1>18
  <2>2. r2 \in Reader /\ r2.rc = "error" /\ r2.b = b
    BY <1>1, <1>2, <2>1 DEF Reader
  <2>3. QED
    BY <1>2, <2>2 DEF Failed, Mid
<1>19. CASE ~(n # 0 /\ got = <<>> /\ r.eof) /\ (n = 0 \/ Len(data) = n)
  <2>1. PICK b2 : b2 = SocketBuffer_complete(b, s)
    OBVIOUS
  <2>2. Sound(b2) /\ b2.def_queue = DefQ /\ Others(b, b2, s) /\ Kept(b2, s) = DefQ
    BY <1>2, <2>1, CompleteKeeps DEF Mid
  <2>3. r2 = [rest EXCEPT !.rc = "complete", !.b = b2]
    BY <1>16, <1>17, <1>19, <2>1
  <2>4. b2 \in Buffers
    BY <2>2 DEF Sound
  <2>5. /\ r2 \in Reader /\ r2.rc = "complete" /\ r2.b = b2 /\ r2.left = left /\ r2.data = data
        /\ r2.header = p.header
    BY <1>16, <2>3, <2>4 DEF Reader
  <2>6. Len(data) = n
    BY <1>11, <1>12, <1>13, <1>19
  <2>7. data = Data(p) /\ left \o z = u
    <3>1. data \o (left \o z) = d \o (l \o z)
      <4>1. (data \o left) \o z = data \o (left \o z) /\ (d \o l) \o z = d \o (l \o z)
        <5>1. data \in Seq(Nat) /\ left \in Seq(Nat) /\ z \in Seq(Nat)
              /\ d \in Seq(Nat) /\ l \in Seq(Nat)
          BY <1>0, <1>3, <1>12, <1>13
        <5>2. (data \o left) \o z = data \o (left \o z)
          BY <5>1, BytesConcat, ZenonT(60)
        <5>3. (d \o l) \o z = d \o (l \o z)
          BY <5>1, BytesConcat, SMTT(60)
        <5>4. QED
          BY <5>2, <5>3
      <4>2. QED
        BY <1>14, <4>1
    <3>2. PICK c : c = data \o (left \o z) /\ c = Data(p) \o u
      BY <1>8, <3>1
    <3>3. left \o z \in Seq(Nat) /\ Len(data) = Len(Data(p))
      BY <1>0, <1>7, <1>12, <2>6, ConcatParts
    <3>4. data \in Seq(Nat) /\ Data(p) \in Seq(Nat) /\ u \in Seq(Nat)
      BY <1>0, <1>7, <1>13
    <3>5. QED
      <4>1. PICK y \in Seq(Nat), t \in Seq(Nat) :
              y = left \o z /\ t = Data(p) /\ c = data \o y /\ c = t \o u /\ Len(data) = Len(t)
        BY <3>2, <3>3, <3>4
      <4>2. data = t /\ y = u
        <5>1. c = data \o y /\ c = t \o u /\ Len(data) = Len(t)
          BY <4>1, Zenon
        <5>2. data \in Seq(Nat) /\ y \in Seq(Nat) /\ t \in Seq(Nat) /\ u \in Seq(Nat)
          BY <3>4, <4>1
        <5>3. QED
          BY <5>1, <5>2, SameBeginning
      <4>3. QED
        BY <4>1, <4>2
  <2>8. Others(b0, b2, s)
    BY <1>2, <2>2, OthersTrans
  <2>9. Read(r2, s, b0, z, p, u)
    BY <2>2, <2>5, <2>7, <2>8 DEF Read
  <2>10. QED
    BY <2>9
<1>20. CASE ~(n # 0 /\ got = <<>> /\ r.eof) /\ ~(n = 0 \/ Len(data) = n)
  <2>1. PICK b2 : b2 = SocketBuffer_interrupted(b, s, data)
    OBVIOUS
  <2>2. Sound(b2) /\ b2.def_queue = DefQ /\ Others(b, b2, s) /\ KeptForLater(m, Kept(b2, s), s, data)
    <3>1. Mid(b, s) /\ data \in Seq(Nat)
      BY <1>2, <1>13
    <3>2. /\ Sound(SocketBuffer_interrupted(b, s, data))
          /\ SocketBuffer_interrupted(b, s, data).def_queue = DefQ
          /\ Others(b, SocketBuffer_interrupted(b, s, data), s)
          /\ KeptForLater(Mine(b, s), Kept(SocketBuffer_interrupted(b, s, data), s), s, data)
      BY <3>1, InterruptedKeeps
    <3>3. QED
      BY <1>1, <2>1, <3>2
  <2>3. PICK q : q = Kept(b2, s) /\ q.index = 0 /\ q.fixed_header = f /\ q.data = data
    BY <1>1, <1>5, <2>2 DEF KeptForLater
  <2>4. r2 = [rest EXCEPT !.rc = "interrupted", !.b = b2]
    BY <1>16, <1>17, <1>20, <2>1
  <2>5. b2 \in Buffers
    BY <2>2 DEF Sound
  <2>6. r2 \in Reader /\ r2.rc = "interrupted" /\ r2.b = b2 /\ r2.left = left
    BY <1>16, <2>4, <2>5 DEF Reader
  <2>7. Len(data) <= n
    BY <1>11, <1>12, <1>13
  <2>8. Splits(q, left, w, h, n)
    <3>1. q.fixed_header \o (q.data \o left) = w
      BY <1>6, <1>14, <2>3
    <3>2. Len(q.fixed_header) <= h /\ Len(q.fixed_header) = h /\ Len(q.data) <= n
      BY <1>4, <1>6, <2>3, <2>7
    <3>3. QED
      BY <3>1, <3>2 DEF Splits
  <2>9. Others(b0, b2, s)
    BY <1>2, <2>2, OthersTrans
  <2>10. Ended(r2, s, b0, w, h, n)
    BY <2>2, <2>3, <2>6, <2>8, <2>9 DEF Ended
  <2>11. QED
    BY <1>1, <2>10
<1>21. QED
  BY <1>3, <1>18, <1>19, <1>20

-----------------------------------------------------------------------------
(* MQTTPacket_Factory.  rest are the packets that the bytes to be read are, *)
(* and z the bytes that have not come.                                      *)

FirstHeader(rest) == IF rest = <<>> THEN 1 ELSE HeaderLength(Head(rest))
FirstData(rest) == IF rest = <<>> THEN 0 ELSE Head(rest).length
Holds(q, l, rest) == Splits(q, l, Stream(rest), FirstHeader(rest), FirstData(rest))

Joined(w, z, x) == w \in Seq(Nat) /\ z \in Seq(Nat) /\ w \o z = x

LEMMA SplitConcat ==
  ASSUME NEW q1 \in Queue, NEW l1 \in Seq(Nat), NEW z1 \in Seq(Nat)
  PROVE  /\ q1.fixed_header \o (q1.data \o l1) \in Seq(Nat)
         /\ (q1.fixed_header \o (q1.data \o l1)) \o z1 = q1.fixed_header \o (q1.data \o (l1 \o z1))
<1>1. PICK f, d : f = q1.fixed_header /\ d = q1.data /\ f \in Seq(Nat) /\ d \in Seq(Nat)
  BY DEF Queue
<1>2. PICK e : e = d \o l1 /\ e \in Seq(Nat)
  BY <1>1, ConcatParts
<1>a. /\ f \in Seq(Nat) /\ e \in Seq(Nat) /\ d \in Seq(Nat)
      /\ l1 \in Seq(Nat) /\ z1 \in Seq(Nat)
  BY <1>1, <1>2
<1>3. f \o e \in Seq(Nat)
  BY <1>1, <1>2
<1>4. (f \o e) \o z1 = f \o (e \o z1)
  BY <1>a, BytesConcat, ZenonT(60)
<1>5. (d \o l1) \o z1 = d \o (l1 \o z1)
  BY <1>a, BytesConcat, ZenonT(60)
<1>6. QED
  BY <1>1, <1>2, <1>3, <1>4, <1>5, Zenon

LEMMA SplitsLess ==
  ASSUME NEW q \in Queue, NEW l \in Seq(Nat), NEW z \in Seq(Nat), NEW x, NEW lh, NEW ld,
         Splits(q, l \o z, x, lh, ld)
  PROVE  \E w \in Seq(Nat) : Splits(q, l, w, lh, ld) /\ Joined(w, z, x)
<1>1. PICK w \in Seq(Nat) : w = q.fixed_header \o (q.data \o l)
  BY SplitConcat
<1>2. w \o z = q.fixed_header \o (q.data \o (l \o z))
  BY <1>1, SplitConcat, Zenon
<1>3. w \o z = x
  BY <1>2 DEF Splits
<1>4. Splits(q, l, w, lh, ld)
  BY <1>1 DEF Splits
<1>5. Joined(w, z, x)
  BY <1>3 DEF Joined
<1>6. QED
  BY <1>4, <1>5

LEMMA SplitsMore ==
  ASSUME NEW q \in Queue, NEW l \in Seq(Nat), NEW z \in Seq(Nat), NEW w, NEW lh, NEW ld,
         Splits(q, l, w, lh, ld)
  PROVE  Splits(q, l \o z, w \o z, lh, ld)
<1>1. w = q.fixed_header \o (q.data \o l)
  BY DEF Splits
<1>2. w \o z = q.fixed_header \o (q.data \o (l \o z))
  BY <1>1, SplitConcat, Zenon
<1>3. QED
  BY <1>2 DEF Splits

LEMMA NothingHeld ==
  ASSUME BaseTyped, NEW rest \in Seq(Packet)
  PROVE  Holds(DefQ, Stream(rest), rest)
<1>1. PICK x \in Seq(Nat) : x = Stream(rest)
  BY StreamProperties
<1>2. <<>> \o x = x
  BY ConcatEmptySeq
<1>3. DefQ.fixed_header \o (DefQ.data \o x) = x
  BY <1>2, DefQType
<1>4. FirstHeader(rest) \in Nat /\ FirstData(rest) \in Nat
  <2>1. CASE rest = <<>>
    BY <2>1 DEF FirstHeader, FirstData
  <2>2. CASE rest # <<>>
    <3>1. Head(rest) \in Packet
      BY <2>2
    <3>2. Head(rest).length \in Nat /\ HeaderLength(Head(rest)) \in Nat
      BY <3>1, EncodedParts DEF Packet
    <3>3. QED
      BY <2>2, <3>2 DEF FirstHeader, FirstData
  <2>3. QED
    BY <2>1, <2>2
<1>5. Len(DefQ.fixed_header) = 0 /\ Len(DefQ.data) = 0 /\ DefQ.data = <<>>
  BY DefQType
<1>6. QED
  BY <1>1, <1>3, <1>4, <1>5 DEF Holds, Splits

AfterHeader(w, z, p, u) ==
  w \o z = <<p.header>> \o (MQTTPacket_encode(p.length) \o (Data(p) \o u))

\* the first byte is the packet's
LEMMA FirstByte ==
  ASSUME BaseTyped, NEW rest \in Seq(Packet), NEW w, NEW z, Joined(w, z, Stream(rest)), Len(w) >= 1
  PROVE  /\ rest # <<>> /\ Head(rest) \in Packet /\ Tail(rest) \in Seq(Packet)
         /\ BeginsWith(w, z, Head(rest), Stream(Tail(rest)))
         /\ w[1] = Head(rest).header
         /\ AfterHeader(w, z, Head(rest), Stream(Tail(rest)))
<1>0. w \in Seq(Nat) /\ z \in Seq(Nat)
  BY DEF Joined
<1>1. rest # <<>>
  <2>1. ASSUME rest = <<>> PROVE FALSE
    <3>1. w \o z = <<>>
      BY <2>1, StreamProperties DEF Joined
    <3>2. Len(w \o z) = Len(w) + Len(z) /\ Len(w) \in Nat /\ Len(z) \in Nat
      BY <1>0, ConcatParts
    <3>3. Len(<<>>) = 0
      OBVIOUS
    <3>4. QED
      BY <3>1, <3>2, <3>3
  <2>2. QED
    BY <2>1
<1>2. PICK p, t : p = Head(rest) /\ t = Tail(rest) /\ p \in Packet /\ t \in Seq(Packet)
  <2>1. Head(rest) \in Packet /\ Tail(rest) \in Seq(Packet)
    BY <1>1
  <2>2. QED
    BY <2>1
<1>3. PICK u : u = Stream(t) /\ u \in Seq(Nat)
  BY <1>2, StreamProperties
<1>4. w \o z = Encoded(p) \o u
  BY <1>1, <1>2, <1>3, StreamProperties DEF Joined
<1>5. BeginsWith(w, z, p, u)
  BY <1>0, <1>3, <1>4 DEF BeginsWith
<1>6. PICK x, e, d : /\ x = <<p.header>> /\ e = MQTTPacket_encode(p.length) /\ d = Data(p)
                     /\ x \in Seq(Nat) /\ e \in Seq(Nat) /\ d \in Seq(Nat)
                     /\ Len(x) = 1 /\ x[1] = p.header
  <2>1. p.header \in Nat /\ p.length \in Nat
    BY <1>2 DEF Packet
  <2>2. <<p.header>> \in Seq(Nat) /\ Len(<<p.header>>) = 1 /\ <<p.header>>[1] = p.header
    BY <2>1
  <2>3. MQTTPacket_encode(p.length) \in Seq(Nat)
    BY <2>1, EncodeLength
  <2>4. Data(p) \in Seq(Nat)
    BY <1>2, DataType
  <2>5. QED
    BY <2>2, <2>3, <2>4
<1>7. PICK v : v = x \o (e \o (d \o u)) /\ v = w \o z /\ e \o (d \o u) \in Seq(Nat)
  <2>1. Encoded(p) = (x \o e) \o d
    BY <1>6 DEF Encoded
  <2>2. x \o e \in Seq(Nat) /\ d \o u \in Seq(Nat) /\ e \o (d \o u) \in Seq(Nat)
    BY <1>3, <1>6, ConcatParts
  <2>3. ((x \o e) \o d) \o u = (x \o e) \o (d \o u)
    <3>1. PICK y1, y2 : /\ y1 = x \o e /\ y1 \in Seq(Nat)
                        /\ y2 = d /\ y2 \in Seq(Nat) /\ u \in Seq(Nat)
      BY <1>3, <1>6, <2>2
    <3>2. (y1 \o y2) \o u = y1 \o (y2 \o u)
      BY <3>1, BytesConcat, Zenon
    <3>3. QED
      BY <3>1, <3>2
  <2>4. (x \o e) \o (d \o u) = x \o (e \o (d \o u))
    <3>1. PICK y1, y2, y3 : /\ y1 = x /\ y1 \in Seq(Nat) /\ y2 = e /\ y2 \in Seq(Nat)
                            /\ y3 = d \o u /\ y3 \in Seq(Nat)
      BY <1>6, <2>2
    <3>2. (y1 \o y2) \o y3 = y1 \o (y2 \o y3)
      BY <3>1, BytesConcat, ZenonT(60)
    <3>3. QED
      BY <3>1, <3>2
  <2>5. QED
    BY <1>4, <2>1, <2>2, <2>3, <2>4, Zenon
<1>8. w[1] = p.header
  <2>1. (w \o z)[1] = w[1]
    <3>1. 1 \in 1..Len(w)
      OBVIOUS
    <3>2. QED
      BY <1>0, <3>1, ConcatParts
  <2>2. (x \o (e \o (d \o u)))[1] = x[1]
    <3>1. 1 \in 1..Len(x)
      BY <1>6
    <3>2. QED
      BY <1>6, <1>7, <3>1, ConcatParts
  <2>3. QED
    BY <1>6, <1>7, <2>1, <2>2
<1>9. AfterHeader(w, z, p, u)
  BY <1>6, <1>7, Zenon DEF AfterHeader
<1>10. QED
  BY <1>1, <1>2, <1>3, <1>5, <1>8, <1>9, Zenon

\* what a reader has done, when z has not come
Outcome(r, s, z, rest) ==
  /\ r \in Reader /\ Sound(r.b) /\ Others(buffers, r.b, s)
  /\ \/ /\ r.rc = "complete" /\ rest # <<>>
        /\ Head(rest) \in Packet /\ r.header = Head(rest).header /\ r.data = Data(Head(rest))
        /\ r.b.def_queue = DefQ /\ Kept(r.b, s) = DefQ
        /\ r.left \o z = Stream(Tail(rest))
     \/ /\ r.rc = "interrupted" /\ r.b.def_queue = DefQ
        /\ Kept(r.b, s).index = 0 /\ Holds(Kept(r.b, s), r.left \o z, rest)
     \/ /\ r.rc = "error" /\ (r.b.def_queue = DefQ \/ r.b.def_queue.socket = s)

LEMMA EndedOutcome ==
  ASSUME NEW s \in Descriptor, NEW rest, NEW w, NEW z, Joined(w, z, Stream(rest)),
         NEW r, Ended(r, s, buffers, w, FirstHeader(rest), FirstData(rest))
  PROVE  Outcome(r, s, z, rest)
<1>1. /\ r \in Reader /\ r.rc = "interrupted"
      /\ Sound(r.b) /\ r.b.def_queue = DefQ /\ Others(buffers, r.b, s)
      /\ Kept(r.b, s).index = 0
      /\ Splits(Kept(r.b, s), r.left, w, FirstHeader(rest), FirstData(rest))
  BY DEF Ended
<1>2. Kept(r.b, s) \in Queue /\ r.left \in Seq(Nat) /\ z \in Seq(Nat)
  BY <1>1, KeptIs DEF Reader, Joined
<1>3. Splits(Kept(r.b, s), r.left \o z, w \o z, FirstHeader(rest), FirstData(rest))
  BY <1>1, <1>2, SplitsMore
<1>4. Holds(Kept(r.b, s), r.left \o z, rest)
  BY <1>3 DEF Holds, Joined
<1>5. QED
  BY <1>1, <1>4 DEF Outcome

LEMMA FactoryReads ==
  ASSUME BaseTyped, NEW s \in Descriptor, Sound(buffers), buffers.def_queue = DefQ,
         Kept(buffers, s).index = 0, NEW left \in Seq(Nat), NEW z \in Seq(Nat), NEW eof \in BOOLEAN,
         NEW rest \in Seq(Packet), Holds(Kept(buffers, s), left \o z, rest)
  PROVE  Outcome(MQTTPacket_Factory(s, left, eof), s, z, rest)
<1>1. PICK q : q = Kept(buffers, s) /\ q \in Queue /\ q.index = 0
  BY KeptIs
<1>2. PICK lh, ld : lh = FirstHeader(rest) /\ ld = FirstData(rest)
  OBVIOUS
<1>3. PICK w \in Seq(Nat) : Splits(q, left, w, lh, ld) /\ Joined(w, z, Stream(rest))
  <2>1. Splits(q, left \o z, Stream(rest), lh, ld)
    BY <1>1, <1>2 DEF Holds
  <2>2. \E w \in Seq(Nat) : Splits(q, left, w, lh, ld) /\ Joined(w, z, Stream(rest))
    <3>1. q \in Queue /\ left \in Seq(Nat) /\ z \in Seq(Nat)
      BY <1>1
    <3>2. QED
      BY <2>1, <3>1, SplitsLess
  <2>3. QED
    BY <2>2
<1>4. lh \in Nat /\ ld \in Nat /\ 0 < lh
  <2>1. CASE rest = <<>>
    BY <1>2, <2>1 DEF FirstHeader, FirstData
  <2>2. CASE rest # <<>>
    <3>1. Head(rest) \in Packet
      BY <2>2
    <3>2. PICK h \in Nat : h = HeaderLength(Head(rest)) /\ h >= 2 /\ Head(rest).length \in Nat
      BY <3>1, EncodedParts DEF Packet
    <3>3. QED
      BY <1>2, <2>2, <3>2 DEF FirstHeader, FirstData
  <2>3. QED
    BY <2>1, <2>2
<1> DEFINE start == [b |-> buffers, left |-> left, eof |-> eof, rc |-> "complete", c |-> 0,
                     value |-> 0, multiplier |-> 1, header |-> 0, data |-> <<>>]
<1>5. /\ start \in Reader /\ start.rc = "complete" /\ start.b = buffers /\ start.left = left
      /\ start.value = 0 /\ start.multiplier = 1
  <2>1. buffers \in Buffers /\ <<>> \in Seq(Nat)
    BY DEF Sound
  <2>2. QED
    BY <2>1 DEF Reader
<1> HIDE DEF start
<1>6. At(start, s, buffers, w, 0, lh, ld)
  <2>1. Mid(buffers, s) /\ Mine(buffers, s) = q
    BY <1>1, DefQType DEF Mid, Mine, Descriptor
  <2>2. Others(buffers, buffers, s)
    BY DEF Others
  <2>3. q.fixed_header \in Seq(Nat) /\ 0 <= Len(q.fixed_header)
    BY <1>1 DEF Queue
  <2>4. QueueOf(buffers, s) = 0 => Len(q.fixed_header) = 0
    BY <1>1, KeptIs, DefQType
  <2>5. QED
    BY <1>1, <1>3, <1>5, <2>1, <2>2, <2>3, <2>4 DEF At
<1>7. PICK first : first = Socket_getch(start, s)
  OBVIOUS
<1>8. \/ /\ At(first, s, buffers, w, 0 + 1, lh, ld) /\ SameButChar(start, first)
         /\ 0 + 1 <= Len(w) /\ first.c = w[0 + 1]
      \/ Ended(first, s, buffers, w, lh, ld)
      \/ Failed(first, s, buffers)
  <2>1. 0 \in Nat /\ lh \in Nat /\ ld \in Nat /\ 0 < lh /\ At(start, s, buffers, w, 0, lh, ld)
    BY <1>4, <1>6
  <2>2. QED
    BY <1>7, <2>1, GetchReads
<1> DEFINE header == [first EXCEPT !.header = first.c]
<1>9. PICK length : length = MQTTPacket_decode(header, s)
  OBVIOUS
<1>10. PICK r : r = MQTTPacket_Factory(s, left, eof)
  OBVIOUS
<1>11. r = IF first.rc # "complete" THEN first
           ELSE IF length.rc # "complete" THEN length ELSE Socket_getdata(length, s, length.value)
  BY <1>7, <1>9, <1>10 DEF MQTTPacket_Factory, start
<1>12. CASE Ended(first, s, buffers, w, lh, ld)
  <2>1. r = first
    BY <1>11, <1>12 DEF Ended
  <2>2. Ended(r, s, buffers, w, FirstHeader(rest), FirstData(rest))
    BY <1>2, <1>12, <2>1
  <2>3. QED
    BY <1>3, <1>10, <2>2, EndedOutcome
<1>13. CASE Failed(first, s, buffers)
  <2>1. r = first
    BY <1>11, <1>13 DEF Failed
  <2>2. QED
    BY <1>10, <1>13, <2>1 DEF Failed, Outcome
<1>14. CASE /\ At(first, s, buffers, w, 1, lh, ld) /\ SameButChar(start, first)
            /\ 1 <= Len(w) /\ first.c = w[1]
  <2>1. PICK p, u : /\ rest # <<>> /\ p = Head(rest) /\ p \in Packet
                    /\ u = Stream(Tail(rest)) /\ u \in Seq(Nat)
                    /\ BeginsWith(w, z, p, u) /\ w[1] = p.header
                    /\ AfterHeader(w, z, p, u)
    <3>1. Len(w) >= 1
      BY <1>14
    <3>2. /\ rest # <<>> /\ Head(rest) \in Packet /\ Tail(rest) \in Seq(Packet)
          /\ BeginsWith(w, z, Head(rest), Stream(Tail(rest)))
          /\ w[1] = Head(rest).header
          /\ AfterHeader(w, z, Head(rest), Stream(Tail(rest)))
      <4>1. Joined(w, z, Stream(rest))
        BY <1>3
      <4>2. QED
        BY <3>1, <4>1, FirstByte
    <3>3. Stream(Tail(rest)) \in Seq(Nat)
      BY <3>2, StreamProperties
    <3>4. QED
      BY <3>2, <3>3, Zenon
  <2>2. lh = HeaderLength(p) /\ ld = p.length
    BY <1>2, <2>1 DEF FirstHeader, FirstData
  <2>3. /\ header \in Reader /\ header.rc = first.rc /\ header.b = first.b /\ header.left = first.left
        /\ header.header = p.header /\ header.value = 0 /\ header.multiplier = 1
    <3>1. first \in Reader /\ first.c \in Nat
      BY <1>14 DEF At, Reader
    <3>2. first.value = 0 /\ first.multiplier = 1
      BY <1>5, <1>14 DEF SameButChar
    <3>3. first.c = p.header
      BY <1>14, <2>1
    <3>4. QED
      BY <3>1, <3>2, <3>3 DEF Reader
  <2> HIDE DEF header
  <2>4. At(header, s, buffers, w, 1, lh, ld)
    BY <1>14, <2>3, AtSame
  <2>5. ToDecode(header, s, buffers, w, z, p, u)
    <3>1. p.length \in Nat /\ p.header \in Nat
      BY <2>1 DEF Packet
    <3>2. <<p.header>> \in Seq(Nat) /\ Len(<<p.header>>) = 1
      BY <3>1
    <3>3. header.value + (header.multiplier * p.length) = p.length
      BY <2>3, <3>1
    <3>4. 1 + Len(MQTTPacket_encode(p.length)) = HeaderLength(p)
      BY DEF HeaderLength
    <3>a. w \o z = <<p.header>> \o (MQTTPacket_encode(p.length) \o (Data(p) \o u))
      BY <2>1, Zenon DEF AfterHeader
    <3>5. /\ 1 \in Nat /\ p.length \in Nat /\ <<p.header>> \in Seq(Nat)
          /\ At(header, s, buffers, w, 1, HeaderLength(p), p.length)
          /\ Len(<<p.header>>) = 1
          /\ w \o z = <<p.header>> \o (MQTTPacket_encode(p.length) \o (Data(p) \o u))
          /\ 1 + Len(MQTTPacket_encode(p.length)) = HeaderLength(p)
          /\ header.value + (header.multiplier * p.length) = p.length
          /\ header.header = p.header
      BY <2>2, <2>3, <2>4, <3>1, <3>2, <3>3, <3>4, <3>a, Zenon
    <3>6. QED
      BY <3>5, Zenon DEF ToDecode
  <2>6. \/ Ended(length, s, buffers, w, HeaderLength(p), p.length)
        \/ Failed(length, s, buffers)
        \/ Decoded(length, s, buffers, w, p)
    BY <1>9, <2>1, <2>5, DecodeReads
  <2>7. first.rc = "complete"
    BY <1>14 DEF At
  <2>8. CASE Ended(length, s, buffers, w, HeaderLength(p), p.length)
    <3>1. r = length
      BY <1>11, <2>7, <2>8 DEF Ended
    <3>2. Ended(r, s, buffers, w, FirstHeader(rest), FirstData(rest))
      BY <1>2, <2>2, <2>8, <3>1
    <3>3. QED
      BY <1>3, <1>10, <3>2, EndedOutcome
  <2>9. CASE Failed(length, s, buffers)
    <3>1. r = length
      BY <1>11, <2>7, <2>9 DEF Failed
    <3>2. QED
      BY <1>10, <2>9, <3>1 DEF Failed, Outcome
  <2>10. CASE Decoded(length, s, buffers, w, p)
    <3>1. r = Socket_getdata(length, s, length.value)
      BY <1>11, <2>7, <2>10 DEF Decoded, At
    <3>2. \/ Ended(r, s, buffers, w, HeaderLength(p), p.length)
          \/ Failed(r, s, buffers)
          \/ Read(r, s, buffers, z, p, u)
      BY <2>1, <2>10, <3>1, DataReads
    <3>3. CASE Ended(r, s, buffers, w, HeaderLength(p), p.length)
      <4>1. Ended(r, s, buffers, w, FirstHeader(rest), FirstData(rest))
        BY <1>2, <2>2, <3>3
      <4>2. QED
        BY <1>3, <1>10, <4>1, EndedOutcome
    <3>4. CASE Failed(r, s, buffers)
      BY <1>10, <3>4 DEF Failed, Outcome
    <3>5. CASE Read(r, s, buffers, z, p, u)
      BY <1>10, <2>1, <3>5 DEF Read, Outcome
    <3>6. QED
      BY <3>2, <3>3, <3>4, <3>5
  <2>11. QED
    BY <2>6, <2>8, <2>9, <2>10
<1>15. QED
  BY <1>8, <1>12, <1>13, <1>14

-----------------------------------------------------------------------------
(* The inductive invariant *)

Got(s) == FlattenSeq(PacketsOf(parsed[s]))
Makes(s, rest) == Got(s) \o Stream(rest) = Stream(traffic.in)

ReadTyped ==
  /\ traffic \in Traffic
  /\ open \subseteq Sockets /\ broken \subseteq open /\ write_pending \subseteq open
  /\ Sound(buffers)
  /\ incoming \in [Sockets -> Seq(Nat)] /\ parsed \in [Sockets -> Seq(Parsed)]
DefaultFree == buffers.def_queue = DefQ \/ buffers.def_queue.socket \in broken
NewUnread == \A s \in Sockets \ open : parsed[s] = <<>> /\ Kept(buffers, s) = DefQ
\* rest is what is not parsed, and it is what is saved and what is to come
RestHeld(s) ==
  /\ Kept(buffers, s).index = 0
  /\ \E rest \in Seq(Packet) : Makes(s, rest) /\ Holds(Kept(buffers, s), incoming[s], rest)
ReadInv == ReadTyped /\ DefaultFree /\ NewUnread /\ \A s \in open \ broken : RestHeld(s)

LEMMA InTraffic ==
  ASSUME traffic \in Traffic
  PROVE  BaseTyped /\ traffic.in \in Seq(Packet)
BY TrafficAssumption DEF BaseTyped, Packet

LEMMA SocketIsDescriptor == \A s \in Sockets : s \in Descriptor
BY SocketsAssumption DEF Descriptor

PacketBytes(x) == <<x.header>> \o MQTTPacket_encode(Len(x.data)) \o x.data

LEMMA PacketsType ==
  ASSUME BaseTyped, NEW ps \in Seq(Parsed)
  PROVE  /\ \A x \in Parsed : PacketBytes(x) \in Seq(Nat)
         /\ PacketsOf(ps) \in Seq(Seq(Nat)) /\ FlattenSeq(PacketsOf(ps)) \in Seq(Nat)
<1>1. ASSUME NEW x \in Parsed PROVE PacketBytes(x) \in Seq(Nat)
  <2>1. x.header \in Nat /\ x.data \in Seq(Nat) /\ Len(x.data) \in Nat
    BY DEF Parsed
  <2>2. PICK n \in Nat : n = Len(x.data)
    BY <2>1
  <2>3. MQTTPacket_encode(n) \in Seq(Nat)
    BY EncodeLength
  <2>4. <<x.header>> \in Seq(Nat)
    BY <2>1
  <2>5. PacketBytes(x) = <<x.header>> \o MQTTPacket_encode(n) \o x.data
    BY <2>2 DEF PacketBytes
  <2>6. QED
    BY <2>1, <2>3, <2>4, <2>5
<1>2. PacketsOf(ps) = [k \in 1..Len(ps) |-> PacketBytes(ps[k])]
  BY DEF PacketsOf, PacketBytes
<1>3. PacketsOf(ps) \in Seq(Seq(Nat))
  <2>1. \A k \in 1..Len(ps) : PacketBytes(ps[k]) \in Seq(Nat)
    BY <1>1
  <2>2. QED
    BY <1>2, <2>1
<1>4. QED
  BY <1>1, <1>3, FlattenType

LEMMA PacketsAppend ==
  ASSUME BaseTyped, NEW ps \in Seq(Parsed), NEW x \in Parsed
  PROVE  /\ Append(ps, x) \in Seq(Parsed)
         /\ FlattenSeq(PacketsOf(Append(ps, x))) = FlattenSeq(PacketsOf(ps)) \o PacketBytes(x)
<1>1. PICK n \in Nat : n = Len(ps)
  OBVIOUS
<1>2. PICK more \in Seq(Parsed) :
        /\ more = Append(ps, x) /\ Len(more) = n + 1 /\ more[n + 1] = x
        /\ \A k \in 1..n : more[k] = ps[k]
  <2>1. /\ Append(ps, x) \in Seq(Parsed) /\ Len(Append(ps, x)) = n + 1 /\ Append(ps, x)[n + 1] = x
        /\ \A k \in 1..n : Append(ps, x)[k] = ps[k]
    BY <1>1
  <2>2. QED
    BY <2>1
<1>3. /\ PacketsOf(more) \in Seq(Seq(Nat)) /\ Len(PacketsOf(more)) = n + 1
      /\ \A k \in 1..(n + 1) : PacketsOf(more)[k] = PacketBytes(more[k])
  <2>1. PacketsOf(more) = [k \in 1..(n + 1) |-> PacketBytes(more[k])]
    <3>1. DOMAIN more = 1..(n + 1)
      BY <1>2
    <3>2. PacketsOf(more) = [k \in DOMAIN more |-> PacketBytes(more[k])]
      BY DEF PacketsOf, PacketBytes
    <3>3. QED
      BY <3>1, <3>2
  <2>2. PacketsOf(more) \in Seq(Seq(Nat))
    BY <1>2, PacketsType
  <2>3. QED
    BY <2>1, <2>2
<1>4. /\ PacketsOf(ps) \in Seq(Seq(Nat)) /\ Len(PacketsOf(ps)) = n
      /\ \A k \in 1..n : PacketsOf(ps)[k] = PacketBytes(ps[k])
  <2>1. PacketsOf(ps) = [k \in 1..n |-> PacketBytes(ps[k])]
    BY <1>1 DEF PacketsOf, PacketBytes
  <2>2. PacketsOf(ps) \in Seq(Seq(Nat))
    BY PacketsType
  <2>3. QED
    BY <2>1, <2>2
<1>5. PICK y : y = PacketBytes(x) /\ y \in Seq(Nat)
  BY PacketsType
<1>6. PICK g \in Seq(Seq(Nat)) : /\ g = Append(PacketsOf(ps), y) /\ Len(g) = n + 1 /\ g[n + 1] = y
                                 /\ \A k \in 1..n : g[k] = PacketsOf(ps)[k]
  <2>1. PICK o \in Seq(Seq(Nat)) : o = PacketsOf(ps) /\ Len(o) = n
    BY <1>4
  <2>2. /\ Append(o, y) \in Seq(Seq(Nat)) /\ Len(Append(o, y)) = n + 1 /\ Append(o, y)[n + 1] = y
        /\ \A k \in 1..n : Append(o, y)[k] = o[k]
    BY <1>5, <2>1
  <2>3. QED
    BY <2>1, <2>2
<1>7. PacketsOf(more) = g
  <2>1. \A k \in 1..Len(g) : PacketsOf(more)[k] = g[k]
    <3>1. SUFFICES ASSUME NEW k \in 1..(n + 1) PROVE PacketsOf(more)[k] = g[k]
      BY <1>6
    <3>2. CASE k = n + 1
      BY <1>2, <1>3, <1>5, <1>6, <3>2
    <3>3. CASE k # n + 1
      <4>1. k \in 1..n
        BY <3>3
      <4>2. QED
        BY <1>2, <1>3, <1>4, <1>6, <4>1
    <3>4. QED
      BY <3>2, <3>3
  <2>2. Len(PacketsOf(more)) = Len(g)
    BY <1>3, <1>6
  <2>3. QED
    BY <1>3, <2>1, <2>2, SeqEqual
<1>8. FlattenSeq(g) = FlattenSeq(PacketsOf(ps)) \o y
  BY <1>4, <1>5, <1>6, FlattenAppend
<1>9. QED
  BY <1>2, <1>5, <1>7, <1>8

\* a packet that has been read was the first of those that were left
LEMMA OneParsed ==
  ASSUME BaseTyped, NEW ps \in Seq(Parsed), NEW rest \in Seq(Packet), rest # <<>>,
         NEW x, x = [header |-> Head(rest).header, data |-> Data(Head(rest))]
  PROVE  /\ x \in Parsed /\ Append(ps, x) \in Seq(Parsed) /\ Tail(rest) \in Seq(Packet)
         /\ FlattenSeq(PacketsOf(Append(ps, x))) \o Stream(Tail(rest))
              = FlattenSeq(PacketsOf(ps)) \o Stream(rest)
<1>1. PICK p, t : p = Head(rest) /\ t = Tail(rest) /\ p \in Packet /\ t \in Seq(Packet)
  <2>1. Head(rest) \in Packet /\ Tail(rest) \in Seq(Packet)
    OBVIOUS
  <2>2. QED
    BY <2>1
<1>2. Data(p) \in Seq(Nat) /\ Len(Data(p)) = p.length /\ p.header \in Nat
  BY <1>1, DataType DEF Packet
<1>3. x = [header |-> p.header, data |-> Data(p)]
  BY <1>1
<1>4. x \in Parsed /\ PacketBytes(x) = Encoded(p)
  <2>1. x \in Parsed /\ x.header = p.header /\ x.data = Data(p)
    BY <1>2, <1>3 DEF Parsed
  <2>2. PacketBytes(x) = <<p.header>> \o MQTTPacket_encode(p.length) \o Data(p)
    BY <1>2, <2>1 DEF PacketBytes
  <2>3. QED
    BY <2>1, <2>2 DEF Encoded
<1>5. PICK f, e, u : /\ f = FlattenSeq(PacketsOf(ps)) /\ e = Encoded(p) /\ u = Stream(t)
                     /\ f \in Seq(Nat) /\ e \in Seq(Nat) /\ u \in Seq(Nat)
  <2>1. FlattenSeq(PacketsOf(ps)) \in Seq(Nat)
    BY PacketsType
  <2>2. Encoded(p) \in Seq(Nat)
    BY <1>1, EncodedType
  <2>3. Stream(t) \in Seq(Nat)
    BY <1>1, StreamProperties
  <2>4. QED
    BY <2>1, <2>2, <2>3
<1>6. Stream(rest) = e \o u
  BY <1>1, <1>5, StreamProperties
<1>7. Append(ps, x) \in Seq(Parsed) /\ FlattenSeq(PacketsOf(Append(ps, x))) = f \o e
  BY <1>4, <1>5, PacketsAppend
<1>8. (f \o e) \o u = f \o (e \o u)
  <2>1. f \in Seq(Nat) /\ e \in Seq(Nat) /\ u \in Seq(Nat)
    BY <1>5
  <2>2. QED
    BY <2>1, BytesConcat, Zenon
<1>9. QED
  BY <1>1, <1>4, <1>5, <1>6, <1>7, <1>8, Zenon

LEMMA ReadInvWhole ==
  ASSUME ReadInv
  PROVE  ReadsWhole
<1>1. ReadTyped /\ BaseTyped
  BY InTraffic DEF ReadInv, ReadTyped
<1>2. SUFFICES ASSUME NEW s \in open \ broken
               PROVE  FlattenSeq(PacketsOf(parsed[s])) \o
                        (IF QueueOf(buffers, s) = 0 THEN <<>>
                         ELSE buffers.queues[QueueOf(buffers, s)].fixed_header \o
                              buffers.queues[QueueOf(buffers, s)].data) \o incoming[s]
                      = Stream(traffic.in)
  BY DEF ReadsWhole, PacketsOf
<1>3. s \in Sockets /\ s \in Descriptor
  BY <1>1, SocketIsDescriptor DEF ReadTyped
<1>4. PICK rest \in Seq(Packet) : Makes(s, rest) /\ Holds(Kept(buffers, s), incoming[s], rest)
  BY DEF ReadInv, RestHeld
<1>5. PICK k, f, d, l, o : /\ k = Kept(buffers, s) /\ k \in Queue /\ f = k.fixed_header /\ d = k.data
                           /\ l = incoming[s] /\ o = Got(s)
  BY <1>1, <1>3, KeptIs DEF ReadTyped
<1>6. /\ f \in Seq(Nat) /\ d \in Seq(Nat) /\ l \in Seq(Nat) /\ o \in Seq(Nat)
  BY <1>1, <1>3, <1>5, PacketsType DEF ReadTyped, Queue, Got
<1>7. f \o (d \o l) = Stream(rest)
  BY <1>4, <1>5 DEF Holds, Splits
<1>8. (IF QueueOf(buffers, s) = 0 THEN <<>>
       ELSE buffers.queues[QueueOf(buffers, s)].fixed_header \o
            buffers.queues[QueueOf(buffers, s)].data) = f \o d
  <2>1. CASE QueueOf(buffers, s) = 0
    <3>1. f = <<>> /\ d = <<>>
      BY <1>5, <2>1, DefQType DEF Kept
    <3>2. f \o d = <<>>
      BY <1>6, <3>1, ConcatEmptySeq
    <3>3. QED
      BY <2>1, <3>2
  <2>2. CASE QueueOf(buffers, s) # 0
    BY <1>5, <2>2 DEF Kept
  <2>3. QED
    BY <2>1, <2>2
<1>9. (o \o (f \o d)) \o l = o \o (f \o (d \o l))
  <2>1. PICK e : e = f \o d /\ e \in Seq(Nat)
    BY <1>6, ConcatParts
  <2>2. (o \o e) \o l = o \o (e \o l)
    BY <1>6, <2>1, BytesConcat, ZenonT(60)
  <2>3. (f \o d) \o l = f \o (d \o l)
    BY <1>6, BytesConcat, ZenonT(60)
  <2>4. QED
    BY <2>1, <2>2, <2>3, Zenon
<1>10. o \o (f \o (d \o l)) = Stream(traffic.in)
  BY <1>4, <1>5, <1>7 DEF Makes
<1>11. QED
  BY <1>5, <1>8, <1>9, <1>10 DEF Got

LEMMA DividedAt ==
  ASSUME NEW whole \in Seq(Nat), NEW i \in 0..Len(whole)
  PROVE  /\ SubSeq(whole, 1, i) \in Seq(Nat) /\ SubSeq(whole, i + 1, Len(whole)) \in Seq(Nat)
         /\ SubSeq(whole, 1, i) \o SubSeq(whole, i + 1, Len(whole)) = whole
<1>1. i \in Nat /\ ~(Len(whole) < i)
  OBVIOUS
<1>2. Taken(whole, i) = SubSeq(whole, 1, i)
  BY <1>1 DEF Taken
<1>3. Len(SubSeq(whole, 1, i)) = i
  OBVIOUS
<1>4. After(whole, i) = SubSeq(whole, i + 1, Len(whole))
  BY <1>2, <1>3 DEF After
<1>5. /\ Taken(whole, i) \in Seq(Nat) /\ After(whole, i) \in Seq(Nat)
      /\ Taken(whole, i) \o After(whole, i) = whole
  BY <1>1, TakenAndLeft, Zenon
<1>6. QED
  BY <1>2, <1>4, <1>5, Zenon

LEMMA GotSame ==
  ASSUME traffic' = traffic, NEW s
  PROVE  Got(s)' = FlattenSeq(PacketsOf(parsed'[s]))
<1>1. \A n : MQTTPacket_encode(n)' = MQTTPacket_encode(n)
  BY StreamSame
<1>2. PacketsOf(parsed[s])' = PacketsOf(parsed'[s])
  BY <1>1 DEF PacketsOf
<1>3. QED
  BY <1>2 DEF Got

\* what s holds afterwards, in terms of the traffic before
LEMMA RestHeldNext ==
  ASSUME traffic' = traffic, NEW s, NEW k, k = Kept(buffers', s), k.index = 0,
         NEW l, l = incoming'[s], NEW ps, ps = parsed'[s],
         NEW rest \in Seq(Packet), FlattenSeq(PacketsOf(ps)) \o Stream(rest) = Stream(traffic.in),
         Holds(k, l, rest)
  PROVE  RestHeld(s)'
<1>1. Got(s)' = FlattenSeq(PacketsOf(ps))
  BY GotSame
<1>2. Stream(rest)' = Stream(rest) /\ Stream(traffic.in)' = Stream(traffic.in)
  <2>1. \A x : Stream(x)' = Stream(x)
    BY StreamSame
  <2>2. Stream(traffic.in)' = Stream(traffic'.in)
    <3>1. \A n : MQTTPacket_encode(n)' = MQTTPacket_encode(n)
      BY StreamSame
    <3>2. QED
      BY <3>1 DEF Stream, Encoded, Data
  <2>3. QED
    BY <2>1, <2>2
<1>3. Makes(s, rest)'
  BY <1>1, <1>2 DEF Makes
<1>4. FirstHeader(rest)' = FirstHeader(rest) /\ FirstData(rest)' = FirstData(rest)
  BY StreamSame DEF FirstHeader, FirstData, HeaderLength
<1>5. Holds(Kept(buffers, s), incoming[s], rest)'
  BY <1>2, <1>4 DEF Holds
<1>6. QED
  BY <1>3, <1>5 DEF RestHeld

\* nothing happens to t
LEMMA RestHeldSame ==
  ASSUME traffic' = traffic, NEW t, RestHeld(t),
         Kept(buffers', t) = Kept(buffers, t), incoming'[t] = incoming[t], parsed'[t] = parsed[t]
  PROVE  RestHeld(t)'
<1>1. PICK rest \in Seq(Packet) : Makes(t, rest) /\ Holds(Kept(buffers, t), incoming[t], rest)
  BY DEF RestHeld
<1>2. PICK k, l, ps : k = Kept(buffers', t) /\ l = incoming'[t] /\ ps = parsed'[t]
  OBVIOUS
<1>3. k.index = 0 /\ Holds(k, l, rest)
  BY <1>1, <1>2 DEF RestHeld
<1>4. FlattenSeq(PacketsOf(ps)) \o Stream(rest) = Stream(traffic.in)
  BY <1>1, <1>2 DEF Makes, Got
<1>5. QED
  BY <1>2, <1>3, <1>4, RestHeldNext

LEMMA ReadStutters ==
  ASSUME ReadInv, UNCHANGED <<traffic, open, reading>>,
         broken \subseteq broken', broken' \subseteq open, write_pending' \subseteq open
  PROVE  ReadInv'
<1>1. /\ traffic' = traffic /\ open' = open /\ buffers' = buffers
      /\ incoming' = incoming /\ parsed' = parsed
  BY DEF reading
<1>2. ReadTyped'
  BY <1>1 DEF ReadInv, ReadTyped
<1>3. DefaultFree' /\ NewUnread'
  BY <1>1 DEF ReadInv, DefaultFree, NewUnread
<1>4. ASSUME NEW t \in open' \ broken' PROVE RestHeld(t)'
  <2>1. RestHeld(t)
    BY <1>1, <1>4 DEF ReadInv
  <2>2. QED
    BY <1>1, <2>1, RestHeldSame
<1>5. QED
  BY <1>2, <1>3, <1>4 DEF ReadInv

LEMMA InitReads ==
  ASSUME Init
  PROVE  ReadInv
<1>1. /\ open = {} /\ broken = {} /\ write_pending = {} /\ buffers = NewBuffers /\ traffic \in Traffic
      /\ incoming = [s \in Sockets |-> <<>>] /\ parsed = [s \in Sockets |-> <<>>]
  BY DEF Init
<1>2. buffers.def_queue = DefQ /\ buffers.queues = <<>> /\ buffers \in Buffers
  <2>1. <<>> \in Seq(Queue)
    OBVIOUS
  <2>2. QED
    BY <1>1, <2>1, DefQType DEF NewBuffers, Buffers
<1>3. Sound(buffers)
  BY <1>2 DEF Sound, OneQueue
<1>4. incoming \in [Sockets -> Seq(Nat)] /\ parsed \in [Sockets -> Seq(Parsed)]
  BY <1>1
<1>5. ReadTyped /\ DefaultFree
  BY <1>1, <1>2, <1>3, <1>4 DEF ReadTyped, DefaultFree
<1>6. NewUnread
  <2>1. ASSUME NEW s \in Sockets PROVE parsed[s] = <<>> /\ Kept(buffers, s) = DefQ
    <3>1. s \in Descriptor
      BY SocketIsDescriptor
    <3>2. \A i \in DOMAIN buffers.queues : FALSE
      BY <1>2
    <3>3. Kept(buffers, s) = DefQ
      BY <1>3, <3>1, <3>2, KeptIs
    <3>4. QED
      BY <1>1, <3>3
  <2>2. QED
    BY <2>1 DEF NewUnread
<1>7. QED
  BY <1>1, <1>5, <1>6 DEF ReadInv

LEMMA ReadPacketReads ==
  ASSUME ReadInv, "lateClose" \notin Faults, NEW s \in Sockets, ReadPacket(s)
  PROVE  ReadInv'
<1>t. ReadTyped /\ BaseTyped /\ traffic.in \in Seq(Packet) /\ s \in Descriptor
  BY InTraffic, SocketIsDescriptor DEF ReadInv, ReadTyped
<1>0. PICK n \in 0..Len(incoming[s]), eof \in BOOLEAN :
        /\ s \in open \ broken /\ broken = {}
        /\ buffers' = MQTTPacket_Factory(s, SubSeq(incoming[s], 1, n), eof).b
        /\ incoming' = [incoming EXCEPT ![s] =
                          MQTTPacket_Factory(s, SubSeq(incoming[s], 1, n), eof).left
                          \o SubSeq(@, n + 1, Len(@))]
        /\ parsed' = IF MQTTPacket_Factory(s, SubSeq(incoming[s], 1, n), eof).rc = "complete"
                     THEN [parsed EXCEPT ![s] =
                            Append(@, [header |-> MQTTPacket_Factory(s, SubSeq(incoming[s], 1, n), eof).header,
                                       data |-> MQTTPacket_Factory(s, SubSeq(incoming[s], 1, n), eof).data])]
                     ELSE parsed
        /\ broken' = IF MQTTPacket_Factory(s, SubSeq(incoming[s], 1, n), eof).rc = "error"
                     THEN broken \cup {s} ELSE broken
        /\ UNCHANGED <<traffic, open, opens, writing>>
  BY Zenon DEF ReadPacket
<1>r. PICK r : r = MQTTPacket_Factory(s, SubSeq(incoming[s], 1, n), eof)
  OBVIOUS
<1>1. /\ eof \in BOOLEAN
      /\ r = MQTTPacket_Factory(s, SubSeq(incoming[s], 1, n), eof)
      /\ n \in 0..Len(incoming[s]) /\ s \in open \ broken /\ broken = {}
      /\ buffers' = r.b
      /\ incoming' = [incoming EXCEPT ![s] =
                        r.left \o SubSeq(incoming[s], n + 1, Len(incoming[s]))]
      /\ parsed' = IF r.rc = "complete"
                   THEN [parsed EXCEPT ![s] =
                          Append(parsed[s], [header |-> r.header, data |-> r.data])]
                   ELSE parsed
      /\ broken' = IF r.rc = "error" THEN broken \cup {s} ELSE broken
      /\ traffic' = traffic /\ open' = open /\ write_pending' = write_pending
  <2>1. traffic' = traffic /\ open' = open /\ write_pending' = write_pending
    BY <1>0 DEF writing
  <2>2. /\ buffers' = r.b
        /\ incoming' = [incoming EXCEPT ![s] =
                          r.left \o SubSeq(incoming[s], n + 1, Len(incoming[s]))]
        /\ parsed' = IF r.rc = "complete"
                     THEN [parsed EXCEPT ![s] =
                            Append(parsed[s], [header |-> r.header, data |-> r.data])]
                     ELSE parsed
        /\ broken' = IF r.rc = "error" THEN broken \cup {s} ELSE broken
    BY <1>0, <1>r
  <2>3. n \in 0..Len(incoming[s]) /\ eof \in BOOLEAN /\ s \in open \ broken /\ broken = {}
    BY <1>0
  <2>4. QED
    BY <1>r, <2>1, <2>2, <2>3
<1>2. PICK inc, left, z : /\ inc = incoming[s] /\ left = SubSeq(inc, 1, n)
                          /\ z = SubSeq(inc, n + 1, Len(inc))
                          /\ inc \in Seq(Nat) /\ left \in Seq(Nat) /\ z \in Seq(Nat) /\ left \o z = inc
  <2>1. incoming[s] \in Seq(Nat)
    BY <1>t DEF ReadTyped
  <2>2. PICK inc \in Seq(Nat) : inc = incoming[s]
    BY <2>1
  <2>3. n \in 0..Len(inc)
    BY <1>1, <2>2
  <2>4. /\ SubSeq(inc, 1, n) \in Seq(Nat) /\ SubSeq(inc, n + 1, Len(inc)) \in Seq(Nat)
        /\ SubSeq(inc, 1, n) \o SubSeq(inc, n + 1, Len(inc)) = inc
    BY <2>3, DividedAt
  <2>5. QED
    BY <2>2, <2>4
<1>3. r = MQTTPacket_Factory(s, left, eof)
  BY <1>1, <1>2
<1>4. /\ buffers' = r.b /\ incoming' = [incoming EXCEPT ![s] = r.left \o z]
      /\ parsed' = IF r.rc = "complete"
                   THEN [parsed EXCEPT ![s] = Append(parsed[s], [header |-> r.header, data |-> r.data])]
                   ELSE parsed
      /\ broken' = IF r.rc = "error" THEN {s} ELSE {}
  BY <1>1, <1>2, <1>3
<1>5. PICK rest \in Seq(Packet) : Makes(s, rest) /\ Holds(Kept(buffers, s), left \o z, rest)
  BY <1>1, <1>2 DEF ReadInv, RestHeld
<1>6. Outcome(r, s, z, rest)
  <2>1. Sound(buffers) /\ buffers.def_queue = DefQ /\ Kept(buffers, s).index = 0
    BY <1>1, <1>t DEF ReadInv, ReadTyped, DefaultFree, RestHeld
  <2>2. left \in Seq(Nat) /\ z \in Seq(Nat) /\ eof \in BOOLEAN
    BY <1>1, <1>2
  <2>3. QED
    BY <1>t, <1>3, <1>5, <2>1, <2>2, FactoryReads
<1>7. r \in Reader /\ Sound(r.b) /\ Others(buffers, r.b, s)
  BY <1>6 DEF Outcome
<1>8. r.left \in Seq(Nat) /\ r.left \o z \in Seq(Nat) /\ r.data \in Seq(Nat) /\ r.header \in Nat
  <2>1. r.left \in Seq(Nat) /\ r.data \in Seq(Nat) /\ r.header \in Nat
    BY <1>7 DEF Reader
  <2>2. z \in Seq(Nat)
    BY <1>2
  <2>3. QED
    BY <2>1, <2>2, ConcatParts
<1>9. PICK v : v = r.left \o z /\ v \in Seq(Nat) /\ incoming' = [incoming EXCEPT ![s] = v] /\ incoming'[s] = v
  BY <1>4, <1>8, <1>t DEF ReadTyped
<1>10. \A t \in Sockets \ {s} : /\ Kept(buffers', t) = Kept(buffers, t)
                                /\ incoming'[t] = incoming[t] /\ parsed'[t] = parsed[t]
  BY <1>4, <1>7, <1>9, <1>t, SocketIsDescriptor DEF ReadTyped, Others
<1>11. ReadTyped'
  <2>1. incoming' \in [Sockets -> Seq(Nat)]
    BY <1>9, <1>t DEF ReadTyped
  <2>2. parsed' \in [Sockets -> Seq(Parsed)]
    <3>1. [header |-> r.header, data |-> r.data] \in Parsed
      BY <1>8 DEF Parsed
    <3>2. PICK x : x = [header |-> r.header, data |-> r.data] /\ x \in Parsed
      BY <3>1
    <3>3. parsed[s] \in Seq(Parsed)
      BY <1>t DEF ReadTyped
    <3>4. Append(parsed[s], x) \in Seq(Parsed)
      BY <3>2, <3>3
    <3>5. QED
      BY <1>4, <1>t, <3>2, <3>4 DEF ReadTyped
  <2>3. broken' \subseteq open' /\ Sound(buffers)'
    BY <1>1, <1>4, <1>7 DEF Sound, OneQueue
  <2>4. QED
    BY <1>1, <1>t, <2>1, <2>2, <2>3 DEF ReadTyped
<1>12. DefaultFree'
  BY <1>4, <1>6 DEF Outcome, DefaultFree
<1>13. NewUnread'
  <2>1. s \in open /\ open' = open
    BY <1>1
  <2>2. QED
    BY <1>10, <2>1 DEF ReadInv, NewUnread
<1>14. ASSUME NEW t \in open' \ broken', t # s PROVE RestHeld(t)'
  <2>1. t \in Sockets \ {s} /\ RestHeld(t)
    BY <1>1, <1>14, <1>t DEF ReadInv, ReadTyped
  <2>2. QED
    BY <1>1, <1>10, <2>1, RestHeldSame
<1>15. ASSUME s \in open' \ broken' PROVE RestHeld(s)'
  <2>1. r.rc # "error"
    BY <1>4, <1>15
  <2>2. PICK k, ps : k = Kept(buffers', s) /\ k = Kept(r.b, s) /\ ps = parsed'[s]
    BY <1>4
  <2>3. CASE r.rc = "complete"
    <3>1. /\ rest # <<>> /\ Head(rest) \in Packet
          /\ r.header = Head(rest).header /\ r.data = Data(Head(rest))
          /\ k = DefQ /\ v = Stream(Tail(rest))
      BY <1>6, <1>9, <2>2, <2>3 DEF Outcome
    <3>2. PICK x : x = [header |-> Head(rest).header, data |-> Data(Head(rest))]
      OBVIOUS
    <3>3. PICK qs : qs = parsed[s] /\ qs \in Seq(Parsed)
      BY <1>t DEF ReadTyped
    <3>4. ps = Append(qs, x)
      BY <1>4, <1>t, <2>2, <2>3, <3>1, <3>2, <3>3 DEF ReadTyped
    <3>5. /\ Tail(rest) \in Seq(Packet)
          /\ FlattenSeq(PacketsOf(ps)) \o Stream(Tail(rest)) = FlattenSeq(PacketsOf(qs)) \o Stream(rest)
      BY <1>t, <3>1, <3>2, <3>3, <3>4, OneParsed
    <3>6. FlattenSeq(PacketsOf(ps)) \o Stream(Tail(rest)) = Stream(traffic.in)
      BY <1>5, <3>3, <3>5 DEF Makes, Got
    <3>7. Holds(k, v, Tail(rest))
      BY <1>t, <3>1, <3>5, NothingHeld
    <3>8. k.index = 0
      BY <3>1, DefQType
    <3>9. QED
      BY <1>1, <1>9, <2>2, <3>5, <3>6, <3>7, <3>8, RestHeldNext
  <2>4. CASE r.rc = "interrupted"
    <3>1. k.index = 0 /\ Holds(k, v, rest)
      BY <1>6, <1>9, <2>2, <2>4 DEF Outcome
    <3>2. ps = parsed[s]
      BY <1>4, <2>2, <2>4
    <3>3. FlattenSeq(PacketsOf(ps)) \o Stream(rest) = Stream(traffic.in)
      BY <1>5, <3>2 DEF Makes, Got
    <3>4. QED
      BY <1>1, <1>9, <2>2, <3>1, <3>3, RestHeldNext
  <2>5. QED
    BY <1>7, <2>1, <2>3, <2>4 DEF Reader
<1>16. QED
  BY <1>11, <1>12, <1>13, <1>14, <1>15 DEF ReadInv

LEMMA NewConnectionReads ==
  ASSUME ReadInv, NEW s \in Sockets, Socket_new(s)
  PROVE  ReadInv'
<1>t. ReadTyped /\ BaseTyped /\ traffic.in \in Seq(Packet)
  BY InTraffic DEF ReadInv, ReadTyped
<1>1. /\ s \notin open /\ open' = open \cup {s} /\ traffic' = traffic /\ broken' = broken
      /\ buffers' = buffers /\ parsed' = parsed /\ write_pending' = write_pending
      /\ incoming' = [incoming EXCEPT ![s] = Stream(traffic.in)]
  BY DEF Socket_new, writing
<1>2. PICK v : v = Stream(traffic.in) /\ v \in Seq(Nat)
  BY <1>t, StreamProperties
<1>3. /\ incoming'[s] = v /\ incoming' \in [Sockets -> Seq(Nat)]
      /\ \A t \in Sockets \ {s} : incoming'[t] = incoming[t]
  BY <1>1, <1>2, <1>t DEF ReadTyped
<1>4. ReadTyped'
  BY <1>1, <1>3, <1>t DEF ReadTyped
<1>5. DefaultFree' /\ NewUnread'
  BY <1>1 DEF ReadInv, DefaultFree, NewUnread
<1>6. ASSUME NEW t \in open' \ broken', t # s PROVE RestHeld(t)'
  <2>1. t \in Sockets \ {s} /\ RestHeld(t)
    BY <1>1, <1>6, <1>t DEF ReadInv, ReadTyped
  <2>2. QED
    BY <1>1, <1>3, <2>1, RestHeldSame
<1>7. RestHeld(s)'
  <2>1. PICK k, ps, rest : /\ k = Kept(buffers', s) /\ ps = parsed'[s] /\ k = DefQ /\ ps = <<>>
                           /\ rest = traffic.in /\ rest \in Seq(Packet)
    BY <1>1, <1>t DEF ReadInv, NewUnread
  <2>2. Holds(k, v, rest)
    BY <1>t, <1>2, <2>1, NothingHeld
  <2>3. FlattenSeq(PacketsOf(ps)) \o Stream(rest) = Stream(traffic.in)
    <3>1. PacketsOf(<<>>) = <<>>
      BY DEF PacketsOf
    <3>2. <<>> \o v = v
      BY <1>2, ConcatEmptySeq
    <3>3. QED
      BY <1>2, <2>1, <3>1, <3>2, FlattenEmpty
  <2>4. k.index = 0
    BY <2>1, DefQType
  <2>5. QED
    BY <1>1, <1>3, <2>1, <2>2, <2>3, <2>4, RestHeldNext
<1>8. QED
  BY <1>4, <1>5, <1>6, <1>7 DEF ReadInv

LEMMA CloseReads ==
  ASSUME ReadInv, NEW s \in Sockets, Socket_close(s)
  PROVE  ReadInv'
<1>t. ReadTyped /\ s \in Descriptor
  BY SocketIsDescriptor DEF ReadInv
<1>1. /\ open' = open \ {s} /\ broken' = broken \ {s} /\ traffic' = traffic
      /\ write_pending' = write_pending \ {s}
      /\ buffers' = SocketBuffer_cleanup(buffers, s)
      /\ incoming' = [incoming EXCEPT ![s] = <<>>] /\ parsed' = [parsed EXCEPT ![s] = <<>>]
  BY DEF Socket_close
<1>2. PICK b2 : b2 = buffers' /\ b2 = SocketBuffer_cleanup(buffers, s)
  BY <1>1
<1>3. /\ Sound(b2) /\ Others(buffers, b2, s) /\ Kept(b2, s) = DefQ
      /\ b2.def_queue = IF buffers.def_queue.socket = s THEN DefQ ELSE buffers.def_queue
  BY <1>2, <1>t, CleanupKeeps DEF ReadTyped
<1>4. /\ \A t \in Sockets \ {s} : /\ Kept(buffers', t) = Kept(buffers, t)
                                  /\ incoming'[t] = incoming[t] /\ parsed'[t] = parsed[t]
      /\ parsed'[s] = <<>>
  BY <1>1, <1>2, <1>3, <1>t, SocketIsDescriptor DEF ReadTyped, Others
<1>5. ReadTyped'
  <2>1. <<>> \in Seq(Nat) /\ <<>> \in Seq(Parsed)
    OBVIOUS
  <2>2. incoming' \in [Sockets -> Seq(Nat)] /\ parsed' \in [Sockets -> Seq(Parsed)]
    BY <1>1, <1>t, <2>1 DEF ReadTyped
  <2>3. Sound(buffers)'
    BY <1>2, <1>3 DEF Sound, OneQueue
  <2>4. QED
    BY <1>1, <1>t, <2>2, <2>3 DEF ReadTyped
<1>6. DefaultFree'
  BY <1>1, <1>2, <1>3 DEF ReadInv, DefaultFree
<1>7. NewUnread'
  BY <1>1, <1>2, <1>3, <1>4 DEF ReadInv, NewUnread
<1>8. ASSUME NEW t \in open' \ broken' PROVE RestHeld(t)'
  <2>1. t \in Sockets \ {s} /\ RestHeld(t)
    BY <1>1, <1>8, <1>t DEF ReadInv, ReadTyped
  <2>2. QED
    BY <1>1, <1>4, <2>1, RestHeldSame
<1>9. QED
  BY <1>5, <1>6, <1>7, <1>8 DEF ReadInv

LEMMA NextReads ==
  ASSUME ReadInv, [Next]_vars, "lateClose" \notin Faults
  PROVE  ReadInv'
<1>1. broken \subseteq open /\ write_pending \subseteq open
  BY DEF ReadInv, ReadTyped
<1>2. CASE UNCHANGED vars
  <2>1. UNCHANGED <<traffic, open, reading>> /\ broken' = broken /\ write_pending' = write_pending
    BY <1>2 DEF vars, writing
  <2>2. QED
    BY <1>1, <2>1, ReadStutters
<1>3. ASSUME NEW s \in Sockets, Socket_putdatas(s) PROVE ReadInv'
  <2>1. /\ UNCHANGED <<traffic, open, reading>> /\ s \in open
        /\ broken' = broken \/ broken' = broken \cup {s}
        /\ write_pending' = write_pending \/ write_pending' = write_pending \cup {s}
    BY <1>3 DEF Socket_putdatas, writing
  <2>2. QED
    BY <1>1, <2>1, ReadStutters
<1>4. ASSUME NEW s \in Sockets, Socket_continueWrite(s) PROVE ReadInv'
  <2>1. /\ UNCHANGED <<traffic, open, reading>> /\ s \in write_pending
        /\ broken' = broken \/ broken' = broken \cup {s}
        /\ write_pending' = write_pending \/ write_pending' = write_pending \ {s}
    BY <1>4 DEF Socket_continueWrite
  <2>2. QED
    BY <1>1, <2>1, ReadStutters
<1>5. QED
  BY <1>2, <1>3, <1>4, ReadPacketReads, NewConnectionReads, CloseReads DEF Next

\* Whatever the pieces in which bytes come, whatever was read before on the same descriptor
\* or at the same time on another: the packets that have been parsed, what is saved in
\* SocketBuffer and what is still to be read are the packets that the peer sent, each once
\* and in order (MQTTPacket_Factory, Socket_getch, Socket_getdata), as long as no packet is
\* read between an error on a connection and its closing.
THEOREM ReadsWholeCorrect == "lateClose" \notin Faults => (Spec => []ReadsWhole)
<1>1. SUFFICES ASSUME "lateClose" \notin Faults PROVE Spec => []ReadsWhole
  OBVIOUS
<1>2. Init => ReadInv
  BY InitReads
<1>3. ReadInv /\ [Next]_vars => ReadInv'
  BY <1>1, NextReads
<1>4. ReadInv => ReadsWhole
  BY ReadInvWhole
<1>5. QED
  BY <1>2, <1>3, <1>4, PTL DEF Spec
==============================================================================
