--------------------------- MODULE LinkedListProofs ---------------------------
(***************************************************************************)
(* Theorems about LinkedList, for any addresses, setups and calls.         *)
(***************************************************************************)
EXTENDS LinkedList, FiniteSetTheorems, WellFoundedInduction, TLAPS

-----------------------------------------------------------------------------
(* Induction over numbers, by the least element of a set of them           *)

LessNat == {p \in Nat \X Nat : p[1] < p[2]}

LEMMA LeastNumber ==
  ASSUME NEW T, T \subseteq Nat, T # {}
  PROVE  \E x \in T : \A y \in T : x <= y
<1>1. IsWellFoundedOn(LessNat, Nat)
  BY NatLessThanWellFounded DEF LessNat, OpToRel
<1>2. \E x \in T : \A y \in T : ~ (<<y, x>> \in LessNat)
  BY <1>1, WFMin
<1>3. PICK x \in T : \A y \in T : ~ (<<y, x>> \in LessNat)
  BY <1>2
<1>4. ASSUME NEW y \in T PROVE x <= y
  <2>1. x \in Nat /\ y \in Nat
    OBVIOUS
  <2>2. <<y, x>> \in LessNat <=> y < x
    BY <2>1 DEF LessNat
  <2>3. QED
    BY <1>3, <2>1, <2>2
<1>5. QED
  BY <1>4

LEMMA Induction ==
  ASSUME NEW T, 0 \in T, \A n \in Nat : n \in T => n + 1 \in T
  PROVE  Nat \subseteq T
<1>1. SUFFICES ASSUME Nat \ T # {} PROVE FALSE
  OBVIOUS
<1>2. PICK x \in Nat \ T : \A y \in Nat \ T : x <= y
  BY <1>1, LeastNumber
<1>3. x - 1 \in Nat /\ x - 1 \in T
  BY <1>2
<1>4. QED
  BY <1>2, <1>3

LEMMA MinProperties ==
  ASSUME NEW T, T \subseteq Nat, T # {}
  PROVE  Min(T) \in T /\ \A y \in T : Min(T) <= y
<1>1. \E x \in T : \A y \in T : x <= y
  BY LeastNumber
<1>2. QED
  BY <1>1 DEF Min

-----------------------------------------------------------------------------
(* The links of a list whose elements are, in order, those of c *)

At(c, k) == IF k \in DOMAIN c THEN c[k] ELSE NULL

IsList(l) ==
  l = [first |-> l.first, last |-> l.last, current |-> l.current, count |-> l.count,
       elements |-> l.elements]

Linked(l, c) ==
  /\ IsList(l)
  /\ c \in Seq(Nat \ {0}) /\ \A i, j \in DOMAIN c : c[i] = c[j] => i = j
  /\ DOMAIN l.elements = {c[i] : i \in DOMAIN c}
  /\ l.count = Len(c) /\ l.first = At(c, 1) /\ l.last = At(c, Len(c))
  /\ \A k \in DOMAIN c :
       l.elements[c[k]] = Element(l.elements[c[k]].content, At(c, k - 1), At(c, k + 1))

\* what is at a after the two pointers at a place of the list have been set
Relinked(l, p, n, q, m, a) ==
  Element(l.elements[a].content,
          IF a = q THEN m ELSE l.elements[a].prev, IF a = p THEN n ELSE l.elements[a].next)

IsElement(e) == e = Element(e.content, e.prev, e.next)

LEMMA SetNextIs ==
  ASSUME NEW l, IsList(l), \A a \in DOMAIN l.elements : IsElement(l.elements[a]),
         NULL \notin DOMAIN l.elements,
         NEW p \in DOMAIN l.elements \cup {NULL}, NEW n
  PROVE  LET r == SetNext(l, p, n)
         IN  /\ IsList(r) /\ r.count = l.count /\ r.current = l.current /\ r.last = l.last
             /\ DOMAIN r.elements = DOMAIN l.elements
             /\ r.first = IF p = NULL THEN n ELSE l.first
             /\ \A a \in DOMAIN l.elements :
                  r.elements[a] = Element(l.elements[a].content, l.elements[a].prev,
                                          IF a = p THEN n ELSE l.elements[a].next)
<1> DEFINE r == SetNext(l, p, n)
<1>1. CASE p = NULL
  <2>1. r = [l EXCEPT !.first = n]
    BY <1>1 DEF SetNext
  <2>2. /\ r = [first |-> n, last |-> l.last, current |-> l.current, count |-> l.count,
                elements |-> l.elements]
    BY <2>1 DEF IsList
  <2>3. \A a \in DOMAIN l.elements : a # p
    BY <1>1
  <2>4. QED
    BY <1>1, <2>2, <2>3 DEF IsList, IsElement
<1>2. CASE p # NULL
  <2>1. r = [l EXCEPT !.elements = [l.elements EXCEPT ![p] = [l.elements[p] EXCEPT !.next = n]]]
    BY <1>2 DEF SetNext
  <2>2. r = [first |-> l.first, last |-> l.last, current |-> l.current, count |-> l.count,
             elements |-> [l.elements EXCEPT ![p] = [l.elements[p] EXCEPT !.next = n]]]
    BY <2>1 DEF IsList
  <2>3. ASSUME NEW a \in DOMAIN l.elements
        PROVE  r.elements[a] = Element(l.elements[a].content, l.elements[a].prev,
                                       IF a = p THEN n ELSE l.elements[a].next)
    <3>1. CASE a = p
      <4>1. r.elements[a] = [l.elements[a] EXCEPT !.next = n]
        BY <2>2, <3>1
      <4>2. QED
        BY <3>1, <4>1 DEF IsElement, Element
    <3>2. CASE a # p
      <4>1. r.elements[a] = l.elements[a]
        BY <2>2, <3>2
      <4>2. QED
        BY <3>2, <4>1 DEF IsElement
    <3>3. QED
      BY <3>1, <3>2
  <2>4. QED
    BY <1>2, <2>2, <2>3 DEF IsList
<1>3. QED
  BY <1>1, <1>2

LEMMA SetPrevIs ==
  ASSUME NEW l, IsList(l), \A a \in DOMAIN l.elements : IsElement(l.elements[a]),
         NULL \notin DOMAIN l.elements,
         NEW p \in DOMAIN l.elements \cup {NULL}, NEW n
  PROVE  LET r == SetPrev(l, p, n)
         IN  /\ IsList(r) /\ r.count = l.count /\ r.current = l.current /\ r.first = l.first
             /\ DOMAIN r.elements = DOMAIN l.elements
             /\ r.last = IF p = NULL THEN n ELSE l.last
             /\ \A a \in DOMAIN l.elements :
                  r.elements[a] = Element(l.elements[a].content,
                                          IF a = p THEN n ELSE l.elements[a].prev,
                                          l.elements[a].next)
<1> DEFINE r == SetPrev(l, p, n)
<1>1. CASE p = NULL
  <2>1. r = [l EXCEPT !.last = n]
    BY <1>1 DEF SetPrev
  <2>2. /\ r = [first |-> l.first, last |-> n, current |-> l.current, count |-> l.count,
                elements |-> l.elements]
    BY <2>1 DEF IsList
  <2>3. \A a \in DOMAIN l.elements : a # p
    BY <1>1
  <2>4. QED
    BY <1>1, <2>2, <2>3 DEF IsList, IsElement
<1>2. CASE p # NULL
  <2>1. r = [l EXCEPT !.elements = [l.elements EXCEPT ![p] = [l.elements[p] EXCEPT !.prev = n]]]
    BY <1>2 DEF SetPrev
  <2>2. r = [first |-> l.first, last |-> l.last, current |-> l.current, count |-> l.count,
             elements |-> [l.elements EXCEPT ![p] = [l.elements[p] EXCEPT !.prev = n]]]
    BY <2>1 DEF IsList
  <2>3. ASSUME NEW a \in DOMAIN l.elements
        PROVE  r.elements[a] = Element(l.elements[a].content,
                                       IF a = p THEN n ELSE l.elements[a].prev,
                                       l.elements[a].next)
    <3>1. CASE a = p
      <4>1. r.elements[a] = [l.elements[a] EXCEPT !.prev = n]
        BY <2>2, <3>1
      <4>2. QED
        BY <3>1, <4>1 DEF IsElement, Element
    <3>2. CASE a # p
      <4>1. r.elements[a] = l.elements[a]
        BY <2>2, <3>2
      <4>2. QED
        BY <3>2, <4>1 DEF IsElement
    <3>3. QED
      BY <3>1, <3>2
  <2>4. QED
    BY <1>2, <2>2, <2>3 DEF IsList
<1>3. QED
  BY <1>1, <1>2

LEMMA LinkedElements ==
  ASSUME NEW l, NEW c, Linked(l, c)
  PROVE  /\ \A a \in DOMAIN l.elements : IsElement(l.elements[a])
         /\ NULL \notin DOMAIN l.elements /\ IsList(l)
<1>1. ASSUME NEW a \in DOMAIN l.elements PROVE IsElement(l.elements[a]) /\ a # NULL
  <2>1. PICK k \in DOMAIN c : a = c[k]
    BY DEF Linked
  <2>2. l.elements[a] = Element(l.elements[a].content, At(c, k - 1), At(c, k + 1))
    BY <2>1 DEF Linked
  <2>3. IsElement(l.elements[a])
    BY <2>2 DEF IsElement, Element
  <2>4. c[k] \in Nat \ {0}
    BY DEF Linked
  <2>5. QED
    BY <2>1, <2>3, <2>4 DEF NULL
<1>2. QED
  BY <1>1 DEF Linked

LEMMA AtIsElement ==
  ASSUME NEW l, NEW c, Linked(l, c), NEW k
  PROVE  At(c, k) \in DOMAIN l.elements \cup {NULL}
BY DEF Linked, At

\* the place of an element, or the end
LEMMA PlaceOf ==
  ASSUME NEW l, NEW c, Linked(l, c), NEW a \in DOMAIN l.elements \cup {NULL}
  PROVE  \E i \in 1..(Len(c) + 1) : a = At(c, i)
<1>1. c \in Seq(Nat \ {0})
  BY DEF Linked
<1>2. CASE a = NULL
  <2>1. Len(c) + 1 \notin DOMAIN c /\ Len(c) + 1 \in 1..(Len(c) + 1)
    BY <1>1
  <2>2. QED
    BY <1>2, <2>1 DEF At
<1>3. CASE a \in DOMAIN l.elements
  <2>1. PICK i \in DOMAIN c : a = c[i]
    BY <1>3 DEF Linked
  <2>2. i \in 1..(Len(c) + 1)
    BY <1>1
  <2>3. QED
    BY <2>1, <2>2 DEF At
<1>4. QED
  BY <1>2, <1>3

\* what the two settings of a pointer do together
LEMMA RelinkedIs ==
  ASSUME NEW l, IsList(l), \A a \in DOMAIN l.elements : IsElement(l.elements[a]),
         NULL \notin DOMAIN l.elements,
         NEW p \in DOMAIN l.elements \cup {NULL}, NEW q \in DOMAIN l.elements \cup {NULL},
         NEW n, NEW m
  PROVE  LET r == SetPrev(SetNext(l, p, n), q, m)
         IN  /\ IsList(r) /\ r.count = l.count /\ r.current = l.current
             /\ DOMAIN r.elements = DOMAIN l.elements
             /\ r.first = (IF p = NULL THEN n ELSE l.first)
             /\ r.last = (IF q = NULL THEN m ELSE l.last)
             /\ \A a \in DOMAIN l.elements : r.elements[a] = Relinked(l, p, n, q, m, a)
<1>1. PICK s : s = SetNext(l, p, n)
  OBVIOUS
<1>2. /\ IsList(s) /\ s.count = l.count /\ s.current = l.current /\ s.last = l.last
      /\ DOMAIN s.elements = DOMAIN l.elements
      /\ s.first = IF p = NULL THEN n ELSE l.first
      /\ \A a \in DOMAIN l.elements :
           s.elements[a] = Element(l.elements[a].content, l.elements[a].prev,
                                   IF a = p THEN n ELSE l.elements[a].next)
  BY <1>1, SetNextIs
<1>3. ASSUME NEW a \in DOMAIN l.elements
      PROVE  /\ IsElement(s.elements[a]) /\ s.elements[a].content = l.elements[a].content
             /\ s.elements[a].prev = l.elements[a].prev
             /\ s.elements[a].next = IF a = p THEN n ELSE l.elements[a].next
  <2>1. PICK c, v, x : /\ c = l.elements[a].content /\ v = l.elements[a].prev
                       /\ x = IF a = p THEN n ELSE l.elements[a].next
    OBVIOUS
  <2>2. s.elements[a] = [content |-> c, prev |-> v, next |-> x]
    BY <1>2, <2>1 DEF Element
  <2>3. QED
    BY <2>1, <2>2 DEF IsElement, Element
<1>4. PICK r : r = SetPrev(s, q, m)
  OBVIOUS
<1>5. /\ \A a \in DOMAIN s.elements : IsElement(s.elements[a])
      /\ NULL \notin DOMAIN s.elements /\ q \in DOMAIN s.elements \cup {NULL}
  BY <1>2, <1>3
<1>6. /\ IsList(r) /\ r.count = s.count /\ r.current = s.current /\ r.first = s.first
      /\ DOMAIN r.elements = DOMAIN s.elements
      /\ r.last = IF q = NULL THEN m ELSE s.last
      /\ \A a \in DOMAIN s.elements :
           r.elements[a] = Element(s.elements[a].content, IF a = q THEN m ELSE s.elements[a].prev,
                                   s.elements[a].next)
  BY <1>2, <1>4, <1>5, SetPrevIs
<1>7. \A a \in DOMAIN l.elements : r.elements[a] = Relinked(l, p, n, q, m, a)
  BY <1>2, <1>3, <1>6 DEF Relinked
<1>8. QED
  BY <1>1, <1>2, <1>4, <1>6, <1>7

-----------------------------------------------------------------------------
(* An element put before the place i, and the element at i taken out *)

Inserted(c, i, x) ==
  [k \in 1..(Len(c) + 1) |-> IF k < i THEN c[k] ELSE IF k = i THEN x ELSE c[k - 1]]
Without(c, i) == [k \in 1..(Len(c) - 1) |-> IF k < i THEN c[k] ELSE c[k + 1]]

IsInserted(d, c, i, x) ==
  /\ Len(d) = Len(c) + 1
  /\ {d[k] : k \in DOMAIN d} = {c[k] : k \in DOMAIN c} \cup {x}
  /\ \A k \in Nat : k < i => At(d, k) = At(c, k)
  /\ At(d, i) = x
  /\ \A k \in Nat : k > i => At(d, k) = At(c, k - 1)
IsWithout(d, c, i) ==
  /\ Len(d) = Len(c) - 1
  /\ {d[k] : k \in DOMAIN d} = {c[k] : k \in DOMAIN c} \ {c[i]}
  /\ \A k \in Nat : k < i => At(d, k) = At(c, k)
  /\ \A k \in Nat : k >= i => At(d, k) = At(c, k + 1)

LEMMA InsertedAt ==
  ASSUME NEW S, NEW c \in Seq(S), NEW i \in 1..(Len(c) + 1), NEW x \in S
  PROVE  Inserted(c, i, x) \in Seq(S) /\ IsInserted(Inserted(c, i, x), c, i, x)
<1> DEFINE d == Inserted(c, i, x)
<1>1. d \in Seq(S) /\ Len(d) = Len(c) + 1 /\ DOMAIN d = 1..(Len(c) + 1)
  <2>1. \A k \in 1..(Len(c) + 1) : d[k] \in S
    BY DEF Inserted
  <2>2. d = [k \in 1..(Len(c) + 1) |-> d[k]] /\ Len(c) + 1 \in Nat
    BY DEF Inserted
  <2>3. QED
    BY <2>1, <2>2
<1>2. \A k \in 1..(Len(c) + 1) : d[k] = IF k < i THEN c[k] ELSE IF k = i THEN x ELSE c[k - 1]
  BY DEF Inserted
<1>3. DOMAIN c = 1..Len(c) /\ Len(c) \in Nat /\ i \in Nat
  OBVIOUS
<1> HIDE DEF d
<1>4. ASSUME NEW k \in DOMAIN d PROVE d[k] \in {c[j] : j \in DOMAIN c} \cup {x}
  BY <1>1, <1>2, <1>3
<1>5. ASSUME NEW j \in DOMAIN c PROVE \E k \in DOMAIN d : d[k] = c[j]
  <2>1. CASE j < i
    BY <1>1, <1>2, <1>3, <2>1
  <2>2. CASE ~(j < i)
    <3>1. j + 1 \in DOMAIN d /\ d[j + 1] = c[j]
      BY <1>1, <1>2, <1>3, <2>2
    <3>2. QED
      BY <3>1
  <2>3. QED
    BY <2>1, <2>2
<1>6. i \in DOMAIN d /\ d[i] = x
  BY <1>1, <1>2, <1>3
<1>7. {d[k] : k \in DOMAIN d} = {c[k] : k \in DOMAIN c} \cup {x}
  BY <1>4, <1>5, <1>6
<1>8. \A k \in Nat : k < i => At(d, k) = At(c, k)
  BY <1>1, <1>2, <1>3 DEF At
<1>9. \A k \in Nat : k > i => At(d, k) = At(c, k - 1)
  BY <1>1, <1>2, <1>3 DEF At
<1>10. QED
  BY <1>1, <1>6, <1>7, <1>8, <1>9 DEF d, At, IsInserted

LEMMA WithoutAt ==
  ASSUME NEW S, NEW c \in Seq(S), NEW i \in 1..Len(c), \A j, k \in DOMAIN c : c[j] = c[k] => j = k
  PROVE  Without(c, i) \in Seq(S) /\ IsWithout(Without(c, i), c, i)
<1> DEFINE d == Without(c, i)
<1>3. DOMAIN c = 1..Len(c) /\ Len(c) \in Nat /\ i \in Nat /\ Len(c) - 1 \in Nat
  OBVIOUS
<1>2. \A k \in 1..(Len(c) - 1) : d[k] = IF k < i THEN c[k] ELSE c[k + 1]
  BY DEF Without
<1>1. d \in Seq(S) /\ Len(d) = Len(c) - 1 /\ DOMAIN d = 1..(Len(c) - 1)
  <2>1. \A k \in 1..(Len(c) - 1) : d[k] \in S
    BY <1>2, <1>3
  <2>2. d = [k \in 1..(Len(c) - 1) |-> d[k]]
    BY DEF Without
  <2>3. QED
    BY <1>3, <2>1, <2>2
<1> HIDE DEF d
<1>4. ASSUME NEW k \in DOMAIN d PROVE d[k] \in {c[j] : j \in DOMAIN c} \ {c[i]}
  <2>1. CASE k < i
    <3>1. k \in DOMAIN c /\ d[k] = c[k] /\ k # i /\ i \in DOMAIN c
      BY <1>1, <1>2, <1>3, <2>1
    <3>2. QED
      BY <3>1
  <2>2. CASE ~(k < i)
    <3>1. k + 1 \in DOMAIN c /\ d[k] = c[k + 1] /\ k + 1 # i /\ i \in DOMAIN c
      BY <1>1, <1>2, <1>3, <2>2
    <3>2. QED
      BY <3>1
  <2>3. QED
    BY <2>1, <2>2
<1>5. ASSUME NEW j \in DOMAIN c, c[j] # c[i] PROVE \E k \in DOMAIN d : d[k] = c[j]
  <2>0. j # i
    BY <1>5
  <2>1. CASE j < i
    BY <1>1, <1>2, <1>3, <2>1
  <2>2. CASE ~(j < i)
    <3>1. j - 1 \in DOMAIN d /\ d[j - 1] = c[j]
      BY <1>1, <1>2, <1>3, <2>2, <2>0
    <3>2. QED
      BY <3>1
  <2>3. QED
    BY <2>1, <2>2
<1>7. {d[k] : k \in DOMAIN d} = {c[k] : k \in DOMAIN c} \ {c[i]}
  BY <1>4, <1>5
<1>8. \A k \in Nat : k < i => At(d, k) = At(c, k)
  BY <1>1, <1>2, <1>3 DEF At
<1>9. \A k \in Nat : k >= i => At(d, k) = At(c, k + 1)
  BY <1>1, <1>2, <1>3 DEF At
<1>10. QED
  BY <1>1, <1>7, <1>8, <1>9 DEF d, IsWithout

LEMMA InsertLinks ==
  ASSUME NEW l, NEW c, Linked(l, c), NEW i \in 1..(Len(c) + 1), NEW x \in Nat \ {0},
         x \notin DOMAIN l.elements, NEW content
  PROVE  LET r == ListInsert(l, content, x, At(c, i))
         IN  /\ Linked(r, Inserted(c, i, x)) /\ r.current = l.current
             /\ DOMAIN r.elements = DOMAIN l.elements \cup {x}
             /\ r.elements[x].content = content
             /\ \A a \in DOMAIN l.elements : r.elements[a].content = l.elements[a].content
<1>1. PICK p, q, d, r : /\ p = At(c, i - 1) /\ q = At(c, i) /\ d = Inserted(c, i, x)
                        /\ r = ListInsert(l, content, x, At(c, i))
  OBVIOUS
<1>2. /\ IsList(l) /\ c \in Seq(Nat \ {0}) /\ \A j, k \in DOMAIN c : c[j] = c[k] => j = k
      /\ DOMAIN l.elements = {c[k] : k \in DOMAIN c}
      /\ l.count = Len(c) /\ l.first = At(c, 1) /\ l.last = At(c, Len(c))
  BY DEF Linked
<1>3. /\ \A a \in DOMAIN l.elements : IsElement(l.elements[a])
      /\ NULL \notin DOMAIN l.elements
      /\ p \in DOMAIN l.elements \cup {NULL} /\ q \in DOMAIN l.elements \cup {NULL}
  BY <1>1, LinkedElements, AtIsElement
<1>4. p = IF q = NULL THEN l.last ELSE l.elements[q].prev
  <2>1. CASE i \in DOMAIN c
    <3>1. q = c[i] /\ q # NULL
      BY <1>1, <1>2, <2>1 DEF At, NULL
    <3>2. l.elements[q].prev = At(c, i - 1)
      <4>1. PICK e, x1, x2, x3 : /\ e = l.elements[q] /\ x1 = l.elements[q].content
                                 /\ x2 = At(c, i - 1) /\ x3 = At(c, i + 1)
        OBVIOUS
      <4>2. e = [content |-> x1, prev |-> x2, next |-> x3]
        BY <2>1, <3>1, <4>1 DEF Linked, Element
      <4>3. e.prev = x2
        BY <4>2
      <4>4. QED
        BY <4>1, <4>3
    <3>3. QED
      BY <1>1, <3>1, <3>2
  <2>2. CASE i \notin DOMAIN c
    <3>1. i = Len(c) + 1 /\ i - 1 = Len(c)
      BY <1>2, <2>2
    <3>2. q = NULL
      BY <1>1, <2>2 DEF At
    <3>3. QED
      BY <1>1, <1>2, <3>1, <3>2
  <2>3. QED
    BY <2>1, <2>2
<1>5. PICK s : s = SetPrev(SetNext(l, p, x), q, x)
  OBVIOUS
<1>6. /\ IsList(s) /\ s.count = l.count /\ s.current = l.current
      /\ DOMAIN s.elements = DOMAIN l.elements
      /\ s.first = (IF p = NULL THEN x ELSE l.first)
      /\ s.last = (IF q = NULL THEN x ELSE l.last)
      /\ \A a \in DOMAIN l.elements : s.elements[a] = Relinked(l, p, x, q, x, a)
  <2>1. IsList(l)
    BY <1>2
  <2>2. /\ IsList(SetPrev(SetNext(l, p, x), q, x))
        /\ SetPrev(SetNext(l, p, x), q, x).count = l.count
        /\ SetPrev(SetNext(l, p, x), q, x).current = l.current
        /\ DOMAIN SetPrev(SetNext(l, p, x), q, x).elements = DOMAIN l.elements
        /\ SetPrev(SetNext(l, p, x), q, x).first = (IF p = NULL THEN x ELSE l.first)
        /\ SetPrev(SetNext(l, p, x), q, x).last = (IF q = NULL THEN x ELSE l.last)
        /\ \A a \in DOMAIN l.elements :
             SetPrev(SetNext(l, p, x), q, x).elements[a] = Relinked(l, p, x, q, x, a)
    BY <1>3, <2>1, RelinkedIs
  <2>3. QED
    BY <1>5, <2>2, Zenon
<1>7. r = [s EXCEPT !.elements = With(s.elements, x, Element(content, p, q)), !.count = s.count + 1]
  BY <1>1, <1>4, <1>5 DEF ListInsert
<1>8. r = [first |-> s.first, last |-> s.last, current |-> s.current, count |-> s.count + 1,
           elements |-> With(s.elements, x, Element(content, p, q))]
  BY <1>6, <1>7 DEF IsList
<1>9. /\ DOMAIN r.elements = DOMAIN l.elements \cup {x}
      /\ r.elements[x] = Element(content, p, q)
      /\ \A a \in DOMAIN l.elements : r.elements[a] = Relinked(l, p, x, q, x, a)
  <2>1. DOMAIN r.elements = DOMAIN s.elements \cup {x}
    BY <1>8 DEF With
  <2>2. r.elements[x] = Element(content, p, q)
    BY <1>8 DEF With
  <2>3. ASSUME NEW a \in DOMAIN l.elements PROVE r.elements[a] = s.elements[a]
    BY <1>6, <1>8 DEF With
  <2>4. QED
    BY <1>6, <2>1, <2>2, <2>3
<1>10. /\ d \in Seq(Nat \ {0}) /\ Len(d) = Len(c) + 1
       /\ {d[k] : k \in DOMAIN d} = {c[k] : k \in DOMAIN c} \cup {x}
       /\ \A k \in Nat : k < i => At(d, k) = At(c, k)
       /\ At(d, i) = x
       /\ \A k \in Nat : k > i => At(d, k) = At(c, k - 1)
  <2>1. c \in Seq(Nat \ {0})
    BY <1>2
  <2>2. QED
    <3>1. i \in 1..(Len(c) + 1) /\ x \in Nat \ {0}
      OBVIOUS
    <3>2. Inserted(c, i, x) \in Seq(Nat \ {0}) /\ IsInserted(Inserted(c, i, x), c, i, x)
      BY <2>1, <3>1, InsertedAt
    <3>3. QED
      BY <1>1, <3>2 DEF IsInserted
<1>11. \A j, k \in DOMAIN d : d[j] = d[k] => j = k
  <2>1. \A k \in DOMAIN c : c[k] # x
    BY <1>2
  <2>2. DOMAIN c = 1..Len(c) /\ DOMAIN d = 1..(Len(c) + 1) /\ Len(c) \in Nat /\ i \in Nat
    BY <1>2, <1>10
  <2>3. \A k \in DOMAIN d : d[k] = IF k < i THEN c[k] ELSE IF k = i THEN x ELSE c[k - 1]
    BY <1>1, <2>2 DEF Inserted
  <2>4. \A k \in DOMAIN d : d[k] = x <=> k = i
    BY <2>1, <2>2, <2>3
  <2>5. SUFFICES ASSUME NEW j \in DOMAIN d, NEW k \in DOMAIN d, d[j] = d[k] PROVE j = k
    OBVIOUS
  <2>6. CASE d[j] = x
    BY <2>4, <2>5, <2>6
  <2>7. CASE d[j] # x
    <3>1. j # i /\ k # i
      BY <2>4, <2>5, <2>7
    <3>2. PICK j1, k1 \in DOMAIN c : /\ j1 = (IF j < i THEN j ELSE j - 1) /\ d[j] = c[j1]
                                    /\ k1 = (IF k < i THEN k ELSE k - 1) /\ d[k] = c[k1]
      BY <2>2, <2>3, <3>1
    <3>3. j1 = k1
      BY <1>2, <2>5, <3>2
    <3>4. QED
      BY <2>2, <3>1, <3>2, <3>3
  <2>8. QED
    BY <2>6, <2>7
<1>12. r.first = At(d, 1) /\ r.last = At(d, Len(d)) /\ r.count = Len(d)
  <2>1. Len(c) \in Nat /\ i \in Nat /\ DOMAIN c = 1..Len(c) /\ \A k \in DOMAIN c : c[k] # NULL
    BY <1>2 DEF NULL
  <2>2. p = NULL <=> i = 1
    BY <1>1, <2>1 DEF At
  <2>3. q = NULL <=> i = Len(c) + 1
    BY <1>1, <2>1 DEF At
  <2>4. At(d, 1) = IF i = 1 THEN x ELSE At(c, 1)
    BY <1>10, <2>1
  <2>5. At(d, Len(d)) = IF i = Len(c) + 1 THEN x ELSE At(c, Len(c))
    <3>1. CASE i = Len(c) + 1
      BY <1>10, <2>1, <3>1
    <3>2. CASE i # Len(c) + 1
      <4>1. Len(c) + 1 \in Nat /\ Len(c) + 1 > i /\ (Len(c) + 1) - 1 = Len(c)
        BY <2>1, <3>2
      <4>2. QED
        BY <1>10, <3>2, <4>1
    <3>3. QED
      BY <3>1, <3>2
  <2>6. r.first = s.first /\ r.last = s.last /\ r.count = l.count + 1
    BY <1>6, <1>8
  <2>7. QED
    BY <1>2, <1>6, <1>10, <2>2, <2>3, <2>4, <2>5, <2>6
<1>13. ASSUME NEW k \in DOMAIN d
       PROVE  r.elements[d[k]] = Element(r.elements[d[k]].content, At(d, k - 1), At(d, k + 1))
  <2>1. Len(c) \in Nat /\ i \in Nat /\ DOMAIN c = 1..Len(c) /\ k \in 1..(Len(c) + 1)
    BY <1>2, <1>10
  <2>2. d[k] = IF k < i THEN c[k] ELSE IF k = i THEN x ELSE c[k - 1]
    BY <1>1, <2>1 DEF Inserted
  <2>3. CASE k = i
    <3>1. d[k] = x /\ At(d, k - 1) = At(c, i - 1) /\ At(d, k + 1) = At(c, i)
      BY <1>10, <2>1, <2>2, <2>3
    <3>2. QED
      BY <1>1, <1>9, <3>1 DEF Element
  <2>4. CASE k # i
    <3>1. PICK j \in DOMAIN c : j = (IF k < i THEN k ELSE k - 1) /\ d[k] = c[j]
      BY <2>1, <2>2, <2>4
    <3>2. PICK a, e, co, b, f : /\ a = c[j] /\ e = l.elements[a] /\ co = l.elements[a].content
                                /\ b = At(c, j - 1) /\ f = At(c, j + 1)
      OBVIOUS
    <3>3. a \in DOMAIN l.elements /\ e = [content |-> co, prev |-> b, next |-> f]
      BY <1>2, <3>2 DEF Linked, Element
    <3>4. \A k2 \in DOMAIN c : c[k2] # NULL
      BY <1>2 DEF NULL
    <3>5. a = q <=> j = i
      BY <1>1, <1>2, <3>2, <3>4 DEF At
    <3>6. a = p <=> j = i - 1
      BY <1>1, <1>2, <2>1, <3>2, <3>4 DEF At
    <3>7. r.elements[a] = [content |-> co, prev |-> IF j = i THEN x ELSE b,
                           next |-> IF j = i - 1 THEN x ELSE f]
      <4>1. r.elements[a] = Relinked(l, p, x, q, x, a)
        BY <1>9, <3>3
      <4>2. e.content = co /\ e.prev = b /\ e.next = f
        BY <3>3
      <4>3. QED
        BY <3>2, <3>5, <3>6, <4>1, <4>2 DEF Relinked, Element
    <3>8. At(d, k - 1) = IF j = i THEN x ELSE b
      <4>1. CASE k < i
        BY <1>10, <2>1, <3>1, <3>2, <4>1 DEF At
      <4>2. CASE k > i
        BY <1>10, <2>1, <3>1, <3>2, <4>2, SMTT(60)
      <4>3. QED
        BY <2>1, <2>4, <4>1, <4>2
    <3>9. At(d, k + 1) = IF j = i - 1 THEN x ELSE f
      <4>1. CASE k < i
        BY <1>10, <2>1, <3>1, <3>2, <4>1
      <4>2. CASE k > i
        BY <1>10, <2>1, <3>1, <3>2, <4>2
      <4>3. QED
        BY <2>1, <2>4, <4>1, <4>2
    <3>10. QED
      BY <3>1, <3>2, <3>7, <3>8, <3>9 DEF Element
  <2>5. QED
    BY <2>3, <2>4
<1>14. IsList(r)
  BY <1>8 DEF IsList
<1>15. Linked(r, d)
  BY <1>2, <1>9, <1>10, <1>11, <1>12, <1>13, <1>14 DEF Linked
<1>16. r.elements[x].content = content /\ r.current = l.current
  BY <1>6, <1>8, <1>9 DEF Element
<1>17. ASSUME NEW a \in DOMAIN l.elements PROVE r.elements[a].content = l.elements[a].content
  <2>1. r.elements[a] = Relinked(l, p, x, q, x, a)
    BY <1>9
  <2>2. QED
    BY <2>1 DEF Relinked, Element
<1>18. QED
  BY <1>1, <1>9, <1>15, <1>16, <1>17

LEMMA TakenOutLinks ==
  ASSUME NEW l, NEW c, Linked(l, c), NEW i \in 1..Len(c), NEW current
  PROVE  LET r == TakenOut(l, c[i], current)
         IN  /\ Linked(r, Without(c, i)) /\ r.current = current
             /\ DOMAIN r.elements = DOMAIN l.elements \ {c[i]}
             /\ \A a \in DOMAIN r.elements : r.elements[a].content = l.elements[a].content
<1>1. PICK p, q, d, r, x : /\ p = At(c, i - 1) /\ q = At(c, i + 1) /\ d = Without(c, i)
                           /\ r = TakenOut(l, c[i], current) /\ x = c[i]
  OBVIOUS
<1>2. /\ IsList(l) /\ c \in Seq(Nat \ {0}) /\ \A j, k \in DOMAIN c : c[j] = c[k] => j = k
      /\ DOMAIN l.elements = {c[k] : k \in DOMAIN c}
      /\ l.count = Len(c) /\ l.first = At(c, 1) /\ l.last = At(c, Len(c))
  BY DEF Linked
<1>3. /\ \A a \in DOMAIN l.elements : IsElement(l.elements[a])
      /\ NULL \notin DOMAIN l.elements
      /\ p \in DOMAIN l.elements \cup {NULL} /\ q \in DOMAIN l.elements \cup {NULL}
  BY <1>1, LinkedElements, AtIsElement
<1>4. Len(c) \in Nat /\ i \in Nat /\ DOMAIN c = 1..Len(c) /\ i \in DOMAIN c
      /\ \A k \in DOMAIN c : c[k] # NULL
  BY <1>2 DEF NULL
<1>5. l.elements[x].prev = p /\ l.elements[x].next = q
  <2>1. PICK e, x1 : e = l.elements[x] /\ x1 = l.elements[x].content
    OBVIOUS
  <2>2. e = [content |-> x1, prev |-> p, next |-> q]
    BY <1>1, <1>4, <2>1 DEF Linked, Element
  <2>3. e.prev = p /\ e.next = q
    BY <2>2
  <2>4. QED
    BY <2>1, <2>3
<1>6. PICK s : s = SetPrev(SetNext(l, p, q), q, p)
  OBVIOUS
<1>7. /\ IsList(s) /\ s.count = l.count /\ s.current = l.current
      /\ DOMAIN s.elements = DOMAIN l.elements
      /\ s.first = (IF p = NULL THEN q ELSE l.first)
      /\ s.last = (IF q = NULL THEN p ELSE l.last)
      /\ \A a \in DOMAIN l.elements : s.elements[a] = Relinked(l, p, q, q, p, a)
  <2>1. IsList(l)
    BY <1>2
  <2>2. /\ IsList(SetPrev(SetNext(l, p, q), q, p))
        /\ SetPrev(SetNext(l, p, q), q, p).count = l.count
        /\ SetPrev(SetNext(l, p, q), q, p).current = l.current
        /\ DOMAIN SetPrev(SetNext(l, p, q), q, p).elements = DOMAIN l.elements
        /\ SetPrev(SetNext(l, p, q), q, p).first = (IF p = NULL THEN q ELSE l.first)
        /\ SetPrev(SetNext(l, p, q), q, p).last = (IF q = NULL THEN p ELSE l.last)
        /\ \A a \in DOMAIN l.elements :
             SetPrev(SetNext(l, p, q), q, p).elements[a] = Relinked(l, p, q, q, p, a)
    BY <1>3, <2>1, RelinkedIs
  <2>3. QED
    BY <1>6, <2>2, Zenon
<1>8. r = [s EXCEPT !.elements = Restrict(s.elements, DOMAIN s.elements \ {x}),
                    !.current = current, !.count = s.count - 1]
  BY <1>1, <1>5, <1>6 DEF TakenOut
<1>9. r = [first |-> s.first, last |-> s.last, current |-> current, count |-> s.count - 1,
           elements |-> Restrict(s.elements, DOMAIN s.elements \ {x})]
  BY <1>7, <1>8 DEF IsList
<1>10. /\ DOMAIN r.elements = DOMAIN l.elements \ {x}
       /\ \A a \in DOMAIN l.elements \ {x} : r.elements[a] = Relinked(l, p, q, q, p, a)
  <2>1. DOMAIN r.elements = DOMAIN s.elements \ {x}
    BY <1>9 DEF Restrict
  <2>2. ASSUME NEW a \in DOMAIN l.elements \ {x} PROVE r.elements[a] = s.elements[a]
    BY <1>7, <1>9 DEF Restrict
  <2>3. QED
    BY <1>7, <2>1, <2>2
<1>11. d \in Seq(Nat \ {0}) /\ IsWithout(d, c, i)
  <2>1. c \in Seq(Nat \ {0}) /\ i \in 1..Len(c) /\ \A j, k \in DOMAIN c : c[j] = c[k] => j = k
    BY <1>2
  <2>2. Without(c, i) \in Seq(Nat \ {0}) /\ IsWithout(Without(c, i), c, i)
    BY <2>1, WithoutAt
  <2>3. QED
    BY <1>1, <2>2
<1>12. DOMAIN d = 1..(Len(c) - 1) /\ Len(d) = Len(c) - 1
  BY <1>11 DEF IsWithout
<1>13. \A k \in DOMAIN d : d[k] = IF k < i THEN c[k] ELSE c[k + 1]
  BY <1>1, <1>12 DEF Without
<1>14. \A j, k \in DOMAIN d : d[j] = d[k] => j = k
  <2>1. SUFFICES ASSUME NEW j \in DOMAIN d, NEW k \in DOMAIN d, d[j] = d[k] PROVE j = k
    OBVIOUS
  <2>2. PICK j1, k1 \in DOMAIN c : /\ j1 = (IF j < i THEN j ELSE j + 1) /\ d[j] = c[j1]
                                  /\ k1 = (IF k < i THEN k ELSE k + 1) /\ d[k] = c[k1]
    BY <1>4, <1>12, <1>13
  <2>3. j1 = k1
    BY <1>2, <2>1, <2>2
  <2>4. QED
    BY <1>4, <1>12, <2>2, <2>3
<1>15. r.first = At(d, 1) /\ r.last = At(d, Len(d)) /\ r.count = Len(d)
  <2>1. p = NULL <=> i = 1
    BY <1>1, <1>4 DEF At
  <2>2. q = NULL <=> i = Len(c)
    <3>1. i + 1 \in DOMAIN c <=> i # Len(c)
      <4>1. PICK n \in Nat : n = Len(c) /\ i \in 1..n /\ DOMAIN c = 1..n
        BY <1>4
      <4>2. QED
        BY <4>1
    <3>2. QED
      BY <1>1, <1>4, <3>1 DEF At
  <2>3. At(d, 1) = IF i = 1 THEN q ELSE At(c, 1)
    BY <1>1, <1>4, <1>11 DEF IsWithout
  <2>4. At(d, Len(d)) = IF i = Len(c) THEN p ELSE At(c, Len(c))
    <3>1. CASE i = Len(c)
      <4>1. Len(c) - 1 \in Nat /\ Len(c) - 1 < i
        BY <1>4, <3>1
      <4>2. QED
        BY <1>1, <1>11, <1>12, <3>1, <4>1 DEF IsWithout
    <3>2. CASE i # Len(c)
      <4>0. PICK n \in Nat : n = Len(c) /\ i \in 1..n /\ i # n
        BY <1>4, <3>2
      <4>1. n - 1 \in Nat /\ n - 1 >= i /\ (n - 1) + 1 = n
        BY <4>0
      <4>2. QED
        BY <1>11, <1>12, <3>2, <4>0, <4>1 DEF IsWithout
    <3>3. QED
      BY <3>1, <3>2
  <2>5. r.first = s.first /\ r.last = s.last /\ r.count = l.count - 1
    BY <1>7, <1>9
  <2>6. QED
    BY <1>2, <1>7, <1>12, <2>1, <2>2, <2>3, <2>4, <2>5
<1>16. ASSUME NEW k \in DOMAIN d
       PROVE  r.elements[d[k]] = Element(r.elements[d[k]].content, At(d, k - 1), At(d, k + 1))
  <2>1. PICK j \in DOMAIN c : j = (IF k < i THEN k ELSE k + 1) /\ d[k] = c[j] /\ j # i
    BY <1>4, <1>12, <1>13
  <2>2. PICK a, e, co, b, f : /\ a = c[j] /\ e = l.elements[a] /\ co = l.elements[a].content
                              /\ b = At(c, j - 1) /\ f = At(c, j + 1)
    OBVIOUS
  <2>3. a \in DOMAIN l.elements \ {x} /\ e = [content |-> co, prev |-> b, next |-> f]
    BY <1>1, <1>2, <1>4, <2>1, <2>2 DEF Linked, Element
  <2>4. a = q <=> j = i + 1
    BY <1>1, <1>2, <1>4, <2>2 DEF At
  <2>5. a = p <=> j = i - 1
    BY <1>1, <1>2, <1>4, <2>2 DEF At
  <2>6. r.elements[a] = [content |-> co, prev |-> IF j = i + 1 THEN p ELSE b,
                         next |-> IF j = i - 1 THEN q ELSE f]
    <3>1. r.elements[a] = Relinked(l, p, q, q, p, a)
      BY <1>10, <2>3
    <3>2. e.content = co /\ e.prev = b /\ e.next = f
      BY <2>3
    <3>3. QED
      BY <2>2, <2>4, <2>5, <3>1, <3>2 DEF Relinked, Element
  <2>7. k \in Nat /\ k - 1 \in Nat /\ k + 1 \in Nat /\ j \in Nat
    BY <1>4, <1>12
  <2>8. At(d, k - 1) = IF j = i + 1 THEN p ELSE b
    <3>0. PICK m \in Nat : m = k - 1
      BY <2>7
    <3>1. At(d, m) = IF m < i THEN At(c, m) ELSE At(c, m + 1)
      <4>1. m < i => At(d, m) = At(c, m)
        BY <1>11, <3>0 DEF IsWithout
      <4>2. m >= i => At(d, m) = At(c, m + 1)
        BY <1>11, <3>0 DEF IsWithout
      <4>3. m \in Nat /\ i \in Nat
        BY <1>4, <3>0
      <4>4. QED
        BY <4>1, <4>2, <4>3
    <3>2. QED
      BY <1>1, <1>4, <2>1, <2>2, <2>7, <3>0, <3>1
  <2>9. At(d, k + 1) = IF j = i - 1 THEN q ELSE f
    <3>0. PICK m \in Nat : m = k + 1
      BY <2>7
    <3>1. At(d, m) = IF m < i THEN At(c, m) ELSE At(c, m + 1)
      <4>1. m < i => At(d, m) = At(c, m)
        BY <1>11, <3>0 DEF IsWithout
      <4>2. m >= i => At(d, m) = At(c, m + 1)
        BY <1>11, <3>0 DEF IsWithout
      <4>3. m \in Nat /\ i \in Nat
        BY <1>4, <3>0
      <4>4. QED
        BY <4>1, <4>2, <4>3
    <3>2. QED
      BY <1>1, <1>4, <2>1, <2>2, <2>7, <3>0, <3>1
  <2>10. QED
    BY <2>1, <2>2, <2>6, <2>8, <2>9 DEF Element
<1>17. IsList(r)
  BY <1>9 DEF IsList
<1>18. DOMAIN r.elements = {d[k] : k \in DOMAIN d}
  BY <1>1, <1>2, <1>10, <1>11 DEF IsWithout
<1>19. Linked(r, d)
  BY <1>11, <1>14, <1>15, <1>16, <1>17, <1>18 DEF Linked
<1>20. r.current = current
  BY <1>9
<1>21. ASSUME NEW a \in DOMAIN r.elements PROVE r.elements[a].content = l.elements[a].content
  <2>1. r.elements[a] = Relinked(l, p, q, q, p, a)
    BY <1>10
  <2>2. QED
    BY <2>1 DEF Relinked, Element
<1>22. QED
  BY <1>1, <1>10, <1>19, <1>20, <1>21

-----------------------------------------------------------------------------
(* What a walk from the first element on finds *)

LEMMA ChainIs ==
  ASSUME NEW l, NEW c, Linked(l, c)
  PROVE  Chain(l) = c
<1> DEFINE Step(f, k) == ListNextElement(l, IF k = 1 THEN NULL ELSE f[k - 1])
           F == CHOOSE f : f = [k \in 1..Len(c) |-> Step(f, k)]
<1>1. /\ c \in Seq(Nat \ {0}) /\ l.count = Len(c) /\ l.first = At(c, 1)
      /\ Len(c) \in Nat /\ DOMAIN c = 1..Len(c) /\ c = [k \in 1..Len(c) |-> c[k]]
  BY DEF Linked
<1>2. ASSUME NEW k \in 1..Len(c) PROVE c[k] = Step(c, k)
  <2>1. CASE k = 1
    <3>1. Step(c, k) = l.first
      BY <2>1 DEF ListNextElement
    <3>2. QED
      BY <1>1, <2>1, <3>1 DEF At
  <2>2. CASE k # 1
    <3>1. PICK j \in DOMAIN c : j = k - 1 /\ j + 1 = k
      BY <1>1, <2>2
    <3>2. PICK e, x1, x2 : e = l.elements[c[j]] /\ x1 = l.elements[c[j]].content /\ x2 = At(c, j - 1)
      OBVIOUS
    <3>3. e = [content |-> x1, prev |-> x2, next |-> At(c, k)]
      BY <3>1, <3>2 DEF Linked, Element
    <3>4. e.next = c[k]
      BY <1>1, <3>3 DEF At
    <3>5. c[j] # NULL
      BY <1>1 DEF NULL
    <3>6. QED
      BY <2>2, <3>1, <3>2, <3>4, <3>5 DEF ListNextElement
  <2>3. QED
    BY <2>1, <2>2
<1>3. c = [k \in 1..Len(c) |-> Step(c, k)]
  <2> HIDE DEF Step
  <2>1. QED
    BY <1>1, <1>2
<1>4. F = [k \in 1..Len(c) |-> Step(F, k)]
  <2> HIDE DEF Step
  <2>1. QED
    BY <1>3
<1>5. Chain(l) = [k \in 1..Len(c) |-> F[k]]
  BY <1>1 DEF Chain
<1> HIDE DEF F
<1>6. \A k \in 1..Len(c) : F[k] = Step(F, k)
  <2> HIDE DEF Step
  <2>1. QED
    BY <1>4, Zenon
<1>7. \A k \in 1..Len(c) : F[k] = c[k]
  <2> DEFINE Wrong == {k \in 1..Len(c) : F[k] # c[k]}
  <2>1. SUFFICES ASSUME Wrong # {} PROVE FALSE
    OBVIOUS
  <2>2. Wrong \subseteq Nat
    BY <1>1
  <2>3. PICK k \in Wrong : \A j \in Wrong : k <= j
    BY <2>1, <2>2, LeastNumber
  <2>4. k \in 1..Len(c) /\ F[k] # c[k] /\ F[k] = Step(F, k) /\ c[k] = Step(c, k)
    BY <1>2, <1>6, <2>3
  <2>5. k # 1
    BY <2>4
  <2>6. k - 1 \in 1..Len(c) /\ k - 1 \notin Wrong
    BY <1>1, <2>3, <2>4, <2>5
  <2>7. F[k - 1] = c[k - 1]
    BY <2>6
  <2>8. QED
    BY <2>4, <2>5, <2>7
<1>8. QED
  BY <1>1, <1>5, <1>7

LEMMA RemoveAtProperties ==
  ASSUME NEW S, NEW s0 \in Seq(S), NEW i \in 1..Len(s0)
  PROVE  /\ RemoveAt(s0, i) \in Seq(S)
         /\ Len(RemoveAt(s0, i)) = Len(s0) - 1
         /\ \A k \in 1..(Len(s0) - 1) :
              RemoveAt(s0, i)[k] = IF k < i THEN s0[k] ELSE s0[k + 1]
<1> DEFINE before == SubSeq(s0, 1, i - 1)
           after == SubSeq(s0, i + 1, Len(s0))
<1>1. /\ before \in Seq(S) /\ after \in Seq(S)
      /\ Len(before) = i - 1 /\ Len(after) = Len(s0) - i
  OBVIOUS
<1>2. /\ \A k \in 1..(i - 1) : before[k] = s0[k]
      /\ \A k \in 1..(Len(s0) - i) : after[k] = s0[i + k]
  OBVIOUS
<1>3. RemoveAt(s0, i) = before \o after
  BY DEF RemoveAt
<1> HIDE DEF before, after
<1>4. /\ before \o after \in Seq(S)
      /\ Len(before \o after) = Len(s0) - 1
  BY <1>1
<1>5. \A k \in 1..(Len(s0) - 1) :
        (before \o after)[k] = IF k < i THEN before[k] ELSE after[k - (i - 1)]
  BY <1>1
<1>6. \A k \in 1..(Len(s0) - 1) :
        IF k < i THEN before[k] = s0[k] ELSE after[k - (i - 1)] = s0[k + 1]
  <2>1. ASSUME NEW k \in 1..(Len(s0) - 1), ~(k < i)
        PROVE  after[k - (i - 1)] = s0[k + 1]
    <3>1. k - (i - 1) \in 1..(Len(s0) - i) /\ i + (k - (i - 1)) = k + 1
      BY <2>1
    <3>2. QED
      BY <1>2, <3>1
  <2>2. ASSUME NEW k \in 1..(Len(s0) - 1), k < i
        PROVE  before[k] = s0[k]
    <3>1. k \in 1..(i - 1)
      BY <2>2
    <3>2. QED
      BY <1>2, <3>1
  <2>3. QED
    BY <2>1, <2>2
<1>7. QED
  BY <1>3, <1>4, <1>5, <1>6


LEMMA RemoveAtIs ==
  ASSUME NEW S, NEW s0 \in Seq(S), NEW i \in 1..Len(s0)
  PROVE  RemoveAt(s0, i) = Without(s0, i)
<1>1. /\ RemoveAt(s0, i) \in Seq(S) /\ Len(RemoveAt(s0, i)) = Len(s0) - 1
      /\ \A k \in 1..(Len(s0) - 1) : RemoveAt(s0, i)[k] = IF k < i THEN s0[k] ELSE s0[k + 1]
  BY RemoveAtProperties
<1>2. PICK r : r = RemoveAt(s0, i)
  OBVIOUS
<1>3. r = [k \in 1..(Len(s0) - 1) |-> r[k]]
  BY <1>1, <1>2
<1>4. QED
  BY <1>1, <1>2, <1>3 DEF Without

-----------------------------------------------------------------------------
(* The order of the contents *)

ContentsOf(l, c) == [k \in 1..Len(c) |-> l.elements[c[k]].content]

LEMMA OrderIs ==
  ASSUME NEW l, NEW c, Linked(l, c)
  PROVE  Order(l) = ContentsOf(l, c)
<1>1. Chain(l) = c
  BY ChainIs
<1>2. DOMAIN c = 1..Len(c)
  BY DEF Linked
<1>3. QED
  BY <1>1, <1>2 DEF Order, ContentsOf

LEMMA OrderType ==
  ASSUME NEW l, NEW c, Linked(l, c)
  PROVE  Order(l) \in Seq(Contents(l)) /\ Len(Order(l)) = Len(c)
<1>1. Len(c) \in Nat /\ \A k \in 1..Len(c) : c[k] \in DOMAIN l.elements
  BY DEF Linked
<1>2. \A k \in 1..Len(c) : l.elements[c[k]].content \in Contents(l)
  BY <1>1 DEF Contents
<1>3. Order(l) = [k \in 1..Len(c) |-> l.elements[c[k]].content]
  BY OrderIs DEF ContentsOf
<1>4. QED
  BY <1>1, <1>2, <1>3

\* taking out the element at i takes out its content
LEMMA OrderWithout ==
  ASSUME NEW l, NEW c, Linked(l, c), NEW i \in 1..Len(c), NEW r, Linked(r, Without(c, i)),
         \A a \in DOMAIN r.elements : r.elements[a].content = l.elements[a].content
  PROVE  i \in DOMAIN Order(l) /\ Order(r) = RemoveAt(Order(l), i)
<1>1. PICK n \in Nat : n = Len(c) /\ i \in 1..n
  BY DEF Linked
<1>2. PICK d : d = Without(c, i)
  OBVIOUS
<1>3. Len(d) = n - 1 /\ \A k \in 1..(n - 1) : d[k] = IF k < i THEN c[k] ELSE c[k + 1]
  <2>1. d = [k \in 1..(n - 1) |-> IF k < i THEN c[k] ELSE c[k + 1]]
    BY <1>1, <1>2 DEF Without
  <2>2. d \in Seq(Nat \ {0})
    BY <1>2 DEF Linked
  <2>3. DOMAIN d = 1..(n - 1) /\ DOMAIN d = 1..Len(d) /\ Len(d) \in Nat /\ n - 1 \in Nat
    BY <1>1, <2>1, <2>2
  <2>4. QED
    BY <2>1, <2>3
<1>4. PICK o, p : o = Order(l) /\ p = Order(r)
  OBVIOUS
<1>5. /\ o = [k \in 1..n |-> l.elements[c[k]].content]
      /\ p = [k \in 1..(n - 1) |-> r.elements[d[k]].content]
  <2>1. o = ContentsOf(l, c)
    BY <1>4, OrderIs
  <2>2. p = ContentsOf(r, d)
    BY <1>2, <1>4, OrderIs
  <2>3. QED
    BY <1>1, <1>3, <2>1, <2>2 DEF ContentsOf
<1>6. \A k \in 1..(n - 1) : d[k] \in DOMAIN r.elements
  <2>1. DOMAIN d = 1..(n - 1) /\ DOMAIN r.elements = {d[k] : k \in DOMAIN d}
    <3>1. d \in Seq(Nat \ {0}) /\ DOMAIN r.elements = {d[k] : k \in DOMAIN d}
      BY <1>2 DEF Linked
    <3>2. QED
      BY <1>3, <3>1
  <2>2. QED
    BY <2>1
<1>7. o \in Seq(Contents(l)) /\ Len(o) = n
  BY <1>1, <1>4, OrderType
<1>8. RemoveAt(o, i) = Without(o, i)
  BY <1>1, <1>7, RemoveAtIs
<1>9. Without(o, i) = [k \in 1..(n - 1) |-> IF k < i THEN o[k] ELSE o[k + 1]]
  BY <1>7 DEF Without
<1>10. ASSUME NEW k \in 1..(n - 1) PROVE p[k] = IF k < i THEN o[k] ELSE o[k + 1]
  <2>1. p[k] = l.elements[d[k]].content
    BY <1>5, <1>6
  <2>2. CASE k < i
    <3>1. k \in 1..n /\ d[k] = c[k]
      BY <1>1, <1>3, <2>2
    <3>2. QED
      BY <1>5, <2>1, <2>2, <3>1
  <2>3. CASE ~(k < i)
    <3>1. k + 1 \in 1..n /\ d[k] = c[k + 1]
      BY <1>1, <1>3, <2>3
    <3>2. QED
      BY <1>5, <2>1, <2>3, <3>1
  <2>4. QED
    BY <2>2, <2>3
<1>11. p = Without(o, i)
  BY <1>5, <1>9, <1>10
<1>12. QED
  BY <1>1, <1>4, <1>5, <1>8, <1>11

LEMMA WithoutInserted ==
  ASSUME NEW S, NEW c \in Seq(S), NEW i \in 1..(Len(c) + 1), NEW x
  PROVE  Without(Inserted(c, i, x), i) = c
<1>1. PICK n \in Nat : n = Len(c) /\ c = [k \in 1..n |-> c[k]] /\ i \in 1..(n + 1)
  OBVIOUS
<1>2. PICK d : d = Inserted(c, i, x)
  OBVIOUS
<1>3. d = [k \in 1..(n + 1) |-> IF k < i THEN c[k] ELSE IF k = i THEN x ELSE c[k - 1]]
  BY <1>1, <1>2 DEF Inserted
<1>4. Len(d) = n + 1
  <2>1. PICK T : T = {d[k] : k \in 1..(n + 1)}
    OBVIOUS
  <2>2. PICK m \in Nat : m = n + 1
    BY <1>1
  <2>3. d \in [1..m -> T]
    BY <1>3, <2>1, <2>2
  <2>4. d \in Seq(T) /\ Len(d) = m
    BY <2>3
  <2>5. QED
    BY <2>2, <2>4
<1>5. Without(d, i) = [k \in 1..n |-> IF k < i THEN d[k] ELSE d[k + 1]]
  BY <1>4 DEF Without
<1>6. ASSUME NEW k \in 1..n PROVE c[k] = IF k < i THEN d[k] ELSE d[k + 1]
  <2>1. CASE k < i
    BY <1>1, <1>3, <2>1
  <2>2. CASE ~(k < i)
    <3>1. k + 1 \in 1..(n + 1) /\ ~(k + 1 < i) /\ k + 1 # i /\ (k + 1) - 1 = k
      BY <1>1, <2>2
    <3>2. QED
      BY <1>3, <2>2, <3>1
  <2>3. QED
    BY <2>1, <2>2
<1>7. QED
  BY <1>1, <1>2, <1>5, <1>6

-----------------------------------------------------------------------------
(* The blocks *)

HasBlocks(h) == "blocks" \in DOMAIN h

LEMMA MallocBlocks ==
  ASSUME NEW h, HasBlocks(h), NEW ptr, NEW size
  PROVE  /\ HasBlocks(mymalloc(h, ptr, size))
         /\ DOMAIN mymalloc(h, ptr, size).blocks = DOMAIN h.blocks \cup {ptr}
<1>1. HasBlocks(mymalloc(h, ptr, size))
  BY DEF mymalloc, HasBlocks
<1>2. mymalloc(h, ptr, size).blocks = With(h.blocks, ptr, Heap_roundup(size))
  BY DEF mymalloc, HasBlocks
<1>3. QED
  BY <1>1, <1>2 DEF With

LEMMA FreeBlocks ==
  ASSUME NEW h, HasBlocks(h), NEW ptr
  PROVE  /\ HasBlocks(myfree(h, ptr))
         /\ DOMAIN h.blocks \ {ptr} \subseteq DOMAIN myfree(h, ptr).blocks
         /\ DOMAIN myfree(h, ptr).blocks \subseteq DOMAIN h.blocks
<1>1. CASE Found(h, ptr)
  <2>1. /\ HasBlocks(myfree(h, ptr))
        /\ myfree(h, ptr).blocks = Restrict(h.blocks, DOMAIN h.blocks \ {ptr})
    BY <1>1 DEF myfree, HasBlocks
  <2>2. QED
    BY <2>1 DEF Restrict
<1>2. CASE ~Found(h, ptr)
  BY <1>2 DEF myfree
<1>3. QED
  BY <1>1, <1>2

LEMMA ReallocBlocks ==
  ASSUME NEW h, HasBlocks(h), NEW ptr, NEW new, NEW size
  PROVE  /\ HasBlocks(myrealloc(h, ptr, new, size))
         /\ DOMAIN myrealloc(h, ptr, new, size).blocks =
              IF Found(h, ptr) THEN (DOMAIN h.blocks \ {ptr}) \cup {new} ELSE DOMAIN h.blocks
<1>1. CASE Found(h, ptr)
  <2>1. /\ HasBlocks(myrealloc(h, ptr, new, size))
        /\ myrealloc(h, ptr, new, size).blocks =
             With(Restrict(h.blocks, DOMAIN h.blocks \ {ptr}), new, Heap_roundup(size))
    BY <1>1 DEF myrealloc, HasBlocks
  <2>2. QED
    BY <1>1, <2>1 DEF Restrict, With
<1>2. CASE ~Found(h, ptr)
  BY <1>2 DEF myrealloc
<1>3. QED
  BY <1>1, <1>2

LEMMA FailureBlocks ==
  ASSUME NEW h, HasBlocks(h), NEW ptr, NEW size
  PROVE  /\ HasBlocks(mymallocFails(h)) /\ mymallocFails(h).blocks = h.blocks
         /\ HasBlocks(myreallocFails(h, ptr, size)) /\ myreallocFails(h, ptr, size).blocks = h.blocks
<1>1. HasBlocks(mymallocFails(h)) /\ mymallocFails(h).blocks = h.blocks
  BY DEF mymallocFails, HasBlocks
<1>2. HasBlocks(myreallocFails(h, ptr, size)) /\ myreallocFails(h, ptr, size).blocks = h.blocks
  BY DEF myreallocFails, HasBlocks
<1>3. QED
  BY <1>1, <1>2

-----------------------------------------------------------------------------
(* What the list, the blocks that the program holds and the heap are to    *)
(* each other: every element, every content and every block held is a      *)
(* block that was allocated, and no two of them are the same               *)

Apart(b, e, c, s) ==
  /\ e \cup c \cup s \subseteq b
  /\ e \cap c = {} /\ e \cap s = {} /\ c \cap s = {}

OneEach(l) ==
  \A a, b \in DOMAIN l.elements : l.elements[a].content = l.elements[b].content => a = b

Sound(h, l, s) ==
  /\ HasBlocks(h) /\ DOMAIN h.blocks \subseteq Nat \ {0}
  /\ \E c : Linked(l, c)
  /\ l.current \in DOMAIN l.elements \cup {NULL}
  /\ Apart(DOMAIN h.blocks, DOMAIN l.elements, Contents(l), s) /\ OneEach(l)

LEMMA SoundSubset ==
  ASSUME NEW h, NEW l, NEW s, Sound(h, l, s), NEW u, u \subseteq s
  PROVE  Sound(h, l, u)
BY DEF Sound, Apart

LEMMA SoundMalloc ==
  ASSUME NEW h, NEW l, NEW s, Sound(h, l, s), NEW ptr \in Nat \ {0}, NEW size,
         ptr \notin DOMAIN h.blocks
  PROVE  Sound(mymalloc(h, ptr, size), l, s \cup {ptr})
<1>1. HasBlocks(h) /\ DOMAIN h.blocks \subseteq Nat \ {0}
  BY DEF Sound
<1>2. PICK g : g = mymalloc(h, ptr, size)
  OBVIOUS
<1>3. HasBlocks(g) /\ DOMAIN g.blocks = DOMAIN h.blocks \cup {ptr}
  BY <1>1, <1>2, MallocBlocks
<1>4. DOMAIN g.blocks \subseteq Nat \ {0}
  BY <1>1, <1>3
<1>5. Apart(DOMAIN g.blocks, DOMAIN l.elements, Contents(l), s \cup {ptr})
  BY <1>3 DEF Apart, Sound
<1>6. Sound(g, l, s \cup {ptr})
  BY <1>3, <1>4, <1>5 DEF Sound
<1>7. QED
  BY <1>2, <1>6

\* a block that is not of the list is freed
LEMMA SoundFree ==
  ASSUME NEW h, NEW l, NEW s, Sound(h, l, s), NEW ptr, ptr \notin DOMAIN l.elements,
         ptr \notin Contents(l)
  PROVE  Sound(myfree(h, ptr), l, s \ {ptr})
<1>1. HasBlocks(h) /\ DOMAIN h.blocks \subseteq Nat \ {0}
  BY DEF Sound
<1>2. PICK g : g = myfree(h, ptr)
  OBVIOUS
<1>3. /\ HasBlocks(g)
      /\ DOMAIN h.blocks \ {ptr} \subseteq DOMAIN g.blocks /\ DOMAIN g.blocks \subseteq DOMAIN h.blocks
  BY <1>1, <1>2, FreeBlocks
<1>4. DOMAIN g.blocks \subseteq Nat \ {0}
  BY <1>1, <1>3
<1>5. Apart(DOMAIN g.blocks, DOMAIN l.elements, Contents(l), s \ {ptr})
  BY <1>3 DEF Apart, Sound
<1>6. Sound(g, l, s \ {ptr})
  BY <1>3, <1>4, <1>5 DEF Sound
<1>7. QED
  BY <1>2, <1>6

LEMMA SoundRealloc ==
  ASSUME NEW h, NEW l, NEW s, Sound(h, l, s), NEW ptr \in s, NEW new, NEW size,
         IF Found(h, ptr) THEN new = ptr \/ (new \in Nat \ {0} /\ new \notin DOMAIN h.blocks)
         ELSE new = ptr
  PROVE  Sound(myrealloc(h, ptr, new, size), l, (s \ {ptr}) \cup {new})
<1>1. HasBlocks(h) /\ DOMAIN h.blocks \subseteq Nat \ {0} /\ ptr \in DOMAIN h.blocks
  BY DEF Sound, Apart
<1>2. PICK g : g = myrealloc(h, ptr, new, size)
  OBVIOUS
<1>3. /\ HasBlocks(g)
      /\ DOMAIN g.blocks = IF Found(h, ptr) THEN (DOMAIN h.blocks \ {ptr}) \cup {new}
                           ELSE DOMAIN h.blocks
  BY <1>1, <1>2, ReallocBlocks
<1>4. /\ DOMAIN g.blocks = (DOMAIN h.blocks \ {ptr}) \cup {new}
      /\ new \in Nat \ {0} /\ (new = ptr \/ new \notin DOMAIN h.blocks)
  BY <1>1, <1>3
<1>5. DOMAIN g.blocks \subseteq Nat \ {0}
  BY <1>1, <1>4
<1>6. Apart(DOMAIN g.blocks, DOMAIN l.elements, Contents(l), (s \ {ptr}) \cup {new})
  BY <1>4 DEF Apart, Sound
<1>7. Sound(g, l, (s \ {ptr}) \cup {new})
  BY <1>3, <1>5, <1>6 DEF Sound
<1>8. QED
  BY <1>2, <1>7

LEMMA SoundFailure ==
  ASSUME NEW h, NEW l, NEW s, Sound(h, l, s), NEW ptr, NEW size
  PROVE  Sound(mymallocFails(h), l, s) /\ Sound(myreallocFails(h, ptr, size), l, s)
<1>1. HasBlocks(h)
  BY DEF Sound
<1>2. PICK f, g : f = mymallocFails(h) /\ g = myreallocFails(h, ptr, size)
  OBVIOUS
<1>3. HasBlocks(f) /\ f.blocks = h.blocks /\ HasBlocks(g) /\ g.blocks = h.blocks
  BY <1>1, <1>2, FailureBlocks
<1>4. Sound(f, l, s) /\ Sound(g, l, s)
  BY <1>3 DEF Sound
<1>5. QED
  BY <1>2, <1>4

\* an element is put in, which takes over one of the blocks held
LEMMA SoundInsert ==
  ASSUME NEW h, NEW l, NEW s, Sound(h, l, s), NEW content \in s, NEW x \in Nat \ {0},
         x \notin DOMAIN h.blocks, NEW size, NEW index \in DOMAIN l.elements \cup {NULL}
  PROVE  /\ Sound(mymalloc(h, x, size), ListInsert(l, content, x, index), s \ {content})
         /\ \E i \in DOMAIN Order(ListInsert(l, content, x, index)) :
              Order(l) = RemoveAt(Order(ListInsert(l, content, x, index)), i)
<1>1. PICK c : Linked(l, c)
  BY DEF Sound
<1>2. PICK i \in 1..(Len(c) + 1) : index = At(c, i)
  BY <1>1, PlaceOf
<1>3. PICK d, r, g : /\ d = Inserted(c, i, x) /\ r = ListInsert(l, content, x, index)
                     /\ g = mymalloc(h, x, size)
  OBVIOUS
<1>4. /\ HasBlocks(h) /\ DOMAIN h.blocks \subseteq Nat \ {0}
      /\ Apart(DOMAIN h.blocks, DOMAIN l.elements, Contents(l), s)
      /\ l.current \in DOMAIN l.elements \cup {NULL} /\ OneEach(l)
  BY DEF Sound
<1>5. x \notin DOMAIN l.elements /\ x # content
  BY <1>4 DEF Apart
<1>6. /\ Linked(r, d) /\ r.current = l.current
      /\ DOMAIN r.elements = DOMAIN l.elements \cup {x}
      /\ r.elements[x].content = content
      /\ \A a \in DOMAIN l.elements : r.elements[a].content = l.elements[a].content
  BY <1>1, <1>2, <1>3, <1>5, InsertLinks
<1>7. HasBlocks(g) /\ DOMAIN g.blocks = DOMAIN h.blocks \cup {x}
  BY <1>3, <1>4, MallocBlocks
<1>8. Contents(r) = Contents(l) \cup {content}
  BY <1>6 DEF Contents
<1>9. Apart(DOMAIN g.blocks, DOMAIN r.elements, Contents(r), s \ {content})
  <2>1. content \in DOMAIN h.blocks /\ x \notin Contents(l) /\ x \notin s
        /\ content \notin DOMAIN l.elements /\ content \notin Contents(l)
    BY <1>4 DEF Apart
  <2>2. QED
    BY <1>4, <1>6, <1>7, <1>8, <2>1 DEF Apart
<1>10. OneEach(r)
  <2>1. \A a \in DOMAIN l.elements : l.elements[a].content # content
    BY <1>4 DEF Apart, Contents
  <2>2. QED
    BY <1>4, <1>6, <2>1 DEF OneEach
<1>11. Sound(g, r, s \ {content})
  <2>1. DOMAIN g.blocks \subseteq Nat \ {0}
    BY <1>4, <1>7
  <2>2. r.current \in DOMAIN r.elements \cup {NULL}
    BY <1>4, <1>6
  <2>3. QED
    BY <1>6, <1>7, <1>9, <1>10, <2>1, <2>2 DEF Sound
<1>12. i \in DOMAIN Order(r) /\ Order(l) = RemoveAt(Order(r), i)
  <2>1. c \in Seq(Nat \ {0})
    BY <1>1 DEF Linked
  <2>2. Without(d, i) = c
    BY <1>3, <2>1, WithoutInserted
  <2>3. Linked(l, Without(d, i))
    BY <1>1, <2>2
  <2>4. i \in 1..Len(d)
    <3>1. d \in Seq(Nat \ {0}) /\ IsInserted(d, c, i, x)
      BY <1>3, <2>1, InsertedAt
    <3>2. Len(c) \in Nat /\ Len(d) = Len(c) + 1
      BY <2>1, <3>1 DEF IsInserted
    <3>3. QED
      BY <3>2
  <2>5. \A a \in DOMAIN l.elements : l.elements[a].content = r.elements[a].content
    BY <1>6
  <2>6. QED
    BY <1>6, <2>3, <2>4, <2>5, OrderWithout
<1>13. QED
  BY <1>3, <1>11, <1>12

\* an element is taken out, which gives back its block and its content
LEMMA SoundTakenOut ==
  ASSUME NEW h, NEW l, NEW s, Sound(h, l, s), NEW a \in DOMAIN l.elements,
         NEW current \in (DOMAIN l.elements \ {a}) \cup {NULL}
  PROVE  /\ Sound(h, TakenOut(l, a, current), s \cup {a, l.elements[a].content})
         /\ \E i \in DOMAIN Order(l) : Order(TakenOut(l, a, current)) = RemoveAt(Order(l), i)
<1>1. PICK c : Linked(l, c)
  BY DEF Sound
<1>2. PICK i \in 1..Len(c) : a = c[i]
  <2>1. DOMAIN l.elements = {c[i] : i \in DOMAIN c} /\ DOMAIN c = 1..Len(c)
    BY <1>1 DEF Linked
  <2>2. QED
    BY <2>1
<1>3. PICK r, x : r = TakenOut(l, a, current) /\ x = l.elements[a].content
  OBVIOUS
<1>4. /\ HasBlocks(h) /\ DOMAIN h.blocks \subseteq Nat \ {0}
      /\ Apart(DOMAIN h.blocks, DOMAIN l.elements, Contents(l), s) /\ OneEach(l)
  BY DEF Sound
<1>5. /\ Linked(r, Without(c, i)) /\ r.current = current
      /\ DOMAIN r.elements = DOMAIN l.elements \ {a}
      /\ \A b \in DOMAIN r.elements : r.elements[b].content = l.elements[b].content
  BY <1>1, <1>2, <1>3, TakenOutLinks
<1>6. x \in Contents(l) /\ Contents(r) = Contents(l) \ {x}
  BY <1>3, <1>4, <1>5 DEF Contents, OneEach
<1>7. Apart(DOMAIN h.blocks, DOMAIN r.elements, Contents(r), s \cup {a, x})
  BY <1>4, <1>5, <1>6 DEF Apart
<1>8. OneEach(r)
  BY <1>4, <1>5 DEF OneEach
<1>9. Sound(h, r, s \cup {a, x})
  <2>1. r.current \in DOMAIN r.elements \cup {NULL}
    BY <1>5
  <2>2. QED
    BY <1>4, <1>5, <1>7, <1>8, <2>1 DEF Sound
<1>10. i \in DOMAIN Order(l) /\ Order(r) = RemoveAt(Order(l), i)
  BY <1>1, <1>2, <1>5, OrderWithout
<1>11. QED
  BY <1>3, <1>9, <1>10

-----------------------------------------------------------------------------
(* What a search finds, and what is beside an element *)

LEMMA FindItemType ==
  ASSUME NEW l, NEW c, Linked(l, c), l.current \in DOMAIN l.elements \cup {NULL}, NEW compare
  PROVE  ListFindItem(l, compare) \in DOMAIN l.elements \cup {NULL}
<1>1. Chain(l) = c
  BY ChainIs
<1>2. /\ c \in Seq(Nat \ {0}) /\ DOMAIN l.elements = {c[k] : k \in DOMAIN c}
      /\ DOMAIN c = 1..Len(c)
  BY DEF Linked
<1>3. PICK T : T = {k \in 1..Len(c) : Same(compare, l.elements[c[k]].content)}
  OBVIOUS
<1>4. ListFindItem(l, compare) \in
        {l.current, NULL} \cup (IF T = {} THEN {} ELSE {c[Min(T)]})
  BY <1>1, <1>3 DEF ListFindItem, SelectInSeq
<1>5. T \subseteq Nat /\ T \subseteq DOMAIN c
  BY <1>2, <1>3
<1>6. CASE T = {}
  BY <1>4, <1>6
<1>7. CASE T # {}
  <2>1. Min(T) \in T
    BY <1>5, <1>7, MinProperties
  <2>2. c[Min(T)] \in DOMAIN l.elements
    BY <1>2, <1>5, <2>1
  <2>3. QED
    BY <1>4, <1>7, <2>2
<1>8. QED
  BY <1>6, <1>7

LEMMA NeighboursType ==
  ASSUME NEW l, NEW c, Linked(l, c), NEW a \in DOMAIN l.elements
  PROVE  /\ l.elements[a].next \in (DOMAIN l.elements \ {a}) \cup {NULL}
         /\ l.elements[a].prev \in (DOMAIN l.elements \ {a}) \cup {NULL}
<1>1. /\ c \in Seq(Nat \ {0}) /\ \A i, j \in DOMAIN c : c[i] = c[j] => i = j
      /\ DOMAIN l.elements = {c[i] : i \in DOMAIN c} /\ DOMAIN c = 1..Len(c)
      /\ \A k \in DOMAIN c :
           l.elements[c[k]] = Element(l.elements[c[k]].content, At(c, k - 1), At(c, k + 1))
  BY DEF Linked
<1>2. PICK i \in DOMAIN c : a = c[i]
  BY <1>1
<1>3. l.elements[a].prev = At(c, i - 1) /\ l.elements[a].next = At(c, i + 1)
  <2>1. PICK x, p, n : x = l.elements[a].content /\ p = At(c, i - 1) /\ n = At(c, i + 1)
    OBVIOUS
  <2>2. l.elements[a] = Element(x, p, n)
    BY <1>1, <1>2, <2>1
  <2>3. l.elements[a].prev = p /\ l.elements[a].next = n
    BY <2>2 DEF Element
  <2>4. QED
    BY <2>1, <2>3
<1>4. i \in Nat /\ i - 1 # i /\ i + 1 # i
  BY <1>1, <1>2
<1>5. ASSUME NEW k, k # i PROVE At(c, k) \in (DOMAIN l.elements \ {a}) \cup {NULL}
  BY <1>1, <1>2, <1>5 DEF At
<1>6. QED
  BY <1>3, <1>4, <1>5

LEMMA EndsType ==
  ASSUME NEW l, NEW c, Linked(l, c), l.count > 0
  PROVE  l.first \in DOMAIN l.elements /\ l.last \in DOMAIN l.elements
<1>1. /\ c \in Seq(Nat \ {0}) /\ DOMAIN l.elements = {c[i] : i \in DOMAIN c}
      /\ DOMAIN c = 1..Len(c) /\ Len(c) \in Nat /\ l.count = Len(c)
      /\ l.first = At(c, 1) /\ l.last = At(c, Len(c))
  BY DEF Linked
<1>2. 1 \in DOMAIN c /\ Len(c) \in DOMAIN c
  BY <1>1
<1>3. QED
  BY <1>1, <1>2 DEF At

\* the current pointer leaves an element that is taken out
LEMMA CurrentAfterType ==
  ASSUME NEW l, NEW a, l.current \in DOMAIN l.elements \cup {NULL},
         NEW next \in (DOMAIN l.elements \ {a}) \cup {NULL}
  PROVE  CurrentAfter(l.current, a, next) \in (DOMAIN l.elements \ {a}) \cup {NULL}
BY DEF CurrentAfter

LEMMA SoundUnlink ==
  ASSUME NEW h, NEW l, NEW s, Sound(h, l, s), NEW a \in DOMAIN l.elements
  PROVE  /\ Sound(h, ListUnlink(l, a), s \cup {a, l.elements[a].content})
         /\ \E i \in DOMAIN Order(l) : Order(ListUnlink(l, a)) = RemoveAt(Order(l), i)
<1>1. PICK c : Linked(l, c)
  BY DEF Sound
<1>2. l.elements[a].next \in (DOMAIN l.elements \ {a}) \cup {NULL}
  BY <1>1, NeighboursType
<1>3. l.current \in DOMAIN l.elements \cup {NULL}
  BY DEF Sound
<1>4. PICK current : current = CurrentAfter(l.current, a, l.elements[a].next)
  OBVIOUS
<1>5. current \in (DOMAIN l.elements \ {a}) \cup {NULL}
  BY <1>2, <1>3, <1>4, CurrentAfterType
<1>6. ListUnlink(l, a) = TakenOut(l, a, current)
  BY <1>4 DEF ListUnlink
<1>7. /\ Sound(h, TakenOut(l, a, current), s \cup {a, l.elements[a].content})
      /\ \E i \in DOMAIN Order(l) : Order(TakenOut(l, a, current)) = RemoveAt(Order(l), i)
  BY <1>5, SoundTakenOut
<1>8. QED
  BY <1>6, <1>7

LEMMA SoundPopTail ==
  ASSUME NEW h, NEW l, NEW s, Sound(h, l, s), l.last \in DOMAIN l.elements
  PROVE  /\ Sound(h, ListPopTail(l), s \cup {l.last, l.elements[l.last].content})
         /\ \E i \in DOMAIN Order(l) : Order(ListPopTail(l)) = RemoveAt(Order(l), i)
<1>1. PICK c : Linked(l, c)
  BY DEF Sound
<1>2. l.elements[l.last].prev \in (DOMAIN l.elements \ {l.last}) \cup {NULL}
  BY <1>1, NeighboursType
<1>3. l.current \in DOMAIN l.elements \cup {NULL}
  BY DEF Sound
<1>4. PICK current : current = CurrentAfter(l.current, l.last, l.elements[l.last].prev)
  OBVIOUS
<1>5. current \in (DOMAIN l.elements \ {l.last}) \cup {NULL}
  BY <1>2, <1>3, <1>4, CurrentAfterType
<1>6. ListPopTail(l) = TakenOut(l, l.last, current)
  BY <1>4 DEF ListPopTail
<1>7. /\ Sound(h, TakenOut(l, l.last, current), s \cup {l.last, l.elements[l.last].content})
      /\ \E i \in DOMAIN Order(l) : Order(TakenOut(l, l.last, current)) = RemoveAt(Order(l), i)
  BY <1>5, SoundTakenOut
<1>8. QED
  BY <1>6, <1>7

\* the element that was taken out is freed, and its content too when the call frees it
LEMMA SoundTakenOutFree ==
  ASSUME NEW h, NEW r, NEW s, NEW a, NEW x, Sound(h, r, s \cup {a, x}),
         a # x, a \notin s, x \notin s
  PROVE  /\ Sound(myfree(h, a), r, s \cup {x})
         /\ Sound(myfree(myfree(h, x), a), r, s) /\ Sound(myfree(myfree(h, a), x), r, s)
<1>1. /\ a \notin DOMAIN r.elements /\ a \notin Contents(r)
      /\ x \notin DOMAIN r.elements /\ x \notin Contents(r)
  BY DEF Sound, Apart
<1>2. PICK f, g : f = myfree(h, a) /\ g = myfree(h, x)
  OBVIOUS
<1>3. Sound(f, r, (s \cup {a, x}) \ {a})
  BY <1>1, <1>2, SoundFree
<1>4. Sound(g, r, (s \cup {a, x}) \ {x})
  BY <1>1, <1>2, SoundFree
<1>5. (s \cup {a, x}) \ {a} = s \cup {x} /\ (s \cup {a, x}) \ {x} = s \cup {a}
  OBVIOUS
<1>6. Sound(f, r, s \cup {x}) /\ Sound(g, r, s \cup {a})
  BY <1>3, <1>4, <1>5
<1>7. Sound(myfree(f, x), r, (s \cup {x}) \ {x}) /\ Sound(myfree(g, a), r, (s \cup {a}) \ {a})
  BY <1>1, <1>6, SoundFree
<1>8. (s \cup {x}) \ {x} = s /\ (s \cup {a}) \ {a} = s
  OBVIOUS
<1>9. QED
  BY <1>2, <1>6, <1>7, <1>8

-----------------------------------------------------------------------------
(* The list emptied: the blocks that are not freed stay where they are *)

LEMMA ZeroLinked == Linked(ListZero, <<>>) /\ DOMAIN ListZero.elements = {} /\ ListZero.current = NULL
<1>1. /\ ListZero.first = 0 /\ ListZero.last = 0 /\ ListZero.current = 0 /\ ListZero.count = 0
      /\ ListZero.elements = <<>>
  BY DEF ListZero, NULL
<1>2. IsList(ListZero)
  BY DEF IsList, ListZero
<1>3. /\ <<>> \in Seq(Nat \ {0}) /\ Len(<<>>) = 0 /\ DOMAIN <<>> = {}
  OBVIOUS
<1>4. At(<<>>, 1) = NULL /\ At(<<>>, 0) = NULL
  BY <1>3 DEF At
<1>5. QED
  BY <1>1, <1>2, <1>3, <1>4 DEF Linked, NULL

LEMMA ZeroSound ==
  ASSUME NEW h, NEW s, HasBlocks(h), DOMAIN h.blocks \subseteq Nat \ {0}, s \subseteq DOMAIN h.blocks
  PROVE  Sound(h, ListZero, s)
<1>1. /\ \E c : Linked(ListZero, c)
      /\ DOMAIN ListZero.elements = {} /\ ListZero.current = NULL
  BY ZeroLinked
<1>2. Contents(ListZero) = {}
  BY <1>1 DEF Contents
<1>3. Apart(DOMAIN h.blocks, DOMAIN ListZero.elements, Contents(ListZero), s)
  BY <1>1, <1>2 DEF Apart
<1>4. OneEach(ListZero)
  BY <1>1 DEF OneEach
<1>5. QED
  BY <1>1, <1>3, <1>4 DEF Sound

LEMMA ZeroFree ==
  ASSUME NEW h, NEW s, Sound(h, ListZero, s), NEW ptr, ptr \notin s
  PROVE  Sound(myfree(h, ptr), ListZero, s)
<1>1. DOMAIN ListZero.elements = {}
  BY ZeroLinked
<1>2. ptr \notin DOMAIN ListZero.elements /\ ptr \notin Contents(ListZero)
  BY <1>1 DEF Contents
<1>3. Sound(myfree(h, ptr), ListZero, s \ {ptr})
  BY <1>2, SoundFree
<1>4. s \ {ptr} = s
  OBVIOUS
<1>5. QED
  BY <1>3, <1>4

\* the heap g after the element a of the list is freed
OneFreed(g, l, freeContent, a) ==
  myfree(IF freeContent THEN myfree(g, l.elements[a].content) ELSE g, a)

\* the heaps that AllFreed goes through
LEMMA AllFreedSteps ==
  ASSUME NEW h, NEW l, NEW c, Linked(l, c), NEW freeContent
  PROVE  \E f : /\ AllFreed(h, l, freeContent) = f[Len(c)] /\ f[0] = h
                /\ \A k \in 1..Len(c) : f[k] = OneFreed(f[k - 1], l, freeContent, c[k])
<1>0. PICK n \in Nat : n = Len(c) /\ n = l.count /\ Chain(l) = c
  BY ChainIs DEF Linked
<1> DEFINE
      Step(f, k) == IF k = 0 THEN h ELSE OneFreed(f[k - 1], l, freeContent, c[k])
      F == CHOOSE f : f = [k \in 0..n |-> Step(f, k)]
      Up == {k \in Nat : \E f : f = [i \in 0..k |-> Step(f, i)]}
<1>1. 0 \in Up
  <2>1. [i \in 0..0 |-> h] = [i \in 0..0 |-> Step([j \in 0..0 |-> h], i)]
    OBVIOUS
  <2> HIDE DEF Step
  <2>2. QED
    BY <2>1
<1>2. ASSUME NEW k \in Nat, k \in Up PROVE k + 1 \in Up
  <2>1. PICK f : f = [i \in 0..k |-> Step(f, i)]
    BY <1>2
  <2>2. PICK g : g = [i \in 0..(k + 1) |-> Step(f, i)]
    OBVIOUS
  <2>3. \A i \in 0..k : g[i] = f[i]
    <3> HIDE DEF Step
    <3>1. \A i \in 0..k : i \in 0..(k + 1)
      OBVIOUS
    <3>2. QED
      BY <2>1, <2>2, <3>1, Zenon
  <2>4. \A i \in 0..(k + 1) : Step(f, i) = Step(g, i)
    <3>1. \A i \in 0..(k + 1) : i # 0 => i - 1 \in 0..k
      OBVIOUS
    <3>2. QED
      BY <2>3, <3>1, Zenon
  <2>5. g = [i \in 0..(k + 1) |-> Step(g, i)]
    <3> HIDE DEF Step
    <3>1. QED
      BY <2>2, <2>4
  <2> HIDE DEF Step
  <2>6. QED
    BY <2>5
<1>3. \E f : f = [i \in 0..n |-> Step(f, i)]
  <2>1. n \in Up
    <3> HIDE DEF Up
    <3>1. QED
      BY <1>1, <1>2, Induction
  <2> HIDE DEF Step
  <2>2. QED
    BY <2>1
<1>4. F = [i \in 0..n |-> Step(F, i)]
  <2> HIDE DEF Step
  <2>1. QED
    BY <1>3
<1>5. AllFreed(h, l, freeContent) = F[n]
  BY <1>0 DEF AllFreed, OneFreed
<1> HIDE DEF F
<1>6. \A i \in 0..n : F[i] = Step(F, i)
  <2> HIDE DEF Step
  <2>1. QED
    BY <1>4, Zenon
<1>7. F[0] = h /\ \A i \in 1..n : F[i] = OneFreed(F[i - 1], l, freeContent, c[i])
  <2>1. 0 \in 0..n /\ \A i \in 1..n : i \in 0..n /\ i # 0
    OBVIOUS
  <2>2. QED
    BY <1>6, <2>1, Zenon
<1>8. QED
  BY <1>0, <1>5, <1>7

LEMMA SoundEmpty ==
  ASSUME NEW h, NEW l, NEW s, Sound(h, l, s), NEW freeContent \in BOOLEAN
  PROVE  Sound(AllFreed(h, l, freeContent), ListZero,
               IF freeContent THEN s ELSE s \cup Contents(l))
<1>1. PICK c : Linked(l, c)
  BY DEF Sound
<1>2. PICK n \in Nat : n = Len(c)
  BY <1>1 DEF Linked
<1>3. PICK f : /\ AllFreed(h, l, freeContent) = f[n] /\ f[0] = h
               /\ \A k \in 1..n : f[k] = OneFreed(f[k - 1], l, freeContent, c[k])
  BY <1>1, <1>2, AllFreedSteps
<1>4. PICK u : u = IF freeContent THEN s ELSE s \cup Contents(l)
  OBVIOUS
<1>5. /\ HasBlocks(h) /\ DOMAIN h.blocks \subseteq Nat \ {0}
      /\ Apart(DOMAIN h.blocks, DOMAIN l.elements, Contents(l), s)
  BY DEF Sound
<1>6. u \subseteq DOMAIN h.blocks /\ u \cap DOMAIN l.elements = {}
      /\ (freeContent => u \cap Contents(l) = {})
  BY <1>4, <1>5 DEF Apart
<1> DEFINE Kept == {k \in Nat : k <= n => Sound(f[k], ListZero, u)}
<1>7. 0 \in Kept
  BY <1>3, <1>5, <1>6, ZeroSound
<1>8. ASSUME NEW k \in Nat, k \in Kept PROVE k + 1 \in Kept
  <2>1. SUFFICES ASSUME k + 1 <= n PROVE Sound(f[k + 1], ListZero, u)
    OBVIOUS
  <2>2. k + 1 \in 1..n /\ (k + 1) - 1 = k /\ k <= n
    BY <2>1
  <2>3. PICK g, a, x : g = f[k] /\ a = c[k + 1] /\ x = l.elements[a].content
    OBVIOUS
  <2>4. f[k + 1] = OneFreed(g, l, freeContent, a)
    BY <1>3, <2>2, <2>3
  <2>5. Sound(g, ListZero, u)
    BY <1>8, <2>2, <2>3
  <2>6. a \in DOMAIN l.elements
    <3>1. DOMAIN l.elements = {c[i] : i \in DOMAIN c} /\ DOMAIN c = 1..n
      BY <1>1, <1>2 DEF Linked
    <3>2. QED
      BY <2>2, <2>3, <3>1
  <2>7. a \notin u /\ (freeContent => x \notin u)
    BY <1>6, <2>3, <2>6 DEF Contents
  <2>8. CASE freeContent
    <3>1. f[k + 1] = myfree(myfree(g, x), a)
      BY <2>3, <2>4, <2>8 DEF OneFreed
    <3>2. Sound(myfree(g, x), ListZero, u)
      BY <2>5, <2>7, <2>8, ZeroFree
    <3>3. Sound(myfree(myfree(g, x), a), ListZero, u)
      BY <2>7, <3>2, ZeroFree
    <3>4. QED
      BY <3>1, <3>3
  <2>9. CASE ~freeContent
    <3>1. f[k + 1] = myfree(g, a)
      BY <2>4, <2>9 DEF OneFreed
    <3>2. Sound(myfree(g, a), ListZero, u)
      BY <2>5, <2>7, ZeroFree
    <3>3. QED
      BY <3>1, <3>2
  <2>10. QED
    BY <2>8, <2>9
<1>9. Nat \subseteq Kept
  <2> HIDE DEF Kept
  <2>1. QED
    BY <1>7, <1>8, Induction
<1>10. Sound(f[n], ListZero, u)
  BY <1>9
<1>11. QED
  BY <1>3, <1>4, <1>10

-----------------------------------------------------------------------------
(* The calls *)

SoundNow == setup \in Setups /\ Sound(heap, list, held)

\* what a call does to the order of the contents
OrderKept(old, new) ==
  \/ new = old \/ new = <<>>
  \/ \E i \in DOMAIN new : old = RemoveAt(new, i)
  \/ \E i \in DOMAIN old : new = RemoveAt(old, i)

Done == Sound(heap', list', held') /\ OrderKept(Order(list), Order(list'))

LEMMA FreeType ==
  ASSUME setup \in Setups
  PROVE  \A a \in Free : a \in Nat \ {0} /\ a \notin DOMAIN heap.blocks
<1>1. MaxAddress \in Nat /\ setup.addresses \in 1..MaxAddress
  BY SetupsAssumption, HeapAssumption
<1>2. (1..setup.addresses) \subseteq Nat \ {0}
  BY <1>1
<1>3. Free \subseteq (1..setup.addresses) \ DOMAIN heap.blocks
  BY DEF Free
<1>4. QED
  BY <1>2, <1>3

LEMMA MallocDone ==
  ASSUME SoundNow, Malloc
  PROVE  Done
<1>1. PICK ptr \in Free, size \in setup.sizes :
        heap' = mymalloc(heap, ptr, size) /\ held' = held \cup {ptr} /\ list' = list
  BY DEF Malloc
<1>2. ptr \in Nat \ {0} /\ ptr \notin DOMAIN heap.blocks
  BY <1>1, FreeType DEF SoundNow
<1>3. Sound(heap, list, held)
  BY DEF SoundNow
<1>4. Sound(mymalloc(heap, ptr, size), list, held \cup {ptr})
  BY <1>2, <1>3, SoundMalloc
<1>5. QED
  BY <1>1, <1>4 DEF Done, OrderKept

LEMMA FreeBlockDone ==
  ASSUME SoundNow, FreeBlock
  PROVE  Done
<1>1. PICK ptr \in held : heap' = myfree(heap, ptr) /\ held' = held \ {ptr} /\ list' = list
  BY DEF FreeBlock
<1>2. Sound(heap, list, held)
  BY DEF SoundNow
<1>3. ptr \notin DOMAIN list.elements /\ ptr \notin Contents(list)
  BY <1>1, <1>2 DEF Sound, Apart
<1>4. Sound(myfree(heap, ptr), list, held \ {ptr})
  BY <1>2, <1>3, SoundFree
<1>5. QED
  BY <1>1, <1>4 DEF Done, OrderKept

LEMMA ReallocDone ==
  ASSUME SoundNow, Realloc
  PROVE  Done
<1>1. PICK ptr \in held, size \in setup.resizes :
        \E new \in (IF Found(heap, ptr) THEN Free \cup {ptr} ELSE {ptr}) :
          /\ heap' = myrealloc(heap, ptr, new, size)
          /\ held' = (held \ {ptr}) \cup {new} /\ list' = list
  BY DEF Realloc
<1>2. PICK new \in (IF Found(heap, ptr) THEN Free \cup {ptr} ELSE {ptr}) :
        /\ heap' = myrealloc(heap, ptr, new, size)
        /\ held' = (held \ {ptr}) \cup {new} /\ list' = list
  BY <1>1
<1>3. Sound(heap, list, held) /\ ptr \in held
  BY <1>1 DEF SoundNow
<1>4. \A a \in Free : a \in Nat \ {0} /\ a \notin DOMAIN heap.blocks
  BY FreeType DEF SoundNow
<1>5. IF Found(heap, ptr) THEN new = ptr \/ (new \in Nat \ {0} /\ new \notin DOMAIN heap.blocks)
      ELSE new = ptr
  BY <1>2, <1>4
<1>6. Sound(myrealloc(heap, ptr, new, size), list, (held \ {ptr}) \cup {new})
  BY <1>3, <1>5, SoundRealloc
<1>7. QED
  BY <1>2, <1>6 DEF Done, OrderKept

LEMMA OutOfMemoryDone ==
  ASSUME SoundNow, OutOfMemory
  PROVE  Done
<1>1. Sound(heap, list, held)
  BY DEF SoundNow
<1>2. /\ list' = list /\ held' = held
      /\ heap' = mymallocFails(heap) \/ \E ptr, size : heap' = myreallocFails(heap, ptr, size)
  BY DEF OutOfMemory
<1>3. Sound(heap', list, held)
  BY <1>1, <1>2, SoundFailure
<1>4. QED
  BY <1>2, <1>3 DEF Done, OrderKept

LEMMA InsertDone ==
  ASSUME SoundNow, Insert
  PROVE  Done
<1>1. PICK content \in held, newel \in Free, index \in DOMAIN list.elements \cup {NULL} :
        /\ heap' = mymalloc(heap, newel, ElementSize)
        /\ list' = ListInsert(list, content, newel, index)
        /\ held' = held \ {content}
  BY DEF Insert
<1>2. Sound(heap, list, held) /\ content \in held /\ index \in DOMAIN list.elements \cup {NULL}
  BY <1>1 DEF SoundNow
<1>3. newel \in Nat \ {0} /\ newel \notin DOMAIN heap.blocks
  BY <1>1, FreeType DEF SoundNow
<1>4. PICK new : new = ListInsert(list, content, newel, index)
  OBVIOUS
<1>5. /\ Sound(mymalloc(heap, newel, ElementSize), new, held \ {content})
      /\ \E i \in DOMAIN Order(new) : Order(list) = RemoveAt(Order(new), i)
  BY <1>2, <1>3, <1>4, SoundInsert
<1>6. QED
  BY <1>1, <1>4, <1>5 DEF Done, OrderKept

LEMMA FindDone ==
  ASSUME SoundNow, Find
  PROVE  Done
<1>1. PICK compare, a : /\ a = ListFindItem(list, compare)
                        /\ list' = IF a = NULL THEN list ELSE [list EXCEPT !.current = a]
                        /\ heap' = heap /\ held' = held
  BY DEF Find
<1>2. Sound(heap, list, held)
  BY DEF SoundNow
<1>3. PICK c : Linked(list, c)
  BY <1>2 DEF Sound
<1>4. a \in DOMAIN list.elements \cup {NULL}
  <2>1. list.current \in DOMAIN list.elements \cup {NULL}
    BY <1>2 DEF Sound
  <2>2. QED
    BY <1>1, <1>3, <2>1, FindItemType
<1>5. CASE a = NULL
  <2>1. list' = list
    BY <1>1, <1>5
  <2>2. QED
    BY <1>1, <1>2, <2>1 DEF Done, OrderKept
<1>6. CASE a # NULL
  <2>1. PICK r : r = [list EXCEPT !.current = a]
    OBVIOUS
  <2>2. IsList(list)
    BY <1>3 DEF Linked
  <2>3. r = [first |-> list.first, last |-> list.last, current |-> a, count |-> list.count,
             elements |-> list.elements]
    BY <2>1, <2>2 DEF IsList
  <2>4. /\ IsList(r) /\ r.elements = list.elements /\ r.current = a /\ r.count = list.count
        /\ r.first = list.first /\ r.last = list.last
    BY <2>3 DEF IsList
  <2>5. Linked(r, c)
    BY <1>3, <2>4 DEF Linked
  <2>6. Contents(r) = Contents(list) /\ OneEach(r)
    BY <1>2, <2>4 DEF Contents, OneEach, Sound
  <2>7. Sound(heap, r, held)
    BY <1>2, <1>4, <2>4, <2>5, <2>6 DEF Sound
  <2>8. Order(r) = Order(list)
    <3>1. Order(r) = ContentsOf(r, c) /\ Order(list) = ContentsOf(list, c)
      BY <1>3, <2>5, OrderIs
    <3>2. QED
      BY <2>4, <3>1 DEF ContentsOf
  <2>9. list' = r
    BY <1>1, <1>6, <2>1
  <2>10. QED
    BY <1>1, <2>7, <2>8, <2>9 DEF Done, OrderKept
<1>7. QED
  BY <1>5, <1>6

\* the blocks of an element are apart from those that the program holds
LEMMA BlocksOf ==
  ASSUME NEW h, NEW l, NEW s, Sound(h, l, s), NEW a \in DOMAIN l.elements
  PROVE  /\ a # l.elements[a].content /\ a \notin s /\ l.elements[a].content \notin s
BY DEF Sound, Apart, Contents

LEMMA UnlinkDone ==
  ASSUME SoundNow, Unlink
  PROVE  Done
<1>1. PICK compare, freeContent :
        LET a == ListFindItem(list, compare)
            content == list.elements[a].content
        IN  /\ a # NULL
            /\ list' = ListUnlink(list, a)
            /\ heap' = myfree(IF freeContent THEN myfree(heap, content) ELSE heap, a)
            /\ held' = IF freeContent THEN held ELSE held \cup {content}
  BY DEF Unlink
<1>2. PICK a, x : a = ListFindItem(list, compare) /\ x = list.elements[a].content
  OBVIOUS
<1>3. /\ a # NULL /\ list' = ListUnlink(list, a)
      /\ heap' = myfree(IF freeContent THEN myfree(heap, x) ELSE heap, a)
      /\ held' = IF freeContent THEN held ELSE held \cup {x}
  BY <1>1, <1>2
<1>4. Sound(heap, list, held)
  BY DEF SoundNow
<1>5. a \in DOMAIN list.elements
  <2>1. PICK c : Linked(list, c)
    BY <1>4 DEF Sound
  <2>2. list.current \in DOMAIN list.elements \cup {NULL}
    BY <1>4 DEF Sound
  <2>3. a \in DOMAIN list.elements \cup {NULL}
    BY <1>2, <2>1, <2>2, FindItemType
  <2>4. QED
    BY <1>3, <2>3
<1>6. PICK r : r = ListUnlink(list, a)
  OBVIOUS
<1>7. Sound(heap, r, held \cup {a, x}) /\ \E i \in DOMAIN Order(list) : Order(r) = RemoveAt(Order(list), i)
  BY <1>2, <1>4, <1>5, <1>6, SoundUnlink
<1>8. a # x /\ a \notin held /\ x \notin held
  BY <1>2, <1>4, <1>5, BlocksOf
<1>9. Sound(myfree(heap, a), r, held \cup {x}) /\ Sound(myfree(myfree(heap, x), a), r, held)
  BY <1>7, <1>8, SoundTakenOutFree
<1>10. Sound(heap', r, held')
  BY <1>3, <1>9
<1>11. QED
  BY <1>3, <1>6, <1>7, <1>10 DEF Done, OrderKept

LEMMA RemoveHeadDone ==
  ASSUME SoundNow, RemoveHead
  PROVE  Done
<1>1. PICK freeContent, a, x :
        /\ a = list.first /\ x = list.elements[a].content /\ list.count > 0
        /\ list' = ListUnlink(list, a)
        /\ heap' = IF freeContent THEN myfree(myfree(heap, a), x) ELSE myfree(heap, a)
        /\ held' = IF freeContent THEN held ELSE held \cup {x}
  BY DEF RemoveHead, ListDetachHead
<1>2. Sound(heap, list, held)
  BY DEF SoundNow
<1>3. a \in DOMAIN list.elements
  <2>1. PICK c : Linked(list, c)
    BY <1>2 DEF Sound
  <2>2. QED
    BY <1>1, <2>1, EndsType
<1>4. PICK r : r = ListUnlink(list, a)
  OBVIOUS
<1>5. Sound(heap, r, held \cup {a, x}) /\ \E i \in DOMAIN Order(list) : Order(r) = RemoveAt(Order(list), i)
  BY <1>1, <1>2, <1>3, <1>4, SoundUnlink
<1>6. a # x /\ a \notin held /\ x \notin held
  BY <1>1, <1>2, <1>3, BlocksOf
<1>7. Sound(myfree(heap, a), r, held \cup {x}) /\ Sound(myfree(myfree(heap, a), x), r, held)
  BY <1>5, <1>6, SoundTakenOutFree
<1>8. Sound(heap', r, held')
  BY <1>1, <1>7
<1>9. QED
  BY <1>1, <1>4, <1>5, <1>8 DEF Done, OrderKept

LEMMA PopTailDone ==
  ASSUME SoundNow, PopTail
  PROVE  Done
<1>1. PICK a, x : /\ a = list.last /\ x = list.elements[a].content /\ list.count > 0
                  /\ list' = ListPopTail(list) /\ heap' = myfree(heap, a) /\ held' = held \cup {x}
  BY DEF PopTail
<1>2. Sound(heap, list, held)
  BY DEF SoundNow
<1>3. a \in DOMAIN list.elements
  <2>1. PICK c : Linked(list, c)
    BY <1>2 DEF Sound
  <2>2. QED
    BY <1>1, <2>1, EndsType
<1>4. PICK r : r = ListPopTail(list)
  OBVIOUS
<1>5. Sound(heap, r, held \cup {a, x}) /\ \E i \in DOMAIN Order(list) : Order(r) = RemoveAt(Order(list), i)
  BY <1>1, <1>2, <1>3, <1>4, SoundPopTail
<1>6. a # x /\ a \notin held /\ x \notin held
  BY <1>1, <1>2, <1>3, BlocksOf
<1>7. Sound(myfree(heap, a), r, held \cup {x})
  BY <1>5, <1>6, SoundTakenOutFree
<1>8. QED
  BY <1>1, <1>4, <1>5, <1>7 DEF Done, OrderKept

LEMMA EmptyDone ==
  ASSUME SoundNow, Empty
  PROVE  Done
<1>1. PICK freeContent \in BOOLEAN :
        /\ list' = ListZero /\ heap' = AllFreed(heap, list, freeContent)
        /\ held' = IF freeContent THEN held ELSE held \cup Contents(list)
  BY DEF Empty, Contents
<1>2. Sound(heap, list, held)
  BY DEF SoundNow
<1>3. Sound(AllFreed(heap, list, freeContent), ListZero, held')
  BY <1>1, <1>2, SoundEmpty
<1>4. Order(ListZero) = <<>>
  <2>1. Linked(ListZero, <<>>)
    BY ZeroLinked
  <2>2. Order(ListZero) = ContentsOf(ListZero, <<>>)
    BY <2>1, OrderIs
  <2>3. Len(<<>>) = 0
    OBVIOUS
  <2>4. QED
    BY <2>2, <2>3 DEF ContentsOf
<1>5. QED
  BY <1>1, <1>3, <1>4 DEF Done, OrderKept

LEMMA NextDone ==
  ASSUME SoundNow, [Next]_vars
  PROVE  SoundNow' /\ Done
<1>1. Done
  <2>1. CASE Malloc
    BY <2>1, MallocDone
  <2>2. CASE FreeBlock
    BY <2>2, FreeBlockDone
  <2>3. CASE Realloc
    BY <2>3, ReallocDone
  <2>4. CASE OutOfMemory
    BY <2>4, OutOfMemoryDone
  <2>5. CASE Insert
    BY <2>5, InsertDone
  <2>6. CASE Find
    BY <2>6, FindDone
  <2>7. CASE Unlink
    BY <2>7, UnlinkDone
  <2>8. CASE RemoveHead
    BY <2>8, RemoveHeadDone
  <2>9. CASE PopTail
    BY <2>9, PopTailDone
  <2>10. CASE Empty
    BY <2>10, EmptyDone
  <2>11. CASE UNCHANGED vars
    <3>1. heap' = heap /\ list' = list /\ held' = held
      BY <2>11 DEF vars
    <3>2. QED
      BY <3>1 DEF SoundNow, Done, OrderKept
  <2>12. QED
    BY <2>1, <2>2, <2>3, <2>4, <2>5, <2>6, <2>7, <2>8, <2>9, <2>10, <2>11 DEF Next
<1>2. setup' = setup
  BY DEF Next, vars, Malloc, FreeBlock, Realloc, OutOfMemory, Insert, Find, Unlink, RemoveHead,
         PopTail, Empty, Calls
<1>3. SoundNow'
  BY <1>1, <1>2 DEF SoundNow, Done
<1>4. QED
  BY <1>1, <1>3

LEMMA InitSound == Init => SoundNow
<1>1. SUFFICES ASSUME Init PROVE SoundNow
  OBVIOUS
<1>2. setup \in Setups /\ heap = NoBlocks /\ list = ListZero /\ held = {}
  BY <1>1 DEF Init
<1>3. HasBlocks(NoBlocks) /\ NoBlocks.blocks = <<>>
  BY DEF NoBlocks, HasBlocks
<1>4. DOMAIN NoBlocks.blocks \subseteq Nat \ {0} /\ {} \subseteq DOMAIN NoBlocks.blocks
  BY <1>3
<1>5. Sound(NoBlocks, ListZero, {})
  BY <1>3, <1>4, ZeroSound
<1>6. QED
  BY <1>2, <1>5 DEF SoundNow

\* The elements of the list, their contents and the blocks that the program holds
\* are blocks the system gave out and has not taken back, no two of them the same:
\* no call frees a block of the list or puts one there twice (LinkedList.c).
THEOREM SoundAlways == Spec => []SoundNow
<1>1. Init => SoundNow
  BY InitSound
<1>2. SoundNow /\ [Next]_vars => SoundNow'
  BY NextDone
<1>3. QED
  BY <1>1, <1>2, PTL DEF Spec

LEMMA LinkedCardinality ==
  ASSUME NEW l, NEW c, Linked(l, c)
  PROVE  Cardinality(DOMAIN l.elements) = Len(c)
<1>1. PICK n \in Nat : n = Len(c)
  BY DEF Linked
<1>2. PICK T : T = DOMAIN l.elements
  OBVIOUS
<1>3. /\ DOMAIN c = 1..n /\ c = [k \in 1..n |-> c[k]]
      /\ T = {c[k] : k \in 1..n} /\ \A i, j \in 1..n : c[i] = c[j] => i = j
  BY <1>1, <1>2 DEF Linked
<1>4. c \in [1..n -> T]
  BY <1>3
<1>5. c \in Bijection(1..n, T)
  BY <1>3, <1>4 DEF Bijection, Injection, Surjection, IsInjective
<1>6. ExistsBijection(1..n, T)
  BY <1>5 DEF ExistsBijection
<1>7. QED
  BY <1>1, <1>2, <1>6, FS_CountingElements

LEMMA SoundWellLinked == SoundNow => WellLinked
<1>1. SUFFICES ASSUME SoundNow PROVE WellLinked
  OBVIOUS
<1>2. PICK c : Linked(list, c)
  BY <1>1 DEF SoundNow, Sound
<1>3. Chain(list) = c
  BY <1>2, ChainIs
<1>4. /\ c \in Seq(Nat \ {0}) /\ DOMAIN list.elements = {c[i] : i \in DOMAIN c}
      /\ list.count = Len(c) /\ list.last = At(c, Len(c))
      /\ \A k \in DOMAIN c :
           list.elements[c[k]] = Element(list.elements[c[k]].content, At(c, k - 1), At(c, k + 1))
  BY <1>2 DEF Linked
<1>5. Cardinality(DOMAIN list.elements) = Len(c)
  BY <1>2, LinkedCardinality
<1>6. list.current \in DOMAIN list.elements \cup {NULL}
  BY <1>1 DEF SoundNow, Sound
<1>7. ToSet(c) = DOMAIN list.elements
  BY <1>4 DEF ToSet
<1>8. QED
  BY <1>3, <1>4, <1>5, <1>6, <1>7 DEF WellLinked, At

\* Whatever is inserted, searched for and taken out, the pointers forward and back
\* agree, the ends are where the list says, and the current pointer is at an element
\* or nowhere (LinkedList.c).
THEOREM WellLinkedCorrect == Spec => []WellLinked
<1>1. Spec => []SoundNow
  BY SoundAlways
<1>2. SoundNow => WellLinked
  BY SoundWellLinked
<1>3. QED
  BY <1>1, <1>2, PTL

\* A call adds one content, takes out one, or empties the list; the others keep
\* their order (LinkedList.c).
THEOREM KeepsOrderCorrect == Spec => KeepsOrder
<1> DEFINE
      Step == LET old == Order(list) new == Order(list')
              IN  \/ new = old \/ new = <<>>
                  \/ \E i \in DOMAIN new : old = RemoveAt(new, i)
                  \/ \E i \in DOMAIN old : new = RemoveAt(old, i)
<1>1. SoundNow /\ [Next]_vars => Step
  BY NextDone DEF Done, OrderKept
<1>2. SoundNow /\ [Next]_vars => [Step]_vars
  BY <1>1
<1> HIDE DEF Step
<1>3. Spec => [][Step]_vars
  BY <1>2, SoundAlways, PTL DEF Spec
<1>4. QED
  BY <1>3 DEF KeepsOrder, Step
==============================================================================
