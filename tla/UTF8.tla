--------------------------------- MODULE UTF8 ---------------------------------
(***************************************************************************)
(* The check of UTF-8 strings (src/src/utf-8.c), which every topic,        *)
(* client identifier, name and password passes before it is used.  A       *)
(* string is a sequence of bytes with its terminating NUL; whether the     *)
(* compiler's char is signed is a parameter, since bytes are compared as   *)
(* chars.                                                                  *)
(***************************************************************************)
EXTENDS Integers, Sequences, WellFoundedInduction, TLAPS

Byte == 0..255
CharOf(signed, b) == IF signed /\ b > 127 THEN b - 256 ELSE b

-----------------------------------------------------------------------------
(* The code *)

R(lower, upper) == [lower |-> lower, upper |-> upper]
Ascii == R(0, 127)
Continuation == R(128, 191)
C2toDF == R(194, 223)
E0 == R(224, 224)
AfterE0 == R(160, 191)
E1toEC == R(225, 236)
ED == R(237, 237)
AfterED == R(128, 159)
EEtoEF == R(238, 239)
F0 == R(240, 240)
AfterF0 == R(144, 191)
F1toF3 == R(241, 243)
F4 == R(244, 244)
AfterF4 == R(128, 143)

valid_ranges ==
  {<<Ascii>>,
   <<C2toDF, Continuation>>,
   <<E0, AfterE0, Continuation>>,
   <<E1toEC, Continuation, Continuation>>,
   <<ED, AfterED, Continuation>>,
   <<EEtoEF, Continuation, Continuation>>,
   <<F0, AfterF0, Continuation, Continuation>>,
   <<F1toF3, Continuation, Continuation, Continuation>>,
   <<F4, AfterF4, Continuation, Continuation>>}

\* from the bits 128, 0xF0 and 0xE0 of the first byte
CharLen(b) ==
  IF b < 128 THEN 1 ELSE IF b >= 240 THEN 4 ELSE IF b >= 224 THEN 3 ELSE 2

InRange(signed, b, r) ==
  /\ CharOf(signed, r.lower) <= CharOf(signed, b)
  /\ CharOf(signed, b) <= CharOf(signed, r.upper)

\* is there a character at i?  The length is that of the whole string, not of the rest:
\* the bytes after a first one at its end are the NUL and what follows it.
UTF8_char_validate(signed, s, len, i) ==
  /\ CharLen(s[i]) <= len
  /\ \E row \in valid_ranges :
       /\ Len(row) = CharLen(s[i])
       /\ \A j \in 1..Len(row) : InRange(signed, s[i + j - 1], row[j])

\* the character after the one at i, or NULL
NULL == -1
UTF8_next(signed, s, len, i) ==
  IF UTF8_char_validate(signed, s, len, i) THEN i + CharLen(s[i]) ELSE NULL

\* where the check of the string is after k characters: it stops at the end, and at a
\* byte that begins no character
UTF8_walk(signed, s, len) ==
  LET at[k \in 0..len] ==
        IF k = 0 THEN 0
        ELSE IF at[k - 1] # NULL /\ at[k - 1] < len THEN UTF8_next(signed, s, len, at[k - 1])
        ELSE at[k - 1]
  IN  at

\* len characters are enough, since each has a byte; UTF8_validateString takes the
\* place of the first NUL for len
UTF8_validate(signed, s, len) == UTF8_walk(signed, s, len)[len] # NULL

-----------------------------------------------------------------------------
(* The definition of the encoding: a code point of Unicode that is not a    *)
(* surrogate, in the shortest form                                          *)

Rest(b) == b - 128
IsRest(b) == b \in 128..191

Encodes1(a) == a < 128
Encodes2(a, b) ==
  /\ a \in 192..223 /\ IsRest(b)
  /\ (a - 192) * 64 + Rest(b) >= 128
Point3(a, b, c) == (a - 224) * 4096 + Rest(b) * 64 + Rest(c)
Point4(a, b, c, d) == (a - 240) * 262144 + Rest(b) * 4096 + Rest(c) * 64 + Rest(d)
Encodes3(a, b, c) ==
  /\ a \in 224..239 /\ IsRest(b) /\ IsRest(c)
  /\ Point3(a, b, c) >= 2048
  /\ ~(55296 <= Point3(a, b, c) /\ Point3(a, b, c) <= 57343)
Encodes4(a, b, c, d) ==
  /\ a \in 240..247 /\ IsRest(b) /\ IsRest(c) /\ IsRest(d)
  /\ 65536 <= Point4(a, b, c, d) /\ Point4(a, b, c, d) <= 1114111

\* a character that starts at i
Encoded(s, i) ==
  \/ Encodes1(s[i])
  \/ Encodes2(s[i], s[i + 1])
  \/ Encodes3(s[i], s[i + 1], s[i + 2])
  \/ Encodes4(s[i], s[i + 1], s[i + 2], s[i + 3])

\* the bytes before len are characters one after the other, which begin at the places of P
EncodedString(s, len) ==
  \E P \in SUBSET (0..len) :
    /\ 0 \in P
    /\ \A i \in P \ {len} : Encoded(s, i) /\ i + CharLen(s[i]) \in P

-----------------------------------------------------------------------------
\* a range whose ends are on the same side of 128, and the bytes in it
Ranges == {r \in [lower : Byte, upper : Byte] : r.lower > 127 <=> r.upper > 127}
In(b, r) == b \in r.lower..r.upper

\* the table, column by column
At1(a) == In(a, Ascii)
At2(a, b) == In(a, C2toDF) /\ In(b, Continuation)
At3(a, b, c) ==
  /\ \/ In(a, E0) /\ In(b, AfterE0)
     \/ (In(a, E1toEC) \/ In(a, EEtoEF)) /\ In(b, Continuation)
     \/ In(a, ED) /\ In(b, AfterED)
  /\ In(c, Continuation)
At4(a, b, c, d) ==
  /\ \/ In(a, F0) /\ In(b, AfterF0)
     \/ In(a, F1toF3) /\ In(b, Continuation)
     \/ In(a, F4) /\ In(b, AfterF4)
  /\ In(c, Continuation) /\ In(d, Continuation)

InTable(s, i) ==
  \/ CharLen(s[i]) = 1 /\ At1(s[i])
  \/ CharLen(s[i]) = 2 /\ At2(s[i], s[i + 1])
  \/ CharLen(s[i]) = 3 /\ At3(s[i], s[i + 1], s[i + 2])
  \/ CharLen(s[i]) = 4 /\ At4(s[i], s[i + 1], s[i + 2], s[i + 3])

\* The rows of each length
Matches(signed, s, i, row) ==
  /\ Len(row) = CharLen(s[i])
  /\ \A j \in 1..Len(row) : InRange(signed, s[i + j - 1], row[j])

\* Bytes are compared in the same way whether a char is signed or not
LEMMA InRanges ==
  ASSUME NEW signed \in BOOLEAN, NEW b \in Byte, NEW r \in Ranges
  PROVE  InRange(signed, b, r) <=> In(b, r)
BY DEF InRange, CharOf, Ranges, In, Byte

LEMMA RowOf1 ==
  ASSUME NEW signed \in BOOLEAN, NEW s \in [Nat -> Byte], NEW i \in Nat, NEW p \in Ranges
  PROVE  Matches(signed, s, i, <<p>>) <=> CharLen(s[i]) = 1 /\ In(s[i], p)
<1> DEFINE row == <<p>>
<1>1. Len(row) = 1 /\ row[1] = p /\ 1..Len(row) = {1}  OBVIOUS
<1>2. i + 1 - 1 = i  OBVIOUS
<1>3. s[i] \in Byte  OBVIOUS
<1> HIDE DEF row
<1>4. Matches(signed, s, i, row) <=> CharLen(s[i]) = 1 /\ InRange(signed, s[i], p)
  BY <1>1, <1>2 DEF Matches
<1> QED  BY <1>3, <1>4, InRanges DEF row

LEMMA RowOf2 ==
  ASSUME NEW signed \in BOOLEAN, NEW s \in [Nat -> Byte], NEW i \in Nat,
         NEW p \in Ranges, NEW q \in Ranges
  PROVE  Matches(signed, s, i, <<p, q>>)
         <=> CharLen(s[i]) = 2 /\ In(s[i], p) /\ In(s[i + 1], q)
<1> DEFINE row == <<p, q>>
<1>1. Len(row) = 2 /\ row[1] = p /\ row[2] = q /\ 1..Len(row) = {1, 2}  OBVIOUS
<1>2. i + 1 - 1 = i /\ i + 2 - 1 = i + 1  OBVIOUS
<1>3. s[i] \in Byte /\ s[i + 1] \in Byte  OBVIOUS
<1> HIDE DEF row
<1>4. Matches(signed, s, i, row)
      <=> CharLen(s[i]) = 2 /\ InRange(signed, s[i], p) /\ InRange(signed, s[i + 1], q)
  BY <1>1, <1>2 DEF Matches
<1> QED  BY <1>3, <1>4, InRanges DEF row

LEMMA RowOf3 ==
  ASSUME NEW signed \in BOOLEAN, NEW s \in [Nat -> Byte], NEW i \in Nat,
         NEW p \in Ranges, NEW q \in Ranges, NEW r \in Ranges
  PROVE  Matches(signed, s, i, <<p, q, r>>)
         <=> CharLen(s[i]) = 3 /\ In(s[i], p) /\ In(s[i + 1], q) /\ In(s[i + 2], r)
<1> DEFINE row == <<p, q, r>>
<1>1. Len(row) = 3 /\ row[1] = p /\ row[2] = q /\ row[3] = r /\ 1..Len(row) = {1, 2, 3}
  OBVIOUS
<1>2. i + 1 - 1 = i /\ i + 2 - 1 = i + 1 /\ i + 3 - 1 = i + 2  OBVIOUS
<1>3. s[i] \in Byte /\ s[i + 1] \in Byte /\ s[i + 2] \in Byte  OBVIOUS
<1> HIDE DEF row
<1>4. Matches(signed, s, i, row)
      <=> /\ CharLen(s[i]) = 3 /\ InRange(signed, s[i], p)
          /\ InRange(signed, s[i + 1], q) /\ InRange(signed, s[i + 2], r)
  BY <1>1, <1>2 DEF Matches
<1> QED  BY <1>3, <1>4, InRanges DEF row

LEMMA RowOf4 ==
  ASSUME NEW signed \in BOOLEAN, NEW s \in [Nat -> Byte], NEW i \in Nat,
         NEW p \in Ranges, NEW q \in Ranges, NEW r \in Ranges, NEW t \in Ranges
  PROVE  Matches(signed, s, i, <<p, q, r, t>>)
         <=> /\ CharLen(s[i]) = 4 /\ In(s[i], p) /\ In(s[i + 1], q)
             /\ In(s[i + 2], r) /\ In(s[i + 3], t)
<1> DEFINE row == <<p, q, r, t>>
<1>1. /\ Len(row) = 4 /\ row[1] = p /\ row[2] = q /\ row[3] = r /\ row[4] = t
      /\ 1..Len(row) = {1, 2, 3, 4}
  OBVIOUS
<1>2. i + 1 - 1 = i /\ i + 2 - 1 = i + 1 /\ i + 3 - 1 = i + 2 /\ i + 4 - 1 = i + 3  OBVIOUS
<1>3. s[i] \in Byte /\ s[i + 1] \in Byte /\ s[i + 2] \in Byte /\ s[i + 3] \in Byte  OBVIOUS
<1> HIDE DEF row
<1>4. Matches(signed, s, i, row)
      <=> /\ CharLen(s[i]) = 4 /\ InRange(signed, s[i], p) /\ InRange(signed, s[i + 1], q)
          /\ InRange(signed, s[i + 2], r) /\ InRange(signed, s[i + 3], t)
  BY <1>1, <1>2 DEF Matches
<1> QED  BY <1>3, <1>4, InRanges DEF row

\* A byte sequence matches a row exactly when its columns are in the table
LEMMA RowMatches ==
  ASSUME NEW signed \in BOOLEAN, NEW s \in [Nat -> Byte], NEW i \in Nat
  PROVE  (\E row \in valid_ranges : Matches(signed, s, i, row)) <=> InTable(s, i)
<1> DEFINE M(row) == Matches(signed, s, i, row)
           C == Continuation
<1> HIDE DEF M, C
<1>1. (\E row \in valid_ranges : M(row))
      <=> \/ M(<<Ascii>>) \/ M(<<C2toDF, C>>)
          \/ M(<<E0, AfterE0, C>>) \/ M(<<E1toEC, C, C>>)
          \/ M(<<ED, AfterED, C>>) \/ M(<<EEtoEF, C, C>>)
          \/ M(<<F0, AfterF0, C, C>>) \/ M(<<F1toF3, C, C, C>>) \/ M(<<F4, AfterF4, C, C>>)
  BY DEF valid_ranges, C
<1>2. /\ Ascii \in Ranges /\ C \in Ranges /\ C2toDF \in Ranges /\ E0 \in Ranges
      /\ AfterE0 \in Ranges /\ E1toEC \in Ranges /\ ED \in Ranges /\ AfterED \in Ranges
      /\ EEtoEF \in Ranges /\ F0 \in Ranges /\ AfterF0 \in Ranges /\ F1toF3 \in Ranges
      /\ F4 \in Ranges /\ AfterF4 \in Ranges
  BY DEF Ranges, Byte, R, Ascii, C, Continuation, C2toDF, E0, AfterE0, E1toEC, ED, AfterED,
         EEtoEF, F0, AfterF0, F1toF3, F4, AfterF4
<1>3. M(<<Ascii>>) <=> CharLen(s[i]) = 1 /\ In(s[i], Ascii)
  BY <1>2, RowOf1 DEF M
<1>4. M(<<C2toDF, C>>) <=> CharLen(s[i]) = 2 /\ In(s[i], C2toDF) /\ In(s[i + 1], C)
  BY <1>2, RowOf2 DEF M
<1>5. \A p, q \in Ranges :
        M(<<p, q, C>>)
        <=> CharLen(s[i]) = 3 /\ In(s[i], p) /\ In(s[i + 1], q) /\ In(s[i + 2], C)
  BY <1>2, RowOf3 DEF M
<1>6. \A p, q \in Ranges :
        M(<<p, q, C, C>>)
        <=> /\ CharLen(s[i]) = 4 /\ In(s[i], p) /\ In(s[i + 1], q)
            /\ In(s[i + 2], C) /\ In(s[i + 3], C)
  BY <1>2, RowOf4 DEF M
<1>7. \/ M(<<E0, AfterE0, C>>) \/ M(<<E1toEC, C, C>>)
      \/ M(<<ED, AfterED, C>>) \/ M(<<EEtoEF, C, C>>)
      <=> CharLen(s[i]) = 3 /\ At3(s[i], s[i + 1], s[i + 2])
  BY <1>2, <1>5 DEF At3, C
<1>8. \/ M(<<F0, AfterF0, C, C>>) \/ M(<<F1toF3, C, C, C>>) \/ M(<<F4, AfterF4, C, C>>)
      <=> CharLen(s[i]) = 4 /\ At4(s[i], s[i + 1], s[i + 2], s[i + 3])
  BY <1>2, <1>6 DEF At4, C
<1>9. (\E row \in valid_ranges : M(row)) <=> InTable(s, i)
  BY <1>1, <1>3, <1>4, <1>7, <1>8 DEF InTable, At1, At2, C
<1> QED  BY <1>9 DEF M

\* The columns of each length hold the code points that need it
LEMMA TwoBytes ==
  ASSUME NEW a \in Byte, NEW b \in Byte
  PROVE  CharLen(a) = 2 /\ At2(a, b) <=> Encodes2(a, b)
<1>1. CharLen(a) = 2 /\ At2(a, b) <=> a >= 194 /\ a <= 223 /\ b >= 128 /\ b <= 191
  BY DEF CharLen, At2, Byte, R, In, C2toDF, Continuation
<1>2. Encodes2(a, b)
      <=> a >= 192 /\ a <= 223 /\ b >= 128 /\ b <= 191 /\ (a - 192) * 64 + (b - 128) >= 128
  BY DEF Encodes2, Byte, Rest, IsRest
<1> QED  BY <1>1, <1>2 DEF Byte

LEMMA ThreeBytes ==
  ASSUME NEW a \in Byte, NEW b \in Byte, NEW c \in Byte
  PROVE  CharLen(a) = 3 /\ At3(a, b, c) <=> Encodes3(a, b, c)
<1> DEFINE v == (a - 224) * 4096 + (b - 128) * 64 + (c - 128)
           rest == b >= 128 /\ b <= 191 /\ c >= 128 /\ c <= 191
<1>1. CharLen(a) = 3 /\ At3(a, b, c)
      <=> /\ rest /\ a >= 224 /\ a <= 239
          /\ a = 224 => b >= 160
          /\ a = 237 => b <= 159
  BY DEF CharLen, At3, Byte, R, In, E0, AfterE0, E1toEC, ED, AfterED, EEtoEF, Continuation
<1>2. Encodes3(a, b, c)
      <=> rest /\ a >= 224 /\ a <= 239 /\ v >= 2048 /\ ~(v >= 55296 /\ v <= 57343)
  BY DEF Encodes3, Point3, Byte, Rest, IsRest
<1>3. ASSUME rest, a >= 224, a <= 239
      PROVE  /\ v >= 2048 <=> (a = 224 => b >= 160)
             /\ (v >= 55296 /\ v <= 57343) <=> (a = 237 /\ b > 159)
  BY <1>3 DEF Byte
<1> QED
  <2> HIDE DEF v
  <2> QED  BY <1>1, <1>2, <1>3 DEF Byte

LEMMA FourBytes ==
  ASSUME NEW a \in Byte, NEW b \in Byte, NEW c \in Byte, NEW d \in Byte
  PROVE  CharLen(a) = 4 /\ At4(a, b, c, d) <=> Encodes4(a, b, c, d)
<1> DEFINE v == (a - 240) * 262144 + (b - 128) * 4096 + (c - 128) * 64 + (d - 128)
           rest == /\ b >= 128 /\ b <= 191 /\ c >= 128 /\ c <= 191
                   /\ d >= 128 /\ d <= 191
<1>1. CharLen(a) = 4 /\ At4(a, b, c, d)
      <=> /\ rest /\ a >= 240 /\ a <= 244
          /\ a = 240 => b >= 144
          /\ a = 244 => b <= 143
  BY DEF CharLen, At4, Byte, R, In, F0, AfterF0, F1toF3, F4, AfterF4, Continuation
<1>2. Encodes4(a, b, c, d)
      <=> rest /\ a >= 240 /\ a <= 247 /\ v >= 65536 /\ v <= 1114111
  BY DEF Encodes4, Point4, Byte, Rest, IsRest
<1>3. ASSUME rest, a >= 240, a <= 247
      PROVE  /\ v >= 65536 <=> (a = 240 => b >= 144)
             /\ v <= 1114111 <=> (a <= 244 /\ (a = 244 => b <= 143))
  BY <1>3 DEF Byte
<1> QED
  <2> HIDE DEF v
  <2> QED  BY <1>1, <1>2, <1>3 DEF Byte

-----------------------------------------------------------------------------
(* Theorems *)

\* The table is that of the encoding: a character is accepted exactly when it is the
\* shortest form of a code point that is not a surrogate, whether the compiler's char
\* is signed or not.
THEOREM ValidCharacter ==
  ASSUME NEW signed \in BOOLEAN, NEW s \in [Nat -> Byte], NEW i \in Nat, NEW len \in Nat,
         CharLen(s[i]) <= len
  PROVE  UTF8_char_validate(signed, s, len, i) <=> Encoded(s, i)
<1>1. /\ s[i] \in Byte /\ s[i + 1] \in Byte /\ s[i + 2] \in Byte /\ s[i + 3] \in Byte
  OBVIOUS
<1>2. UTF8_char_validate(signed, s, len, i) <=> InTable(s, i)
  BY RowMatches DEF UTF8_char_validate, Matches
<1>3. CharLen(s[i]) = 1 /\ At1(s[i]) <=> Encodes1(s[i])
  BY <1>1 DEF CharLen, At1, Encodes1, Byte, R, In, Ascii
<1> QED  BY <1>1, <1>2, <1>3, TwoBytes, ThreeBytes, FourBytes DEF InTable, Encoded

\* No character is accepted that has a NUL after its first byte: although the length
\* is that of the whole string, the check of a string ends at its terminator.
THEOREM EndsAtTerminator ==
  ASSUME NEW signed \in BOOLEAN, NEW s \in [Nat -> Byte], NEW i \in Nat, NEW len \in Nat,
         UTF8_char_validate(signed, s, len, i),
         NEW j \in 1..(CharLen(s[i]) - 1)
  PROVE  s[i + j] # 0
<1>1. InTable(s, i)
  BY RowMatches DEF UTF8_char_validate, Matches
<1> QED
  BY <1>1 DEF InTable, At1, At2, At3, At4, CharLen, In, R, Continuation, AfterE0, AfterED,
         AfterF0, AfterF4

-----------------------------------------------------------------------------
(* Induction over numbers, by the least element of a set of them           *)

LessNat == {p \in Nat \X Nat : p[1] < p[2]}

LEMMA LeastNumber ==
  ASSUME NEW T, T \subseteq Nat, T # {}
  PROVE  \E x \in T : \A y \in T : x <= y
<1>1. IsWellFoundedOn(LessNat, Nat)
  BY NatLessThanWellFounded DEF LessNat, OpToRel
<1>2. \E x \in T : \A y \in T : ~ (<<y, x>> \in LessNat)
  BY <1>1, WFMin
<1>3. PICK x \in T : \A y \in T : ~ (<<y, x>> \in LessNat)
  BY <1>2
<1>4. ASSUME NEW y \in T PROVE x <= y
  <2>1. x \in Nat /\ y \in Nat
    OBVIOUS
  <2>2. <<y, x>> \in LessNat <=> y < x
    BY <2>1 DEF LessNat
  <2>3. QED
    BY <1>3, <2>1, <2>2
<1>5. QED
  BY <1>4

LEMMA Induction ==
  ASSUME NEW T, 0 \in T, \A n \in Nat : n \in T => n + 1 \in T
  PROVE  Nat \subseteq T
<1>1. SUFFICES ASSUME Nat \ T # {} PROVE FALSE
  OBVIOUS
<1>2. PICK x \in Nat \ T : \A y \in Nat \ T : x <= y
  BY <1>1, LeastNumber
<1>3. x - 1 \in Nat /\ x - 1 \in T
  BY <1>2
<1>4. QED
  BY <1>2, <1>3

-----------------------------------------------------------------------------
(* The walk through a string *)

LEMMA WalkSteps ==
  ASSUME NEW signed, NEW s, NEW len \in Nat, NEW w, w = UTF8_walk(signed, s, len)
  PROVE  /\ w[0] = 0
         /\ \A k \in 1..len :
              w[k] = IF w[k - 1] # NULL /\ w[k - 1] < len THEN UTF8_next(signed, s, len, w[k - 1])
                     ELSE w[k - 1]
<1> DEFINE
      Step(f, k) == IF k = 0 THEN 0
                    ELSE IF f[k - 1] # NULL /\ f[k - 1] < len
                         THEN UTF8_next(signed, s, len, f[k - 1]) ELSE f[k - 1]
      F == CHOOSE f : f = [k \in 0..len |-> Step(f, k)]
      Up == {k \in Nat : \E f : f = [i \in 0..k |-> Step(f, i)]}
<1>1. 0 \in Up
  <2>1. [i \in 0..0 |-> 0] = [i \in 0..0 |-> Step([j \in 0..0 |-> 0], i)]
    OBVIOUS
  <2> HIDE DEF Step
  <2>2. QED
    BY <2>1
<1>2. ASSUME NEW k \in Nat, k \in Up PROVE k + 1 \in Up
  <2>1. PICK f : f = [i \in 0..k |-> Step(f, i)]
    BY <1>2
  <2>2. PICK g : g = [i \in 0..(k + 1) |-> Step(f, i)]
    OBVIOUS
  <2>3. \A i \in 0..k : g[i] = f[i]
    <3> HIDE DEF Step
    <3>1. \A i \in 0..k : i \in 0..(k + 1)
      OBVIOUS
    <3>2. QED
      BY <2>1, <2>2, <3>1, Zenon
  <2>4. \A i \in 0..(k + 1) : Step(f, i) = Step(g, i)
    <3>1. \A i \in 0..(k + 1) : i # 0 => i - 1 \in 0..k
      OBVIOUS
    <3>2. QED
      BY <2>3, <3>1, Zenon
  <2>5. g = [i \in 0..(k + 1) |-> Step(g, i)]
    <3> HIDE DEF Step
    <3>1. QED
      BY <2>2, <2>4
  <2> HIDE DEF Step
  <2>6. QED
    BY <2>5
<1>3. \E f : f = [i \in 0..len |-> Step(f, i)]
  <2>1. len \in Up
    <3> HIDE DEF Up
    <3>1. QED
      BY <1>1, <1>2, Induction
  <2> HIDE DEF Step
  <2>2. QED
    BY <2>1
<1>4. F = [i \in 0..len |-> Step(F, i)]
  <2> HIDE DEF Step
  <2>1. QED
    BY <1>3
<1>5. w = F
  BY DEF UTF8_walk
<1> HIDE DEF F
<1>6. \A i \in 0..len : F[i] = Step(F, i)
  <2> HIDE DEF Step
  <2>1. QED
    BY <1>4, Zenon
<1>7. 0 \in 0..len /\ \A i \in 1..len : i \in 0..len /\ i # 0
  OBVIOUS
<1>8. QED
  BY <1>5, <1>6, <1>7, Zenon

\* a character that begins in the string ends in it
LEMMA NextInString ==
  ASSUME NEW signed \in BOOLEAN, NEW s \in [Nat -> Byte], NEW len \in Nat, s[len] = 0,
         NEW i \in Nat, i < len, UTF8_char_validate(signed, s, len, i)
  PROVE  /\ Encoded(s, i) /\ CharLen(s[i]) \in 1..4 /\ i + CharLen(s[i]) <= len
<1>1. CharLen(s[i]) \in 1..4
  BY DEF CharLen
<1>2. CharLen(s[i]) <= len
  BY DEF UTF8_char_validate
<1>3. Encoded(s, i)
  BY <1>2, ValidCharacter
<1>4. i + CharLen(s[i]) <= len
  <2>1. SUFFICES ASSUME i + CharLen(s[i]) > len PROVE FALSE
    BY <1>1
  <2>2. len - i \in 1..(CharLen(s[i]) - 1) /\ i + (len - i) = len
    BY <1>1, <2>1
  <2>3. s[i + (len - i)] # 0
    BY <2>2, EndsAtTerminator
  <2>4. QED
    BY <2>2, <2>3
<1>5. QED
  BY <1>1, <1>3, <1>4

\* A string that ends with a NUL is accepted exactly when all of it, up to that NUL, is
\* characters, one after the other; no byte behind it has a say.
THEOREM ValidString ==
  ASSUME NEW signed \in BOOLEAN, NEW s \in [Nat -> Byte], NEW len \in Nat, s[len] = 0
  PROVE  UTF8_validate(signed, s, len) <=> EncodedString(s, len)
<1>1. PICK w : w = UTF8_walk(signed, s, len)
  OBVIOUS
<1>2. /\ w[0] = 0
      /\ \A k \in 1..len :
           w[k] = IF w[k - 1] # NULL /\ w[k - 1] < len THEN UTF8_next(signed, s, len, w[k - 1])
                  ELSE w[k - 1]
  BY <1>1, WalkSteps
<1>3. ASSUME NEW k \in Nat, k + 1 <= len
      PROVE  w[k + 1] = IF w[k] # NULL /\ w[k] < len THEN UTF8_next(signed, s, len, w[k])
                        ELSE w[k]
  <2>1. k + 1 \in 1..len /\ (k + 1) - 1 = k
    BY <1>3
  <2>2. QED
    BY <1>2, <2>1
<1>4. UTF8_validate(signed, s, len) <=> w[len] # NULL
  BY <1>1 DEF UTF8_validate
<1> DEFINE At(k) == w[k] \in 0..len /\ (w[k] >= k \/ w[k] = len)
<1>5. ASSUME w[len] # NULL PROVE EncodedString(s, len)
  <2> DEFINE Placed == {k \in Nat : k <= len => w[k] = NULL \/ At(k)}
  <2>1. 0 \in Placed
    BY <1>2
  <2>2. ASSUME NEW k \in Nat, k \in Placed PROVE k + 1 \in Placed
    <3>1. SUFFICES ASSUME k + 1 <= len PROVE w[k + 1] = NULL \/ At(k + 1)
      OBVIOUS
    <3>2. w[k] = NULL \/ At(k)
      BY <2>2, <3>1
    <3>3. CASE w[k] # NULL /\ w[k] < len /\ UTF8_char_validate(signed, s, len, w[k])
      <4>1. w[k + 1] = w[k] + CharLen(s[w[k]])
        BY <1>3, <3>1, <3>3 DEF UTF8_next
      <4>2. w[k] \in Nat /\ w[k] >= k
        BY <3>2, <3>3
      <4>3. CharLen(s[w[k]]) \in 1..4 /\ w[k] + CharLen(s[w[k]]) <= len
        BY <3>3, <4>2, NextInString
      <4>4. QED
        BY <4>1, <4>2, <4>3
    <3>4. CASE w[k] # NULL /\ w[k] < len /\ ~UTF8_char_validate(signed, s, len, w[k])
      BY <1>3, <3>1, <3>4 DEF UTF8_next
    <3>5. CASE ~(w[k] # NULL /\ w[k] < len)
      <4>1. w[k + 1] = w[k]
        BY <1>3, <3>1, <3>5
      <4>2. QED
        BY <3>2, <3>5, <4>1 DEF NULL
    <3>6. QED
      BY <3>3, <3>4, <3>5
  <2>3. \A k \in Nat : k <= len => w[k] = NULL \/ At(k)
    <3>1. Nat \subseteq Placed
      <4> HIDE DEF Placed
      <4>1. QED
        BY <2>1, <2>2, Induction
    <3>2. QED
      BY <3>1
  <2> DEFINE Back == {m \in Nat : m <= len => w[len - m] # NULL}
  <2>4. 0 \in Back
    BY <1>5
  <2>5. ASSUME NEW m \in Nat, m \in Back PROVE m + 1 \in Back
    <3>1. SUFFICES ASSUME m + 1 <= len, w[len - (m + 1)] = NULL PROVE FALSE
      OBVIOUS
    <3>2. PICK k \in Nat : k = len - (m + 1) /\ k + 1 <= len /\ k + 1 = len - m /\ m <= len
      BY <3>1
    <3>3. w[k + 1] = NULL
      BY <1>3, <3>1, <3>2
    <3>4. QED
      BY <2>5, <3>2, <3>3
  <2>6. \A k \in 0..len : w[k] # NULL
    <3>1. Nat \subseteq Back
      <4> HIDE DEF Back
      <4>1. QED
        BY <2>4, <2>5, Induction
    <3>2. ASSUME NEW k \in 0..len PROVE w[k] # NULL
      <4>1. PICK m \in Nat : m = len - k /\ m <= len /\ len - m = k
        OBVIOUS
      <4>2. QED
        BY <3>1, <4>1
    <3>3. QED
      BY <3>2
  <2>7. \A k \in 0..len : At(k)
    BY <2>3, <2>6
  <2>8. PICK P : P = {w[k] : k \in 0..len}
    OBVIOUS
  <2>9. P \subseteq 0..len /\ 0 \in P
    <3>1. 0 \in 0..len
      OBVIOUS
    <3>2. QED
      BY <1>2, <2>7, <2>8, <3>1
  <2>10. ASSUME NEW i \in P \ {len} PROVE Encoded(s, i) /\ i + CharLen(s[i]) \in P
    <3>1. PICK k \in 0..len : i = w[k]
      BY <2>8
    <3>2. i \in 0..len /\ i # len /\ i < len /\ i \in Nat
      BY <2>9
    <3>3. k \in Nat /\ k + 1 <= len /\ k + 1 \in 0..len
      BY <2>7, <3>1, <3>2
    <3>4. w[k + 1] = UTF8_next(signed, s, len, i) /\ w[k + 1] # NULL
      BY <1>3, <2>6, <3>1, <3>2, <3>3
    <3>5. UTF8_char_validate(signed, s, len, i) /\ w[k + 1] = i + CharLen(s[i])
      BY <3>4 DEF UTF8_next
    <3>6. Encoded(s, i)
      BY <3>2, <3>5, NextInString
    <3>7. w[k + 1] \in P
      BY <2>8, <3>3
    <3>8. QED
      BY <3>5, <3>6, <3>7
  <2>11. QED
    BY <2>9, <2>10 DEF EncodedString
<1>6. ASSUME EncodedString(s, len) PROVE w[len] # NULL
  <2>1. PICK P \in SUBSET (0..len) :
          /\ 0 \in P
          /\ \A i \in P \ {len} : Encoded(s, i) /\ i + CharLen(s[i]) \in P
    BY <1>6 DEF EncodedString
  <2> DEFINE Inside == {k \in Nat : k <= len => w[k] \in P}
  <2>2. 0 \in Inside
    BY <1>2, <2>1
  <2>3. ASSUME NEW k \in Nat, k \in Inside PROVE k + 1 \in Inside
    <3>1. SUFFICES ASSUME k + 1 <= len PROVE w[k + 1] \in P
      OBVIOUS
    <3>2. PICK i : i = w[k]
      OBVIOUS
    <3>3. i \in P /\ i \in 0..len /\ i \in Nat
      <4>1. i \in P
        BY <2>3, <3>1, <3>2
      <4>2. QED
        BY <2>1, <4>1
    <3>4. CASE i = len
      <4>1. ~(i < len)
        BY <3>3, <3>4
      <4>2. w[k + 1] = i
        BY <1>3, <3>1, <3>2, <4>1, Zenon
      <4>3. QED
        BY <3>3, <4>2
    <3>5. CASE i # len
      <4>1. Encoded(s, i) /\ i + CharLen(s[i]) \in P
        BY <2>1, <3>3, <3>5
      <4>2. CharLen(s[i]) \in 1..4
        BY DEF CharLen
      <4>3. i + CharLen(s[i]) \in 0..len
        BY <2>1, <4>1
      <4>4. CharLen(s[i]) <= len
        BY <3>3, <4>2, <4>3
      <4>5. UTF8_char_validate(signed, s, len, i)
        BY <3>3, <4>1, <4>4, ValidCharacter
      <4>6. i # NULL /\ i < len
        BY <3>3, <3>5 DEF NULL
      <4>7. w[k + 1] = i + CharLen(s[i])
        BY <1>3, <3>1, <3>2, <4>5, <4>6 DEF UTF8_next
      <4>8. QED
        BY <4>1, <4>7
    <3>6. QED
      BY <3>4, <3>5
  <2>4. w[len] \in P
    <3>1. Nat \subseteq Inside
      <4> HIDE DEF Inside
      <4>1. QED
        BY <2>2, <2>3, Induction
    <3>2. QED
      BY <3>1
  <2>5. w[len] \in 0..len
    BY <2>1, <2>4
  <2>6. QED
    BY <2>5 DEF NULL
<1>7. QED
  BY <1>4, <1>5, <1>6
==============================================================================
