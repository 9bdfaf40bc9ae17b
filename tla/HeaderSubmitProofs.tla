------------------------- MODULE HeaderSubmitProofs -------------------------
(***************************************************************************)
(* For headers of any number and any lengths, and any widths of the        *)
(* integers: the size coraza_pack_headers computes is an int and was       *)
(* computed without wrapping, the bytes it writes fill exactly the buffer  *)
(* of that size, and what the engine reads back from them, or is given     *)
(* header by header, is the whole header set.                              *)
(***************************************************************************)
EXTENDS HeaderSubmit, FoldFacts, SequenceTheorems

(* A number below the modulus is its own remainder.                        *)
LEMMA SmallRemainder ==
    ASSUME NEW m \in Nat, NEW a \in Nat, a < m
    PROVE  a % m = a
  OBVIOUS

(* What the unsigned subtraction of coraza_pack_headers gives when it does *)
(* not go below zero.                                                      *)
LEMMA MinusExact ==
    ASSUME NEW a \in 0 .. IntMax, NEW b \in 0 .. a
    PROVE  Minus(a, b) = a - b
  <1>1. a - b \in Nat /\ a - b < SizeMod /\ SizeMod \in Nat
    BY WidthAssumption
  <1> QED
    BY <1>1, SmallRemainder DEF Minus

(* The guards of the first loop leave room for the header in an int.       *)
LEMMA FitsIsExact ==
    ASSUME NEW h \in [name : Nat, value : Nat], total \in 0 .. IntMax, Fits(h)
    PROVE  /\ total + Size(h) \in 0 .. IntMax
           /\ (total + Size(h)) % SizeMod = total + Size(h)
  <1>1. IntMax - 6 \in 0 .. IntMax /\ total \in 0 .. (IntMax - 6)
    BY WidthAssumption DEF Fits
  <1>2. Minus(IntMax - 6, total) = IntMax - 6 - total
    BY <1>1, MinusExact
  <1>3. h.name \in 0 .. (IntMax - 6 - total) /\ IntMax - 6 - total \in 0 .. IntMax
    BY <1>1, <1>2, WidthAssumption DEF Fits
  <1>4. Minus(IntMax - 6 - total, h.name) = IntMax - 6 - total - h.name
    BY <1>3, MinusExact
  <1>5. h.value <= IntMax - 6 - total - h.name
    BY <1>2, <1>4 DEF Fits
  <1>6. total + Size(h) \in 0 .. IntMax
    BY <1>1, <1>3, <1>5, WidthAssumption DEF Size
  <1>7. total + Size(h) \in Nat /\ total + Size(h) < SizeMod /\ SizeMod \in Nat
    BY <1>6, WidthAssumption
  <1> QED
    BY <1>6, <1>7, SmallRemainder

---------------------------------------------------------------------------
(* Appending keeps a sequence one, longer by one.                          *)
LEMMA AppendType ==
    ASSUME NEW S, NEW s \in Seq(S), NEW x \in S
    PROVE  Append(s, x) \in Seq(S) /\ Len(Append(s, x)) = Len(s) + 1 /\ Len(s) \in Nat
  OBVIOUS

LEMMA InitTypes == Init => TypeOK
  BY WidthAssumption DEF Init, TypeOK, Count

(* Gathering the headers.                                                  *)
LEMMA GatherTypes ==
    ASSUME TypeOK, GatherEntry \/ GatherContentType \/ Gathered
    PROVE  TypeOK'
  <1>1. CASE GatherEntry
    <2>1. PICK e \in Entries : pairs' = IF e.key THEN Append(pairs, Pair(e)) ELSE pairs
      BY <1>1 DEF GatherEntry
    <2>2. Pair(e) \in [name : Nat, value : Nat]
      BY EntryAssumption DEF Pair
    <2>3. pairs \in Seq([name : Nat, value : Nat]) /\ Len(pairs) \in Nat
      BY DEF TypeOK
    <2>4. pairs' \in Seq([name : Nat, value : Nat])
      BY <2>1, <2>2, <2>3, AppendType
    <2>5. Len(pairs') >= Len(pairs) /\ Len(pairs') \in Nat
      BY <2>1, <2>2, <2>3, AppendType
    <2> QED
      BY <1>1, <2>4, <2>5 DEF GatherEntry, TypeOK, Count
  <1>2. CASE GatherContentType
    <2>1. PICK t \in ContentTypes :
            pairs' = IF t = NoType THEN pairs
                     ELSE Append(pairs, [name |-> TypeName, value |-> t])
      BY <1>2 DEF GatherContentType
    <2>2. t # NoType => [name |-> TypeName, value |-> t] \in [name : Nat, value : Nat]
      BY EntryAssumption DEF TypeName
    <2>3. pairs \in Seq([name : Nat, value : Nat]) /\ Len(pairs) \in Nat
      BY DEF TypeOK
    <2>4. pairs' \in Seq([name : Nat, value : Nat])
      BY <2>1, <2>2, <2>3, AppendType
    <2>5. Len(pairs') >= Len(pairs) /\ Len(pairs') \in Nat
      BY <2>1, <2>2, <2>3, AppendType
    <2> QED
      BY <1>2, <2>4, <2>5 DEF GatherContentType, TypeOK, Count
  <1>3. CASE Gathered
    BY <1>3 DEF Gathered, TypeOK, Count
  <1> QED
    BY <1>1, <1>2, <1>3

(* An element of a sequence.                                               *)
LEMMA ElementType ==
    ASSUME NEW S, NEW s \in Seq(S), NEW n \in 1 .. Len(s)
    PROVE  s[n] \in S
  OBVIOUS

(* coraza_pack_headers: the sum stays an int.                              *)
LEMMA PackTypes ==
    ASSUME TypeOK, Measure \/ Allocate \/ Pack
    PROVE  TypeOK'
  <1>1. CASE Measure
    <2>1. pairs[i] \in [name : Nat, value : Nat]
      <3>1. pairs \in Seq([name : Nat, value : Nat]) /\ i \in 1 .. Len(pairs)
        BY <1>1 DEF Measure, TypeOK, Count
      <3> QED
        BY <3>1, ElementType
    <2>2. CASE Fits(pairs[i])
      <3>1. total' \in 0 .. IntMax
        BY <1>1, <2>1, <2>2, FitsIsExact DEF Measure, TypeOK
      <3> QED
        BY <1>1, <2>2, <3>1 DEF Measure, TypeOK, Count
    <2>3. CASE ~Fits(pairs[i])
      BY <1>1, <2>3 DEF Measure, TypeOK, Count
    <2> QED
      BY <2>2, <2>3
  <1>2. CASE Allocate
    BY <1>2 DEF Allocate, TypeOK, Count
  <1>3. CASE Pack
    BY <1>3 DEF Pack, TypeOK, Count
  <1> QED
    BY <1>1, <1>2, <1>3

(* The engine is given the headers at once or one by one.                  *)
LEMMA SubmitTypes ==
    ASSUME TypeOK, SubmitBulk \/ AddRequestHeader \/ AddResponseHeader \/ AllAdded
    PROVE  TypeOK'
  <1>1. CASE SubmitBulk
    <2>1. UNCHANGED <<dir, pairs, total>> /\ i' = 1 /\ pc' \in {"submitted", "one_by_one"}
      BY <1>1 DEF SubmitBulk
    <2> QED
      BY <2>1 DEF TypeOK, Count
  <1>2. CASE AddRequestHeader
    BY <1>2 DEF AddRequestHeader, AddHeader, TypeOK, Count
  <1>3. CASE AddResponseHeader
    BY <1>3 DEF AddResponseHeader, AddHeader, TypeOK, Count
  <1>4. CASE AllAdded
    BY <1>4 DEF AllAdded, TypeOK, Count
  <1> QED
    BY <1>1, <1>2, <1>3, <1>4

(* The size of the packed headers is an int whatever the headers, in every *)
(* step of coraza_pack_headers and of what its callers do with the result. *)
THEOREM PackedSizeIsInt == Spec => []TypeOK
  <1>1. TypeOK /\ [Next]_vars => TypeOK'
    <2> SUFFICES ASSUME TypeOK, [Next]_vars PROVE TypeOK'
      OBVIOUS
    <2>1. CASE UNCHANGED vars
      BY <2>1 DEF TypeOK, vars, Count
    <2>2. CASE Next
      BY <2>2, GatherTypes, PackTypes, SubmitTypes DEF Next
    <2> QED
      BY <2>1, <2>2
  <1> QED
    BY <1>1, InitTypes, PTL DEF Spec

---------------------------------------------------------------------------
(* Numbers as digits.  The provers match a quotient or a remainder only    *)
(* under a name.                                                           *)
Quo(a, b) == a \div b
Rem(a, b) == a % b

(* Division with remainder, and that there is only one.                    *)
LEMMA Euclid ==
    ASSUME NEW a \in Nat, NEW b \in Nat \ {0}
    PROVE  /\ Quo(a, b) \in Nat /\ Rem(a, b) \in 0 .. (b - 1)
           /\ a = Quo(a, b) * b + Rem(a, b)
<1>1. PICK q : q = a \div b
  OBVIOUS
<1>2. PICK r : r = a % b
  OBVIOUS
<1>3. q \in Nat /\ r \in 0 .. (b - 1) /\ r \in Nat
  BY <1>1, <1>2
<1>4. a = b * q + r
  BY <1>1, <1>2, <1>3
<1>5. Quo(a, b) = q /\ Rem(a, b) = r
  BY <1>1, <1>2 DEF Quo, Rem
<1>6. a = q * b + r
  BY <1>3, <1>4
<1> QED
  BY <1>3, <1>5, <1>6

LEMMA MulMono ==
    ASSUME NEW x \in Nat, NEW y \in Nat, NEW b \in Nat, x <= y
    PROVE  x * b <= y * b
<1> DEFINE d == y - x
<1>1. d \in Nat /\ y = x + d
  OBVIOUS
<1> HIDE DEF d
<1>2. (x + d) * b = x * b + d * b
  BY <1>1
<1>3. d * b >= 0 /\ x * b \in Nat
  BY <1>1
<1> QED
  BY <1>1, <1>2, <1>3

LEMMA DivUnique ==
    ASSUME NEW a \in Nat, NEW q \in Nat, NEW b \in Nat \ {0}, NEW r \in 0 .. (b - 1), a = q * b + r
    PROVE  Quo(a, b) = q /\ Rem(a, b) = r
<1> DEFINE p == Quo(a, b)
           t == Rem(a, b)
<1>1. p \in Nat /\ t \in 0 .. (b - 1) /\ a = p * b + t
  BY Euclid
<1> HIDE DEF p, t
<1>0. p * b \in Nat /\ q * b \in Nat
  BY <1>1
<1>2. ~(p < q)
  <2> SUFFICES ASSUME p < q PROVE FALSE
    OBVIOUS
  <2>1. p + 1 <= q /\ p + 1 \in Nat
    BY <1>1
  <2>2. (p + 1) * b <= q * b
    BY <2>1, MulMono
  <2>3. (p + 1) * b = p * b + b
    BY <1>1
  <2> QED
    BY <1>0, <1>1, <2>2, <2>3
<1>3. ~(q < p)
  <2> SUFFICES ASSUME q < p PROVE FALSE
    OBVIOUS
  <2>1. q + 1 <= p /\ q + 1 \in Nat
    BY <1>1
  <2>2. (q + 1) * b <= p * b
    BY <1>1, <2>1, MulMono
  <2>3. (q + 1) * b = q * b + b
    BY <1>1
  <2> QED
    BY <1>0, <1>1, <2>2, <2>3
<1>4. p = q
  BY <1>1, <1>2, <1>3
<1>5. t = r
  BY <1>0, <1>1, <1>4
<1> QED
  BY <1>4, <1>5 DEF p, t


(* A number that fits its field is read back from its digits.              *)
LEMMA TwoDigits ==
    ASSUME NEW B \in Nat \ {0}, NEW n \in Nat, n <= B * B - 1
    PROVE  Rem(Quo(n, B), B) * B + Rem(Quo(n, 1), B) = n
<1> DEFINE q == Quo(n, B)
           r == Rem(n, B)
<1>1. q \in Nat /\ r \in 0 .. (B - 1) /\ n = q * B + r
  BY Euclid
<1>2. Quo(n, 1) = n
  BY DEF Quo
<1> HIDE DEF q, r
<1>3. q < B
  <2> SUFFICES ASSUME B <= q PROVE FALSE
    BY <1>1
  <2>1. B * B <= q * B
    BY <1>1, MulMono
  <2>2. q * B \in Nat /\ B * B \in Nat
    BY <1>1
  <2> QED
    BY <1>1, <2>1, <2>2
<1>4. Rem(q, B) = q
  BY <1>1, <1>3 DEF Rem
<1>5. Rem(q, B) * B + r = n
  BY <1>1, <1>4
<1> QED
  BY <1>2, <1>5 DEF q, r

LEMMA FourDigits ==
    ASSUME NEW B \in Nat \ {0}, NEW n \in Nat, n < B * B * B * B
    PROVE  ((Rem(Quo(n, B * B * B), B) * B + Rem(Quo(n, B * B), B)) * B
              + Rem(Quo(n, B), B)) * B + Rem(Quo(n, 1), B) = n
<1> DEFINE q1 == Quo(n, B)
           r0 == Rem(n, B)
           q2 == Quo(q1, B)
           r1 == Rem(q1, B)
           q3 == Quo(q2, B)
           r2 == Rem(q2, B)
<1>0. /\ q1 = Quo(n, B) /\ r0 = Rem(n, B) /\ q2 = Quo(q1, B) /\ r1 = Rem(q1, B)
      /\ q3 = Quo(q2, B) /\ r2 = Rem(q2, B)
  OBVIOUS
<1> HIDE DEF q1, q2, q3, r0, r1, r2
<1>1. q1 \in Nat /\ r0 \in 0 .. (B - 1) /\ n = q1 * B + r0
  BY <1>0, Euclid
<1>2. q2 \in Nat /\ r1 \in 0 .. (B - 1) /\ q1 = q2 * B + r1
  BY <1>0, <1>1, Euclid
<1>3. q3 \in Nat /\ r2 \in 0 .. (B - 1) /\ q2 = q3 * B + r2
  BY <1>0, <1>2, Euclid
<1>4. Quo(n, 1) = n
  BY DEF Quo
<1> DEFINE C == B * B
           D == C * B
<1>5. C \in Nat \ {0} /\ D \in Nat \ {0}
  <2>1. \A x, y \in Nat \ {0} : x * y \in Nat \ {0}
    OBVIOUS
  <2> QED
    BY <2>1
<1>6. n = q2 * C + (r1 * B + r0)
  BY <1>1, <1>2
<1>7. r1 * B + r0 \in 0 .. (C - 1)
  <2>1. (r1 + 1) * B <= B * B
    BY <1>2, MulMono
  <2>2. (r1 + 1) * B = r1 * B + B /\ r1 * B \in Nat
    BY <1>2
  <2> QED
    BY <1>1, <1>5, <2>1, <2>2
<1>8. Quo(n, C) = q2
  <2> DEFINE t == r1 * B + r0
  <2>1. t \in 0 .. (C - 1) /\ n = q2 * C + t
    BY <1>6, <1>7
  <2> HIDE DEF t, C
  <2> QED
    BY <1>2, <1>5, <2>1, DivUnique
<1>9. n = q3 * D + (r2 * C + (r1 * B + r0))
  <2> DEFINE t == r1 * B + r0
  <2>1. n = q2 * C + t /\ t \in Int
    BY <1>6, <1>7
  <2>2. q2 * C = q3 * D + r2 * C
    BY <1>3
  <2> HIDE DEF t, C, D
  <2>3. r2 * C \in Int /\ q3 * D \in Int /\ q2 * C \in Int
    BY <1>2, <1>3, <1>5
  <2>4. n = q3 * D + (r2 * C + t)
    BY <2>1, <2>2, <2>3
  <2> QED
    BY <2>4 DEF t
<1>10. r2 * C + (r1 * B + r0) \in 0 .. (D - 1)
  <2> DEFINE t == r1 * B + r0
  <2>1. t \in 0 .. (C - 1)
    BY <1>7
  <2>2. D = B * C
    OBVIOUS
  <2> HIDE DEF t, C, D
  <2>3. (r2 + 1) * C <= B * C
    BY <1>3, <1>5, MulMono
  <2>4. (r2 + 1) * C = r2 * C + C /\ r2 * C \in Nat
    BY <1>3, <1>5
  <2>5. r2 * C + t \in 0 .. (D - 1)
    BY <1>5, <2>1, <2>2, <2>3, <2>4
  <2> QED
    BY <2>5 DEF t
<1>11. Quo(n, D) = q3
  <2> DEFINE t == r2 * C + (r1 * B + r0)
  <2>1. t \in 0 .. (D - 1) /\ n = q3 * D + t
    BY <1>9, <1>10
  <2> HIDE DEF t, C, D
  <2> QED
    BY <1>3, <1>5, <2>1, DivUnique
<1>12. q3 < B
  <2> SUFFICES ASSUME B <= q3 PROVE FALSE
    BY <1>3
  <2>1. B * D <= q3 * D
    BY <1>3, <1>5, MulMono
  <2>2. n < B * D
    BY <1>5
  <2> DEFINE t == r2 * C + (r1 * B + r0)
  <2>3. t \in 0 .. (D - 1) /\ n = q3 * D + t
    BY <1>9, <1>10
  <2> HIDE DEF t, C, D
  <2>4. q3 * D \in Nat /\ B * D \in Nat
    BY <1>3, <1>5
  <2> QED
    BY <1>5, <2>1, <2>2, <2>3, <2>4
<1>13. Rem(q3, B) = q3
  BY <1>3, <1>12 DEF Rem
<1>14. (((q3 * B) + r2) * B + r1) * B + r0 = n
  BY <1>1, <1>2, <1>3
<1>15. /\ Rem(Quo(n, D), B) = q3 /\ Rem(Quo(n, C), B) = r2 /\ Rem(Quo(n, B), B) = r1 /\ Rem(n, B) = r0
  BY <1>0, <1>8, <1>11, <1>13
<1> DEFINE d3 == Rem(Quo(n, D), B)
           d2 == Rem(Quo(n, C), B)
           d1 == Rem(Quo(n, B), B)
           d0 == Rem(Quo(n, 1), B)
<1>16. d3 = q3 /\ d2 = r2 /\ d1 = r1 /\ d0 = r0
  BY <1>4, <1>15
<1> HIDE DEF d0, d1, d2, d3
<1>17. ((d3 * B + d2) * B + d1) * B + d0 = n
  BY <1>14, <1>16
<1> QED
  BY <1>17 DEF d0, d1, d2, d3, C, D

LEMMA NameRead ==
    ASSUME NEW n \in Nat, n <= Base * Base - 1
    PROVE  Digit(n, Base) * Base + Digit(n, 1) = n
<1>1. Base \in Nat \ {0}
  BY WidthAssumption
<1>2. Rem(Quo(n, Base), Base) * Base + Rem(Quo(n, 1), Base) = n
  BY <1>1, TwoDigits
<1>3. \A place : Digit(n, place) = Rem(Quo(n, place), Base)
  BY DEF Digit, Quo, Rem
<1> QED
  BY <1>2, <1>3

LEMMA ValueRead ==
    ASSUME NEW n \in Nat, n <= IntMax
    PROVE  ((Digit(n, Base * Base * Base) * Base + Digit(n, Base * Base)) * Base
              + Digit(n, Base)) * Base + Digit(n, 1) = n
<1>1. Base \in Nat \ {0}
  BY WidthAssumption
<1>2. n < Base * Base * Base * Base
  <2> DEFINE top == Base * Base * Base * Base
  <2>1. IntMax < top /\ IntMax \in Nat
    BY WidthAssumption
  <2>2. top \in Nat
    BY <1>1
  <2> HIDE DEF top
  <2>3. n < top
    BY <2>1, <2>2
  <2> QED
    BY <2>3 DEF top
<1>3. ((Rem(Quo(n, Base * Base * Base), Base) * Base + Rem(Quo(n, Base * Base), Base)) * Base
         + Rem(Quo(n, Base), Base)) * Base + Rem(Quo(n, 1), Base) = n
  BY <1>1, <1>2, FourDigits
<1>4. \A place : Digit(n, place) = Rem(Quo(n, place), Base)
  BY DEF Digit, Quo, Rem
<1> QED
  BY <1>3, <1>4

(* What a concatenation holds at each place.                               *)
IsCat(c, x, y) == c = x \o y

LEMMA CatPlaces ==
    ASSUME NEW x \in Seq(Int), NEW y \in Seq(Int), NEW c, IsCat(c, x, y)
    PROVE  /\ c \in Seq(Int) /\ Len(c) = Len(x) + Len(y)
           /\ Len(x) \in Nat /\ Len(y) \in Nat
           /\ \A j \in 1 .. Len(x) : c[j] = x[j]
           /\ \A j \in 1 .. Len(y) : c[Len(x) + j] = y[j]
<1>1. /\ c \in Seq(Int) /\ Len(c) = Len(x) + Len(y) /\ Len(x) \in Nat /\ Len(y) \in Nat
      /\ \A j \in 1 .. Len(x) + Len(y) : c[j] = IF j <= Len(x) THEN x[j] ELSE y[j - Len(x)]
  BY ConcatProperties DEF IsCat
<1>2. \A j \in 1 .. Len(x) : c[j] = x[j]
  BY <1>1
<1>3. ASSUME NEW j \in 1 .. Len(y) PROVE c[Len(x) + j] = y[j]
  <2> DEFINE k == Len(x) + j
  <2>1. k \in 1 .. Len(x) + Len(y) /\ ~(k <= Len(x)) /\ k - Len(x) = j
    BY <1>1
  <2> HIDE DEF k
  <2>2. c[k] = y[j]
    BY <1>1, <2>1
  <2> QED
    BY <2>2 DEF k
<1> QED
  BY <1>1, <1>2, <1>3

(* The places of the length fields of the last header packed.              *)
IsJoin(c, x, y) ==
    /\ Len(c) = Len(x) + Len(y)
    /\ Len(x) \in Nat /\ Len(y) \in Nat
    /\ \A j \in 1 .. Len(x) : c[j] = x[j]
    /\ \A j \in 1 .. Len(y) : c[Len(x) + j] = y[j]

LEMMA CatIsJoin ==
    ASSUME NEW x \in Seq(Int), NEW y \in Seq(Int)
    PROVE  x \o y \in Seq(Int) /\ IsJoin(x \o y, x, y)
<1> DEFINE c == x \o y
<1>1. IsCat(c, x, y)
  BY DEF IsCat
<1> HIDE DEF c
<1>2. c \in Seq(Int) /\ IsJoin(c, x, y)
  BY <1>1, CatPlaces DEF IsJoin
<1> QED
  BY <1>2 DEF c

Placed(c, b, f1, m, f3) ==
    /\ \A j \in 1 .. Len(b) : c[j] = b[j]
    /\ \A j \in 1 .. 2 : c[Len(b) + j] = f1[j]
    /\ \A j \in 1 .. 4 : c[Len(b) + 2 + m + j] = f3[j]

LEMMA JoinPlaces ==
    ASSUME NEW b, NEW f1, NEW f2, NEW f3, NEW f4, Len(f1) = 2, Len(f3) = 4,
           NEW c1, NEW c2, NEW c3, NEW c,
           IsJoin(c1, b, f1), IsJoin(c2, c1, f2), IsJoin(c3, c2, f3), IsJoin(c, c3, f4)
    PROVE  Placed(c, b, f1, Len(f2), f3)
<1> DEFINE L == Len(b)
           m == Len(f2)
<1>1. /\ Len(c1) = L + 2 /\ L \in Nat
      /\ \A j \in 1 .. L : c1[j] = b[j]
      /\ \A j \in 1 .. 2 : c1[L + j] = f1[j]
  BY DEF IsJoin
<1>2. /\ Len(c2) = L + 2 + m /\ m \in Nat
      /\ \A j \in 1 .. L + 2 : c2[j] = c1[j]
  BY <1>1 DEF IsJoin
<1>3. /\ Len(c3) = L + 2 + m + 4
      /\ \A j \in 1 .. L + 2 + m : c3[j] = c2[j]
      /\ \A j \in 1 .. 4 : c3[L + 2 + m + j] = f3[j]
  BY <1>2 DEF IsJoin
<1>4. \A j \in 1 .. L + 2 + m + 4 : c[j] = c3[j]
  BY <1>3 DEF IsJoin
<1> HIDE DEF L, m
<1>6. ASSUME NEW j \in 1 .. L + 2 PROVE c[j] = c1[j]
  <2>1. j \in 1 .. L + 2 + m + 4 /\ j \in 1 .. L + 2 + m
    BY <1>1, <1>2
  <2> QED
    BY <1>2, <1>3, <1>4, <2>1
<1>7. ASSUME NEW j \in 1 .. L PROVE c[j] = b[j]
  <2>1. j \in 1 .. L + 2
    BY <1>1
  <2> QED
    BY <1>1, <1>6, <2>1
<1>8. ASSUME NEW j \in 1 .. 2 PROVE c[L + j] = f1[j]
  <2>1. L + j \in 1 .. L + 2
    BY <1>1
  <2> QED
    BY <1>1, <1>6, <2>1
<1>9. ASSUME NEW j \in 1 .. 4 PROVE c[L + 2 + m + j] = f3[j]
  <2>1. L + 2 + m + j \in 1 .. L + 2 + m + 4
    BY <1>1, <1>2
  <2> QED
    BY <1>3, <1>4, <2>1
<1> QED
  BY <1>7, <1>8, <1>9 DEF L, m, Placed

LEMMA FieldPlaces ==
    ASSUME NEW b \in Seq(Int), NEW f1 \in Seq(Int), NEW f2 \in Seq(Int),
           NEW f3 \in Seq(Int), NEW f4 \in Seq(Int), Len(f1) = 2, Len(f3) = 4
    PROVE  Placed(b \o f1 \o f2 \o f3 \o f4, b, f1, Len(f2), f3)
<1> DEFINE c1 == b \o f1
           c2 == c1 \o f2
           c3 == c2 \o f3
           c == c3 \o f4
<1>1. c1 \in Seq(Int) /\ IsJoin(c1, b, f1)
  BY CatIsJoin
<1> HIDE DEF c1
<1>2. c2 \in Seq(Int) /\ IsJoin(c2, c1, f2)
  BY <1>1, CatIsJoin
<1> HIDE DEF c2
<1>3. c3 \in Seq(Int) /\ IsJoin(c3, c2, f3)
  BY <1>2, CatIsJoin
<1> HIDE DEF c3
<1>4. IsJoin(c, c3, f4)
  BY <1>3, CatIsJoin
<1> HIDE DEF c
<1>5. Placed(c, b, f1, Len(f2), f3)
  BY <1>1, <1>2, <1>3, <1>4, JoinPlaces
<1> QED
  BY <1>5 DEF c, c1, c2, c3

---------------------------------------------------------------------------
(* The buffer.  A sum of the sizes is a function that starts at 0 and adds *)
(* the size of one header after the other.                                 *)
Headers == [name : Nat, value : Nat]

Sums(ps) ==
    {f \in [0 .. Len(ps) -> Nat] :
       /\ f[0] = 0
       /\ \A n \in 1 .. Len(ps) : f[n] = f[n - 1] + Size(ps[n])
       /\ \A n \in 0 .. Len(ps) : \A m \in 0 .. n : f[m] <= f[n]}

LEMMA EmptySums == [n \in {0} |-> 0] \in Sums(<<>>)
  <1>1. Len(<<>>) = 0 /\ 0 .. 0 = {0} /\ \A n : n \notin 1 .. 0
    OBVIOUS
  <1> QED
    BY <1>1 DEF Sums

(* A header more, and its size more.                                       *)
LEMMA MoreSums ==
    ASSUME NEW ps \in Seq(Headers), NEW h \in Headers, NEW f \in Sums(ps)
    PROVE  [n \in 0 .. (Len(ps) + 1) |->
              IF n = Len(ps) + 1 THEN f[Len(ps)] + Size(h) ELSE f[n]]
             \in Sums(Append(ps, h))
  <1> DEFINE N == Len(ps)
             qs == Append(ps, h)
             g == [n \in 0 .. (N + 1) |-> IF n = N + 1 THEN f[N] + Size(h) ELSE f[n]]
  <1>1. /\ N \in Nat /\ Len(qs) = N + 1 /\ qs[N + 1] = h
        /\ \A n \in 1 .. N : qs[n] = ps[n]
    OBVIOUS
  <1>2. Size(h) \in Nat
    BY DEF Size, Headers
  <1>3. /\ f \in [0 .. N -> Nat] /\ f[0] = 0
        /\ \A n \in 1 .. N : f[n] = f[n - 1] + Size(ps[n])
        /\ \A n \in 0 .. N : \A m \in 0 .. n : f[m] <= f[n]
    BY DEF Sums
  <1> DEFINE z == Size(h)
  <1> HIDE DEF N, qs, z
  <1>4. g \in [0 .. (N + 1) -> Nat] /\ g[0] = 0
    BY <1>1, <1>2, <1>3 DEF z
  <1>5. ASSUME NEW n \in 1 .. (N + 1) PROVE g[n] = g[n - 1] + Size(qs[n])
    <2>1. CASE n = N + 1
      <3>1. n - 1 = N /\ N \in 0 .. (N + 1) /\ N # N + 1 /\ n \in 0 .. (N + 1)
        BY <1>1, <2>1
      <3>2. g[n] = f[N] + Size(h) /\ g[n - 1] = f[N]
        BY <2>1, <3>1
      <3> QED
        BY <1>1, <2>1, <3>2
    <2>2. CASE n \in 1 .. N
      <3>1. /\ n - 1 \in 0 .. (N + 1) /\ n - 1 # N + 1 /\ n \in 0 .. (N + 1) /\ n # N + 1
        BY <1>1, <2>2
      <3>2. g[n] = f[n] /\ g[n - 1] = f[n - 1]
        BY <3>1
      <3> QED
        BY <1>1, <1>3, <2>2, <3>2
    <2> QED
      BY <1>1, <2>1, <2>2
  <1>6. ASSUME NEW n \in 0 .. (N + 1), NEW m \in 0 .. n PROVE g[m] <= g[n]
    <2>0. ASSUME NEW k \in 0 .. N PROVE g[k] = f[k] /\ f[k] \in Nat /\ f[k] <= f[N]
      <3>1. k \in 0 .. (N + 1) /\ k # N + 1 /\ N \in 0 .. N
        BY <1>1
      <3> QED
        BY <1>3, <3>1
    <2>1. g[N + 1] = f[N] + z /\ f[N] \in Nat /\ z \in Nat
      BY <1>1, <1>2, <1>3 DEF z
    <2>2. CASE n = N + 1 /\ m = N + 1
      BY <2>1, <2>2
    <2>3. CASE n = N + 1 /\ m \in 0 .. N
      <3>1. g[m] \in Nat /\ g[m] <= f[N]
        BY <2>0, <2>3
      <3>2. g[n] = f[N] + z
        BY <2>1, <2>3
      <3> HIDE DEF g
      <3> QED
        BY <2>1, <3>1, <3>2
    <2>4. CASE n \in 0 .. N
      <3>1. m \in 0 .. N
        BY <1>1, <2>4
      <3> QED
        BY <1>3, <2>0, <2>4, <3>1
    <2> QED
      BY <1>1, <2>2, <2>3, <2>4
  <1>7. g \in Sums(qs)
    BY <1>1, <1>4, <1>5, <1>6 DEF Sums
  <1> QED
    BY <1>7 DEF N, qs

(* The four parts coraza_pack_headers writes for a header, and their       *)
(* lengths.                                                                *)
LEMMA FieldTypes ==
    ASSUME NEW h \in Headers, NEW n \in Nat
    PROVE  /\ NameField(h.name) \in Seq(Int) /\ Len(NameField(h.name)) = 2
           /\ Repeat(NameByte(n), h.name) \in Seq(Int)
           /\ Len(Repeat(NameByte(n), h.name)) = h.name
           /\ ValueField(h.value) \in Seq(Int) /\ Len(ValueField(h.value)) = 4
           /\ Repeat(ValueByte(n), h.value) \in Seq(Int)
           /\ Len(Repeat(ValueByte(n), h.value)) = h.value
  <1>0. h.name \in Nat /\ h.value \in Nat /\ Base \in Nat /\ Base # 0
    BY WidthAssumption DEF Headers
  <1>1. Base * Base \in Nat \ {0} /\ Base * Base * Base \in Nat \ {0}
    <2>1. \A x, y \in Nat \ {0} : x * y \in Nat \ {0}
      OBVIOUS
    <2> QED
      BY <1>0, <2>1
  <1>2. ASSUME NEW x \in Nat, NEW place \in Nat \ {0} PROVE Digit(x, place) \in Int
    <2>1. x \div place \in Int
      OBVIOUS
    <2> DEFINE y == x \div place
    <2> HIDE DEF y
    <2>2. y % Base \in Int
      BY <1>0, <2>1 DEF y
    <2> QED
      BY <2>2 DEF Digit, y
  <1>3. NameField(h.name) \in Seq(Int) /\ Len(NameField(h.name)) = 2
    <2>1. Digit(h.name, Base) \in Int /\ Digit(h.name, 1) \in Int
      BY <1>0, <1>2
    <2> QED
      BY <2>1 DEF NameField
  <1>4. ValueField(h.value) \in Seq(Int) /\ Len(ValueField(h.value)) = 4
    <2>1. /\ Digit(h.value, Base * Base * Base) \in Int /\ Digit(h.value, Base * Base) \in Int
          /\ Digit(h.value, Base) \in Int /\ Digit(h.value, 1) \in Int
      BY <1>0, <1>1, <1>2
    <2> QED
      BY <2>1 DEF ValueField
  <1>5. ASSUME NEW x \in Int, NEW k \in Nat
        PROVE  Repeat(x, k) \in Seq(Int) /\ Len(Repeat(x, k)) = k
    BY DEF Repeat
  <1>6. NameByte(n) \in Int /\ ValueByte(n) \in Int
    BY <1>0 DEF NameByte, ValueByte
  <1> QED
    BY <1>0, <1>3, <1>4, <1>5, <1>6

(* What one header takes in the buffer is what was measured for it.        *)
LEMMA PackedSize ==
    ASSUME NEW b \in Seq(Int), NEW h \in Headers, NEW n \in Nat
    PROVE  LET c == b \o NameField(h.name) \o Repeat(NameByte(n), h.name)
                      \o ValueField(h.value) \o Repeat(ValueByte(n), h.value)
           IN c \in Seq(Int) /\ Len(c) = Len(b) + Size(h)
  <1>0. h.name \in Nat /\ h.value \in Nat
    BY DEF Headers
  <1> DEFINE f1 == NameField(h.name)
             f2 == Repeat(NameByte(n), h.name)
             f3 == ValueField(h.value)
             f4 == Repeat(ValueByte(n), h.value)
  <1>7. /\ f1 \in Seq(Int) /\ Len(f1) = 2 /\ f2 \in Seq(Int) /\ Len(f2) = h.name
        /\ f3 \in Seq(Int) /\ Len(f3) = 4 /\ f4 \in Seq(Int) /\ Len(f4) = h.value
    BY FieldTypes
  <1> HIDE DEF f1, f2, f3, f4
  <1>8. \A s, t \in Seq(Int) : s \o t \in Seq(Int) /\ Len(s \o t) = Len(s) + Len(t)
    OBVIOUS
  <1>9. b \o f1 \in Seq(Int) /\ Len(b \o f1) = Len(b) + 2
    BY <1>7, <1>8
  <1>10. b \o f1 \o f2 \in Seq(Int) /\ Len(b \o f1 \o f2) = Len(b) + 2 + h.name
    BY <1>7, <1>8, <1>9
  <1>11. b \o f1 \o f2 \o f3 \in Seq(Int) /\ Len(b \o f1 \o f2 \o f3) = Len(b) + 2 + h.name + 4
    BY <1>7, <1>8, <1>10
  <1>12. /\ b \o f1 \o f2 \o f3 \o f4 \in Seq(Int)
         /\ Len(b \o f1 \o f2 \o f3 \o f4) = Len(b) + 2 + h.name + 4 + h.value
    BY <1>7, <1>8, <1>11
  <1>13. Len(b) + 2 + h.name + 4 + h.value = Len(b) + Size(h)
    <2>1. Len(b) \in Nat
      OBVIOUS
    <2> QED
      BY <1>0, <2>1 DEF Size
  <1> QED
    BY <1>12, <1>13 DEF f1, f2, f3, f4

(* The lengths the engine reads at a place of a buffer.                    *)
NameAt(b, at) == b[at] * Base + b[at + 1]
ValueAt(b, at) ==
    ((b[at] * Base + b[at + 1]) * Base + b[at + 2]) * Base + b[at + 3]

(* The header after o bytes of the buffer is h.                            *)
FrameAt(b, o, h) == NameAt(b, o + 1) = h.name /\ ValueAt(b, o + 3 + h.name) = h.value

(* The lengths of a header fit their fields.                               *)
Small(h) == h.name <= Base * Base - 1 /\ h.value <= IntMax

(* The digits of a length field are read back, wherever they are.          *)
LEMMA ReadName ==
    ASSUME NEW c, NEW o \in Nat, NEW n \in Nat, n <= Base * Base - 1,
           \A j \in 1 .. 2 : c[o + j] = NameField(n)[j]
    PROVE  NameAt(c, o + 1) = n
<1>1. NameField(n)[1] = Digit(n, Base) /\ NameField(n)[2] = Digit(n, 1)
  BY DEF NameField
<1>2. c[o + 1] = Digit(n, Base) /\ c[o + 2] = Digit(n, 1) /\ (o + 1) + 1 = o + 2
  BY <1>1
<1>3. NameAt(c, o + 1) = Digit(n, Base) * Base + Digit(n, 1)
  BY <1>2 DEF NameAt
<1> QED
  BY <1>3, NameRead

LEMMA ReadValue ==
    ASSUME NEW c, NEW o \in Nat, NEW n \in Nat, n <= IntMax,
           \A j \in 1 .. 4 : c[o + j] = ValueField(n)[j]
    PROVE  ValueAt(c, o + 1) = n
<1>1. /\ ValueField(n)[1] = Digit(n, Base * Base * Base)
      /\ ValueField(n)[2] = Digit(n, Base * Base)
      /\ ValueField(n)[3] = Digit(n, Base) /\ ValueField(n)[4] = Digit(n, 1)
  BY DEF ValueField
<1>2. (o + 1) + 1 = o + 2 /\ (o + 1) + 2 = o + 3 /\ (o + 1) + 3 = o + 4
  OBVIOUS
<1>3. /\ c[o + 1] = Digit(n, Base * Base * Base) /\ c[(o + 1) + 1] = Digit(n, Base * Base)
      /\ c[(o + 1) + 2] = Digit(n, Base) /\ c[(o + 1) + 3] = Digit(n, 1)
  BY <1>1, <1>2
<1>4. ValueAt(c, o + 1) = ((Digit(n, Base * Base * Base) * Base + Digit(n, Base * Base)) * Base
                             + Digit(n, Base)) * Base + Digit(n, 1)
  BY <1>3 DEF ValueAt
<1> QED
  BY <1>4, ValueRead

(* Packing a header leaves those before it and puts it after them.         *)
LEMMA PackedFrame ==
    ASSUME NEW b \in Seq(Int), NEW h \in Headers, NEW n \in Nat, Small(h), NEW c,
           c = b \o NameField(h.name) \o Repeat(NameByte(n), h.name)
                \o ValueField(h.value) \o Repeat(ValueByte(n), h.value)
    PROVE  (\A j \in 1 .. Len(b) : c[j] = b[j]) /\ FrameAt(c, Len(b), h)
<1> DEFINE f1 == NameField(h.name)
           f2 == Repeat(NameByte(n), h.name)
           f3 == ValueField(h.value)
           f4 == Repeat(ValueByte(n), h.value)
           L == Len(b)
<1>1. /\ f1 \in Seq(Int) /\ Len(f1) = 2 /\ f2 \in Seq(Int) /\ Len(f2) = h.name
      /\ f3 \in Seq(Int) /\ Len(f3) = 4 /\ f4 \in Seq(Int)
  BY FieldTypes
<1>2. c = b \o f1 \o f2 \o f3 \o f4
  OBVIOUS
<1>3. L \in Nat /\ h.name \in Nat /\ h.value \in Nat
  BY DEF Headers
<1> HIDE DEF f1, f2, f3, f4
<1>4. Placed(c, b, f1, h.name, f3)
  <2>1. Placed(b \o f1 \o f2 \o f3 \o f4, b, f1, Len(f2), f3)
    BY <1>1, FieldPlaces
  <2> QED
    BY <1>1, <1>2, <2>1
<1>5. /\ \A j \in 1 .. L : c[j] = b[j]
      /\ \A j \in 1 .. 2 : c[L + j] = f1[j]
      /\ \A j \in 1 .. 4 : c[L + 2 + h.name + j] = f3[j]
  BY <1>4 DEF Placed
<1> HIDE DEF L
<1>6. NameAt(c, L + 1) = h.name
  BY <1>3, <1>5, ReadName DEF Small, f1
<1>7. ValueAt(c, L + 3 + h.name) = h.value
  <2> DEFINE o == L + 2 + h.name
             v == h.value
  <2>1. o \in Nat /\ v \in Nat /\ v <= IntMax /\ L + 3 + h.name = o + 1
    BY <1>3 DEF Small
  <2>2. \A j \in 1 .. 4 : c[o + j] = ValueField(v)[j]
    BY <1>5 DEF f3
  <2> HIDE DEF o, v
  <2>3. ValueAt(c, o + 1) = v
    BY <2>1, <2>2, ReadValue
  <2> QED
    BY <2>1, <2>3 DEF v
<1> QED
  BY <1>5, <1>6, <1>7 DEF FrameAt, L

(* A header that lies within the first bytes of the buffer is still there  *)
(* when more are written after them.                                       *)
LEMMA FrameKept ==
    ASSUME NEW b, NEW c, NEW o \in Nat, NEW h \in Headers, NEW l \in Nat,
           o + Size(h) <= l, \A j \in 1 .. l : c[j] = b[j], FrameAt(b, o, h)
    PROVE  FrameAt(c, o, h)
<1>1. h.name \in Nat /\ h.value \in Nat /\ o + 6 + h.name + h.value <= l
  BY DEF Headers, Size
<1>2. o + 1 \in 1 .. l /\ (o + 1) + 1 \in 1 .. l
  BY <1>1
<1> DEFINE p == o + 3 + h.name
<1>3. p \in 1 .. l /\ p + 1 \in 1 .. l /\ p + 2 \in 1 .. l /\ p + 3 \in 1 .. l
  BY <1>1
<1> HIDE DEF p
<1>4. NameAt(c, o + 1) = NameAt(b, o + 1)
  BY <1>2 DEF NameAt
<1>5. ValueAt(c, p) = ValueAt(b, p)
  <2>1. c[p] = b[p] /\ c[p + 1] = b[p + 1] /\ c[p + 2] = b[p + 2] /\ c[p + 3] = b[p + 3]
    BY <1>3
  <2> QED
    BY <2>1 DEF ValueAt
<1> QED
  BY <1>4, <1>5 DEF FrameAt, p

(* The first loop has summed what it has seen, and the lengths it has seen *)
(* fit their fields; the second has written what was summed, each header   *)
(* where the sum says.                                                     *)
SmallTo(n) == \A k \in 1 .. n : Small(pairs[k])
FramedTo(f, n) == \A k \in 1 .. n : FrameAt(buf, f[k - 1], pairs[k])

Measured(f) ==
    /\ pc \in {"gather", "gather_err"} => i = 1 /\ total = 0 /\ buf = <<>>
    /\ pc = "measure" => total = f[i - 1] /\ buf = <<>> /\ SmallTo(i - 1)
    /\ pc = "pack" => /\ total = f[Count] /\ Len(buf) = f[i - 1]
                      /\ SmallTo(Count) /\ FramedTo(f, i - 1)
    /\ Len(buf) <= total

BufferInv ==
    /\ TypeOK
    /\ buf \in Seq(Int)
    /\ \E f \in Sums(pairs) : Measured(f)

LEMMA GatherBuffer ==
    ASSUME BufferInv, GatherEntry \/ GatherContentType \/ Gathered, TypeOK'
    PROVE  BufferInv'
  <1>1. PICK f \in Sums(pairs) : Measured(f)
    BY DEF BufferInv
  <1>2. pc \in {"gather", "gather_err"} /\ UNCHANGED <<i, total, buf>>
    BY DEF GatherEntry, GatherContentType, Gathered
  <1>3. i = 1 /\ total = 0 /\ buf = <<>> /\ Len(buf) <= total
    BY <1>1, <1>2 DEF Measured
  <1>4. \E g \in Sums(pairs') : TRUE
    <2>1. CASE pairs' = pairs
      BY <2>1, <1>1
    <2>2. ASSUME NEW h \in Headers, pairs' = Append(pairs, h)
          PROVE  \E g \in Sums(pairs') : TRUE
      <3>1. pairs \in Seq(Headers)
        BY DEF BufferInv, TypeOK, Headers
      <3> QED
        BY <1>1, <2>2, <3>1, MoreSums
    <2>3. pairs' = pairs \/ \E h \in Headers : pairs' = Append(pairs, h)
      <3>1. CASE GatherEntry
        <4>1. \A e \in Entries : Pair(e) \in Headers
          BY EntryAssumption DEF Pair, Headers
        <4> QED
          BY <3>1, <4>1 DEF GatherEntry
      <3>2. CASE GatherContentType
        <4>1. \A t \in ContentTypes : t # NoType => [name |-> TypeName, value |-> t] \in Headers
          BY EntryAssumption DEF TypeName, Headers
        <4> QED
          BY <3>2, <4>1 DEF GatherContentType
      <3>3. CASE Gathered
        BY <3>3 DEF Gathered
      <3> QED
        BY <3>1, <3>2, <3>3
    <2> QED
      BY <2>1, <2>2, <2>3
  <1>5. PICK g \in Sums(pairs') : TRUE
    BY <1>4
  <1>6. pc' \in {"gather", "gather_err", "submitted", "measure"}
    BY <1>2 DEF GatherEntry, GatherContentType, Gathered
  <1>7. g[0] = 0
    BY <1>5 DEF Sums
  <1>8. Measured(g)'
    <2>1. SmallTo(i - 1)'
      <3>1. \A k : k \notin 1 .. 0
        OBVIOUS
      <3> QED
        BY <1>2, <1>3, <3>1 DEF SmallTo
    <2> QED
      BY <1>2, <1>3, <1>6, <1>7, <2>1 DEF Measured
  <1> QED
    BY <1>2, <1>5, <1>8 DEF BufferInv

LEMMA PackBuffer ==
    ASSUME BufferInv, Measure \/ Allocate \/ Pack, TypeOK'
    PROVE  BufferInv'
  <1>1. PICK f \in Sums(pairs) : Measured(f)
    BY DEF BufferInv
  <1> DEFINE N == Len(pairs)
  <1>2. /\ pairs \in Seq(Headers) /\ N \in Nat /\ i \in 1 .. (N + 1) /\ buf \in Seq(Int)
        /\ total \in 0 .. IntMax /\ Count = N
    BY DEF BufferInv, TypeOK, Headers, Count
  <1>3. /\ f \in [0 .. N -> Nat] /\ f[0] = 0
        /\ \A n \in 1 .. N : f[n] = f[n - 1] + Size(pairs[n])
        /\ \A n \in 0 .. N : \A m \in 0 .. n : f[m] <= f[n]
    BY <1>1 DEF Sums
  <1>4. pairs' = pairs /\ f \in Sums(pairs')
    BY <1>1 DEF Measure, Allocate, Pack
  <1>5. i <= N => i \in 1 .. N /\ pairs[i] \in Headers
    <2>1. i <= N => i \in 1 .. N
      BY <1>2
    <2> QED
      BY <1>2, <2>1, ElementType
  <1> HIDE DEF N
  <1>6. CASE Measure
    <2>1. pc = "measure" /\ total = f[i - 1] /\ buf = <<>> /\ i \in 1 .. N /\ buf' = buf
      BY <1>1, <1>2, <1>5, <1>6 DEF Measure, Measured
    <2>2. CASE Fits(pairs[i])
      <3>1. pc' = pc /\ i' = i + 1 /\ total' = (total + Size(pairs[i])) % SizeMod
        BY <1>6, <2>2 DEF Measure
      <3>2. total' = total + Size(pairs[i])
        BY <1>2, <1>5, <2>1, <2>2, <3>1, FitsIsExact DEF Headers
      <3>3. total' = f[i' - 1]
        BY <1>2, <1>3, <2>1, <3>1, <3>2
      <3>4. Len(buf') = 0 /\ total' >= 0
        BY <2>1 DEF TypeOK
      <3>5. SmallTo(i - 1)'
        <4>1. SmallTo(i - 1) /\ Small(pairs[i])
          BY <1>1, <2>1, <2>2 DEF Measured, Fits, Small
        <4>2. ASSUME NEW k \in 1 .. (i' - 1) PROVE Small(pairs[k])
          <5>1. k \in 1 .. (i - 1) \/ k = i
            BY <1>2, <2>1, <3>1
          <5> QED
            BY <4>1, <5>1 DEF SmallTo
        <4> QED
          BY <1>4, <4>2 DEF SmallTo, Small
      <3>6. Measured(f)'
        BY <2>1, <3>1, <3>3, <3>4, <3>5 DEF Measured
      <3> QED
        BY <1>2, <1>4, <2>1, <3>6 DEF BufferInv
    <2>3. CASE ~Fits(pairs[i])
      <3>1. pc' = "one_by_one" /\ total' = total
        BY <1>6, <2>3 DEF Measure
      <3>2. Measured(f)'
        BY <1>1, <2>1, <3>1 DEF Measured
      <3> QED
        BY <1>2, <1>4, <2>1, <3>2 DEF BufferInv
    <2> QED
      BY <2>2, <2>3
  <1>7. CASE Allocate
    <2>1. /\ pc = "measure" /\ i = N + 1 /\ i' = 1 /\ pc' \in {"one_by_one", "pack"}
          /\ UNCHANGED <<total, buf>>
      BY <1>2, <1>7 DEF Allocate
    <2>2. total = f[N] /\ Len(buf) = 0 /\ Len(buf) <= total
      BY <1>1, <1>2, <2>1 DEF Measured
    <2>3. Measured(f)'
      <3>1. SmallTo(Count)'
        BY <1>1, <1>2, <1>4, <2>1 DEF Measured, SmallTo, Small, Count
      <3>2. FramedTo(f, i - 1)'
        <4>1. \A k : k \notin 1 .. 0
          OBVIOUS
        <4> QED
          BY <2>1, <4>1 DEF FramedTo
      <3>3. Count' = N
        BY <1>2, <1>4 DEF Count
      <3>4. total' = f[N] /\ Len(buf') = f[i' - 1] /\ Len(buf') <= total'
        BY <1>3, <2>1, <2>2
      <3> QED
        BY <2>1, <3>1, <3>2, <3>3, <3>4 DEF Measured
    <2> QED
      BY <1>2, <1>4, <2>1, <2>3 DEF BufferInv
  <1>8. CASE Pack
    <2>1. /\ pc = "pack" /\ pc' = pc /\ i \in 1 .. N /\ i' = i + 1 /\ total' = total
          /\ buf' = buf \o NameField(pairs[i].name) \o Repeat(NameByte(i), pairs[i].name)
                        \o ValueField(pairs[i].value) \o Repeat(ValueByte(i), pairs[i].value)
      BY <1>2, <1>5, <1>8 DEF Pack
    <2>2. buf' \in Seq(Int) /\ Len(buf') = Len(buf) + Size(pairs[i])
      <3> DEFINE h == pairs[i]
                 n == i
      <3>1. n \in Nat /\ h \in Headers
        BY <1>2, <1>5, <2>1
      <3>2. buf' = buf \o NameField(h.name) \o Repeat(NameByte(n), h.name)
                       \o ValueField(h.value) \o Repeat(ValueByte(n), h.value)
        BY <2>1
      <3> HIDE DEF h, n
      <3>3. buf' \in Seq(Int) /\ Len(buf') = Len(buf) + Size(h)
        BY <1>2, <3>1, <3>2, PackedSize
      <3> QED
        BY <3>3 DEF h
    <2>3. total = f[N] /\ Len(buf) = f[i - 1]
      BY <1>1, <1>2, <2>1 DEF Measured
    <2>4. f[i] = f[i - 1] + Size(pairs[i]) /\ i' - 1 = i /\ f[i] <= f[N]
      BY <1>2, <1>3, <2>1
    <2>5. Measured(f)'
      <3>1. Count' = N
        BY <1>2, <1>4 DEF Count
      <3>2. Len(buf') = f[i' - 1] /\ Len(buf') <= total' /\ total' = f[N]
        BY <2>1, <2>2, <2>3, <2>4
      <3>3. SmallTo(Count) /\ SmallTo(Count)'
        BY <1>1, <1>2, <1>4, <2>1, <3>1 DEF Measured, SmallTo, Small
      <3>4. (\A j \in 1 .. Len(buf) : buf'[j] = buf[j]) /\ FrameAt(buf', f[i - 1], pairs[i])
        <4> DEFINE h == pairs[i]
                   n == i
                   c == buf'
        <4>1. n \in Nat /\ h \in Headers /\ Small(h)
          BY <1>2, <1>5, <2>1, <3>3 DEF SmallTo
        <4>2. c = buf \o NameField(h.name) \o Repeat(NameByte(n), h.name)
                      \o ValueField(h.value) \o Repeat(ValueByte(n), h.value)
          BY <2>1
        <4> HIDE DEF h, n, c
        <4>3. (\A j \in 1 .. Len(buf) : c[j] = buf[j]) /\ FrameAt(c, Len(buf), h)
          BY <1>2, <4>1, <4>2, PackedFrame
        <4> QED
          BY <2>3, <4>3 DEF h, c
      <3>5. ASSUME NEW k \in 1 .. i PROVE FrameAt(buf', f[k - 1], pairs[k])
        <4>1. CASE k = i
          BY <3>4, <4>1
        <4>2. CASE k \in 1 .. (i - 1)
          <5> DEFINE o == f[k - 1]
                     h == pairs[k]
                     l == Len(buf)
                     c == buf'
          <5>1. FrameAt(buf, o, h)
            BY <1>1, <2>1, <4>2 DEF Measured, FramedTo
          <5>2. k \in 1 .. N /\ k - 1 \in 0 .. N /\ i - 1 \in 0 .. N /\ k \in 0 .. (i - 1)
            BY <1>2, <2>1, <4>2
          <5>3. h \in Headers
            BY <1>2, <5>2, ElementType DEF N
          <5>4. o \in Nat /\ l \in Nat /\ f[k] = o + Size(h) /\ f[k] <= l
            BY <1>2, <1>3, <2>3, <5>2
          <5>5. \A j \in 1 .. l : c[j] = buf[j]
            BY <3>4
          <5> HIDE DEF o, h, l, c
          <5>6. FrameAt(c, o, h)
            BY <5>1, <5>3, <5>4, <5>5, FrameKept, ZenonT(40), SMTT(40)
          <5> QED
            BY <5>6 DEF o, h, c
        <4> QED
          BY <1>2, <4>1, <4>2
      <3>6. FramedTo(f, i - 1)'
        BY <1>4, <2>4, <3>5 DEF FramedTo
      <3> QED
        BY <2>1, <3>1, <3>2, <3>3, <3>6 DEF Measured
    <2> QED
      BY <1>4, <2>2, <2>5 DEF BufferInv
  <1> QED
    BY <1>6, <1>7, <1>8

LEMMA InitBuffer ==
    ASSUME Init
    PROVE  BufferInv
  <1>1. TypeOK
    BY InitTypes
  <1> DEFINE f == [n \in {0} |-> 0]
  <1>2. f \in Sums(pairs)
    BY EmptySums DEF Init
  <1> HIDE DEF f
  <1>3. Measured(f)
    BY DEF Init, Measured
  <1>4. buf \in Seq(Int)
    BY DEF Init
  <1> QED
    BY <1>1, <1>2, <1>3, <1>4 DEF BufferInv

LEMMA NextBuffer ==
    ASSUME BufferInv, [Next]_vars
    PROVE  BufferInv'
  <1>1. TypeOK
    BY DEF BufferInv
  <1>2. CASE GatherEntry \/ GatherContentType \/ Gathered
    BY <1>1, <1>2, GatherTypes, GatherBuffer
  <1>3. CASE Measure \/ Allocate \/ Pack
    BY <1>1, <1>3, PackTypes, PackBuffer
  <1>4. CASE SubmitBulk \/ AddRequestHeader \/ AddResponseHeader \/ AllAdded
    <2>1. TypeOK'
      BY <1>1, <1>4, SubmitTypes
    <2>2. UNCHANGED <<pairs, total, buf>>
          /\ pc' \in {"submitted", "one_by_one", "error_500", "fail_closed"}
      BY <1>4 DEF SubmitBulk, AddRequestHeader, AddResponseHeader, AllAdded, AddHeader
    <2>3. PICK f \in Sums(pairs) : Measured(f)
      BY DEF BufferInv
    <2>4. f \in Sums(pairs') /\ Measured(f)'
      BY <2>2, <2>3 DEF Measured
    <2> QED
      BY <2>1, <2>2, <2>4 DEF BufferInv
  <1>5. CASE UNCHANGED vars
    <2>1. UNCHANGED <<dir, pairs, pc, i, total, buf, engine>>
      BY <1>5 DEF vars
    <2> QED
      BY <2>1 DEF BufferInv, TypeOK, Measured, Count, SmallTo, FramedTo
  <1> QED
    BY <1>2, <1>3, <1>4, <1>5 DEF Next

LEMMA BufferFilled ==
    ASSUME BufferInv
    PROVE  BufferFits
  <1>1. PICK f \in Sums(pairs) : Measured(f)
    BY DEF BufferInv
  <1>2. ASSUME pc = "pack", i > Count PROVE Len(buf) = total
    <2>1. i - 1 = Count
      BY <1>2 DEF BufferInv, TypeOK, Count
    <2> QED
      BY <1>1, <1>2, <2>1 DEF Measured
  <1> QED
    BY <1>1, <1>2 DEF Measured, BufferFits

(* Whatever the headers, coraza_pack_headers writes exactly the bytes it   *)
(* has allocated and not one past their end.                               *)
THEOREM BufferFitsHolds == Spec => []BufferFits
  <1>1. Init => BufferInv
    BY InitBuffer
  <1>2. BufferInv /\ [Next]_vars => BufferInv'
    BY NextBuffer
  <1>3. BufferInv => BufferFits
    BY BufferFilled
  <1> QED
    BY <1>1, <1>2, <1>3, PTL DEF Spec

---------------------------------------------------------------------------
(* The engine's walk.  After k headers it is where the sum says, and has   *)
(* found the first k of the headers.                                       *)
Walked(f, k) == [at |-> f[k] + 1, ok |-> TRUE, found |-> SubSeq(pairs, 1, k)]

(* One header of a longer sequence.                                        *)
LEMMA PrefixGrows ==
    ASSUME NEW S, NEW s \in Seq(S), NEW k \in 1 .. Len(s)
    PROVE  Append(SubSeq(s, 1, k - 1), s[k]) = SubSeq(s, 1, k)
  <1>1. /\ SubSeq(s, 1, k - 1) \in Seq(S) /\ Len(SubSeq(s, 1, k - 1)) = k - 1
        /\ SubSeq(s, 1, k) \in Seq(S) /\ Len(SubSeq(s, 1, k)) = k
    OBVIOUS
  <1> DEFINE a == SubSeq(s, 1, k - 1)
             b == SubSeq(s, 1, k)
  <1>2. (\A j \in 1 .. (k - 1) : a[j] = s[j]) /\ (\A j \in 1 .. k : b[j] = s[j])
    OBVIOUS
  <1> HIDE DEF a, b
  <1>3. a \in Seq(S) /\ b \in Seq(S) /\ Len(a) = k - 1 /\ Len(b) = k /\ s[k] \in S
    BY <1>1 DEF a, b
  <1>4. Append(a, s[k]) \in Seq(S) /\ Len(Append(a, s[k])) = k
    BY <1>3
  <1>5. ASSUME NEW j \in 1 .. k PROVE Append(a, s[k])[j] = b[j]
    BY <1>2, <1>3
  <1>6. Append(a, s[k]) = b
    BY <1>3, <1>4, <1>5
  <1> QED
    BY <1>6 DEF a, b

(* The walk takes one more header of a filled buffer.                      *)
LEMMA WalkStep ==
    ASSUME BufferInv, NEW f \in Sums(pairs), FramedTo(f, Count), total = f[Count],
           NEW k \in 1 .. Count
    PROVE  WalkHeader(Walked(f, k - 1), total) = Walked(f, k)
  <1> DEFINE N == Len(pairs)
             o == f[k - 1]
             h == pairs[k]
             w == Walked(f, k - 1)
  <1>1. pairs \in Seq(Headers) /\ N \in Nat /\ k \in 1 .. N /\ Count = N
    BY DEF BufferInv, TypeOK, Headers, Count
  <1>2. h \in Headers
    BY <1>1, ElementType
  <1>3. h.name \in Nat /\ h.value \in Nat
    BY <1>2 DEF Headers
  <1>4. /\ f \in [0 .. N -> Nat] /\ f[k] = o + Size(h) /\ f[k] <= f[N]
    <2>1. k \in 0 .. N /\ N \in 0 .. N /\ k \in 0 .. N
      BY <1>1
    <2> QED
      BY <1>1, <2>1 DEF Sums
  <1>5. o \in Nat /\ total \in Nat /\ f[k] = o + 6 + h.name + h.value /\ f[k] <= total
    <2>1. k - 1 \in 0 .. N /\ N \in 0 .. N
      BY <1>1
    <2>2. o \in Nat /\ total \in Nat
      BY <1>1, <1>4, <2>1
    <2>3. Size(h) = 6 + h.name + h.value
      BY DEF Size
    <2> DEFINE x == h.name
               y == h.value
    <2>4. x \in Nat /\ y \in Nat /\ f[k] = o + (6 + x + y)
      BY <1>3, <1>4, <2>3
    <2>5. f[k] <= total
      BY <1>1, <1>4
    <2> HIDE DEF x, y, o
    <2>6. f[k] = o + 6 + x + y
      BY <2>2, <2>4
    <2> QED
      BY <2>2, <2>5, <2>6 DEF x, y
  <1>6. w.at = o + 1 /\ w.ok /\ w.found = SubSeq(pairs, 1, k - 1)
    BY DEF Walked
  <1>7. NameLen(o + 1) = h.name /\ ValueLen(o + 3 + h.name) = h.value
    <2>1. FrameAt(buf, o, h)
      BY <1>1 DEF FramedTo
    <2> QED
      BY <2>1 DEF FrameAt, NameAt, ValueAt, NameLen, ValueLen
  <1> HIDE DEF o, w
  <1>8. w.at + 2 + h.name = o + 3 + h.name
    BY <1>3, <1>5, <1>6
  <1>9. NameLen(w.at) = h.name /\ ValueLen(w.at + 2 + h.name) = h.value
    BY <1>6, <1>7, <1>8
  <1>10. /\ ~(w.at + 1 > total) /\ ~(w.at + 2 + h.name + 3 > total)
         /\ ~(w.at + 5 + h.name + h.value > total)
         /\ w.at + 6 + h.name + h.value = f[k] + 1
    <2> DEFINE x == h.name
               y == h.value
               a == w.at
               z == f[k]
    <2>1. /\ x \in Nat /\ y \in Nat /\ o \in Nat /\ total \in Nat
          /\ a = o + 1 /\ z = o + 6 + x + y /\ z <= total
      BY <1>3, <1>5, <1>6
    <2> HIDE DEF x, y, a, z
    <2>2. /\ ~(a + 1 > total) /\ ~(a + 2 + x + 3 > total)
          /\ ~(a + 5 + x + y > total) /\ a + 6 + x + y = z + 1
      BY <2>1
    <2> QED
      BY <2>2 DEF x, y, a, z
  <1>11. h = [name |-> h.name, value |-> h.value]
    BY <1>2 DEF Headers
  <1>12. Append(w.found, h) = SubSeq(pairs, 1, k)
    BY <1>1, <1>6, PrefixGrows
  <1>13. WalkHeader(w, total) = [at |-> w.at + 6 + h.name + h.value, ok |-> TRUE,
                                 found |-> Append(w.found, [name |-> h.name, value |-> h.value])]
    BY <1>6, <1>9, <1>10 DEF WalkHeader
  <1>14. WalkHeader(w, total) = Walked(f, k)
    BY <1>10, <1>11, <1>12, <1>13 DEF Walked
  <1> QED
    BY <1>14 DEF w

(* So the whole walk finds every header and ends where the buffer does.    *)
LEMMA WalkResult ==
    ASSUME BufferInv, pc = "pack", i > Count
    PROVE  Walk(total, Count) = [at |-> total + 1, ok |-> TRUE, found |-> pairs]
  <1>1. PICK f \in Sums(pairs) : Measured(f)
    BY DEF BufferInv
  <1> DEFINE N == Count
  <1>2. N \in Nat /\ i - 1 = N /\ N = Len(pairs) /\ pairs \in Seq(Headers)
    BY DEF BufferInv, TypeOK, Count, Headers
  <1>3. FramedTo(f, N) /\ total = f[N]
    BY <1>1, <1>2 DEF Measured
  <1>4. f[0] = 0
    BY DEF Sums
  <1> DEFINE first == [at |-> 1, ok |-> TRUE, found |-> <<>>]
             Rec(a) == [k \in 0 .. N |-> IF k = 0 THEN first ELSE WalkHeader(a[k - 1], total)]
             after == CHOOSE a : a = Rec(a)
             h == [k \in 0 .. N |-> Walked(f, k)]
  <1>5. Walked(f, 0) = first
    <2>1. SubSeq(pairs, 1, 0) = <<>>
      BY <1>2
    <2>2. f[0] + 1 = 1
      BY <1>4
    <2> QED
      BY <2>1, <2>2 DEF Walked
  <1>6. \A k \in 1 .. N : WalkHeader(Walked(f, k - 1), total) = Walked(f, k)
    BY <1>3, WalkStep
  <1>7. \A k \in 1 .. N : k \in 0 .. N /\ k - 1 \in 0 .. N /\ k # 0
    BY <1>2
  <1>8. h = Rec(h)
    <2>1. ASSUME NEW k \in 0 .. N
          PROVE  Walked(f, k) = IF k = 0 THEN first ELSE WalkHeader(h[k - 1], total)
      <3>1. CASE k = 0
        BY <1>5, <3>1
      <3>2. CASE k # 0
        <4>1. k \in 1 .. N /\ k - 1 \in 0 .. N
          BY <1>2, <3>2
        <4>2. h[k - 1] = Walked(f, k - 1)
          BY <4>1
        <4> QED
          BY <1>6, <3>2, <4>1, <4>2
      <3> QED
        BY <3>1, <3>2
    <2> QED
      BY <2>1
  <1>9. after = Rec(after)
    BY <1>8
  <1>10. Walk(total, N) = after[N]
    BY DEF Walk
  <1>11. /\ after[0] = first
         /\ \A k \in 1 .. N : after[k] = WalkHeader(after[k - 1], total)
    <2>1. 0 \in 0 .. N
      BY <1>2
    <2>2. \A k \in 0 .. N : after[k] = IF k = 0 THEN first ELSE WalkHeader(after[k - 1], total)
      BY <1>9
    <2> HIDE DEF after, first
    <2> QED
      BY <1>7, <2>1, <2>2
  <1> HIDE DEF after, first, h, N
  <1>12. after[N] = Walked(f, N)
    <2> DEFINE T == [k \in 0 .. N |-> {Walked(f, k)}]
    <2>1. \A k \in 0 .. N : T[k] = {Walked(f, k)}
      OBVIOUS
    <2>2. 0 \in 0 .. N /\ N \in 0 .. N
      BY <1>2
    <2> HIDE DEF T
    <2>3. after[0] \in T[0]
      BY <1>5, <1>11, <2>1, <2>2
    <2>4. \A k \in 1 .. N : after[k - 1] \in T[k - 1] => after[k] \in T[k]
      BY <1>6, <1>7, <1>11, <2>1
    <2>5. after[N] \in T[N]
      BY <1>2, <2>3, <2>4, StepInd
    <2> QED
      BY <2>1, <2>2, <2>5
  <1>13. SubSeq(pairs, 1, N) = pairs
    BY <1>2
  <1>14. Walked(f, N) = [at |-> total + 1, ok |-> TRUE, found |-> pairs]
    BY <1>3, <1>13 DEF Walked
  <1> QED
    BY <1>10, <1>12, <1>14 DEF N

---------------------------------------------------------------------------
(* What the engine has been given.  e is the first m of the headers, left  *)
(* by a batch that failed, and then the first k of them, one by one.       *)
Given(e, ps, m, k) ==
    /\ e \in Seq(Headers)
    /\ Len(e) = m + k
    /\ \A j \in 1 .. m : e[j] = ps[j]
    /\ \A j \in 1 .. k : e[m + j] = ps[j]

EngineInv ==
    /\ pc \in {"gather", "gather_err", "measure", "pack"} => engine = <<>>
    /\ pc = "one_by_one" => \E m \in 0 .. Count : Given(engine, pairs, m, i - 1)
    /\ pc = "submitted" => \E m \in 0 .. Count : Given(engine, pairs, m, Count)

HeaderInv == BufferInv /\ EngineInv

LEMMA GivenNothing ==
    ASSUME NEW ps
    PROVE  Given(<<>>, ps, 0, 0)
  <1>1. \A j : j \notin 1 .. 0
    OBVIOUS
  <1>2. <<>> \in Seq(Headers) /\ Len(<<>>) = 0 + 0
    OBVIOUS
  <1> QED
    BY <1>1, <1>2 DEF Given

(* Part of the batch.                                                      *)
LEMMA GivenPart ==
    ASSUME NEW ps \in Seq(Headers), NEW k \in 0 .. Len(ps)
    PROVE  Given(SubSeq(ps, 1, k), ps, k, 0)
  <1> DEFINE e == SubSeq(ps, 1, k)
  <1>1. e \in Seq(Headers) /\ Len(e) = k /\ \A j \in 1 .. k : e[j] = ps[j]
    OBVIOUS
  <1>2. \A j : j \notin 1 .. 0
    OBVIOUS
  <1>3. k + 0 = k
    OBVIOUS
  <1> HIDE DEF e
  <1>4. Given(e, ps, k, 0)
    BY <1>1, <1>2, <1>3 DEF Given
  <1> QED
    BY <1>4 DEF e

(* All of it.                                                              *)
LEMMA GivenAll ==
    ASSUME NEW ps \in Seq(Headers)
    PROVE  Given(ps, ps, 0, Len(ps))
  <1>1. \A j : j \notin 1 .. 0
    OBVIOUS
  <1>2. Len(ps) \in Nat /\ Len(ps) = 0 + Len(ps) /\ \A j \in 1 .. Len(ps) : 0 + j = j
    OBVIOUS
  <1> QED
    BY <1>1, <1>2 DEF Given

(* One header more.                                                        *)
LEMMA GivenMore ==
    ASSUME NEW ps, NEW e, NEW m \in Nat, NEW k \in Nat \ {0}, Given(e, ps, m, k - 1),
           ps[k] \in Headers
    PROVE  Given(Append(e, ps[k]), ps, m, k)
  <1> DEFINE h == ps[k]
             d == Append(e, h)
  <1>1. /\ e \in Seq(Headers) /\ Len(e) = m + (k - 1) /\ h \in Headers
        /\ \A j \in 1 .. m : e[j] = ps[j]
        /\ \A j \in 1 .. (k - 1) : e[m + j] = ps[j]
    BY DEF Given
  <1> HIDE DEF h
  <1>2. /\ d \in Seq(Headers) /\ Len(d) = Len(e) + 1 /\ d[Len(e) + 1] = h
        /\ \A j \in 1 .. Len(e) : d[j] = e[j]
    BY <1>1
  <1> HIDE DEF d
  <1>3. Len(e) = m + k - 1 /\ Len(e) + 1 = m + k
    BY <1>1
  <1>4. ASSUME NEW j \in 1 .. m PROVE d[j] = ps[j]
    <2>1. j \in 1 .. Len(e)
      BY <1>3
    <2> QED
      BY <1>1, <1>2, <2>1
  <1>5. ASSUME NEW j \in 1 .. k PROVE d[m + j] = ps[j]
    <2>1. CASE j = k
      <3>1. d[m + k] = h
        BY <1>2, <1>3
      <3> QED
        BY <2>1, <3>1 DEF h
    <2>2. CASE j \in 1 .. (k - 1)
      <3>1. m + j \in 1 .. Len(e)
        BY <1>3, <2>2
      <3> QED
        BY <1>1, <1>2, <2>2, <3>1
    <2> QED
      BY <2>1, <2>2
  <1>6. Given(d, ps, m, k)
    BY <1>2, <1>3, <1>4, <1>5 DEF Given
  <1> QED
    BY <1>6 DEF d, h

(* The (int) of a length that is not too long is the length.               *)
LEMMA ToIntExact ==
    ASSUME NEW n \in Nat, n <= IntMax
    PROVE  ToInt(n) = n
  <1>1. 2 * IntMax + 2 \in Nat /\ n < 2 * IntMax + 2
    BY WidthAssumption
  <1>2. n % (2 * IntMax + 2) = n
    BY <1>1, SmallRemainder
  <1> QED
    BY <1>2 DEF ToInt

LEMMA AddedExact ==
    ASSUME NEW h \in Headers, ~TooLong(h)
    PROVE  [name |-> ToInt(h.name), value |-> ToInt(h.value)] = h
  <1>1. h.name \in Nat /\ h.value \in Nat /\ h = [name |-> h.name, value |-> h.value]
    BY DEF Headers
  <1>2. h.name <= IntMax /\ h.value <= IntMax
    BY <1>1, WidthAssumption DEF TooLong
  <1>3. ToInt(h.name) = h.name /\ ToInt(h.value) = h.value
    BY <1>1, <1>2, ToIntExact
  <1> QED
    BY <1>1, <1>3

LEMMA NextEngine ==
    ASSUME HeaderInv, [Next]_vars
    PROVE  EngineInv'
  <1> DEFINE N == Len(pairs)
  <1>1. BufferInv /\ EngineInv
    BY DEF HeaderInv
  <1>2. pairs \in Seq(Headers) /\ N \in Nat /\ Count = N /\ i \in 1 .. (N + 1)
    BY <1>1 DEF BufferInv, TypeOK, Headers, Count
  <1>3. CASE GatherEntry \/ GatherContentType \/ Gathered
    <2>1. /\ pc \in {"gather", "gather_err"} /\ engine' = engine /\ i' = i
          /\ pc' \in {"gather", "gather_err", "submitted", "measure"}
      BY <1>3 DEF GatherEntry, GatherContentType, Gathered
    <2>2. engine' = <<>>
      BY <1>1, <2>1 DEF EngineInv
    <2>3. ASSUME pc' = "submitted"
          PROVE  \E m \in 0 .. Count' : Given(engine', pairs', m, Count')
      <3>1. pairs' = <<>>
        BY <1>3, <2>1, <2>3 DEF GatherEntry, GatherContentType, Gathered
      <3>2. Count' = 0 /\ 0 \in 0 .. 0
        BY <3>1 DEF Count
      <3>3. Given(engine', pairs', 0, 0)
        BY <2>2, GivenNothing
      <3> QED
        BY <3>2, <3>3
    <2> QED
      BY <2>1, <2>2, <2>3 DEF EngineInv
  <1>4. CASE Measure \/ Allocate \/ Pack
    <2>1. /\ pc \in {"measure", "pack"} /\ engine' = engine /\ pairs' = pairs
          /\ pc' \in {"measure", "pack", "one_by_one"} /\ (pc' = "one_by_one" => i' = 1)
      BY <1>4 DEF Measure, Allocate, Pack
    <2>2. engine' = <<>>
      BY <1>1, <2>1 DEF EngineInv
    <2>3. Count' = N /\ 0 \in 0 .. N
      BY <1>2, <2>1 DEF Count
    <2>4. ASSUME pc' = "one_by_one"
          PROVE  \E m \in 0 .. Count' : Given(engine', pairs', m, i' - 1)
      <3>1. i' - 1 = 0
        BY <2>1, <2>4
      <3>2. Given(engine', pairs', 0, 0)
        BY <2>2, GivenNothing
      <3> QED
        BY <2>3, <3>1, <3>2
    <2> QED
      BY <2>1, <2>2, <2>4 DEF EngineInv
  <1>5. CASE SubmitBulk
    <2>1. pc = "pack" /\ i > Count /\ i' = 1 /\ pairs' = pairs
      BY <1>5 DEF SubmitBulk
    <2>2. Walk(total, Count).found = pairs
      BY <1>1, <2>1, WalkResult
    <2>3. Count' = N /\ 0 \in 0 .. N
      BY <1>2, <2>1 DEF Count
    <2>4. \/ engine' = pairs /\ pc' = "submitted"
          \/ (\E k \in 0 .. N : engine' = SubSeq(pairs, 1, k)) /\ pc' = "one_by_one"
      BY <1>5, <2>2 DEF SubmitBulk
    <2>5. CASE engine' = pairs /\ pc' = "submitted"
      <3>1. Given(engine', pairs', 0, Count')
        BY <1>2, <2>1, <2>3, <2>5, GivenAll
      <3> QED
        BY <2>3, <2>5, <3>1 DEF EngineInv
    <2>6. ASSUME NEW k \in 0 .. N, engine' = SubSeq(pairs, 1, k), pc' = "one_by_one"
          PROVE  EngineInv'
      <3>1. Given(engine', pairs', k, 0)
        BY <1>2, <2>1, <2>6, GivenPart
      <3>2. i' - 1 = 0
        BY <2>1
      <3> QED
        BY <2>3, <2>6, <3>1, <3>2 DEF EngineInv
    <2> QED
      BY <2>4, <2>5, <2>6
  <1>6. CASE AddRequestHeader \/ AddResponseHeader
    <2>1. /\ pc = "one_by_one" /\ i <= Count /\ pairs' = pairs
          /\ \E failed \in {"error_500", "fail_closed"} : AddHeader(pairs[i], failed)
      BY <1>6 DEF AddRequestHeader, AddResponseHeader
    <2>2. PICK failed \in {"error_500", "fail_closed"} : AddHeader(pairs[i], failed)
      BY <2>1
    <2>3. PICK m \in 0 .. Count : Given(engine, pairs, m, i - 1)
      BY <1>1, <2>1 DEF EngineInv
    <2>4. i \in 1 .. N /\ m \in Nat /\ i \in Nat \ {0}
      BY <1>2, <2>1, <2>3
    <2>5. pairs[i] \in Headers
      BY <1>2, <2>4, ElementType
    <2>6. CASE pc' = failed
      BY <2>2, <2>6 DEF EngineInv
    <2>7. CASE /\ ~TooLong(pairs[i]) /\ i' = i + 1 /\ pc' = pc
               /\ engine' = Append(engine, [name |-> ToInt(pairs[i].name),
                                            value |-> ToInt(pairs[i].value)])
      <3>1. engine' = Append(engine, pairs[i])
        BY <2>5, <2>7, AddedExact
      <3>2. Given(engine', pairs, m, i)
        BY <2>3, <2>4, <2>5, <3>1, GivenMore
      <3>3. i' - 1 = i /\ Count' = Count
        BY <1>2, <2>1, <2>7 DEF Count
      <3> QED
        BY <2>1, <2>3, <2>7, <3>2, <3>3 DEF EngineInv
    <2> QED
      BY <2>2, <2>6, <2>7 DEF AddHeader
  <1>7. CASE AllAdded
    <2>1. /\ pc = "one_by_one" /\ i > Count /\ pc' = "submitted"
          /\ UNCHANGED <<pairs, engine>>
      BY <1>7 DEF AllAdded
    <2>2. i - 1 = Count
      BY <1>2, <2>1
    <2> QED
      BY <1>1, <2>1, <2>2 DEF EngineInv, Count
  <1>8. CASE UNCHANGED vars
    BY <1>1, <1>8 DEF vars, EngineInv, Count
  <1> QED
    BY <1>3, <1>4, <1>5, <1>6, <1>7, <1>8 DEF Next

(* A sequence whose elements are the first ones of another is a prefix of  *)
(* it.                                                                     *)
LEMMA PrefixByElements ==
    ASSUME NEW S, NEW s \in Seq(S), NEW t \in Seq(S), Len(s) <= Len(t),
           \A j \in 1 .. Len(s) : s[j] = t[j]
    PROVE  IsPrefix(s, t)
  <1> DEFINE n == Len(s)
             a == SubSeq(s, 1, n)
             b == SubSeq(t, 1, n)
  <1>1. n \in Nat /\ n <= Len(t) /\ Len(t) \in Nat
    OBVIOUS
  <1>2. a \in Seq(S) /\ Len(a) = n /\ \A j \in 1 .. n : a[j] = s[j]
    OBVIOUS
  <1>3. b \in Seq(S) /\ Len(b) = n /\ \A j \in 1 .. n : b[j] = t[j]
    BY <1>1
  <1> HIDE DEF a, b
  <1>4. \A j \in 1 .. n : a[j] = b[j]
    BY <1>2, <1>3
  <1>5. a = b
    BY <1>2, <1>3, <1>4
  <1> QED
    BY <1>5 DEF a, b, IsPrefix

(* What the engine has been given at the end is what the property says.    *)
LEMMA GivenWhole ==
    ASSUME NEW ps \in Seq(Headers), NEW e, NEW m \in 0 .. Len(ps), Given(e, ps, m, Len(ps))
    PROVE  IsSuffix(ps, e) /\ IsPrefix(SubSeq(e, 1, Len(e) - Len(ps)), ps)
  <1> DEFINE n == Len(ps)
             l == Len(e)
  <1>1. /\ n \in Nat /\ m \in 0 .. n /\ l \in Nat /\ l = m + n /\ e \in Seq(Headers)
        /\ \A j \in 1 .. m : e[j] = ps[j]
        /\ \A j \in 1 .. n : e[m + j] = ps[j]
    BY DEF Given
  <1>2. IsSuffix(ps, e)
    <2> DEFINE r == Reverse(ps)
               t == Reverse(e)
    <2>1. ASSUME NEW S, NEW x \in Seq(S)
          PROVE  /\ Reverse(x) \in Seq(S) /\ Len(Reverse(x)) = Len(x)
                 /\ \A j \in 1 .. Len(x) : Reverse(x)[j] = x[(Len(x) - j) + 1]
      BY DEF Reverse
    <2>2. r \in Seq(Headers) /\ Len(r) = n /\ \A j \in 1 .. n : r[j] = ps[(n - j) + 1]
      BY <2>1
    <2>3. t \in Seq(Headers) /\ Len(t) = l /\ \A j \in 1 .. l : t[j] = e[(l - j) + 1]
      BY <1>1, <2>1
    <2> HIDE DEF r, t, n, l
    <2>4. ASSUME NEW j \in 1 .. n PROVE r[j] = t[j]
      <3> DEFINE k == (n - j) + 1
      <3>1. k \in 1 .. n /\ (l - j) + 1 = m + k /\ j \in 1 .. l
        BY <1>1
      <3> HIDE DEF k
      <3>2. e[m + k] = ps[k] /\ t[j] = e[m + k]
        BY <1>1, <2>3, <3>1
      <3>3. r[j] = ps[k]
        BY <2>2 DEF k
      <3> QED
        BY <3>2, <3>3
    <2>5. n <= l
      BY <1>1
    <2>6. IsPrefix(r, t)
      BY <2>2, <2>3, <2>4, <2>5, PrefixByElements
    <2> QED
      BY <2>6 DEF r, t, IsSuffix
  <1>3. IsPrefix(SubSeq(e, 1, l - n), ps)
    <2> DEFINE s == SubSeq(e, 1, m)
    <2>1. l - n = m
      BY <1>1
    <2>2. s \in Seq(Headers) /\ Len(s) = m /\ \A j \in 1 .. m : s[j] = e[j]
      BY <1>1
    <2> HIDE DEF s, n, l
    <2>3. m <= n /\ \A j \in 1 .. m : s[j] = ps[j]
      BY <1>1, <2>2
    <2>4. IsPrefix(s, ps)
      BY <2>2, <2>3, PrefixByElements DEF n
    <2> QED
      BY <2>1, <2>4 DEF s
  <1> QED
    BY <1>2, <1>3

(* For headers of any number and any lengths, what the engine has when it  *)
(* processes them ends in the whole header set: the framing                *)
(* coraza_pack_headers writes is read back as the headers it was written   *)
(* from, and the fallback repeats what a failed batch had left.            *)
THEOREM EveryHeaderInspectedHolds == Spec => []EveryHeaderInspected
  <1>1. Init => HeaderInv
    BY InitBuffer DEF Init, HeaderInv, EngineInv
  <1>2. HeaderInv /\ [Next]_vars => HeaderInv'
    BY NextBuffer, NextEngine DEF HeaderInv
  <1>3. HeaderInv => EveryHeaderInspected
    <2> SUFFICES ASSUME HeaderInv, pc = "submitted"
                 PROVE  /\ IsSuffix(pairs, engine)
                        /\ IsPrefix(SubSeq(engine, 1, Len(engine) - Count), pairs)
      BY DEF EveryHeaderInspected
    <2>1. pairs \in Seq(Headers) /\ Count = Len(pairs)
      BY DEF HeaderInv, BufferInv, TypeOK, Headers, Count
    <2>2. PICK m \in 0 .. Count : Given(engine, pairs, m, Count)
      BY DEF HeaderInv, EngineInv
    <2> QED
      BY <2>1, <2>2, GivenWhole
  <1> QED
    BY <1>1, <1>2, <1>3, PTL DEF Spec
=============================================================================
