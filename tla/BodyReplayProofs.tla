-------------------------- MODULE BodyReplayProofs --------------------------
(***************************************************************************)
(* The copy of the request body and its replay, for bodies of any length,  *)
(* read in chunks of any size, under any memory limit: BodyReplay          *)
(* implements BodyStream.                                                  *)
(*                                                                         *)
(* The operations on brigades are proved first, as facts about sequences   *)
(* of sequences: what a brigade holds (Bytes) and how one is split.        *)
(***************************************************************************)
EXTENDS BodyReplay, FoldFacts, SequenceTheorems

---------------------------------------------------------------------------
(* What FlattenSeq computes.                                               *)

(* The solutions of the recursion by which it is defined.                  *)
FlatSteps(X, s) ==
    {f \in [1 .. Len(s) -> Seq(X)] :
       \A k \in 1 .. Len(s) : f[k] = IF k = 1 THEN s[k] ELSE f[k - 1] \o s[k]}

LEMMA FlatExists ==
    ASSUME NEW X, NEW s \in Seq(Seq(X))
    PROVE  FlatSteps(X, s) # {}
<1> DEFINE N == Len(s)
           Q(m) == {f \in [1 .. m -> Seq(X)] :
                      \A k \in 1 .. m : f[k] = IF k = 1 THEN s[k] ELSE f[k - 1] \o s[k]}
           T == {m \in Nat : m <= N => Q(m) # {}}
<1>1. N \in Nat /\ \A k \in 1 .. N : s[k] \in Seq(X)
  OBVIOUS
<1> HIDE DEF N
<1>2. 0 \in T
  <2>1. \A k : k \notin 1 .. 0
    BY SMT
  <2> DEFINE f == [k \in 1 .. 0 |-> <<>>]
  <2>2. f \in Q(0)
    BY <2>1
  <2> QED
    BY <2>2
<1>3. ASSUME NEW m \in Nat, m \in T PROVE m + 1 \in T
  <2> DEFINE R == Q(m + 1)
  <2> SUFFICES ASSUME m + 1 <= N PROVE R # {}
    <3> HIDE DEF R
    <3>1. m + 1 <= N => R # {}
      OBVIOUS
    <3>2. m + 1 \in Nat
      OBVIOUS
    <3> QED
      BY <3>1, <3>2 DEF R
  <2>1. PICK f : f \in Q(m)
    BY <1>1, <1>3
  <2>2. /\ f \in [1 .. m -> Seq(X)]
        /\ \A k \in 1 .. m : f[k] = IF k = 1 THEN s[k] ELSE f[k - 1] \o s[k]
    BY <2>1
  <2> DEFINE last == IF m + 1 = 1 THEN s[m + 1] ELSE f[m] \o s[m + 1]
             g == [k \in 1 .. (m + 1) |-> IF k = m + 1 THEN last ELSE f[k]]
  <2>3. s[m + 1] \in Seq(X)
    BY <1>1
  <2>4. last \in Seq(X)
    <3>1. CASE m = 0
      BY <2>3, <3>1
    <3>2. CASE m # 0
      <4>1. m \in 1 .. m
        BY <3>2
      <4>2. f[m] \in Seq(X)
        BY <2>2, <4>1
      <4>3. f[m] \o s[m + 1] \in Seq(X)
        BY <2>3, <4>2, ConcatProperties
      <4> QED
        BY <3>2, <4>3
    <3> QED
      BY <3>1, <3>2
  <2>5. g[m + 1] = last /\ \A k \in 1 .. m : g[k] = f[k]
    <3>1. m + 1 \in 1 .. (m + 1) /\ \A k \in 1 .. m : k \in 1 .. (m + 1) /\ k # m + 1
      OBVIOUS
    <3> HIDE DEF last
    <3> QED
      BY <3>1
  <2>6. \A k \in 1 .. (m + 1) : k = m + 1 \/ k \in 1 .. m
    OBVIOUS
  <2>7. g \in [1 .. (m + 1) -> Seq(X)]
    <3> HIDE DEF last
    <3> QED
      BY <2>2, <2>4, <2>6
  <2>8. g[m + 1] = IF m + 1 = 1 THEN s[m + 1] ELSE g[(m + 1) - 1] \o s[m + 1]
    <3>1. m # 0 => m \in 1 .. m /\ (m + 1) - 1 = m /\ m + 1 # 1
      OBVIOUS
    <3>2. m # 0 => g[m] = f[m]
      BY <2>5, <3>1
    <3> HIDE DEF g
    <3> QED
      BY <2>5, <3>1, <3>2
  <2>9. ASSUME NEW k \in 1 .. m
        PROVE  g[k] = IF k = 1 THEN s[k] ELSE g[k - 1] \o s[k]
    <3>1. k # 1 => k - 1 \in 1 .. m
      OBVIOUS
    <3> HIDE DEF g
    <3> QED
      BY <2>2, <2>5, <3>1
  <2>10. g \in Q(m + 1)
    <3> HIDE DEF g, last
    <3> QED
      BY <2>6, <2>7, <2>8, <2>9
  <2> QED
    BY <2>10
<1> HIDE DEF Q
<1>4. Nat \subseteq T
  BY <1>2, <1>3, NatInd
<1>5. Q(N) # {}
  <2>1. N <= N
    BY <1>1
  <2>2. N \in T
    <3> HIDE DEF T
    <3> QED
      BY <1>1, <1>4
  <2> QED
    BY <2>1, <2>2
<1> QED
  BY <1>5 DEF Q, N, FlatSteps

(* Every solution ends in the flattened sequence.                          *)
LEMMA FlatIsLast ==
    ASSUME NEW X, NEW s \in Seq(Seq(X)), Len(s) # 0, NEW f \in FlatSteps(X, s)
    PROVE  FlattenSeq(s) = f[Len(s)]
<1> DEFINE N == Len(s)
           Rec(h) == [k \in 1 .. N |-> IF k = 1 THEN s[k] ELSE h[k - 1] \o s[k]]
           F == CHOOSE h : h = Rec(h)
<1>1. f = Rec(f)
  BY DEF FlatSteps
<1>2. F = Rec(F)
  BY <1>1
<1>3. FlattenSeq(s) = F[N]
  BY DEF FlattenSeq
<1>4. N \in Nat \ {0}
  OBVIOUS
<1> HIDE DEF F
<1>5. \A k \in 1 .. N : F[k] = IF k = 1 THEN s[k] ELSE F[k - 1] \o s[k]
  BY <1>2
<1>6. \A k \in 1 .. N : f[k] = IF k = 1 THEN s[k] ELSE f[k - 1] \o s[k]
  BY DEF FlatSteps
<1> HIDE DEF N
<1> DEFINE T == {m \in Nat : m \in 1 .. N => F[m] = f[m]}
<1>7. 0 \in T
  OBVIOUS
<1>8. ASSUME NEW m \in Nat, m \in T PROVE m + 1 \in T
  <2> SUFFICES ASSUME m + 1 \in 1 .. N PROVE F[m + 1] = f[m + 1]
    OBVIOUS
  <2>1. CASE m = 0
    <3>1. m + 1 = 1
      BY <2>1
    <3> QED
      BY <3>1, <1>5, <1>6
  <2>2. CASE m # 0
    <3>1. m \in 1 .. N /\ (m + 1) - 1 = m /\ m + 1 # 1
      BY <1>4, <2>2
    <3>2. F[m] = f[m]
      BY <1>8, <3>1
    <3> QED
      BY <3>1, <3>2, <1>5, <1>6
  <2> QED
    BY <2>1, <2>2
<1>9. Nat \subseteq T
  BY <1>7, <1>8, NatInd
<1>10. F[N] = f[N]
  BY <1>4, <1>9
<1> QED
  BY <1>3, <1>10 DEF N

---------------------------------------------------------------------------
(* What a brigade holds.                                                   *)

LEMMA Assoc == \A B : \A x, y, z \in Seq(B) : (x \o y) \o z = x \o (y \o z)
  BY ConcatAssociative, Zenon

LEMMA ConcatAppend ==
    ASSUME NEW B, NEW u \in Seq(B), NEW w \in Seq(B), NEW e \in B
    PROVE  u \o w \in Seq(B) /\ u \o Append(w, e) = Append(u \o w, e)
<1>1. u \o w \in Seq(B) /\ <<e>> \in Seq(B)
  BY ConcatProperties
<1>2. Append(w, e) = w \o <<e>> /\ Append(u \o w, e) = (u \o w) \o <<e>>
  BY <1>1, AppendIsConcat
<1>3. (u \o w) \o <<e>> = u \o (w \o <<e>>)
  BY <1>1, Assoc
<1> QED
  BY <1>1, <1>2, <1>3

LEMMA BytesEmpty == Bytes(<<>>) = <<>>
  BY EmptySeq DEF Bytes, FlattenSeq

LEMMA BytesAppend ==
    ASSUME NEW X, NEW s \in Seq(Seq(X)), NEW b \in Seq(X)
    PROVE  Bytes(Append(s, b)) = Bytes(s) \o b
<1> DEFINE N == Len(s)
           t == Append(s, b)
<1>1. /\ t \in Seq(Seq(X)) /\ Len(t) = N + 1 /\ t[N + 1] = b
      /\ \A k \in 1 .. N : t[k] = s[k]
  BY AppendProperties
<1>2. N \in Nat /\ Len(t) # 0 /\ N + 1 \in 1 .. (N + 1) /\ (N + 1) - 1 = N
  BY <1>1
<1> HIDE DEF t
<1>3. PICK f : f \in FlatSteps(X, t)
  BY <1>1, FlatExists
<1>4. /\ f \in [1 .. (N + 1) -> Seq(X)]
      /\ \A k \in 1 .. (N + 1) : f[k] = IF k = 1 THEN t[k] ELSE f[k - 1] \o t[k]
  BY <1>1, <1>3 DEF FlatSteps
<1>5. FlattenSeq(t) = f[N + 1]
  BY <1>1, <1>2, <1>3, FlatIsLast
<1>6. CASE N = 0
  <2>1. s = <<>> /\ f[N + 1] = b /\ N + 1 = 1
    BY <1>1, <1>2, <1>4, <1>6, EmptySeq
  <2>2. <<>> \o b = b
    BY ConcatEmptySeq
  <2>3. Bytes(s) = <<>>
    BY <2>1, BytesEmpty
  <2> QED
    BY <1>5, <2>1, <2>2, <2>3 DEF Bytes, t
<1>7. CASE N # 0
  <2> DEFINE g == [k \in 1 .. N |-> f[k]]
  <2>1. \A k \in 1 .. N : k \in 1 .. (N + 1) /\ (k # 1 => k - 1 \in 1 .. N)
    BY <1>2
  <2>2. g \in FlatSteps(X, s)
    <3>1. g \in [1 .. N -> Seq(X)]
      BY <1>4, <2>1
    <3>2. \A k \in 1 .. N : g[k] = IF k = 1 THEN s[k] ELSE g[k - 1] \o s[k]
      BY <1>1, <1>4, <2>1
    <3> HIDE DEF g
    <3> QED
      BY <3>1, <3>2 DEF FlatSteps
  <2>3. g[N] = f[N] /\ N \in 1 .. N /\ N + 1 # 1
    BY <1>2, <1>7
  <2> HIDE DEF g
  <2>4. FlattenSeq(s) = f[N]
    BY <1>7, <2>2, <2>3, FlatIsLast
  <2>5. f[N + 1] = f[N] \o b
    BY <1>1, <1>2, <1>4, <2>3
  <2> QED
    BY <1>5, <2>4, <2>5 DEF Bytes, t
<1> QED
  BY <1>6, <1>7

LEMMA BytesOne ==
    ASSUME NEW X, NEW b \in Seq(X)
    PROVE  Bytes(<<b>>) = b
<1>1. <<>> \in Seq(Seq(X)) /\ Append(<<>>, b) = <<b>>
  BY EmptySeq
<1>2. Bytes(Append(<<>>, b)) = Bytes(<<>>) \o b
  BY <1>1, BytesAppend
<1> QED
  BY <1>1, <1>2, BytesEmpty, ConcatEmptySeq

(* A concatenation of brigades holds what the one and then the other do:   *)
(* by induction on the second, whose step is ConcatOneMore.                *)
Joins(X, u, v) ==
    /\ Bytes(v) \in Seq(X)
    /\ Bytes(u \o v) = Bytes(u) \o Bytes(v)

LEMMA ConcatOneMore ==
    ASSUME NEW X, NEW u \in Seq(Seq(X)), NEW w \in Seq(Seq(X)), NEW e \in Seq(X),
           Bytes(u) \in Seq(X), Joins(X, u, w)
    PROVE  Joins(X, u, Append(w, e))
<1>0. Bytes(w) \in Seq(X) /\ Bytes(u \o w) = Bytes(u) \o Bytes(w)
  BY DEF Joins
<1>1. Bytes(Append(w, e)) = Bytes(w) \o e
  BY BytesAppend
<1>2. u \o w \in Seq(Seq(X)) /\ u \o Append(w, e) = Append(u \o w, e)
  BY ConcatAppend, ZenonT(40), SMTT(40)
<1>3. Bytes(u \o Append(w, e)) = Bytes(u \o w) \o e
  BY <1>2, BytesAppend
<1>4. (Bytes(u) \o Bytes(w)) \o e = Bytes(u) \o (Bytes(w) \o e)
  BY <1>0, Assoc, ZenonT(40), SMTT(40)
<1>5. Bytes(w) \o e \in Seq(X)
  BY <1>0, ConcatProperties
<1> QED
  BY <1>0, <1>1, <1>3, <1>4, <1>5 DEF Joins

LEMMA ConcatStep ==
    ASSUME NEW X, NEW m \in Nat, NEW u \in Seq(Seq(X)), Bytes(u) \in Seq(X),
           \A w \in Seq(Seq(X)) : Len(w) = m => Joins(X, u, w),
           NEW v \in Seq(Seq(X)), Len(v) = m + 1
    PROVE  Joins(X, u, v)
<1>1. v # <<>>
  BY EmptySeq
<1>2. PICK w \in Seq(Seq(X)), e \in Seq(X) : v = Append(w, e)
  BY <1>1, SequenceEmptyOrAppend
<1>3. Len(w) = m
  <2>1. Len(v) = Len(w) + 1 /\ Len(w) \in Nat
    BY <1>2
  <2> QED
    BY <2>1
<1>4. Joins(X, u, w)
  BY <1>3
<1>5. Joins(X, u, Append(w, e))
  BY <1>4, ConcatOneMore
<1> QED
  BY <1>2, <1>5

LEMMA ConcatAll ==
    ASSUME NEW X, NEW u \in Seq(Seq(X)), Bytes(u) \in Seq(X)
    PROVE  \A v \in Seq(Seq(X)) : Joins(X, u, v)
<1> DEFINE T == {m \in Nat : \A v \in Seq(Seq(X)) : Len(v) = m => Joins(X, u, v)}
<1>1. 0 \in T
  <2>1. ASSUME NEW v \in Seq(Seq(X)), Len(v) = 0 PROVE Joins(X, u, v)
    <3>1. v = <<>> /\ u \o <<>> = u /\ Bytes(u) \o <<>> = Bytes(u) /\ <<>> \in Seq(X)
      BY <2>1, EmptySeq, ConcatEmptySeq
    <3> QED
      BY <3>1, BytesEmpty DEF Joins
  <2> QED
    BY <2>1
<1>2. ASSUME NEW m \in Nat, m \in T PROVE m + 1 \in T
  <2>1. \A w \in Seq(Seq(X)) : Len(w) = m => Joins(X, u, w)
    BY <1>2
  <2>2. \A v \in Seq(Seq(X)) : Len(v) = m + 1 => Joins(X, u, v)
    BY <2>1, ConcatStep
  <2> QED
    BY <2>2
<1>3. Nat \subseteq T
  BY <1>1, <1>2, NatInd
<1> TAKE v \in Seq(Seq(X))
<1>4. Len(v) \in Nat
  OBVIOUS
<1>5. Len(v) \in T
  <2> HIDE DEF T
  <2> QED
    BY <1>3, <1>4
<1> QED
  BY <1>5

LEMMA BytesConcat ==
    ASSUME NEW X, NEW s \in Seq(Seq(X)), NEW t \in Seq(Seq(X))
    PROVE  /\ Bytes(t) \in Seq(X)
           /\ Bytes(s \o t) = Bytes(s) \o Bytes(t)
<1>1. <<>> \in Seq(Seq(X)) /\ Bytes(<<>>) \in Seq(X)
  BY EmptySeq, BytesEmpty
<1>2. Joins(X, <<>>, s)
  BY <1>1, ConcatAll
<1>3. Bytes(s) \in Seq(X)
  BY <1>2 DEF Joins
<1>4. Joins(X, s, t)
  BY <1>3, ConcatAll
<1> QED
  BY <1>4 DEF Joins

LEMMA BytesType ==
    ASSUME NEW X, NEW s \in Seq(Seq(X))
    PROVE  Bytes(s) \in Seq(X) /\ Len(Bytes(s)) \in Nat
<1>1. Bytes(s) \in Seq(X)
  BY BytesConcat
<1> QED
  BY <1>1, LenProperties

(* A part of a brigade is one.                                             *)
LEMMA PartOf ==
    ASSUME NEW B, NEW s \in Seq(B), NEW m \in 1 .. Len(s) + 1, NEW n \in 0 .. Len(s), m <= n + 1
    PROVE  /\ SubSeq(s, m, n) \in Seq(B)
           /\ Len(SubSeq(s, m, n)) = n - m + 1
           /\ \A k \in 1 .. (n - m + 1) : SubSeq(s, m, n)[k] = s[m + k - 1]
<1>1. Len(s) \in Nat
  OBVIOUS
<1>2. \A k \in m .. n : k \in 1 .. Len(s)
  BY <1>1
<1>3. \A k \in m .. n : s[k] \in B
  BY <1>2
<1>4. m \in Int /\ n \in Int
  OBVIOUS
<1>5. /\ SubSeq(s, m, n) \in Seq(B)
      /\ Len(SubSeq(s, m, n)) = IF m <= n THEN n - m + 1 ELSE 0
      /\ \A k \in 1 .. (n - m + 1) : SubSeq(s, m, n)[k] = s[m + k - 1]
  BY <1>3, <1>4, SubSeqProperties
<1>6. ~(m <= n) => n - m + 1 = 0
  BY <1>4
<1> QED
  BY <1>5, <1>6

(* The head and the rest of a brigade.                                     *)
LEMMA BytesCut ==
    ASSUME NEW X, NEW s \in Seq(Seq(X)), NEW k \in 0 .. Len(s)
    PROVE  /\ SubSeq(s, 1, k) \in Seq(Seq(X))
           /\ SubSeq(s, k + 1, Len(s)) \in Seq(Seq(X))
           /\ Bytes(SubSeq(s, 1, k)) \o Bytes(SubSeq(s, k + 1, Len(s))) = Bytes(s)
<1> DEFINE N == Len(s)
<1>1. N \in Nat
  OBVIOUS
<1>2. 1 \in 1 .. N + 1 /\ k \in 1 - 1 .. N /\ N \in k .. N /\ N \in 0 .. N /\ k + 1 \in 1 .. N + 1
      /\ 1 <= k + 1 /\ k + 1 <= N + 1
  BY <1>1
<1>3. SubSeq(s, 1, k) \in Seq(Seq(X)) /\ SubSeq(s, k + 1, N) \in Seq(Seq(X))
  BY <1>2, PartOf
<1>4. SubSeq(s, 1, k) \o SubSeq(s, k + 1, N) = SubSeq(s, 1, N)
  BY <1>2, ConcatAdjacentSubSeq
<1>5. SubSeq(s, 1, N) = s
  BY SubSeqFull
<1> QED
  BY <1>3, <1>4, <1>5, BytesConcat, ZenonT(40), SMTT(40)

LEMMA BytesStep ==
    ASSUME NEW X, NEW s \in Seq(Seq(X)), NEW k \in 1 .. Len(s)
    PROVE  /\ s[k] \in Seq(X)
           /\ SubSeq(s, 1, k - 1) \in Seq(Seq(X))
           /\ Bytes(SubSeq(s, 1, k)) = Bytes(SubSeq(s, 1, k - 1)) \o s[k]
<1>1. Len(s) \in Nat /\ s[k] \in Seq(X)
  OBVIOUS
<1>2. 1 \in 1 .. Len(s) /\ k \in 1 .. Len(s) /\ k - 1 \in 0 .. Len(s) /\ 1 \in 1 .. Len(s) + 1 /\ 1 <= (k - 1) + 1
  BY <1>1
<1>3. SubSeq(s, 1, k - 1) \in Seq(Seq(X))
  BY <1>2, PartOf
<1>4. SubSeq(s, 1, k) = SubSeq(s, 1, k - 1) \o <<s[k]>>
  BY <1>2, SubSeqRecursiveSecond
<1>5. SubSeq(s, 1, k) = Append(SubSeq(s, 1, k - 1), s[k])
  BY <1>1, <1>3, <1>4, AppendIsConcat
<1> QED
  BY <1>1, <1>3, <1>5, BytesAppend

---------------------------------------------------------------------------
(* How a brigade is split.                                                 *)

(* The place of the bucket that holds a byte.                              *)
Upto(b, k) == Len(Bytes(SubSeq(b, 1, k)))
Reach(b, n) == {k \in DOMAIN b : Upto(b, k) >= n}

LEMMA UptoType ==
    ASSUME NEW X, NEW b \in Seq(Seq(X)), NEW k \in 0 .. Len(b)
    PROVE  Upto(b, k) \in Nat
<1>1. SubSeq(b, 1, k) \in Seq(Seq(X))
  BY BytesCut
<1> QED
  BY <1>1, BytesType DEF Upto

LEMMA BucketFound ==
    ASSUME NEW X, NEW b \in Seq(Seq(X)), NEW n \in Nat \ {0}, BucketOf(b, n) # 0
    PROVE  /\ BucketOf(b, n) \in 1 .. Len(b)
           /\ Upto(b, BucketOf(b, n) - 1) < n
           /\ n <= Upto(b, BucketOf(b, n))
<1> DEFINE reach == Reach(b, n)
           k == BucketOf(b, n)
<1>1. k = IF reach = {} THEN 0 ELSE CHOOSE j \in reach : \A i \in reach : j <= i
  BY DEF BucketOf, Upto, Reach
<1>2. reach # {}
  BY <1>1
<1>3. DOMAIN b = 1 .. Len(b) /\ Len(b) \in Nat
  OBVIOUS
<1>4. reach \in SUBSET Nat /\ \A j \in reach : j \in 1 .. Len(b) /\ Upto(b, j) >= n
  BY <1>3 DEF Reach
<1>5. \E j \in reach : \A i \in reach : j <= i
  <2> HIDE DEF reach
  <2> QED
    BY <1>2, <1>4, NatMin
<1>6. k \in reach /\ \A i \in reach : k <= i
  <2> HIDE DEF reach
  <2> QED
    BY <1>1, <1>2, <1>5
<1> HIDE DEF k
<1>7. k \in 1 .. Len(b) /\ Upto(b, k) >= n /\ Upto(b, k) \in Nat
  <2>1. k \in 1 .. Len(b) /\ Upto(b, k) >= n
    BY <1>4, <1>6
  <2>2. k \in 0 .. Len(b)
    BY <1>3, <2>1
  <2> QED
    BY <2>1, <2>2, UptoType
<1>8. Upto(b, k - 1) < n
  <2>1. CASE k = 1
    <3>1. SubSeq(b, 1, 0) = <<>>
      BY SubSeqEmpty
    <3>2. Upto(b, 0) = 0
      BY <3>1, BytesEmpty, EmptySeq DEF Upto
    <3>3. k - 1 = 0
      BY <2>1
    <3> QED
      BY <3>2, <3>3
  <2>2. CASE k # 1
    <3>1. k - 1 \in 1 .. Len(b) /\ k - 1 \in 0 .. Len(b) /\ ~(k <= k - 1)
      BY <1>3, <1>7, <2>2
    <3>2. k - 1 \notin reach
      BY <1>6, <3>1
    <3>3. Upto(b, k - 1) \in Nat
      BY <3>1, UptoType
    <3>4. ~(Upto(b, k - 1) >= n)
      BY <1>3, <3>1, <3>2 DEF Reach
    <3> QED
      BY <3>3, <3>4
  <2> QED
    BY <2>1, <2>2
<1> QED
  BY <1>7, <1>8 DEF k

LEMMA BucketThere ==
    ASSUME NEW X, NEW b \in Seq(Seq(X)), NEW n \in 1 .. Len(Bytes(b))
    PROVE  BucketOf(b, n) # 0
<1>1. Len(b) \in Nat /\ DOMAIN b = 1 .. Len(b) /\ Len(Bytes(b)) \in Nat
  BY BytesType
<1>2. b # <<>>
  BY <1>1, BytesEmpty, EmptySeq
<1>3. Len(b) \in 1 .. Len(b)
  BY <1>1, <1>2, EmptySeq
<1>4. SubSeq(b, 1, Len(b)) = b
  BY SubSeqFull
<1>5. Upto(b, Len(b)) >= n
  <2>1. Upto(b, Len(b)) = Len(Bytes(b))
    BY <1>4 DEF Upto
  <2>2. Len(Bytes(b)) >= n
    BY <1>1
  <2> QED
    BY <2>1, <2>2
<1> DEFINE reach == Reach(b, n)
<1>6. Len(b) \in reach
  BY <1>1, <1>3, <1>5 DEF Reach
<1>7. BucketOf(b, n) = IF reach = {} THEN 0 ELSE CHOOSE j \in reach : \A i \in reach : j <= i
  BY DEF BucketOf, Upto, Reach
<1>8. reach \in SUBSET Nat /\ \A j \in reach : j # 0
  BY <1>1 DEF Reach
<1> HIDE DEF reach
<1>9. \E j \in reach : \A i \in reach : j <= i
  BY <1>6, <1>8, NatMin
<1>10. BucketOf(b, n) \in reach
  BY <1>6, <1>7, <1>9
<1> QED
  BY <1>8, <1>10

(* A brigade that ends in EOS, its only empty bucket.                      *)
Whole(X) ==
    {b \in Seq(Seq(X)) : /\ Len(b) # 0
                         /\ b[Len(b)] = EOS
                         /\ \A k \in 1 .. Len(b) : b[k] = EOS => k = Len(b)}

(* p splits b: it takes all of it, or bytes of it and leaves the end.      *)
Splits(X, b, p) ==
    /\ p[1] \in Seq(Seq(X)) /\ p[2] \in Seq(Seq(X))
    /\ Bytes(p[1]) \o Bytes(p[2]) = Bytes(b)
    /\ \/ p[1] = b /\ p[2] = <<>>
       \/ ~HasEOS(p[1]) /\ p[2] \in Whole(X)

LEMMA AllSplits ==
    ASSUME NEW X, NEW b \in Seq(Seq(X))
    PROVE  Splits(X, b, <<b, <<>>>>)
<1>1. <<>> \in Seq(Seq(X)) /\ Bytes(b) \in Seq(X)
  BY EmptySeq, BytesType
<1>2. Bytes(b) \o <<>> = Bytes(b)
  BY <1>1, ConcatEmptySeq
<1> QED
  BY <1>1, <1>2, BytesEmpty DEF Splits

LEMMA RestWhole ==
    ASSUME NEW X, NEW b \in Whole(X), NEW k \in 0 .. (Len(b) - 1)
    PROVE  SubSeq(b, k + 1, Len(b)) \in Whole(X)
<1> DEFINE N == Len(b)
           M == N - (k + 1) + 1
           r == SubSeq(b, k + 1, N)
<1>1. b \in Seq(Seq(X)) /\ N \in Nat /\ N # 0 /\ b[N] = EOS
      /\ \A j \in 1 .. N : b[j] = EOS => j = N
  BY DEF Whole
<1>2. k \in 0 .. (N - 1) /\ k + 1 \in 1 .. N + 1 /\ N \in 0 .. N /\ k + 1 <= N + 1
  BY <1>1
<1>3. r \in Seq(Seq(X)) /\ Len(r) = M /\ \A j \in 1 .. M : r[j] = b[k + 1 + j - 1]
  BY <1>1, <1>2, PartOf
<1> HIDE DEF r, N
<1>4. M \in 1 .. M /\ k + 1 + M - 1 = N /\ M # 0
  BY <1>1, <1>2
<1>5. r[M] = EOS
  BY <1>1, <1>3, <1>4
<1>6. ASSUME NEW j \in 1 .. M, r[j] = EOS PROVE j = M
  <2>1. k + 1 + j - 1 \in 1 .. N /\ b[k + 1 + j - 1] = EOS
    BY <1>1, <1>3, <1>6, ZenonT(40), SMTT(40)
  <2>2. k + 1 + j - 1 = N
    BY <1>1, <2>1
  <2> QED
    BY <1>1, <2>2
<1> HIDE DEF M
<1>7. r \in Whole(X)
  BY <1>3, <1>4, <1>5, <1>6 DEF Whole
<1> QED
  BY <1>7 DEF r, N

LEMMA ConsWhole ==
    ASSUME NEW X, NEW r \in Whole(X), NEW t \in Seq(X), t # <<>>
    PROVE  <<t>> \o r \in Whole(X)
<1> DEFINE s == <<t>> \o r
           N == Len(r)
<1>1. r \in Seq(Seq(X)) /\ N \in Nat /\ N # 0 /\ r[N] = EOS
      /\ \A j \in 1 .. N : r[j] = EOS => j = N
  BY DEF Whole
<1>2. <<t>> \in Seq(Seq(X)) /\ Len(<<t>>) = 1 /\ <<t>>[1] = t
  OBVIOUS
<1>3. s \in Seq(Seq(X)) /\ Len(s) = 1 + N
      /\ \A i \in 1 .. 1 + N : s[i] = IF i <= 1 THEN <<t>>[i] ELSE r[i - 1]
  BY <1>1, <1>2, ConcatProperties
<1> HIDE DEF s, N
<1>4. s[1 + N] = EOS /\ Len(s) # 0
  <2>1. 1 + N \in 1 .. 1 + N /\ ~(1 + N <= 1) /\ (1 + N) - 1 = N
    BY <1>1
  <2> QED
    BY <1>1, <1>3, <2>1
<1>5. ASSUME NEW i \in 1 .. 1 + N, s[i] = EOS PROVE i = 1 + N
  <2>1. CASE i = 1
    BY <1>2, <1>3, <1>5, <2>1 DEF EOS
  <2>2. CASE i # 1
    <3>1. i - 1 \in 1 .. N /\ ~(i <= 1)
      BY <1>1, <2>2
    <3>2. r[i - 1] = EOS
      BY <1>3, <1>5, <3>1
    <3>3. i - 1 = N
      BY <1>1, <3>1, <3>2
    <3> QED
      BY <3>3, <1>1
  <2> QED
    BY <2>1, <2>2
<1>6. s \in Whole(X)
  BY <1>3, <1>4, <1>5 DEF Whole
<1> QED
  BY <1>6 DEF s

LEMMA Regroup ==
    ASSUME NEW X, NEW h \in Seq(X), NEW f \in Seq(X), NEW t \in Seq(X), NEW r \in Seq(X)
    PROVE  (h \o f) \o (t \o r) = (h \o (f \o t)) \o r
<1> DEFINE hf == h \o f
           ft == f \o t
<1>1. hf \in Seq(X) /\ ft \in Seq(X)
  BY ConcatProperties
<1>2. (h \o f) \o t = h \o (f \o t)
  BY Assoc
<1> HIDE DEF hf
<1>3. (hf \o t) \o r = hf \o (t \o r)
  BY <1>1, Assoc, ZenonT(40), SMTT(40)
<1> QED
  BY <1>2, <1>3 DEF hf

(* The same, with concatenation as an operator the provers do not look     *)
(* into.                                                                   *)
Cat(x, y) == x \o y

LEMMA RegroupCat ==
    ASSUME NEW X, NEW h \in Seq(X), NEW f \in Seq(X), NEW t \in Seq(X), NEW r \in Seq(X)
    PROVE  Cat(Cat(h, f), Cat(t, r)) = Cat(Cat(h, Cat(f, t)), r)
  BY Regroup, ZenonT(40), SMTT(40) DEF Cat

(* Nothing before the last bucket of a whole brigade is its end.           *)
LEMMA HeadHasNoEnd ==
    ASSUME NEW X, NEW b \in Whole(X), NEW k \in 0 .. (Len(b) - 1)
    PROVE  /\ SubSeq(b, 1, k) \in Seq(Seq(X))
           /\ Len(SubSeq(b, 1, k)) = k
           /\ \A j \in 1 .. k : SubSeq(b, 1, k)[j] # EOS
<1> DEFINE N == Len(b)
           h == SubSeq(b, 1, k)
<1>1. b \in Seq(Seq(X)) /\ N \in Nat /\ \A j \in 1 .. N : b[j] = EOS => j = N
  BY DEF Whole
<1>2. k \in 0 .. N /\ 1 \in 1 .. N + 1 /\ 1 <= k + 1 /\ k - 1 + 1 = k /\ k \in 0 .. (N - 1)
  BY <1>1
<1>3. h \in Seq(Seq(X)) /\ Len(h) = k - 1 + 1 /\ \A j \in 1 .. (k - 1 + 1) : h[j] = b[1 + j - 1]
  BY <1>1, <1>2, PartOf
<1> HIDE DEF h, N
<1>4. ASSUME NEW j \in 1 .. k PROVE h[j] # EOS
  <2>1. j \in 1 .. (k - 1 + 1) /\ 1 + j - 1 = j /\ j \in 1 .. N /\ j # N
    BY <1>1, <1>2
  <2> QED
    BY <1>1, <1>3, <2>1
<1> QED
  BY <1>2, <1>3, <1>4 DEF h

(* apr_brigade_partition splits a brigade.                                 *)
LEMMA PartitionSplits ==
    ASSUME NEW X, NEW b \in Whole(X), NEW n \in Nat \ {0}, BucketOf(b, n) # 0
    PROVE  Splits(X, b, Partition(b, n))
<1> DEFINE k == BucketOf(b, n)
           N == Len(b)
           head == SubSeq(b, 1, k - 1)
           bucket == b[k]
           cut == n - Len(Bytes(head))
           front == SubSeq(bucket, 1, cut)
           tail == SubSeq(bucket, cut + 1, Len(bucket))
           rest == SubSeq(b, k + 1, N)
           end == IF tail = <<>> THEN <<>> ELSE <<tail>>
<1>1. b \in Seq(Seq(X)) /\ N \in Nat /\ b[N] = EOS
  BY DEF Whole
<1>2. k \in 1 .. N /\ Upto(b, k - 1) < n /\ n <= Upto(b, k)
  BY <1>1, BucketFound
<1>3. Partition(b, n) = <<Append(head, front), end \o rest>>
  BY DEF Partition
<1> HIDE DEF k
<1>4. bucket \in Seq(X) /\ head \in Seq(Seq(X)) /\ Bytes(SubSeq(b, 1, k)) = Bytes(head) \o bucket
  BY <1>1, <1>2, BytesStep
<1>5. Bytes(head) \in Seq(X) /\ Len(Bytes(head)) \in Nat /\ Len(bucket) \in Nat
  <2> HIDE DEF head, bucket
  <2> QED
    BY <1>4, BytesType, LenProperties
<1>6. cut \in 1 .. Len(bucket)
  <2>1. Len(Bytes(head) \o bucket) = Len(Bytes(head)) + Len(bucket)
    BY <1>4, <1>5, ConcatProperties
  <2>2. Upto(b, k) = Len(Bytes(head)) + Len(bucket) /\ Upto(b, k - 1) = Len(Bytes(head))
    BY <1>4, <2>1 DEF Upto
  <2> HIDE DEF bucket, head
  <2> QED
    BY <1>2, <1>5, <2>2
<1>7. k \in 0 .. (N - 1) /\ k - 1 \in 0 .. (N - 1)
  <2>1. bucket # <<>>
    <3> HIDE DEF bucket, cut
    <3>1. Len(bucket) # 0
      BY <1>5, <1>6
    <3> QED
      BY <3>1, EmptySeq
  <2>2. k # N
    <3> HIDE DEF N
    <3>1. k = N => bucket = EOS
      BY <1>1
    <3> HIDE DEF bucket
    <3> QED
      BY <2>1, <3>1 DEF EOS
  <2> QED
    BY <1>1, <1>2, <2>2
<1>8. /\ head \in Seq(Seq(X)) /\ Len(head) = k - 1
      /\ \A j \in 1 .. (k - 1) : head[j] # EOS
  BY <1>7, HeadHasNoEnd
<1>9. rest \in Whole(X) /\ rest \in Seq(Seq(X))
  BY <1>7, RestWhole DEF Whole
<1>10. /\ front \in Seq(X) /\ tail \in Seq(X) /\ front \o tail = bucket /\ front # <<>>
  <2> HIDE DEF bucket, cut
  <2>1. /\ 1 \in 1 .. Len(bucket) + 1 /\ cut \in 0 .. Len(bucket) /\ 1 <= cut + 1
        /\ cut + 1 \in 1 .. Len(bucket) + 1 /\ Len(bucket) \in 0 .. Len(bucket)
        /\ cut + 1 <= Len(bucket) + 1 /\ cut \in (1 - 1) .. Len(bucket)
        /\ Len(bucket) \in cut .. Len(bucket) /\ cut - 1 + 1 # 0
    BY <1>5, <1>6
  <2>2. front \in Seq(X) /\ Len(front) = cut - 1 + 1
    BY <1>4, <2>1, PartOf
  <2>3. tail \in Seq(X)
    BY <1>4, <2>1, PartOf
  <2>4. front \o tail = SubSeq(bucket, 1, Len(bucket))
    BY <1>4, <2>1, ConcatAdjacentSubSeq
  <2>5. SubSeq(bucket, 1, Len(bucket)) = bucket
    BY <1>4, SubSeqFull
  <2>6. front # <<>>
    BY <2>1, <2>2, EmptySeq
  <2> QED
    BY <2>2, <2>3, <2>4, <2>5, <2>6
<1>11. Bytes(b) = Bytes(SubSeq(b, 1, k)) \o Bytes(rest)
  <2>1. k \in 0 .. N
    BY <1>1, <1>2
  <2> QED
    BY <1>1, <2>1, BytesCut
<1> HIDE DEF front, tail, head, rest, bucket, cut, N
<1>12. end \in Seq(Seq(X)) /\ Bytes(end) = tail
  <2>1. CASE tail = <<>>
    BY <2>1, EmptySeq, BytesEmpty
  <2>2. CASE tail # <<>>
    BY <1>10, <2>2, BytesOne
  <2> QED
    BY <2>1, <2>2
<1>13. end \o rest \in Whole(X)
  <2>1. CASE tail = <<>>
    BY <1>9, <2>1, ConcatEmptySeq
  <2>2. CASE tail # <<>>
    BY <1>9, <1>10, <2>2, ConsWhole
  <2> QED
    BY <2>1, <2>2
<1> HIDE DEF end
<1>14. Bytes(end \o rest) = tail \o Bytes(rest) /\ Bytes(rest) \in Seq(X)
  BY <1>9, <1>12, BytesConcat
<1>15. Bytes(Append(head, front)) = Bytes(head) \o front /\ Append(head, front) \in Seq(Seq(X))
  BY <1>8, <1>10, BytesAppend, AppendProperties
<1>16. Bytes(Append(head, front)) \o Bytes(end \o rest) = Bytes(b)
  <2> DEFINE h == Bytes(head)
             r == Bytes(rest)
  <2>1. Cat(Cat(h, front), Cat(tail, r)) = Cat(Cat(h, Cat(front, tail)), r)
    <3> HIDE DEF h, r
    <3>1. h \in Seq(X) /\ r \in Seq(X)
      BY <1>5, <1>14 DEF h, r
    <3> QED
      BY <1>10, <3>1, RegroupCat
  <2>2. Cat(front, tail) = bucket
    BY <1>10 DEF Cat
  <2>3. Bytes(b) = Cat(Cat(h, bucket), r)
    BY <1>4, <1>11 DEF Cat
  <2>4. Bytes(Append(head, front)) = Cat(h, front) /\ Bytes(end \o rest) = Cat(tail, r)
    BY <1>14, <1>15 DEF Cat
  <2>5. Cat(Bytes(Append(head, front)), Bytes(end \o rest)) = Bytes(b)
    BY <2>1, <2>2, <2>3, <2>4
  <2> QED
    BY <2>5 DEF Cat
<1>17. ~HasEOS(Append(head, front))
  <2> DEFINE p == Append(head, front)
  <2>1. /\ Len(p) = (k - 1) + 1 /\ DOMAIN p = 1 .. Len(p)
        /\ \A i \in 1 .. (k - 1) : p[i] = head[i]
        /\ p[(k - 1) + 1] = front
    BY <1>8, <1>10, AppendProperties, LenProperties
  <2> HIDE DEF p
  <2>2. ASSUME NEW i \in DOMAIN p PROVE p[i] # EOS
    <3>1. i \in 1 .. (k - 1) \/ i = (k - 1) + 1
      BY <1>7, <2>1
    <3> QED
      BY <1>8, <1>10, <2>1, <3>1 DEF EOS
  <2> QED
    BY <2>2 DEF HasEOS, IsEOS, p
<1>18. end \o rest \in Seq(Seq(X))
  BY <1>13 DEF Whole
<1> DEFINE p1 == Append(head, front)
           p2 == end \o rest
<1>19. /\ p1 \in Seq(Seq(X)) /\ p2 \in Seq(Seq(X)) /\ ~HasEOS(p1) /\ p2 \in Whole(X)
       /\ Bytes(p1) \o Bytes(p2) = Bytes(b) /\ Partition(b, n) = <<p1, p2>>
  BY <1>3, <1>13, <1>15, <1>16, <1>17, <1>18
<1> HIDE DEF p1, p2
<1>20. Splits(X, b, <<p1, p2>>)
  BY <1>19 DEF Splits
<1> QED
  BY <1>19, <1>20

(* The bucket that holds a byte is not the end.                            *)
LEMMA BucketNotLast ==
    ASSUME NEW X, NEW b \in Whole(X), NEW n \in Nat \ {0}, BucketOf(b, n) # 0
    PROVE  BucketOf(b, n) \in 0 .. (Len(b) - 1)
<1> DEFINE k == BucketOf(b, n)
           N == Len(b)
           h == Bytes(SubSeq(b, 1, k - 1))
           e == b[k]
<1>1. b \in Seq(Seq(X)) /\ N \in Nat /\ b[N] = EOS
  BY DEF Whole
<1>2. k \in 1 .. N /\ Upto(b, k - 1) < n /\ n <= Upto(b, k)
  BY <1>1, BucketFound
<1> HIDE DEF k
<1>3. e \in Seq(X) /\ h \in Seq(X) /\ Bytes(SubSeq(b, 1, k)) = h \o e
  BY <1>1, <1>2, BytesStep, BytesType
<1>4. Upto(b, k - 1) = Len(h) /\ Upto(b, k) = Len(h \o e)
  BY <1>3 DEF Upto
<1>5. k = N => e = EOS
  <2> HIDE DEF N
  <2> QED
    BY <1>1
<1> HIDE DEF h, e, N
<1>6. Len(h \o e) = Len(h) + Len(e) /\ Len(h) \in Nat
  BY <1>3, ConcatProperties, LenProperties
<1>7. Len(e) # 0
  BY <1>2, <1>4, <1>6
<1>8. k # N
  BY <1>5, <1>7, EmptySeq DEF EOS
<1>9. k \in 0 .. (N - 1)
  BY <1>1, <1>2, <1>8
<1> QED
  BY <1>9 DEF k, N

LEMMA CutSplits ==
    ASSUME NEW X, NEW b \in Whole(X), NEW k \in 0 .. (Len(b) - 1)
    PROVE  Splits(X, b, <<SubSeq(b, 1, k), SubSeq(b, k + 1, Len(b))>>)
<1> DEFINE p1 == SubSeq(b, 1, k)
           p2 == SubSeq(b, k + 1, Len(b))
<1>1. b \in Seq(Seq(X)) /\ Len(b) \in Nat
  BY DEF Whole
<1>2. k \in 0 .. Len(b)
  BY <1>1
<1>3. p1 \in Seq(Seq(X)) /\ p2 \in Seq(Seq(X)) /\ Bytes(p1) \o Bytes(p2) = Bytes(b)
  BY <1>1, <1>2, BytesCut
<1>4. Len(p1) = k /\ \A j \in 1 .. k : p1[j] # EOS
  BY HeadHasNoEnd
<1>5. p2 \in Whole(X)
  BY RestWhole
<1> HIDE DEF p1, p2
<1>6. ~HasEOS(p1)
  BY <1>3, <1>4 DEF HasEOS, IsEOS
<1>7. Splits(X, b, <<p1, p2>>)
  BY <1>3, <1>5, <1>6 DEF Splits
<1> QED
  BY <1>7 DEF p1, p2

(* apr_brigade_split_line splits a brigade, wherever the line ends are.    *)
LEMMA SplitLineSplits ==
    ASSUME NEW X, NEW b \in Whole(X)
    PROVE  Splits(X, b, SplitLine(b))
<1> DEFINE all == Bytes(b)
           lf == {n \in DOMAIN all : all[n] \in lineEnds}
           line == IF lf = {} THEN Len(all) + 1 ELSE CHOOSE n \in lf : \A m \in lf : n <= m
           full == BucketOf(b, MaxLine)
           fullLen == Len(Bytes(SubSeq(b, 1, full)))
           now == line <= Len(all) /\ (full = 0 \/ line <= fullLen)
<1>1. SplitLine(b) = IF now THEN Partition(b, line)
                     ELSE IF full = 0 THEN <<b, <<>>>>
                     ELSE <<SubSeq(b, 1, full), SubSeq(b, full + 1, Len(b))>>
  BY DEF SplitLine
<1>2. b \in Seq(Seq(X)) /\ MaxLine \in Nat \ {0}
  BY SizesAssumption DEF Whole
<1>3. all \in Seq(X) /\ Len(all) \in Nat
  BY <1>2, BytesType
<1>4. line <= Len(all) => line \in 1 .. Len(all)
  <2> HIDE DEF all
  <2>1. CASE lf = {}
    BY <1>3, <2>1
  <2>2. CASE lf # {}
    <3>1. lf \in SUBSET (1 .. Len(all))
      BY <1>3
    <3>2. lf \in SUBSET Nat
      BY <3>1
    <3> HIDE DEF lf
    <3>3. \E n \in lf : \A m \in lf : n <= m
      BY <2>2, <3>2, NatMin
    <3>4. line \in lf
      BY <2>2, <3>3
    <3> QED
      BY <3>1, <3>4
  <2> QED
    BY <2>1, <2>2
<1> HIDE DEF line
<1>5. CASE now
  <2>1. line \in 1 .. Len(all)
    BY <1>4, <1>5
  <2>2. line \in Nat \ {0}
    BY <1>3, <2>1
  <2>3. BucketOf(b, line) # 0
    BY <1>2, <2>1, BucketThere
  <2>4. Splits(X, b, Partition(b, line))
    BY <2>2, <2>3, PartitionSplits
  <2> QED
    BY <1>1, <1>5, <2>4
<1>6. CASE ~now /\ full = 0
  <2>1. Splits(X, b, <<b, <<>>>>)
    BY <1>2, AllSplits
  <2> HIDE DEF now
  <2> QED
    BY <1>1, <1>6, <2>1
<1>7. CASE ~now /\ full # 0
  <2>1. full \in 0 .. (Len(b) - 1)
    BY <1>2, <1>7, BucketNotLast
  <2> HIDE DEF now, full
  <2>2. Splits(X, b, <<SubSeq(b, 1, full), SubSeq(b, full + 1, Len(b))>>)
    BY <2>1, CutSplits
  <2> QED
    BY <1>1, <1>7, <2>2
<1> QED
  BY <1>5, <1>6, <1>7

(* Buckets put before a whole brigade, or the end after them, make one.    *)
LEMMA ConcatWhole ==
    ASSUME NEW X, NEW s \in Seq(Seq(X)), ~HasEOS(s), NEW r \in Whole(X)
    PROVE  s \o r \in Whole(X)
<1> DEFINE c == s \o r
           M == Len(s)
           N == Len(r)
<1>1. /\ r \in Seq(Seq(X)) /\ N \in Nat /\ N # 0 /\ r[N] = EOS
      /\ \A j \in 1 .. N : r[j] = EOS => j = N
  BY DEF Whole
<1>2. M \in Nat /\ \A j \in 1 .. M : s[j] # EOS
  BY DEF HasEOS, IsEOS
<1>3. /\ c \in Seq(Seq(X)) /\ Len(c) = M + N
      /\ \A i \in 1 .. M + N : c[i] = IF i <= M THEN s[i] ELSE r[i - M]
  BY <1>1, ConcatProperties
<1> HIDE DEF c, M, N
<1>4. c[M + N] = EOS /\ M + N # 0
  <2>1. M + N \in 1 .. M + N /\ ~(M + N <= M) /\ (M + N) - M = N
    BY <1>1, <1>2
  <2> QED
    BY <1>1, <1>3, <2>1
<1>5. ASSUME NEW i \in 1 .. M + N, c[i] = EOS PROVE i = M + N
  <2>1. CASE i <= M
    <3>1. i \in 1 .. M
      BY <1>1, <1>2, <2>1
    <3> QED
      BY <1>2, <1>3, <1>5, <2>1, <3>1
  <2>2. CASE ~(i <= M)
    <3>1. i - M \in 1 .. N /\ r[i - M] = EOS
      BY <1>1, <1>2, <1>3, <1>5, <2>2
    <3>2. i - M = N
      BY <1>1, <3>1
    <3> QED
      BY <1>1, <1>2, <3>2
  <2> QED
    BY <2>1, <2>2
<1>6. c \in Whole(X)
  BY <1>3, <1>4, <1>5 DEF Whole
<1> QED
  BY <1>6 DEF c

LEMMA JustEnd ==
    ASSUME NEW X
    PROVE  <<EOS>> \in Whole(X) /\ Bytes(<<EOS>>) = <<>>
<1>1. EOS \in Seq(X) /\ <<EOS>> \in Seq(Seq(X)) /\ Len(<<EOS>>) = 1 /\ <<EOS>>[1] = EOS
  BY EmptySeq DEF EOS
<1>2. Bytes(<<EOS>>) = EOS
  BY <1>1, BytesOne
<1> QED
  BY <1>1, <1>2 DEF Whole, EOS

---------------------------------------------------------------------------
(* The inductive invariant.                                                *)

Data == 1 .. MaxBody

(* What the copy is while the hook reads, and what the handler has of it.  *)
ReplayTypes ==
    /\ TypeOK
    /\ body \in {[k \in 1 .. n |-> k] : n \in 0 .. MaxBody}
    /\ body \in Seq(Data)
    /\ mem_limit \in Nat
    /\ saved \in Seq(Seq(Data))
    /\ spool \in Seq(Data)
    /\ got \in Seq(Data)

CopyInv ==
    stage = "reading" => /\ ~HasEOS(saved)
                         /\ Len(Bytes(saved)) <= mem_limit
                         /\ Cat(Bytes(saved), spool) = SubSeq(body, 1, nread)

UnreadInv == stage = "reading" => got = <<>> /\ ended = FALSE

HandedInv ==
    stage \in {"replay", "aside", "failed"} =>
        /\ saved = <<>> \/ saved \in Whole(Data)
        /\ Cat(got, Bytes(saved)) = body
        /\ ended => saved = <<>>

ReplayInv == ReplayTypes /\ CopyInv /\ UnreadInv /\ HandedInv

(* A whole brigade has its end where TypeOK wants it.                      *)
LEMMA WholeType ==
    ASSUME NEW s, s = <<>> \/ s \in Whole(Data)
    PROVE  /\ s \in Seq(Seq(Data))
           /\ \A n \in DOMAIN s : IsEOS(s[n]) => n = Len(s)
<1>1. CASE s = <<>>
  <2>1. s \in Seq(Seq(Data)) /\ Len(s) = 0
    BY <1>1, EmptySeq
  <2>2. DOMAIN s = 1 .. Len(s)
    BY <2>1
  <2> QED
    BY <2>1, <2>2
<1>2. CASE s \in Whole(Data)
  BY <1>2 DEF Whole, IsEOS
<1> QED
  BY <1>1, <1>2

LEMMA InitReplay == Init => ReplayInv
<1> SUFFICES ASSUME Init PROVE ReplayInv
  OBVIOUS
<1>1. PICK n \in 0 .. MaxBody : body = [k \in 1 .. n |-> k]
  BY DEF Init
<1>2. n \in Nat /\ \A k \in 1 .. n : k \in Data
  BY SizesAssumption DEF Data
<1>3. body \in Seq(Data) /\ Len(body) = n
  BY <1>1, <1>2
<1>4. /\ stage = "reading" /\ mem_limit \in Nat /\ nread = 0 /\ saved = <<>> /\ spool = <<>>
      /\ got = <<>> /\ ended = FALSE
  BY SizesAssumption DEF Init, NoSpool
<1>5. <<>> \in Seq(Seq(Data)) /\ <<>> \in Seq(Data) /\ Len(<<>>) = 0 /\ DOMAIN <<>> = {}
  BY EmptySeq
<1>6. nread \in 0 .. Len(body)
  BY <1>2, <1>3, <1>4
<1>7. saved \in Seq(Seq(1 .. MaxBody)) /\ \A k \in DOMAIN saved : IsEOS(saved[k]) => k = Len(saved)
  BY <1>4, <1>5 DEF Data
<1>8. TypeOK
  BY <1>4, <1>6, <1>7 DEF TypeOK
<1>9. ReplayTypes
  <2>1. body \in {[k \in 1 .. j |-> k] : j \in 0 .. MaxBody}
    BY <1>1
  <2> QED
    BY <1>3, <1>4, <1>5, <1>8, <2>1 DEF ReplayTypes
<1>10. CopyInv
  <2>1. SubSeq(body, 1, 0) = <<>>
    BY SubSeqEmpty
  <2>2. Cat(<<>>, <<>>) = <<>>
    BY <1>5, ConcatEmptySeq DEF Cat
  <2>3. ~HasEOS(<<>>)
    BY <1>5 DEF HasEOS
  <2>4. Bytes(saved) = <<>>
    BY <1>4, BytesEmpty
  <2>5. Len(Bytes(saved)) <= mem_limit
    BY <1>4, <1>5, <2>4
  <2>6. Cat(Bytes(saved), spool) = SubSeq(body, 1, nread)
    BY <1>4, <2>1, <2>2, <2>4
  <2>7. ~HasEOS(saved)
    BY <1>4, <2>3
  <2> QED
    BY <2>5, <2>6, <2>7 DEF CopyInv
<1> QED
  BY <1>4, <1>9, <1>10 DEF ReplayInv, UnreadInv, HandedInv

---------------------------------------------------------------------------
(* The hook.                                                               *)

LEMMA ChunkOf ==
    ASSUME NEW X, NEW w \in Seq(X), NEW m \in 0 .. Len(w), NEW n \in Nat \ {0}, m + n <= Len(w)
    PROVE  /\ SubSeq(w, m + 1, m + n) \in Seq(X)
           /\ Len(SubSeq(w, m + 1, m + n)) = n
           /\ SubSeq(w, m + 1, m + n) # <<>>
           /\ SubSeq(w, 1, m) \in Seq(X)
           /\ Cat(SubSeq(w, 1, m), SubSeq(w, m + 1, m + n)) = SubSeq(w, 1, m + n)
<1> DEFINE N == Len(w)
           c == SubSeq(w, m + 1, m + n)
<1>0. N \in Nat
  OBVIOUS
<1>1. /\ m + 1 \in 1 .. N + 1 /\ m + n \in 0 .. N /\ m + 1 <= m + n + 1 /\ (m + n) - (m + 1) + 1 = n
      /\ 1 \in 1 .. N + 1 /\ m \in 0 .. N /\ 1 <= m + 1 /\ m \in (1 - 1) .. N /\ m + n \in m .. N
  BY <1>0
<1>2. c \in Seq(X) /\ Len(c) = (m + n) - (m + 1) + 1
  BY <1>1, PartOf
<1>3. SubSeq(w, 1, m) \in Seq(X)
  BY <1>1, PartOf
<1>4. SubSeq(w, 1, m) \o c = SubSeq(w, 1, m + n)
  BY <1>1, ConcatAdjacentSubSeq
<1>5. Len(c) = n
  BY <1>1, <1>2
<1> HIDE DEF c
<1>6. c # <<>>
  BY <1>5, EmptySeq
<1> QED
  BY <1>2, <1>3, <1>4, <1>5, <1>6 DEF c, Cat

LEMMA CatFacts ==
    ASSUME NEW X, NEW x \in Seq(X), NEW y \in Seq(X), NEW z \in Seq(X)
    PROVE  /\ Cat(Cat(x, y), z) = Cat(x, Cat(y, z))
           /\ Cat(x, <<>>) = x /\ Cat(<<>>, x) = x
           /\ Cat(x, y) \in Seq(X)
           /\ Len(Cat(x, y)) = Len(x) + Len(y)
<1>1. (x \o y) \o z = x \o (y \o z)
  BY Assoc
<1>2. x \o <<>> = x /\ <<>> \o x = x
  BY ConcatEmptySeq
<1>3. x \o y \in Seq(X) /\ Len(x \o y) = Len(x) + Len(y)
  BY ConcatProperties
<1> QED
  BY <1>1, <1>2, <1>3 DEF Cat

(* One more chunk in memory.                                               *)
LEMMA AppendChunk ==
    ASSUME NEW X, NEW s \in Seq(Seq(X)), ~HasEOS(s), NEW c \in Seq(X), c # <<>>
    PROVE  /\ Append(s, c) \in Seq(Seq(X))
           /\ ~HasEOS(Append(s, c))
           /\ Bytes(Append(s, c)) = Cat(Bytes(s), c)
           /\ Len(Bytes(Append(s, c))) = Len(Bytes(s)) + Len(c)
<1> DEFINE a == Append(s, c)
           N == Len(s)
<1>1. /\ a \in Seq(Seq(X)) /\ Len(a) = N + 1 /\ a[N + 1] = c
      /\ \A i \in 1 .. N : a[i] = s[i]
  BY AppendProperties
<1>2. N \in Nat /\ \A i \in 1 .. N : s[i] # EOS
  BY DEF HasEOS, IsEOS
<1>3. Bytes(a) = Cat(Bytes(s), c)
  BY BytesAppend DEF Cat
<1> HIDE DEF a, N
<1>4. ASSUME NEW i \in DOMAIN a PROVE a[i] # EOS
  <2>1. i \in 1 .. N \/ i = N + 1
    BY <1>1, <1>2
  <2> QED
    BY <1>1, <1>2, <2>1 DEF EOS
<1>5. ~HasEOS(a)
  BY <1>4 DEF HasEOS, IsEOS
<1>6. Len(Bytes(a)) = Len(Bytes(s)) + Len(c)
  BY <1>3, BytesType, CatFacts
<1> QED
  BY <1>1, <1>3, <1>5, <1>6 DEF a

LEMMA KeepChunkReplay ==
    ASSUME ReplayInv, KeepChunk
    PROVE  ReplayInv'
<1> DEFINE N == Len(body)
<1>1. /\ stage = "reading" /\ nread \in 0 .. N /\ N \in Nat /\ body \in Seq(Data) /\ spool \in Seq(Data)
      /\ saved \in Seq(Seq(Data)) /\ ~HasEOS(saved) /\ Len(Bytes(saved)) <= mem_limit
      /\ Cat(Bytes(saved), spool) = SubSeq(body, 1, nread) /\ mem_limit \in Nat
  BY DEF KeepChunk, ReplayInv, ReplayTypes, TypeOK, CopyInv
<1>2. PICK n \in 1 .. ReadChunk :
        /\ nread + n <= N
        /\ LET chunk == SubSeq(body, nread + 1, nread + n) IN
           \/ FitsInMemory(n) /\ saved' = Append(saved, chunk) /\ spool' = spool
           \/ ~FitsInMemory(n) /\ spool' = spool \o chunk /\ saved' = saved
        /\ nread' = nread + n
  BY DEF KeepChunk
<1>3. UNCHANGED <<stage, body, lineEnds, mem_limit, got, ended, shown>>
  BY DEF KeepChunk
<1>4. n \in Nat \ {0} /\ nread' \in 0 .. N
  BY <1>1, <1>2, SizesAssumption
<1> DEFINE chunk == SubSeq(body, nread + 1, nread + n)
<1>5. /\ chunk \in Seq(Data) /\ Len(chunk) = n /\ chunk # <<>>
      /\ Cat(SubSeq(body, 1, nread), chunk) = SubSeq(body, 1, nread')
  <2>1. nread + n <= Len(body) /\ nread \in 0 .. Len(body) /\ body \in Seq(Data) /\ nread' = nread + n
    BY <1>1, <1>2
  <2>2. /\ chunk \in Seq(Data) /\ Len(chunk) = n /\ chunk # <<>>
        /\ Cat(SubSeq(body, 1, nread), chunk) = SubSeq(body, 1, nread + n)
    BY <1>4, <2>1, ChunkOf, ZenonT(40), SMTT(40)
  <2> QED
    BY <2>1, <2>2
<1>6. Bytes(saved) \in Seq(Data) /\ Len(Bytes(saved)) \in Nat
  BY <1>1, BytesType
<1>7. \/ FitsInMemory(n) /\ saved' = Append(saved, chunk) /\ spool' = spool
      \/ ~FitsInMemory(n) /\ spool' = spool \o chunk /\ saved' = saved
  BY <1>2
<1> HIDE DEF chunk, N
<1>8. /\ saved' \in Seq(Seq(Data)) /\ ~HasEOS(saved') /\ spool' \in Seq(Data)
      /\ Len(Bytes(saved')) <= mem_limit
      /\ Cat(Bytes(saved'), spool') = SubSeq(body, 1, nread')
  <2>1. CASE FitsInMemory(n) /\ saved' = Append(saved, chunk) /\ spool' = spool
    <3>1. spool = <<>> /\ Len(Bytes(saved)) + n <= mem_limit
      BY <2>1 DEF FitsInMemory, NoSpool
    <3>2. /\ saved' \in Seq(Seq(Data)) /\ ~HasEOS(saved')
          /\ Bytes(saved') = Cat(Bytes(saved), chunk)
          /\ Len(Bytes(saved')) = Len(Bytes(saved)) + n
      BY <1>1, <1>5, <2>1, AppendChunk
    <3>3. Cat(Bytes(saved), <<>>) = Bytes(saved) /\ Cat(Bytes(saved'), <<>>) = Bytes(saved')
      BY <1>6, <3>2, CatFacts, BytesType
    <3>4. Cat(Bytes(saved'), spool') = SubSeq(body, 1, nread')
      BY <1>1, <1>5, <2>1, <3>1, <3>2, <3>3
    <3> QED
      BY <1>1, <2>1, <3>1, <3>2, <3>4
  <2>2. CASE ~FitsInMemory(n) /\ spool' = spool \o chunk /\ saved' = saved
    <3>1. spool' = Cat(spool, chunk)
      BY <2>2 DEF Cat
    <3>2. Cat(spool, chunk) \in Seq(Data)
      BY <1>1, <1>5, CatFacts
    <3>3. Cat(Cat(Bytes(saved), spool), chunk) = Cat(Bytes(saved), Cat(spool, chunk))
      <4> DEFINE x == Bytes(saved)
      <4>1. x \in Seq(Data) /\ spool \in Seq(Data) /\ chunk \in Seq(Data)
        BY <1>1, <1>5, <1>6
      <4> HIDE DEF x
      <4>2. Cat(Cat(x, spool), chunk) = Cat(x, Cat(spool, chunk))
        BY <4>1, CatFacts
      <4> QED
        BY <4>2 DEF x
    <3>4. Cat(Bytes(saved'), spool') = SubSeq(body, 1, nread')
      BY <1>1, <1>5, <2>2, <3>1, <3>3
    <3> QED
      BY <1>1, <2>2, <3>1, <3>2, <3>4
  <2> QED
    BY <1>7, <2>1, <2>2
<1>9. TypeOK'
  <2>1. \A k \in DOMAIN saved' : IsEOS(saved'[k]) => k = Len(saved')
    BY <1>8 DEF HasEOS
  <2>2. nread' \in 0 .. Len(body')
    BY <1>3, <1>4 DEF N
  <2>3. saved' \in Seq(Seq(1 .. MaxBody))
    BY <1>8 DEF Data
  <2>4. stage' \in {"reading", "replay", "aside", "denied", "refused", "failed"} /\ ended' \in BOOLEAN
    BY <1>3 DEF ReplayInv, ReplayTypes, TypeOK
  <2> QED
    BY <2>1, <2>2, <2>3, <2>4 DEF TypeOK
<1>10. ReplayTypes'
  BY <1>3, <1>8, <1>9 DEF ReplayInv, ReplayTypes, Data
<1>11. CopyInv'
  BY <1>3, <1>8 DEF CopyInv
<1> QED
  BY <1>1, <1>3, <1>10, <1>11 DEF ReplayInv, UnreadInv, HandedInv

(* The copy is complete: head, tail, end.                                  *)
LEMMA WholeCopyIs ==
    ASSUME ReplayInv, stage = "reading", nread = Len(body)
    PROVE  WholeCopy \in Whole(Data) /\ Bytes(WholeCopy) = body
<1> DEFINE tail == IF spool = NoSpool THEN <<>> ELSE <<spool>>
           s == saved \o tail
<1>1. /\ body \in Seq(Data) /\ spool \in Seq(Data) /\ saved \in Seq(Seq(Data)) /\ ~HasEOS(saved)
      /\ Cat(Bytes(saved), spool) = SubSeq(body, 1, nread)
  BY DEF ReplayInv, ReplayTypes, CopyInv
<1>2. SubSeq(body, 1, nread) = body
  BY <1>1, SubSeqFull
<1>3. Bytes(saved) \in Seq(Data)
  BY <1>1, BytesType
<1>4. s \in Seq(Seq(Data)) /\ ~HasEOS(s) /\ Bytes(s) = body
  <2>1. CASE spool = <<>>
    <3>1. s = saved
      BY <1>1, <2>1, ConcatEmptySeq DEF NoSpool
    <3>2. Cat(Bytes(saved), <<>>) = Bytes(saved)
      BY <1>3, CatFacts
    <3> HIDE DEF s
    <3> QED
      BY <1>1, <1>2, <2>1, <3>1, <3>2
  <2>2. CASE spool # <<>>
    <3>1. Append(saved, spool) = saved \o <<spool>>
      BY <1>1, AppendIsConcat
    <3>2. s = Append(saved, spool)
      BY <2>2, <3>1 DEF NoSpool
    <3>3. /\ Append(saved, spool) \in Seq(Seq(Data)) /\ ~HasEOS(Append(saved, spool))
          /\ Bytes(Append(saved, spool)) = Cat(Bytes(saved), spool)
      BY <1>1, <2>2, AppendChunk
    <3> HIDE DEF s
    <3> QED
      BY <1>1, <1>2, <3>2, <3>3
  <2> QED
    BY <2>1, <2>2
<1>5. WholeCopy = s \o <<EOS>>
  BY DEF WholeCopy
<1> HIDE DEF s
<1>6. s \o <<EOS>> \in Whole(Data)
  BY <1>4, JustEnd, ConcatWhole
<1>7. <<EOS>> \in Seq(Seq(Data)) /\ Bytes(<<EOS>>) = <<>>
  BY JustEnd DEF Whole
<1>8. Bytes(s \o <<EOS>>) = Bytes(s) \o <<>>
  BY <1>4, <1>7, BytesConcat
<1>9. body \o <<>> = body
  BY <1>1, ConcatEmptySeq
<1> QED
  BY <1>4, <1>5, <1>6, <1>8, <1>9

(* What every step leaves alone.                                           *)
LEMMA TypesKept ==
    ASSUME ReplayInv, UNCHANGED <<body, mem_limit, nread>>,
           stage' \in {"reading", "replay", "aside", "denied", "refused", "failed"},
           saved' = <<>> \/ saved' \in Whole(Data) \/ saved' = saved,
           spool' = spool, got' \in Seq(Data), ended' \in BOOLEAN
    PROVE  ReplayTypes'
<1>1. saved' \in Seq(Seq(Data)) /\ \A n \in DOMAIN saved' : IsEOS(saved'[n]) => n = Len(saved')
  <2>1. CASE saved' = saved
    BY <2>1 DEF ReplayInv, ReplayTypes, TypeOK
  <2>2. CASE saved' = <<>> \/ saved' \in Whole(Data)
    BY <2>2, WholeType
  <2> QED
    BY <2>1, <2>2
<1>2. saved' \in Seq(Seq(1 .. MaxBody))
  BY <1>1 DEF Data
<1>3. nread' \in 0 .. Len(body')
  BY DEF ReplayInv, ReplayTypes, TypeOK
<1>4. TypeOK'
  BY <1>1, <1>2, <1>3 DEF TypeOK
<1>5. /\ body' \in {[k \in 1 .. n |-> k] : n \in 0 .. MaxBody} /\ body' \in Seq(Data)
      /\ mem_limit' \in Nat /\ spool' \in Seq(Data)
  BY DEF ReplayInv, ReplayTypes
<1> QED
  BY <1>1, <1>4, <1>5 DEF ReplayTypes, Data

LEMMA BodyCompleteReplay ==
    ASSUME ReplayInv, BodyComplete
    PROVE  ReplayInv'
<1>1. /\ stage = "reading" /\ nread = Len(body) /\ saved' = WholeCopy /\ stage' \in {"replay", "denied"}
      /\ UNCHANGED <<body, lineEnds, mem_limit, nread, spool, got, ended, shown>>
  BY DEF BodyComplete
<1>2. saved' \in Whole(Data) /\ Bytes(saved') = body
  BY <1>1, WholeCopyIs
<1>3. got = <<>> /\ ended = FALSE /\ got \in Seq(Data) /\ body \in Seq(Data)
  BY <1>1 DEF ReplayInv, UnreadInv, ReplayTypes
<1>4. ReplayTypes'
  BY <1>1, <1>2, <1>3, TypesKept
<1>5. Cat(<<>>, body) = body
  BY <1>3, CatFacts
<1>6. Cat(got', Bytes(saved')) = body'
  BY <1>1, <1>2, <1>3, <1>5
<1> QED
  BY <1>1, <1>2, <1>3, <1>4, <1>6 DEF ReplayInv, CopyInv, UnreadInv, HandedInv

LEMMA GiveUpReplay ==
    ASSUME ReplayInv, GiveUp
    PROVE  ReplayInv'
<1>1. /\ stage = "reading" /\ stage' = "refused"
      /\ UNCHANGED <<body, lineEnds, mem_limit, nread, saved, spool, got, ended, shown>>
  BY DEF GiveUp
<1>2. got = <<>> /\ ended = FALSE /\ got \in Seq(Data)
  BY <1>1 DEF ReplayInv, UnreadInv, ReplayTypes
<1>3. ReplayTypes'
  BY <1>1, <1>2, TypesKept
<1> QED
  BY <1>1, <1>2, <1>3 DEF ReplayInv, CopyInv, UnreadInv, HandedInv

---------------------------------------------------------------------------
(* The handler.                                                            *)

LEMMA ReplayingIs ==
    ASSUME ReplayInv, Replaying
    PROVE  /\ stage = "replay" /\ saved \in Whole(Data) /\ Cat(got, Bytes(saved)) = body
           /\ ended = FALSE /\ got \in Seq(Data) /\ body \in Seq(Data)
           /\ saved \in Seq(Seq(Data)) /\ Bytes(saved) \in Seq(Data)
<1>1. stage = "replay" /\ saved # <<>>
  BY DEF Replaying
<1>2. saved \in Whole(Data) /\ Cat(got, Bytes(saved)) = body /\ ~ended
  BY <1>1 DEF ReplayInv, HandedInv
<1>3. saved \in Seq(Seq(Data)) /\ got \in Seq(Data) /\ body \in Seq(Data) /\ ended \in BOOLEAN
  BY DEF ReplayInv, ReplayTypes, TypeOK
<1>4. Bytes(saved) \in Seq(Data)
  BY <1>3, BytesType
<1> QED
  BY <1>1, <1>2, <1>3, <1>4

(* Every way to read delivers a split of what is left.                     *)
LEMMA ReadsSplit ==
    ASSUME ReplayInv, GetLine \/ Exhaustive \/ ReadBytes
    PROVE  Replaying /\ \E p : Splits(Data, saved, p) /\ Deliver(p)
<1>1. Replaying
  BY DEF GetLine, Exhaustive, ReadBytes
<1>2. saved \in Whole(Data) /\ saved \in Seq(Seq(Data))
  BY <1>1, ReplayingIs
<1>3. CASE GetLine
  <2>1. Splits(Data, saved, SplitLine(saved))
    BY <1>2, SplitLineSplits
  <2>2. Deliver(SplitLine(saved))
    BY <1>3 DEF GetLine
  <2> QED
    BY <1>1, <2>1, <2>2
<1>4. CASE Exhaustive
  <2>1. Splits(Data, saved, <<saved, <<>>>>)
    BY <1>2, AllSplits
  <2>2. Deliver(<<saved, <<>>>>)
    BY <1>4 DEF Exhaustive
  <2> QED
    BY <1>1, <2>1, <2>2
<1>5. CASE ReadBytes
  <2>1. PICK n \in 1 .. MaxRead : Deliver(TakeBytes(n))
    BY <1>5 DEF ReadBytes
  <2>2. n \in Nat \ {0}
    BY SizesAssumption
  <2>3. Splits(Data, saved, TakeBytes(n))
    <3>1. CASE BucketOf(saved, n) = 0
      <4>1. TakeBytes(n) = <<saved, <<>>>>
        BY <3>1 DEF TakeBytes, Incomplete
      <4> QED
        BY <1>2, <4>1, AllSplits
    <3>2. CASE BucketOf(saved, n) # 0
      <4>1. TakeBytes(n) = Partition(saved, n)
        BY <3>2 DEF TakeBytes, Incomplete
      <4> QED
        BY <1>2, <2>2, <3>2, <4>1, PartitionSplits
    <3> QED
      BY <3>1, <3>2
  <2> QED
    BY <1>1, <2>1, <2>3
<1> QED
  BY <1>3, <1>4, <1>5

(* What a delivery leaves.                                                 *)
LEMMA DeliverIs ==
    ASSUME ReplayInv, Replaying, NEW p, Splits(Data, saved, p), Deliver(p)
    PROVE  /\ got' = Cat(got, Bytes(p[1])) /\ got' \in Seq(Data)
           /\ Bytes(p[1]) \in Seq(Data) /\ Bytes(saved') \in Seq(Data)
           /\ Cat(got', Bytes(saved')) = body
           /\ saved' = <<>> \/ saved' \in Whole(Data)
           /\ ended' \in BOOLEAN
           /\ ended' => saved' = <<>>
<1>1. /\ saved \in Whole(Data) /\ Cat(got, Bytes(saved)) = body /\ ended = FALSE /\ got \in Seq(Data)
  BY ReplayingIs
<1>2. got' = Cat(got, Bytes(p[1])) /\ ended' = HasEOS(p[1]) /\ saved' = p[2]
  <2>1. got' = got \o Bytes(p[1]) /\ ended' = (ended \/ HasEOS(p[1])) /\ saved' = p[2]
    BY DEF Deliver
  <2>2. HasEOS(p[1]) \in BOOLEAN
    BY DEF HasEOS
  <2>3. ended' = HasEOS(p[1])
    BY <1>1, <2>1, <2>2
  <2> QED
    BY <2>1, <2>3 DEF Cat
<1>3. /\ p[1] \in Seq(Seq(Data)) /\ p[2] \in Seq(Seq(Data))
      /\ Cat(Bytes(p[1]), Bytes(p[2])) = Bytes(saved)
      /\ (p[1] = saved /\ p[2] = <<>>) \/ (~HasEOS(p[1]) /\ p[2] \in Whole(Data))
  BY DEF Splits, Cat
<1> DEFINE x == Bytes(p[1])
           y == Bytes(p[2])
<1>4. x \in Seq(Data) /\ y \in Seq(Data)
  BY <1>3, BytesType
<1>5. Cat(Cat(got, x), y) = Cat(got, Cat(x, y)) /\ Cat(got, x) \in Seq(Data)
  <2> HIDE DEF x, y
  <2> QED
    BY <1>1, <1>4, CatFacts
<1>6. Cat(got', Bytes(saved')) = body
  BY <1>1, <1>2, <1>3, <1>5
<1>7. HasEOS(p[1]) \in BOOLEAN
  BY DEF HasEOS
<1> QED
  BY <1>2, <1>3, <1>4, <1>5, <1>6, <1>7

LEMMA DeliverReplay ==
    ASSUME ReplayInv, GetLine \/ Exhaustive \/ ReadBytes
    PROVE  ReplayInv'
<1>1. Replaying /\ \E p : Splits(Data, saved, p) /\ Deliver(p)
  BY ReadsSplit
<1>2. PICK p : Splits(Data, saved, p) /\ Deliver(p)
  BY <1>1
<1>3. stage = "replay"
  BY <1>1 DEF Replaying
<1>4. UNCHANGED <<stage, body, lineEnds, mem_limit, nread, spool, shown>>
  BY <1>2 DEF Deliver
<1>5. /\ got' \in Seq(Data) /\ Cat(got', Bytes(saved')) = body
      /\ saved' = <<>> \/ saved' \in Whole(Data)
      /\ ended' \in BOOLEAN
      /\ ended' => saved' = <<>>
  BY <1>1, <1>2, DeliverIs
<1>6. ReplayTypes'
  BY <1>3, <1>4, <1>5, TypesKept
<1> QED
  BY <1>3, <1>4, <1>5, <1>6 DEF ReplayInv, CopyInv, UnreadInv, HandedInv

(* A speculative read shows a part of what is left and leaves all of it.   *)
LEMMA SpeculativeIs ==
    ASSUME ReplayInv, Speculative
    PROVE  /\ saved' \in Whole(Data) /\ Bytes(saved') = Bytes(saved)
           /\ \E z \in Seq(Data) : shown' \in Seq(Data) /\ Cat(shown', z) = Bytes(saved)
<1>1. Replaying
  BY DEF Speculative
<1>2. saved \in Whole(Data) /\ saved \in Seq(Seq(Data)) /\ Bytes(saved) \in Seq(Data)
  BY <1>1, ReplayingIs
<1>3. PICK n \in 0 .. MaxRead :
        /\ shown' = Bytes(SpeculativeCopy(n))
        /\ saved' = IF n = 0 \/ Incomplete(saved, n) THEN saved
                    ELSE Partition(saved, n)[1] \o Partition(saved, n)[2]
  BY DEF Speculative
<1>4. CASE n = 0 \/ Incomplete(saved, n)
  <2>1. shown' = Bytes(saved) /\ saved' = saved
    BY <1>3, <1>4 DEF SpeculativeCopy
  <2>2. <<>> \in Seq(Data) /\ Cat(Bytes(saved), <<>>) = Bytes(saved)
    BY <1>2, CatFacts, EmptySeq
  <2> QED
    BY <1>2, <2>1, <2>2
<1>5. CASE ~(n = 0 \/ Incomplete(saved, n))
  <2> DEFINE p == Partition(saved, n)
  <2>1. n \in Nat \ {0} /\ BucketOf(saved, n) # 0
    BY <1>5, SizesAssumption DEF Incomplete
  <2>2. Splits(Data, saved, p)
    BY <1>2, <2>1, PartitionSplits
  <2>3. shown' = Bytes(p[1]) /\ saved' = p[1] \o p[2]
    BY <1>3, <1>5 DEF SpeculativeCopy
  <2> HIDE DEF p
  <2>4. /\ p[1] \in Seq(Seq(Data)) /\ p[2] \in Seq(Seq(Data))
        /\ Cat(Bytes(p[1]), Bytes(p[2])) = Bytes(saved)
        /\ (p[1] = saved /\ p[2] = <<>>) \/ (~HasEOS(p[1]) /\ p[2] \in Whole(Data))
    BY <2>2 DEF Splits, Cat
  <2>5. Bytes(p[1] \o p[2]) = Cat(Bytes(p[1]), Bytes(p[2]))
    BY <2>4, BytesConcat DEF Cat
  <2>6. Bytes(p[1]) \in Seq(Data) /\ Bytes(p[2]) \in Seq(Data)
    BY <2>4, BytesType
  <2>7. p[1] \o p[2] \in Whole(Data)
    <3>1. CASE p[1] = saved /\ p[2] = <<>>
      BY <1>2, <3>1, ConcatEmptySeq
    <3>2. CASE ~HasEOS(p[1]) /\ p[2] \in Whole(Data)
      BY <2>4, <3>2, ConcatWhole
    <3> QED
      BY <2>4, <3>1, <3>2
  <2> QED
    BY <2>3, <2>4, <2>5, <2>6, <2>7
<1> QED
  BY <1>4, <1>5

LEMMA SpeculativeReplay ==
    ASSUME ReplayInv, Speculative
    PROVE  ReplayInv'
<1>1. Replaying /\ UNCHANGED <<stage, body, lineEnds, mem_limit, nread, spool, got, ended>>
  BY DEF Speculative
<1>2. saved' \in Whole(Data) /\ Bytes(saved') = Bytes(saved)
  BY SpeculativeIs
<1>3. /\ stage = "replay" /\ Cat(got, Bytes(saved)) = body /\ ended = FALSE /\ got \in Seq(Data)
  BY <1>1, ReplayingIs
<1>4. ReplayTypes'
  BY <1>1, <1>2, <1>3, TypesKept
<1> QED
  BY <1>1, <1>2, <1>3, <1>4 DEF ReplayInv, CopyInv, UnreadInv, HandedInv

LEMMA OtherReplay ==
    ASSUME ReplayInv, EatCRLF \/ SpoolError \/ StepAside \/ ResponseDenied
    PROVE  ReplayInv'
<1>1. /\ UNCHANGED <<body, mem_limit, nread, saved, spool, got>>
      /\ \/ stage = "replay" /\ stage' \in {"replay", "failed"} /\ ended' = ended
         \/ stage = "replay" /\ saved = <<>> /\ stage' = "aside" /\ ended' = TRUE
         \/ stage' \in {"denied", "refused"} /\ ended' \in {ended, TRUE}
  <2>1. ended \in BOOLEAN
    BY DEF ReplayInv, ReplayTypes, TypeOK
  <2>2. CASE EatCRLF
    BY <2>2 DEF EatCRLF, Replaying
  <2>3. CASE SpoolError
    BY <2>3 DEF SpoolError, Replaying
  <2>4. CASE StepAside
    BY <2>4 DEF StepAside
  <2>5. CASE ResponseDenied
    BY <2>5 DEF ResponseDenied
  <2> QED
    BY <2>2, <2>3, <2>4, <2>5
<1>2. got \in Seq(Data) /\ ended' \in BOOLEAN
  BY <1>1 DEF ReplayInv, ReplayTypes, TypeOK
<1>3. ReplayTypes'
  BY <1>1, <1>2, TypesKept
<1>4. CopyInv' /\ UnreadInv'
  BY <1>1 DEF CopyInv, UnreadInv
<1>5. HandedInv'
  <2>1. CASE stage = "replay" /\ stage' \in {"replay", "failed"} /\ ended' = ended
    BY <1>1, <2>1 DEF ReplayInv, HandedInv
  <2>2. CASE stage = "replay" /\ saved = <<>> /\ stage' = "aside" /\ ended' = TRUE
    BY <1>1, <2>2 DEF ReplayInv, HandedInv
  <2>3. CASE stage' \in {"denied", "refused"}
    BY <2>3 DEF HandedInv
  <2> QED
    BY <1>1, <2>1, <2>2, <2>3
<1> QED
  BY <1>3, <1>4, <1>5 DEF ReplayInv

LEMMA NextReplay == ReplayInv /\ [Next]_vars => ReplayInv'
<1> SUFFICES ASSUME ReplayInv, [Next]_vars PROVE ReplayInv'
  OBVIOUS
<1>1. CASE KeepChunk
  BY <1>1, KeepChunkReplay
<1>2. CASE GiveUp
  BY <1>2, GiveUpReplay
<1>3. CASE BodyComplete
  BY <1>3, BodyCompleteReplay
<1>4. CASE GetLine \/ Exhaustive \/ ReadBytes
  BY <1>4, DeliverReplay
<1>5. CASE Speculative
  BY <1>5, SpeculativeReplay
<1>6. CASE EatCRLF \/ SpoolError \/ StepAside \/ ResponseDenied
  BY <1>6, OtherReplay
<1>7. CASE UNCHANGED vars
  BY <1>7 DEF vars, ReplayInv, ReplayTypes, TypeOK, CopyInv, UnreadInv, HandedInv
<1> QED
  BY <1>1, <1>2, <1>3, <1>4, <1>5, <1>6, <1>7 DEF Next, HandlerReads

(* ReplayInv is inductive: the copy is the body read so far, split between *)
(* memory and file, and what the handler has and what is left make the     *)
(* body (the fixups hook, coraza_replay_saved_body).                       *)
THEOREM ReplayInvariance == Spec => []ReplayInv
<1>1. QED
  BY InitReplay, NextReplay, PTL DEF Spec

(* The copy keeps its type, for bodies and chunks of any size: one end, at *)
(* its end, and no empty data bucket.                                      *)
THEOREM TypeCorrect == Spec => []TypeOK
<1>1. ReplayInv => TypeOK
  BY DEF ReplayInv, ReplayTypes
<1> QED
  BY <1>1, ReplayInvariance, PTL

(* Under any CorazaRequestBodyInMemoryLimit the hook keeps no more than it *)
(* in memory, and memory and file together hold what has been read.        *)
THEOREM CopyWithinLimitHolds == Spec => []CopyWithinLimit
<1>1. ReplayInv => CopyWithinLimit
  BY DEF ReplayInv, CopyInv, CopyWithinLimit, Cat
<1> QED
  BY <1>1, ReplayInvariance, PTL

---------------------------------------------------------------------------
(* The refinement: every step of the hook or of the filter is one of the   *)
(* stream, or none.                                                        *)

LEMMA PrefixOf ==
    ASSUME NEW X, NEW x \in Seq(X), NEW y \in Seq(X), NEW w, Cat(x, y) = w
    PROVE  /\ w \in Seq(X) /\ Len(w) = Len(x) + Len(y)
           /\ Len(x) \in 0 .. Len(w)
           /\ SubSeq(w, 1, Len(x)) = x
<1>1. /\ w \in Seq(X) /\ Len(w) = Len(x) + Len(y)
      /\ \A i \in 1 .. Len(x) + Len(y) : w[i] = IF i <= Len(x) THEN x[i] ELSE y[i - Len(x)]
  BY ConcatProperties DEF Cat
<1> DEFINE M == Len(x)
           s == SubSeq(w, 1, M)
<1>2. M \in Nat /\ Len(y) \in Nat /\ M \in 0 .. Len(w) /\ 1 \in 1 .. Len(w) + 1 /\ 1 <= M + 1
  BY <1>1
<1>3. s \in Seq(X) /\ Len(s) = M - 1 + 1 /\ \A k \in 1 .. (M - 1 + 1) : s[k] = w[1 + k - 1]
  BY <1>1, <1>2, PartOf
<1>4. Len(s) = Len(x)
  BY <1>2, <1>3
<1> HIDE DEF s
<1>5. ASSUME NEW k \in 1 .. Len(s) PROVE s[k] = x[k]
  <2>1. k \in 1 .. (M - 1 + 1) /\ 1 + k - 1 = k /\ k \in 1 .. Len(x) + Len(y) /\ k <= Len(x)
    BY <1>2, <1>4
  <2> QED
    BY <1>1, <1>3, <2>1
<1>6. s = x
  BY <1>3, <1>4, <1>5, SeqEqual
<1> QED
  BY <1>1, <1>2, <1>6 DEF s

LEMMA MiddleOf ==
    ASSUME NEW X, NEW x \in Seq(X), NEW y \in Seq(X), NEW z \in Seq(X), NEW w,
           Cat(x, Cat(y, z)) = w
    PROVE  /\ Len(x) + Len(y) \in Len(x) .. Len(w)
           /\ y = SubSeq(w, Len(x) + 1, Len(x) + Len(y))
<1> DEFINE a == Cat(x, y)
<1>1. a \in Seq(X) /\ Len(a) = Len(x) + Len(y) /\ Cat(a, z) = w
  BY CatFacts
<1>2. Len(x) \in Nat /\ Len(y) \in Nat /\ Len(z) \in Nat
  OBVIOUS
<1>3. \A i \in 1 .. Len(x) + Len(y) : a[i] = IF i <= Len(x) THEN x[i] ELSE y[i - Len(x)]
  BY ConcatProperties DEF Cat
<1> HIDE DEF a
<1>4. w \in Seq(X) /\ Len(w) = Len(a) + Len(z)
  BY <1>1, PrefixOf, ZenonT(40), SMTT(40)
<1>5. \A i \in 1 .. Len(a) + Len(z) : w[i] = IF i <= Len(a) THEN a[i] ELSE z[i - Len(a)]
  <2>1. a \o z = w
    BY <1>1 DEF Cat
  <2> QED
    BY <1>1, <2>1, ConcatProperties
<1> DEFINE m == Len(x) + 1
           n == Len(x) + Len(y)
           s == SubSeq(w, m, n)
<1>6. m \in 1 .. Len(w) + 1 /\ n \in 0 .. Len(w) /\ m <= n + 1 /\ n \in Len(x) .. Len(w)
  BY <1>1, <1>2, <1>4
<1>7. s \in Seq(X) /\ Len(s) = n - m + 1 /\ \A k \in 1 .. (n - m + 1) : s[k] = w[m + k - 1]
  BY <1>4, <1>6, PartOf
<1>8. n - m + 1 = Len(y)
  BY <1>2
<1> HIDE DEF s
<1>9. ASSUME NEW k \in 1 .. Len(y) PROVE s[k] = y[k]
  <2>1. /\ k \in 1 .. (n - m + 1) /\ m + k - 1 = Len(x) + k
        /\ Len(x) + k \in 1 .. Len(x) + Len(y) /\ ~(Len(x) + k <= Len(x))
        /\ Len(x) + k - Len(x) = k /\ Len(x) + k \in 1 .. Len(a) + Len(z) /\ Len(x) + k <= Len(a)
    BY <1>1, <1>2
  <2>2. s[k] = w[Len(x) + k]
    BY <1>7, <2>1
  <2>3. w[Len(x) + k] = a[Len(x) + k]
    BY <1>5, <2>1
  <2>4. a[Len(x) + k] = y[k]
    BY <1>3, <2>1
  <2> QED
    BY <2>2, <2>3, <2>4
<1>10. s = y
  BY <1>7, <1>8, <1>9, SeqEqual
<1> QED
  BY <1>6, <1>10 DEF s

(* A delivery is a Read of the stream.                                     *)
LEMMA ReadStep ==
    ASSUME ReplayInv, GetLine \/ Exhaustive \/ ReadBytes
    PROVE  Stream!Read
<1>1. Replaying /\ \E p : Splits(Data, saved, p) /\ Deliver(p)
  BY ReadsSplit
<1>2. PICK p : Splits(Data, saved, p) /\ Deliver(p)
  BY <1>1
<1>3. /\ stage = "replay" /\ UNCHANGED <<stage, body, shown>> /\ ended = FALSE
      /\ got \in Seq(Data)
  BY <1>1, <1>2, ReplayingIs DEF Deliver
<1>4. /\ got' = Cat(got, Bytes(p[1])) /\ got' \in Seq(Data)
      /\ Bytes(p[1]) \in Seq(Data) /\ Bytes(saved') \in Seq(Data)
      /\ Cat(got', Bytes(saved')) = body
      /\ ended' \in BOOLEAN
      /\ ended' => saved' = <<>>
  BY <1>1, <1>2, DeliverIs
<1> DEFINE n == Len(got')
<1>5. Len(got) \in Nat /\ Len(got') = Len(got) + Len(Bytes(p[1])) /\ Len(Bytes(p[1])) \in Nat
  BY <1>3, <1>4, CatFacts, LenProperties
<1>6. Len(got') \in 0 .. Len(body) /\ SubSeq(body, 1, Len(got')) = got'
      /\ Len(body) = Len(got') + Len(Bytes(saved')) /\ Len(body) \in Nat
  BY <1>4, PrefixOf, LenProperties
<1>7. n \in Len(got) .. Len(body) /\ got' = SubSeq(body, 1, n)
  BY <1>5, <1>6
<1>8. ended' => n = Len(body)
  <2>1. saved' = <<>> => Len(Bytes(saved')) = 0
    BY BytesEmpty, EmptySeq
  <2> QED
    BY <1>4, <1>5, <1>6, <2>1
<1> HIDE DEF n
<1>9. ended' \in {ended, n = Len(body)} /\ (ended => ended')
  <2>1. (n = Len(body)) \in BOOLEAN
    OBVIOUS
  <2> QED
    BY <1>3, <1>4, <1>8, <2>1
<1>10. \E m \in Len(got) .. Len(body) :
         /\ got' = SubSeq(body, 1, m)
         /\ ended' \in {ended, m = Len(body)}
         /\ ended => ended'
  BY <1>7, <1>9
<1>11. ~(stage \in {"denied", "refused"}) /\ UNCHANGED <<body, shown, stage \in {"denied", "refused"}>>
  BY <1>3
<1> QED
  BY <1>10, <1>11 DEF Stream!Read

(* A speculative read is a Peek.                                           *)
LEMMA PeekStep ==
    ASSUME ReplayInv, Speculative \/ EatCRLF
    PROVE  Stream!Peek
<1>1. Replaying /\ UNCHANGED <<stage, body, got, ended>>
  BY DEF Speculative, EatCRLF
<1>2. /\ stage = "replay" /\ Cat(got, Bytes(saved)) = body /\ got \in Seq(Data)
      /\ Bytes(saved) \in Seq(Data)
  BY <1>1, ReplayingIs
<1>3. \E z \in Seq(Data) : shown' \in Seq(Data) /\ Cat(shown', z) = Bytes(saved)
  <2>1. CASE Speculative
    BY <2>1, SpeculativeIs
  <2>2. CASE EatCRLF
    <3>1. shown' = <<>> /\ <<>> \in Seq(Data) /\ Cat(<<>>, Bytes(saved)) = Bytes(saved)
      BY <1>2, <2>2, CatFacts, EmptySeq DEF EatCRLF
    <3> QED
      BY <1>2, <3>1
  <2> QED
    BY <2>1, <2>2
<1>4. PICK z \in Seq(Data) : shown' \in Seq(Data) /\ Cat(shown', z) = Bytes(saved)
  BY <1>3
<1>5. Cat(got, Cat(shown', z)) = body
  BY <1>2, <1>4
<1>6. \E n \in Len(got) .. Len(body) : shown' = SubSeq(body, Len(got) + 1, n)
  <2> DEFINE x == got
             y == shown'
             w == body
  <2>1. x \in Seq(Data) /\ y \in Seq(Data) /\ z \in Seq(Data) /\ Cat(x, Cat(y, z)) = w
    BY <1>2, <1>4, <1>5
  <2> HIDE DEF x, y, w
  <2>2. /\ Len(x) + Len(y) \in Len(x) .. Len(w)
        /\ y = SubSeq(w, Len(x) + 1, Len(x) + Len(y))
    BY <2>1, MiddleOf, ZenonT(40), SMTT(40)
  <2> QED
    BY <2>2 DEF x, y, w
<1>7. ~(stage \in {"denied", "refused"}) /\ UNCHANGED <<body, got, ended, stage \in {"denied", "refused"}>>
  BY <1>1, <1>2
<1> QED
  BY <1>6, <1>7 DEF Stream!Peek

(* Everything has been read, or the request is refused.                    *)
LEMMA AsideStep ==
    ASSUME ReplayInv, StepAside
    PROVE  Stream!Read \/ Stream!CutOff
<1>1. CASE stage = "denied"
  <2>1. stage' = "refused" /\ ended' = TRUE /\ UNCHANGED <<body, got, shown>>
    BY <1>1 DEF StepAside
  <2> QED
    BY <1>1, <2>1 DEF Stream!CutOff
<1>2. CASE stage = "replay" /\ saved = <<>>
  <2>1. stage' = "aside" /\ ended' = TRUE /\ UNCHANGED <<body, got, shown>>
    BY <1>2 DEF StepAside
  <2>2. got \in Seq(Data) /\ body \in Seq(Data) /\ Cat(got, Bytes(saved)) = body /\ ended \in BOOLEAN
    BY <1>2 DEF ReplayInv, ReplayTypes, TypeOK, HandedInv
  <2>3. got = body
    <3>1. Cat(got, <<>>) = got
      BY <2>2, CatFacts
    <3> QED
      BY <1>2, <2>2, <3>1, BytesEmpty
  <2>4. SubSeq(body, 1, Len(body)) = body /\ Len(body) \in Nat
    BY <2>2, SubSeqFull
  <2>5. Len(body) \in Len(got) .. Len(body)
    BY <2>3, <2>4
  <2>6. \E m \in Len(got) .. Len(body) :
          /\ got' = SubSeq(body, 1, m)
          /\ ended' \in {ended, m = Len(body)}
          /\ ended => ended'
    BY <2>1, <2>3, <2>4, <2>5
  <2>7. ~(stage \in {"denied", "refused"}) /\ UNCHANGED <<body, shown, stage \in {"denied", "refused"}>>
    BY <1>2, <2>1
  <2> QED
    BY <2>6, <2>7 DEF Stream!Read
<1> QED
  BY <1>1, <1>2 DEF StepAside

(* The hook reads for nobody; it may refuse, and so may the output filter. *)
LEMMA HookStep ==
    ASSUME ReplayInv, KeepChunk \/ GiveUp \/ BodyComplete \/ SpoolError \/ ResponseDenied
    PROVE  Stream!Refuse \/ UNCHANGED Stream!vars
<1>1. UNCHANGED <<body, got, ended, shown>>
  BY DEF KeepChunk, GiveUp, BodyComplete, SpoolError, ResponseDenied
<1>2. \/ stage = "reading" /\ stage' = stage
      \/ stage' \in {"refused", "denied"}
      \/ stage = "reading" /\ stage' = "replay"
      \/ stage = "replay" /\ stage' = "failed"
  BY DEF KeepChunk, GiveUp, BodyComplete, SpoolError, ResponseDenied, Replaying
<1>3. CASE stage' \in {"refused", "denied"}
  <2>1. (stage' \in {"denied", "refused"}) = TRUE
    BY <1>3
  <2> QED
    BY <1>1, <2>1 DEF Stream!Refuse
<1>4. CASE stage \notin {"denied", "refused"} /\ stage' \notin {"denied", "refused"}
  BY <1>1, <1>4 DEF Stream!vars
<1> QED
  BY <1>2, <1>3, <1>4

(* The copy and its replay implement the stream of BodyStream: for bodies  *)
(* of any length, split between memory and file at any point, read in any  *)
(* mix of the modes of httpd and whatever fails, the handler reads the     *)
(* body once, in order and to its end, and nothing more of it once the     *)
(* request is refused (the fixups hook, coraza_input_filter,               *)
(* coraza_replay_saved_body).                                              *)
THEOREM Implementation == Spec => ImplementsBodyStream
<1>1. Init => Stream!Init
  <2> SUFFICES ASSUME Init PROVE Stream!Init
    OBVIOUS
  <2>1. body \in {[k \in 1 .. n |-> k] : n \in 0 .. MaxBody}
    BY DEF Init
  <2> QED
    BY <2>1 DEF Init, Stream!Init
<1>2. ReplayInv /\ [Next]_vars => [Stream!Next]_(Stream!vars)
  <2> SUFFICES ASSUME ReplayInv, [Next]_vars PROVE Stream!Next \/ UNCHANGED Stream!vars
    OBVIOUS
  <2>1. CASE GetLine \/ Exhaustive \/ ReadBytes
    BY <2>1, ReadStep DEF Stream!Next
  <2>2. CASE Speculative \/ EatCRLF
    BY <2>2, PeekStep DEF Stream!Next
  <2>3. CASE StepAside
    BY <2>3, AsideStep DEF Stream!Next
  <2>4. CASE KeepChunk \/ GiveUp \/ BodyComplete \/ SpoolError \/ ResponseDenied
    BY <2>4, HookStep DEF Stream!Next
  <2>5. CASE UNCHANGED vars
    BY <2>5 DEF vars, Stream!vars
  <2> QED
    BY <2>1, <2>2, <2>3, <2>4, <2>5 DEF Next, HandlerReads
<1> QED
  BY <1>1, <1>2, ReplayInvariance, PTL DEF Spec, Stream!Spec, ImplementsBodyStream
=============================================================================
