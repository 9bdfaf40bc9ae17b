----------------------------- MODULE FoldFacts -----------------------------
(***************************************************************************)
(* Facts about the data the models are built from, for the proof modules:  *)
(* induction over the naturals in the form of a statement about a set,     *)
(* which the provers can use, and what a left fold over a sequence         *)
(* computes.  None of them is about Coraza.                                *)
(***************************************************************************)
EXTENDS Integers, Sequences, SequencesExt, FiniteSetsExt, WellFoundedInduction, TLAPS

(* A set of naturals that is not empty has a least element.                *)
LEMMA NatMin ==
    ASSUME NEW T \in SUBSET Nat, T # {}
    PROVE  \E m \in T : \A k \in T : m <= k
<1> DEFINE R == OpToRel(<, Nat)
<1>1. IsWellFoundedOn(R, Nat)
  BY NatLessThanWellFounded
<1>2. \A i, j \in Nat : i < j => <<i, j>> \in R
  BY DEF OpToRel
<1> HIDE DEF R
<1>3. PICK x \in T : \A y \in T : ~ (<<y, x>> \in R)
  BY <1>1, WFMin
<1>4. ASSUME NEW k \in T PROVE x <= k
  <2>1. ~(k < x)
    BY <1>2, <1>3
  <2>2. k \in Nat /\ x \in Nat
    OBVIOUS
  <2>3. QED BY <2>1, <2>2
<1>5. QED
  BY <1>4

(* Induction: a set that holds zero and the successor of each of its       *)
(* naturals holds all of them.                                             *)
LEMMA NatInd ==
    ASSUME NEW T, 0 \in T, \A n \in Nat : n \in T => n + 1 \in T
    PROVE  Nat \subseteq T
<1> SUFFICES ASSUME ~(Nat \subseteq T) PROVE FALSE
  OBVIOUS
<1> DEFINE U == Nat \ T
<1>1. PICK m \in U : \A k \in U : m <= k
  BY NatMin
<1>2. m # 0 /\ m - 1 \in Nat
  BY <1>1
<1>3. m - 1 \in T
  BY <1>1, <1>2
<1>4. QED BY <1>1, <1>2, <1>3

(* Induction along the steps of a loop: h[k] is the value after k steps    *)
(* and T[k] the values that are allowed there.                             *)
LEMMA StepInd ==
    ASSUME NEW n \in Nat, NEW h, NEW T, h[0] \in T[0],
           \A k \in 1 .. n : h[k - 1] \in T[k - 1] => h[k] \in T[k]
    PROVE  h[n] \in T[n]
<1> DEFINE P(k) == h[k] \in T[k]
           U == {k \in Nat : k <= n => P(k)}
<1>1. 0 \in U
  OBVIOUS
<1>2. ASSUME NEW k \in Nat, k \in U PROVE k + 1 \in U
  <2> SUFFICES ASSUME k + 1 <= n PROVE P(k + 1)
    OBVIOUS
  <2>1. k + 1 \in 1 .. n /\ (k + 1) - 1 = k /\ P(k)
    BY <1>2
  <2>2. QED
    BY <2>1
<1> HIDE DEF P
<1>3. Nat \subseteq U
  BY <1>1, <1>2, NatInd
<1>4. P(n)
  BY <1>3
<1>5. QED
  BY <1>4 DEF P

(* The least element, when there is one, is the one Min chooses.           *)
LEMMA MinIsMin ==
    ASSUME NEW S \in SUBSET Nat, S # {}
    PROVE  Min(S) \in S /\ \A y \in S : Min(S) <= y
<1>1. \E m \in S : \A k \in S : m <= k
  BY NatMin
<1>2. QED
  BY <1>1 DEF Min

(* Max chooses the greatest element of a set of positions.                 *)
LEMMA MaxIsMax ==
    ASSUME NEW n \in Nat, NEW S \in SUBSET (1 .. n), S # {}
    PROVE  Max(S) \in S /\ \A y \in S : y <= Max(S)
<1> DEFINE U == {m \in Nat : \A y \in S : y <= m}
<1>0. \A y \in S : y \in 1 .. n
  OBVIOUS
<1>1. n \in U
  BY <1>0
<1>2. PICK m \in U : \A k \in U : m <= k
  BY <1>1, NatMin
<1>3. m # 0
  <2>1. PICK e : e \in S
    OBVIOUS
  <2>2. e \in 1 .. n /\ e <= m
    BY <2>1, <1>0
  <2>3. QED
    BY <2>2
<1>4. m - 1 \in Nat /\ m - 1 \notin U
  BY <1>2, <1>3
<1>5. PICK y \in S : ~(y <= m - 1)
  BY <1>4
<1>6. y = m
  BY <1>5
<1>7. \E x \in S : \A z \in S : x >= z
  BY <1>6
<1>8. QED
  BY <1>7 DEF Max

(* The greatest position of a prefix, and of a set that holds it.          *)
LEMMA MaxLast ==
    ASSUME NEW n \in Nat, NEW S \in SUBSET (1 .. n), n \in S
    PROVE  Max(S) = n
<1>1. Max(S) \in S /\ n <= Max(S)
  BY MaxIsMax
<1>2. Max(S) \in 1 .. n
  BY <1>1
<1>3. QED
  BY <1>1, <1>2

(* The solutions in S of the recursion by which a left fold is defined: on *)
(* sets of positions, the greatest one first.  g is the step.              *)
FoldSolutions(S, base, g, n, seq) ==
    {f \in [SUBSET (1 .. n) -> S] :
       \A x \in SUBSET (1 .. n) :
         f[x] = IF x = {} THEN base
                ELSE g[<<f[x \ {Max(x)}], seq[Max(x)]>>]}

(* The recursion of a left fold has a solution, whose values lie in S when *)
(* the step g maps S to S.                                                 *)
LEMMA FoldExists ==
    ASSUME NEW S, NEW D, NEW base \in S, NEW g \in [S \X D -> S],
           NEW n \in Nat, NEW seq \in [1 .. n -> D]
    PROVE  FoldSolutions(S, base, g, n, seq) # {}
<1> DEFINE Solves(f, k) ==
             \A x \in SUBSET (1 .. k) :
               f[x] = IF x = {} THEN base
                      ELSE g[<<f[x \ {Max(x)}], seq[Max(x)]>>]
           P(k) == \E f \in [SUBSET (1 .. k) -> S] : Solves(f, k)
           T == {k \in Nat : k <= n => P(k)}
<1>1. P(0)
  <2> DEFINE f == [x \in SUBSET (1 .. 0) |-> base]
  <2>1. \A x \in SUBSET (1 .. 0) : x = {}
    <3>1. \A i : i \notin 1 .. 0
      BY SMT
    <3>2. QED
      BY <3>1
  <2>2. f \in [SUBSET (1 .. 0) -> S] /\ Solves(f, 0)
    BY <2>1
  <2>3. QED
    BY <2>2
<1>2. ASSUME NEW k \in Nat, k + 1 <= n, P(k) PROVE P(k + 1)
  <2>1. PICK f \in [SUBSET (1 .. k) -> S] : Solves(f, k)
    BY <1>2
  <2> DEFINE h == [x \in SUBSET (1 .. k + 1) |->
                     IF k + 1 \in x THEN g[<<f[x \ {k + 1}], seq[k + 1]>>]
                     ELSE f[x]]
  <2>2. ASSUME NEW x \in SUBSET (1 .. k + 1)
        PROVE  /\ x \ {k + 1} \in SUBSET (1 .. k)
               /\ k + 1 \notin x => x \in SUBSET (1 .. k)
    <3>1. \A i \in x : i \in 1 .. k + 1
      OBVIOUS
    <3>2. \A i \in 1 .. k + 1 : i # k + 1 => i \in 1 .. k
      OBVIOUS
    <3>3. QED
      BY <3>1, <3>2
  <2>3. seq[k + 1] \in D
    BY <1>2
  <2>4. \A x \in SUBSET (1 .. k) : f[x] \in S
    OBVIOUS
  <2>5. ASSUME NEW x \in SUBSET (1 .. k + 1)
        PROVE  h[x] \in S
    <3>1. CASE k + 1 \in x
      <4>1. f[x \ {k + 1}] \in S
        BY <2>2, <2>4
      <4>2. g[<<f[x \ {k + 1}], seq[k + 1]>>] \in S
        BY <4>1, <2>3
      <4>3. QED
        BY <4>2, <3>1
    <3>2. CASE k + 1 \notin x
      BY <3>2, <2>2, <2>4
    <3>3. QED
      BY <3>1, <3>2
  <2>6. h \in [SUBSET (1 .. k + 1) -> S]
    BY <2>5
  <2>7. ASSUME NEW x \in SUBSET (1 .. k) PROVE h[x] = f[x]
    <3>1. x \in SUBSET (1 .. k + 1)
      OBVIOUS
    <3>2. k + 1 \notin x
      OBVIOUS
    <3>3. QED
      BY <3>1, <3>2
  <2>8. \A x \in SUBSET (1 .. k + 1) :
          k + 1 \in x => h[x] = g[<<f[x \ {k + 1}], seq[k + 1]>>]
    OBVIOUS
  <2> HIDE DEF h
  <2>9. ASSUME NEW x \in SUBSET (1 .. k + 1)
        PROVE  h[x] = IF x = {} THEN base
                      ELSE g[<<h[x \ {Max(x)}], seq[Max(x)]>>]
    <3>1. CASE k + 1 \in x
      <4>1. Max(x) = k + 1
        BY <3>1, MaxLast
      <4>2. h[x \ {k + 1}] = f[x \ {k + 1}]
        BY <2>2, <2>7
      <4>3. x # {}
        BY <3>1
      <4>4. QED
        BY <4>1, <4>2, <4>3, <3>1, <2>8
    <3>2. CASE k + 1 \notin x
      <4>1. x \in SUBSET (1 .. k)
        BY <3>2, <2>2
      <4>2. x \ {Max(x)} \in SUBSET (1 .. k)
        BY <4>1
      <4>3. h[x] = f[x] /\ h[x \ {Max(x)}] = f[x \ {Max(x)}]
        BY <4>1, <4>2, <2>7
      <4>4. QED
        BY <4>1, <4>3, <2>1
    <3>3. QED
      BY <3>1, <3>2
  <2>10. QED
    BY <2>6, <2>9
<1> HIDE DEF P
<1>3. 0 \in T
  BY <1>1
<1>4. \A k \in Nat : k \in T => k + 1 \in T
  BY <1>2
<1>5. Nat \subseteq T
  BY <1>3, <1>4, NatInd
<1>6. P(n)
  BY <1>5
<1>7. QED
  BY <1>6 DEF P, FoldSolutions

(* A function that satisfies the recursion of a left fold takes one step   *)
(* of it at every position.                                                *)
LEMMA PrefixStep ==
    ASSUME NEW k \in Nat \ {0}
    PROVE  /\ Max(1 .. k) = k
           /\ (1 .. k) \ {Max(1 .. k)} = 1 .. (k - 1)
           /\ 1 .. k # {}
<1>1. k \in 1 .. k
  OBVIOUS
<1>2. Max(1 .. k) = k
  BY <1>1, MaxLast
<1>3. (1 .. k) \ {k} = 1 .. (k - 1)
  OBVIOUS
<1>4. QED
  BY <1>1, <1>2, <1>3
(* Induction along the prefixes of a fold: it[1 .. k] is the value after k *)
(* elements and T[k] the values that are allowed there.                    *)
LEMMA PrefixInd ==
    ASSUME NEW n \in Nat, NEW it, NEW T, it[{}] \in T[0],
           \A k \in 1 .. n : it[1 .. (k - 1)] \in T[k - 1] => it[1 .. k] \in T[k]
    PROVE  it[1 .. n] \in T[n]
<1> DEFINE h == [k \in 0 .. n |-> it[1 .. k]]
<1>1. \A i : i \notin 1 .. 0
  BY SMT
<1>2. 1 .. 0 = {}
  BY <1>1
<1>3. h[0] \in T[0]
  BY <1>2
<1>4. \A k \in 1 .. n : h[k] = it[1 .. k] /\ h[k - 1] = it[1 .. (k - 1)]
  OBVIOUS
<1>5. h[n] = it[1 .. n]
  OBVIOUS
<1> HIDE DEF h
<1>6. h[n] \in T[n]
  BY <1>3, <1>4, StepInd
<1>7. QED
  BY <1>5, <1>6

(* The recursion of a loop of n steps has a solution: g gives the value    *)
(* after a step from the one before it and the number of the step.         *)
LEMMA LoopExists ==
    ASSUME NEW S, NEW base \in S, NEW n \in Nat, NEW g \in [S \X (1 .. n) -> S]
    PROVE  \E h \in [0 .. n -> S] :
             h[0] = base /\ \A k \in 1 .. n : h[k] = g[<<h[k - 1], k>>]
<1> DEFINE id == [k \in 1 .. n |-> k]
<1>1. id \in [1 .. n -> 1 .. n] /\ \A k \in 1 .. n : id[k] = k
  OBVIOUS
<1> HIDE DEF id
<1>2. PICK f \in FoldSolutions(S, base, g, n, id) : TRUE
  <2>1. id \in [1 .. n -> 1 .. n]
    BY <1>1
  <2>2. FoldSolutions(S, base, g, n, id) # {}
    BY <2>1, FoldExists
  <2>3. QED
    BY <2>2
<1>3. /\ f \in [SUBSET (1 .. n) -> S]
      /\ \A x \in SUBSET (1 .. n) :
           f[x] = IF x = {} THEN base ELSE g[<<f[x \ {Max(x)}], id[Max(x)]>>]
  BY <1>2 DEF FoldSolutions
<1> DEFINE h == [k \in 0 .. n |-> f[1 .. k]]
<1>4. \A k \in 0 .. n : 1 .. k \in SUBSET (1 .. n)
  OBVIOUS
<1>5. h \in [0 .. n -> S]
  BY <1>3, <1>4
<1>6. h[0] = base
  <2>1. \A i : i \notin 1 .. 0
    BY SMT
  <2>2. 1 .. 0 = {}
    BY <2>1
  <2>3. h[0] = f[1 .. 0] /\ 1 .. 0 \in SUBSET (1 .. n)
    BY <1>4
  <2>4. f[{}] = base
    BY <1>3, <2>2, <2>3
  <2>5. QED
    BY <2>2, <2>3, <2>4
<1>7. ASSUME NEW k \in 1 .. n PROVE h[k] = g[<<h[k - 1], k>>]
  <2>1. k \in Nat \ {0} /\ k \in 0 .. n /\ k - 1 \in 0 .. n
    OBVIOUS
  <2>2. /\ Max(1 .. k) = k /\ (1 .. k) \ {Max(1 .. k)} = 1 .. (k - 1)
        /\ 1 .. k # {}
    BY <2>1, PrefixStep
  <2>3. f[1 .. k] = g[<<f[1 .. (k - 1)], k>>]
    BY <1>1, <1>3, <1>4, <2>1, <2>2
  <2>4. QED
    BY <2>1, <2>3
<1>8. QED
  BY <1>5, <1>6, <1>7
=============================================================================
