-------------------------- MODULE RulesScanProofs --------------------------
(***************************************************************************)
(* The scanner keeps the first word of a record inside its fixed buffer,   *)
(* and its verdict is the one on the records the engine assembles, for     *)
(* texts of any length, any directives and any size of the buffer.         *)
(***************************************************************************)
EXTENDS RulesScan, FoldFacts, SequenceTheorems

(* The states of a coraza_rules_scan_t whose word is inside its buffer.    *)
Scans ==
    {s \in [line : Nat, rec_line : Nat, in_record : BOOLEAN,
            in_backticks : BOOLEAN, word_done : BOOLEAN,
            first : Bytes \cup {Nul}, last : Bytes \cup {Nul}, word : Seq(Bytes)] :
       Len(s.word) <= WordMax}

(* What an update of the word may do.                                      *)
LEMMA FrontType ==
    ASSUME NEW w \in Seq(Bytes), w # <<>>
    PROVE  Front(w) \in Seq(Bytes) /\ Len(Front(w)) = Len(w) - 1
  <1>1. Len(w) \in Nat /\ Len(w) # 0 /\ \A n \in 1 .. Len(w) - 1 : w[n] \in Bytes
    OBVIOUS
  <1> DEFINE n == Len(w) - 1
  <1>2. n \in Int /\ n >= 0 /\ \A k \in 1 .. n : w[k] \in Bytes
    BY <1>1
  <1> HIDE DEF n
  <1>3. /\ SubSeq(w, 1, n) \in Seq(Bytes)
        /\ Len(SubSeq(w, 1, n)) = IF 1 <= n THEN n - 1 + 1 ELSE 0
    BY <1>2, SubSeqProperties
  <1>4. Len(SubSeq(w, 1, n)) = n
    BY <1>2, <1>3
  <1> QED
    BY <1>3, <1>4 DEF Front, n

LEMMA EmptyWord == <<>> \in Seq(Bytes) /\ Len(<<>>) <= WordMax
  BY WordAssumption

LEMMA AppendType ==
    ASSUME NEW w \in Seq(Bytes), NEW c \in Bytes
    PROVE  Append(w, c) \in Seq(Bytes) /\ Len(Append(w, c)) = Len(w) + 1 /\ Len(w) \in Nat
  OBVIOUS

LEMMA WordUpdate ==
    ASSUME NEW s \in Scans, NEW w \in Seq(Bytes), Len(w) <= WordMax
    PROVE  /\ [s EXCEPT !.in_record = FALSE, !.word_done = FALSE, !.word = w] \in Scans
           /\ [s EXCEPT !.word = w, !.word_done = TRUE] \in Scans
  BY DEF Scans

(* The end of a line never lengthens the word.                             *)
LEMMA EolType ==
    ASSUME NEW s \in Scans
    PROVE  coraza_rules_scan_eol(s) \in Scans
  <1>1. DropBackslash(s) \in Scans
    <2>1. CASE ~s.word_done /\ s.word # <<>> /\ Last(s.word) = Backslash
      <3>1. Front(s.word) \in Seq(Bytes) /\ Len(Front(s.word)) <= WordMax
        BY <2>1, FrontType, WordAssumption DEF Scans
      <3> QED
        BY <2>1, <3>1 DEF DropBackslash, Scans
    <2>2. CASE ~(~s.word_done /\ s.word # <<>> /\ Last(s.word) = Backslash)
      BY <2>2 DEF DropBackslash, Scans
    <2> QED
      BY <2>1, <2>2
  <1>2. \A t \in Scans : LineState(t) \in Scans
    BY DEF LineState, Scans
  <1>3. InBackticks(s) \in BOOLEAN
    BY DEF InBackticks, Scans
  <1>4. \A t \in Scans : [t EXCEPT !.in_backticks = InBackticks(s)] \in Scans
    BY <1>3 DEF Scans
  <1>5. \A t \in Scans :
          [t EXCEPT !.in_record = FALSE, !.word_done = FALSE, !.word = <<>>] \in Scans
    BY EmptyWord, WordUpdate, Zenon
  <1> QED
    BY <1>1, <1>2, <1>4, <1>5 DEF coraza_rules_scan_eol

(* Neither a blank nor any other byte takes the word past its buffer.      *)
LEMMA ByteType ==
    ASSUME NEW s \in Scans, NEW c \in Bytes
    PROVE  coraza_rules_scan(s, c) \in Scans
  <1>1. CASE c = Newline
    <2>1. coraza_rules_scan_eol(s) \in Scans
      BY EolType
    <2>2. \A t \in Scans : [t EXCEPT !.line = @ + 1] \in Scans
      BY SMTT(40) DEF Scans
    <2> QED
      BY <1>1, <2>1, <2>2 DEF coraza_rules_scan, Newline, Blank
  <1>2. CASE c = Blank
    <2>1. ScanBlank(s) \in Scans
      BY DEF ScanBlank, Scans
    <2> QED
      BY <1>2, <2>1 DEF coraza_rules_scan, Newline, Blank
  <1>3. CASE c # Newline /\ c # Blank
    <2> DEFINE starts == s.first = Nul /\ c # Comment /\ ~s.in_record
               t == [s EXCEPT
                      !.first = IF @ = Nul THEN c ELSE @,
                      !.last = c,
                      !.in_record = @ \/ starts,
                      !.rec_line = IF starts THEN s.line ELSE @]
    <2>1. t \in Scans
      BY DEF Scans
    <2>2. \A u \in Scans : Collect(u, c) \in Scans
      <3> TAKE u \in Scans
      <3>1. CASE Len(u.word) < WordMax
        <4>1. Append(u.word, c) \in Seq(Bytes) /\ Len(Append(u.word, c)) <= WordMax
          BY <3>1, AppendType, WordAssumption DEF Scans
        <4> QED
          BY <3>1, <4>1 DEF Collect, Scans
      <3>2. CASE ~(Len(u.word) < WordMax)
        <4>1. [u EXCEPT !.word = <<>>, !.word_done = TRUE] \in Scans
          BY EmptyWord, WordUpdate, Zenon
        <4> QED
          BY <3>2, <4>1 DEF Collect
      <3> QED
        BY <3>1, <3>2
    <2>3. ScanByte(s, c) \in Scans
      <3> HIDE DEF t
      <3>1. ScanByte(s, c) = IF t.first = Comment \/ t.word_done THEN t ELSE Collect(t, c)
        BY DEF ScanByte, t
      <3> QED
        BY <2>1, <2>2, <3>1
    <2> QED
      BY <1>3, <2>3 DEF coraza_rules_scan
  <1> QED
    BY <1>1, <1>2, <1>3

(* Whatever a rules file or an inline text holds, coraza_rules_scan writes *)
(* no byte past word[].                                                    *)
THEOREM WordStaysInBuffer == Spec => []TypeOK
  <1> DEFINE Safe == /\ scan \in Scans
                     /\ result \in {"scanning", "refused", "accepted", "unread"}
  <1>1. Safe <=> TypeOK
    BY DEF TypeOK, Scans
  <1>2. Init => Safe
    BY WordAssumption DEF Init, coraza_rules_scan_init, Scans
  <1>3. Safe /\ [Next]_vars => Safe'
    <2> SUFFICES ASSUME Safe, [Next]_vars PROVE Safe'
      OBVIOUS
    <2>1. CASE Feed
      BY <2>1, EolType, ByteType DEF Feed
    <2>2. CASE coraza_rules_scan_done
      BY <2>2, EolType DEF coraza_rules_scan_done
    <2>3. CASE Unreadable
      BY <2>3 DEF Unreadable
    <2>4. CASE UNCHANGED vars
      BY <2>4 DEF vars
    <2> QED
      BY <2>1, <2>2, <2>3, <2>4 DEF Next
  <1> QED
    BY <1>1, <1>2, <1>3, PTL DEF Spec

---------------------------------------------------------------------------
(* The scanner against the assembly of records: the invariant.             *)

Refuses(word) == Folded(word) \in Unsupported

Bare(q) == \A n \in DOMAIN q : q[n] # Blank

Has(q, c) == \E n \in DOMAIN q : q[n] = c

(* Whatever follows the part q of a record, the record is refused if word  *)
(* is, and, unless a continuation was missed, only then.                   *)
Settled(word, q, missed) ==
    \A z \in Seq(Bytes) :
      /\ Refuses(word) => IsRefused(q \o z)
      /\ ~missed /\ IsRefused(q \o z) => Refuses(word)

(* The scanner has the ends of the current line l...                       *)
LinePart(s, l) ==
    /\ s.first = IF Trim(l) = <<>> THEN Nul ELSE Trim(l)[1]
    /\ s.last = IF Trim(l) = <<>> THEN Nul ELSE Last(Trim(l))

(* ...and the record r assembled from the lines before it.                 *)
RecordPart(s, r, missed) ==
    /\ s.line = r.line + 1
    /\ s.in_backticks = r.list
    /\ r.list => r.more /\ Has(r.record, Backtick)
    /\ ~r.more => r.record = <<>> /\ (Ignored(s) => ~s.word_done)
    /\ s.in_record <=> r.more \/ ~Ignored(s)
    /\ s.in_record => s.rec_line = IF r.more THEN r.from ELSE r.line + 1
    /\ ~missed => r.bad = {}

(* Its word is the record so far, or is all the record will be judged by.  *)
(* Between a blank and what follows it on the line it is both or neither:  *)
(* should the line end there, the next one may be glued to the word.       *)
WordPart(s, r, l, missed) ==
    LET glued == r.record \o Trim(l) IN
    IF Ignored(s)
    THEN IF s.word_done THEN Settled(s.word, r.record, missed)
         ELSE s.word = r.record /\ Bare(r.record)
    ELSE \/ /\ s.word = glued /\ Bare(glued)
            /\ s.word_done <=> Last(l) = Blank
         \/ s.word_done /\ Settled(s.word, Front(glued), missed)

Follows(s, r, l, missed) ==
    LinePart(s, l) /\ RecordPart(s, r, missed) /\ WordPart(s, r, l, missed)

(* A blank stands after the last backslash of one of these lines.          *)
Missed(ls) == \E l \in ToSet(ls) : EndsInBackslashBlank(l)

(* The complete lines of a text, and the one that is being read.           *)
Before(text) == Front(Lines(text))
Current(text) == Last(Lines(text))

(* While it reads, the scanner follows the assembly of records; once it    *)
(* has stopped, its verdict is the engine's.                               *)
ScanInv ==
    /\ scan \in Scans
    /\ input \in Seq(Bytes)
    /\ result = "scanning" =>
         Follows(scan, Assembled(Before(input)), Current(input), Missed(Before(input)))
    /\ RefusalIsReal /\ AcceptedIsClean

(* What a left fold of AddByte computes, one element at a time.            *)
LEMMA AddByteLoop ==
    ASSUME NEW S, NEW D, <<<<>>>> \in S, NEW seq \in Seq(D),
           \A c \in S, d \in D : AddByte(c, d) \in S
    PROVE  \E h \in [0 .. Len(seq) -> S] :
             /\ h[0] = <<<<>>>>
             /\ \A k \in 1 .. Len(seq) : h[k] = AddByte(h[k - 1], seq[k])
             /\ Lines(seq) = h[Len(seq)]
<1> DEFINE base == <<<<>>>>
           n == Len(seq)
           g == [p \in S \X D |-> AddByte(p[1], p[2])]
           Rec(f) == [y \in SUBSET (DOMAIN seq) |->
                        IF y = {} THEN base
                        ELSE AddByte(f[y \ {Max(y)}], seq[Max(y)])]
           it == CHOOSE iter : iter = Rec(iter)
<1>1. n \in Nat /\ DOMAIN seq = 1 .. n /\ seq \in [1 .. n -> D] /\ base \in S
  OBVIOUS
<1>2. g \in [S \X D -> S]
  OBVIOUS
<1>3. \A c \in S, d \in D : g[<<c, d>>] = AddByte(c, d)
  OBVIOUS
<1> HIDE DEF n, g
<1>4. PICK f \in FoldSolutions(S, base, g, n, seq) : TRUE
  <2>1. n \in Nat
    BY <1>1
  <2>2. seq \in [1 .. n -> D]
    BY <1>1
  <2>3. FoldSolutions(S, base, g, n, seq) # {}
    BY <2>1, <2>2, <1>2, FoldExists
  <2>4. QED
    BY <2>3
<1>5. f = Rec(f)
  <2>1. /\ f \in [SUBSET (1 .. n) -> S]
        /\ \A y \in SUBSET (1 .. n) :
             f[y] = IF y = {} THEN base
                    ELSE g[<<f[y \ {Max(y)}], seq[Max(y)]>>]
    BY <1>4 DEF FoldSolutions
  <2>2. ASSUME NEW y \in SUBSET (1 .. n)
        PROVE  f[y] = IF y = {} THEN base
                      ELSE AddByte(f[y \ {Max(y)}], seq[Max(y)])
    <3>1. CASE y = {}
      BY <3>1, <2>1
    <3>2. CASE y # {}
      <4>1. Max(y) \in y
        BY <3>2, <1>1, MaxIsMax
      <4>2. seq[Max(y)] \in D /\ f[y \ {Max(y)}] \in S
        BY <4>1, <1>1, <2>1
      <4>3. QED
        BY <3>2, <4>2, <1>3, <2>1
    <3>3. QED
      BY <3>1, <3>2
  <2>3. QED
    BY <2>1, <2>2, <1>1
<1>6. it = Rec(it)
  BY <1>5
<1>7. Lines(seq) = it[DOMAIN seq]
  BY DEF Lines, FoldLeft, MapThenFoldSet
<1> HIDE DEF it, base
<1>8. \A y \in SUBSET (1 .. n) :
        it[y] = IF y = {} THEN base
                ELSE AddByte(it[y \ {Max(y)}], seq[Max(y)])
  BY <1>1, <1>6
<1> DEFINE h == [k \in 0 .. n |-> it[1 .. k]]
<1>9. \A k \in 0 .. n : h[k] = it[1 .. k]
  OBVIOUS
<1>10. h[0] = base
  <2>1. \A i : i \notin 1 .. 0
    BY SMT
  <2>2. 1 .. 0 = {} /\ 0 \in 0 .. n
    BY <2>1, <1>1
  <2>3. h[0] = it[{}]
    BY <2>2, <1>9
  <2>4. QED
    BY <2>3, <1>8
<1>11. ASSUME NEW k \in 1 .. n PROVE h[k] = AddByte(h[k - 1], seq[k])
  <2>1. k \in Nat \ {0} /\ k \in 0 .. n /\ k - 1 \in 0 .. n
    BY <1>1
  <2>2. /\ Max(1 .. k) = k
        /\ (1 .. k) \ {Max(1 .. k)} = 1 .. (k - 1)
        /\ 1 .. k # {}
    BY <2>1, PrefixStep
  <2>3. 1 .. k \in SUBSET (1 .. n)
    BY <1>1
  <2>4. it[1 .. k] = AddByte(it[1 .. (k - 1)], seq[k])
    BY <2>2, <2>3, <1>8
  <2>5. QED
    BY <2>1, <2>4, <1>9
<1> HIDE DEF h
<1>12. ASSUME NEW m \in 0 .. n PROVE h[m] \in S
  <2> DEFINE U == [k \in 0 .. n |-> S]
  <2>1. m \in Nat /\ m <= n
    BY <1>1
  <2>2. h[0] \in U[0]
    BY <1>1, <1>10
  <2>3. \A k \in 1 .. m : h[k - 1] \in U[k - 1] => h[k] \in U[k]
    <3> SUFFICES ASSUME NEW k \in 1 .. m, h[k - 1] \in U[k - 1] PROVE h[k] \in U[k]
      OBVIOUS
    <3>1. k \in 1 .. n /\ k \in 0 .. n /\ k - 1 \in 0 .. n
      BY <2>1, <1>1
    <3>2. h[k - 1] \in S /\ seq[k] \in D
      BY <3>1, <1>1
    <3>3. h[k] \in S
      BY <3>1, <3>2, <1>11
    <3>4. QED
      BY <3>1, <3>3
  <2> HIDE DEF U
  <2>4. h[m] \in U[m]
    BY <2>1, <2>2, <2>3, StepInd
  <2>5. QED
    BY <2>4 DEF U
<1>13. h \in [0 .. n -> S]
  <2>1. h = [k \in 0 .. n |-> h[k]]
    BY DEF h
  <2>2. QED
    BY <2>1, <1>12
<1>14. h[n] = it[DOMAIN seq]
  BY <1>1, <1>9
<1>15. QED
  BY <1>7, <1>10, <1>11, <1>13, <1>14 DEF n, base

LEMMA AddByteAppend ==
    ASSUME NEW S, NEW D, <<<<>>>> \in S, NEW seq \in Seq(D), NEW e \in D,
           \A c \in S, d \in D : AddByte(c, d) \in S
    PROVE  /\ Lines(seq) \in S
           /\ Lines(<<>>) = <<<<>>>>
           /\ Lines(Append(seq, e)) = AddByte(Lines(seq), e)
<1> DEFINE base == <<<<>>>>
           n == Len(seq)
           longer == Append(seq, e)
<1>1. /\ longer \in Seq(D) /\ n \in Nat /\ Len(longer) = n + 1 /\ longer[n + 1] = e
      /\ \A k \in 1 .. n : longer[k] = seq[k]
  OBVIOUS
<1>2. PICK h \in [0 .. n -> S] :
        /\ h[0] = base
        /\ \A k \in 1 .. n : h[k] = AddByte(h[k - 1], seq[k])
        /\ Lines(seq) = h[n]
  BY AddByteLoop
<1> HIDE DEF longer
<1>3. PICK f \in [0 .. (n + 1) -> S] :
        /\ f[0] = base
        /\ \A k \in 1 .. (n + 1) : f[k] = AddByte(f[k - 1], longer[k])
        /\ Lines(longer) = f[n + 1]
  <2>1. longer \in Seq(D) /\ Len(longer) = n + 1
    BY <1>1
  <2> HIDE DEF n
  <2>2. \E f \in [0 .. Len(longer) -> S] :
          /\ f[0] = base
          /\ \A k \in 1 .. Len(longer) : f[k] = AddByte(f[k - 1], longer[k])
          /\ Lines(longer) = f[Len(longer)]
    BY <2>1, AddByteLoop
  <2>3. QED
    BY <2>1, <2>2
<1> HIDE DEF n
<1>4. f[n] = h[n]
  <2> DEFINE U == [k \in 0 .. n |-> {h[k]}]
  <2>1. f[0] \in U[0]
    BY <1>1, <1>2, <1>3
  <2>2. \A k \in 1 .. n : f[k - 1] \in U[k - 1] => f[k] \in U[k]
    <3> SUFFICES ASSUME NEW k \in 1 .. n, f[k - 1] \in U[k - 1] PROVE f[k] \in U[k]
      OBVIOUS
    <3>1. k \in 1 .. (n + 1) /\ k \in 0 .. n /\ k - 1 \in 0 .. n
      BY <1>1
    <3>2. f[k - 1] = h[k - 1]
      BY <3>1
    <3>3. f[k] = h[k]
      BY <3>1, <3>2, <1>1, <1>2, <1>3
    <3>4. QED
      BY <3>1, <3>3
  <2> HIDE DEF U
  <2>3. f[n] \in U[n]
    BY <1>1, <2>1, <2>2, StepInd
  <2>4. QED
    BY <1>1, <2>3 DEF U
<1>5. f[n + 1] = AddByte(f[n], e)
  <2>1. n + 1 \in 1 .. (n + 1) /\ (n + 1) - 1 = n
    BY <1>1
  <2>2. f[n + 1] = AddByte(f[(n + 1) - 1], longer[n + 1])
    BY <2>1, <1>3
  <2>3. QED
    BY <2>1, <2>2, <1>1
<1>6. Lines(<<>>) = base
  <2>1. <<>> \in Seq(D) /\ Len(<<>>) = 0
    OBVIOUS
  <2> DEFINE none == <<>>
  <2> HIDE DEF none
  <2>2. none \in Seq(D) /\ Len(none) = 0
    BY <2>1 DEF none
  <2>3. PICK z \in [0 .. Len(none) -> S] :
          z[0] = base /\ Lines(none) = z[Len(none)]
    BY <2>2, AddByteLoop, ZenonT(40)
  <2>4. QED
    BY <2>2, <2>3 DEF none
<1>7. h[n] \in S
  BY <1>1, <1>2
<1>8. QED
  BY <1>2, <1>3, <1>4, <1>5, <1>6, <1>7 DEF longer

(* What a left fold of AddLine computes, one element at a time.            *)
LEMMA AddLineLoop ==
    ASSUME NEW S, NEW D, NoRecord \in S, NEW seq \in Seq(D),
           \A c \in S, d \in D : AddLine(c, d) \in S
    PROVE  \E h \in [0 .. Len(seq) -> S] :
             /\ h[0] = NoRecord
             /\ \A k \in 1 .. Len(seq) : h[k] = AddLine(h[k - 1], seq[k])
             /\ Assembled(seq) = h[Len(seq)]
<1> DEFINE base == NoRecord
           n == Len(seq)
           g == [p \in S \X D |-> AddLine(p[1], p[2])]
           Rec(f) == [y \in SUBSET (DOMAIN seq) |->
                        IF y = {} THEN base
                        ELSE AddLine(f[y \ {Max(y)}], seq[Max(y)])]
           it == CHOOSE iter : iter = Rec(iter)
<1>1. n \in Nat /\ DOMAIN seq = 1 .. n /\ seq \in [1 .. n -> D] /\ base \in S
  OBVIOUS
<1>2. g \in [S \X D -> S]
  OBVIOUS
<1>3. \A c \in S, d \in D : g[<<c, d>>] = AddLine(c, d)
  OBVIOUS
<1> HIDE DEF n, g
<1>4. PICK f \in FoldSolutions(S, base, g, n, seq) : TRUE
  <2>1. n \in Nat
    BY <1>1
  <2>2. seq \in [1 .. n -> D]
    BY <1>1
  <2>3. FoldSolutions(S, base, g, n, seq) # {}
    BY <2>1, <2>2, <1>2, FoldExists
  <2>4. QED
    BY <2>3
<1>5. f = Rec(f)
  <2>1. /\ f \in [SUBSET (1 .. n) -> S]
        /\ \A y \in SUBSET (1 .. n) :
             f[y] = IF y = {} THEN base
                    ELSE g[<<f[y \ {Max(y)}], seq[Max(y)]>>]
    BY <1>4 DEF FoldSolutions
  <2>2. ASSUME NEW y \in SUBSET (1 .. n)
        PROVE  f[y] = IF y = {} THEN base
                      ELSE AddLine(f[y \ {Max(y)}], seq[Max(y)])
    <3>1. CASE y = {}
      BY <3>1, <2>1
    <3>2. CASE y # {}
      <4>1. Max(y) \in y
        BY <3>2, <1>1, MaxIsMax
      <4>2. seq[Max(y)] \in D /\ f[y \ {Max(y)}] \in S
        BY <4>1, <1>1, <2>1
      <4>3. QED
        BY <3>2, <4>2, <1>3, <2>1
    <3>3. QED
      BY <3>1, <3>2
  <2>3. QED
    BY <2>1, <2>2, <1>1
<1>6. it = Rec(it)
  BY <1>5
<1>7. Assembled(seq) = it[DOMAIN seq]
  BY DEF Assembled, FoldLeft, MapThenFoldSet
<1> HIDE DEF it, base
<1>8. \A y \in SUBSET (1 .. n) :
        it[y] = IF y = {} THEN base
                ELSE AddLine(it[y \ {Max(y)}], seq[Max(y)])
  BY <1>1, <1>6
<1> DEFINE h == [k \in 0 .. n |-> it[1 .. k]]
<1>9. \A k \in 0 .. n : h[k] = it[1 .. k]
  OBVIOUS
<1>10. h[0] = base
  <2>1. \A i : i \notin 1 .. 0
    BY SMT
  <2>2. 1 .. 0 = {} /\ 0 \in 0 .. n
    BY <2>1, <1>1
  <2>3. h[0] = it[{}]
    BY <2>2, <1>9
  <2>4. QED
    BY <2>3, <1>8
<1>11. ASSUME NEW k \in 1 .. n PROVE h[k] = AddLine(h[k - 1], seq[k])
  <2>1. k \in Nat \ {0} /\ k \in 0 .. n /\ k - 1 \in 0 .. n
    BY <1>1
  <2>2. /\ Max(1 .. k) = k
        /\ (1 .. k) \ {Max(1 .. k)} = 1 .. (k - 1)
        /\ 1 .. k # {}
    BY <2>1, PrefixStep
  <2>3. 1 .. k \in SUBSET (1 .. n)
    BY <1>1
  <2>4. it[1 .. k] = AddLine(it[1 .. (k - 1)], seq[k])
    BY <2>2, <2>3, <1>8
  <2>5. QED
    BY <2>1, <2>4, <1>9
<1> HIDE DEF h
<1>12. ASSUME NEW m \in 0 .. n PROVE h[m] \in S
  <2> DEFINE U == [k \in 0 .. n |-> S]
  <2>1. m \in Nat /\ m <= n
    BY <1>1
  <2>2. h[0] \in U[0]
    BY <1>1, <1>10
  <2>3. \A k \in 1 .. m : h[k - 1] \in U[k - 1] => h[k] \in U[k]
    <3> SUFFICES ASSUME NEW k \in 1 .. m, h[k - 1] \in U[k - 1] PROVE h[k] \in U[k]
      OBVIOUS
    <3>1. k \in 1 .. n /\ k \in 0 .. n /\ k - 1 \in 0 .. n
      BY <2>1, <1>1
    <3>2. h[k - 1] \in S /\ seq[k] \in D
      BY <3>1, <1>1
    <3>3. h[k] \in S
      BY <3>1, <3>2, <1>11
    <3>4. QED
      BY <3>1, <3>3
  <2> HIDE DEF U
  <2>4. h[m] \in U[m]
    BY <2>1, <2>2, <2>3, StepInd
  <2>5. QED
    BY <2>4 DEF U
<1>13. h \in [0 .. n -> S]
  <2>1. h = [k \in 0 .. n |-> h[k]]
    BY DEF h
  <2>2. QED
    BY <2>1, <1>12
<1>14. h[n] = it[DOMAIN seq]
  BY <1>1, <1>9
<1>15. QED
  BY <1>7, <1>10, <1>11, <1>13, <1>14 DEF n, base

LEMMA AddLineAppend ==
    ASSUME NEW S, NEW D, NoRecord \in S, NEW seq \in Seq(D), NEW e \in D,
           \A c \in S, d \in D : AddLine(c, d) \in S
    PROVE  /\ Assembled(seq) \in S
           /\ Assembled(<<>>) = NoRecord
           /\ Assembled(Append(seq, e)) = AddLine(Assembled(seq), e)
<1> DEFINE base == NoRecord
           n == Len(seq)
           longer == Append(seq, e)
<1>1. /\ longer \in Seq(D) /\ n \in Nat /\ Len(longer) = n + 1 /\ longer[n + 1] = e
      /\ \A k \in 1 .. n : longer[k] = seq[k]
  OBVIOUS
<1>2. PICK h \in [0 .. n -> S] :
        /\ h[0] = base
        /\ \A k \in 1 .. n : h[k] = AddLine(h[k - 1], seq[k])
        /\ Assembled(seq) = h[n]
  BY AddLineLoop
<1> HIDE DEF longer
<1>3. PICK f \in [0 .. (n + 1) -> S] :
        /\ f[0] = base
        /\ \A k \in 1 .. (n + 1) : f[k] = AddLine(f[k - 1], longer[k])
        /\ Assembled(longer) = f[n + 1]
  <2>1. longer \in Seq(D) /\ Len(longer) = n + 1
    BY <1>1
  <2> HIDE DEF n
  <2>2. \E f \in [0 .. Len(longer) -> S] :
          /\ f[0] = base
          /\ \A k \in 1 .. Len(longer) : f[k] = AddLine(f[k - 1], longer[k])
          /\ Assembled(longer) = f[Len(longer)]
    BY <2>1, AddLineLoop
  <2>3. QED
    BY <2>1, <2>2
<1> HIDE DEF n
<1>4. f[n] = h[n]
  <2> DEFINE U == [k \in 0 .. n |-> {h[k]}]
  <2>1. f[0] \in U[0]
    BY <1>1, <1>2, <1>3
  <2>2. \A k \in 1 .. n : f[k - 1] \in U[k - 1] => f[k] \in U[k]
    <3> SUFFICES ASSUME NEW k \in 1 .. n, f[k - 1] \in U[k - 1] PROVE f[k] \in U[k]
      OBVIOUS
    <3>1. k \in 1 .. (n + 1) /\ k \in 0 .. n /\ k - 1 \in 0 .. n
      BY <1>1
    <3>2. f[k - 1] = h[k - 1]
      BY <3>1
    <3>3. f[k] = h[k]
      BY <3>1, <3>2, <1>1, <1>2, <1>3
    <3>4. QED
      BY <3>1, <3>3
  <2> HIDE DEF U
  <2>3. f[n] \in U[n]
    BY <1>1, <2>1, <2>2, StepInd
  <2>4. QED
    BY <1>1, <2>3 DEF U
<1>5. f[n + 1] = AddLine(f[n], e)
  <2>1. n + 1 \in 1 .. (n + 1) /\ (n + 1) - 1 = n
    BY <1>1
  <2>2. f[n + 1] = AddLine(f[(n + 1) - 1], longer[n + 1])
    BY <2>1, <1>3
  <2>3. QED
    BY <2>1, <2>2, <1>1
<1>6. Assembled(<<>>) = base
  <2>1. <<>> \in Seq(D) /\ Len(<<>>) = 0
    OBVIOUS
  <2> DEFINE none == <<>>
  <2> HIDE DEF none
  <2>2. none \in Seq(D) /\ Len(none) = 0
    BY <2>1 DEF none
  <2>3. PICK z \in [0 .. Len(none) -> S] :
          z[0] = base /\ Assembled(none) = z[Len(none)]
    BY <2>2, AddLineLoop
  <2>4. QED
    BY <2>2, <2>3 DEF none
<1>7. h[n] \in S
  BY <1>1, <1>2
<1>8. QED
  BY <1>2, <1>3, <1>4, <1>5, <1>6, <1>7 DEF longer

---------------------------------------------------------------------------
(* Sequences.                                                              *)

(* A sequence and its last element.                                        *)
LEMMA FrontLast ==
    ASSUME NEW S, NEW s \in Seq(S), s # <<>>
    PROVE  /\ Front(s) \in Seq(S) /\ Last(s) \in S
           /\ Append(Front(s), Last(s)) = s /\ Front(s) \o <<Last(s)>> = s
           /\ Len(s) \in Nat \ {0} /\ Len(Front(s)) = Len(s) - 1
           /\ \A k \in 1 .. (Len(s) - 1) : Front(s)[k] = s[k]
           /\ Last(s) = s[Len(s)]
<1> DEFINE n == Len(s) - 1
<1>1. Len(s) \in Nat \ {0} /\ n \in Nat /\ \A k \in 1 .. n : s[k] \in S
  OBVIOUS
<1>2. /\ SubSeq(s, 1, n) \in Seq(S)
      /\ Len(SubSeq(s, 1, n)) = IF 1 <= n THEN n - 1 + 1 ELSE 0
      /\ \A k \in 1 .. (n - 1 + 1) : SubSeq(s, 1, n)[k] = s[1 + k - 1]
  <2> HIDE DEF n
  <2>1. n \in Int /\ 1 \in Int
    BY <1>1
  <2>2. QED
    BY <1>1, <2>1, SubSeqProperties
<1>3. Front(s) = SubSeq(s, 1, n) /\ Last(s) = s[Len(s)]
  BY DEF Front, Last
<1> DEFINE f == Front(s)
<1>4. f \in Seq(S) /\ Len(f) = n /\ \A k \in 1 .. n : f[k] = s[k]
  <2>1. f = SubSeq(s, 1, n)
    BY <1>3
  <2> HIDE DEF f, n
  <2>2. \A k \in 1 .. n : k \in 1 .. (n - 1 + 1) /\ 1 + k - 1 = k
    BY <1>1
  <2>3. (IF 1 <= n THEN n - 1 + 1 ELSE 0) = n
    BY <1>1
  <2>4. QED
    BY <1>2, <2>1, <2>2, <2>3
<1> HIDE DEF f
<1>5. Last(s) \in S
  BY <1>1, <1>3
<1>6. /\ Append(f, Last(s)) \in Seq(S) /\ Len(Append(f, Last(s))) = Len(s)
      /\ \A k \in 1 .. Len(s) : Append(f, Last(s))[k] = s[k]
  BY <1>1, <1>3, <1>4, <1>5
<1>7. Append(f, Last(s)) = s
  BY <1>6, SeqEqual
<1>8. f \o <<Last(s)>> = s
  BY <1>4, <1>5, <1>7, AppendIsConcat
<1>9. QED
  BY <1>1, <1>3, <1>4, <1>5, <1>7, <1>8 DEF f

LEMMA AppendFront ==
    ASSUME NEW S, NEW s \in Seq(S), NEW e \in S
    PROVE  /\ Append(s, e) \in Seq(S) /\ Append(s, e) # <<>>
           /\ Front(Append(s, e)) = s /\ Last(Append(s, e)) = e
<1> DEFINE a == Append(s, e)
<1>1. a \in Seq(S) /\ a # <<>> /\ Len(a) = Len(s) + 1 /\ a[Len(s) + 1] = e
  BY AppendProperties
<1> HIDE DEF a
<1>2. Append(Front(a), Last(a)) = a /\ Front(a) \in Seq(S) /\ Last(a) \in S
  BY <1>1, FrontLast
<1>3. Front(a) = s /\ Last(a) = e
  BY <1>2, AppendInjective DEF a
<1>4. QED
  BY <1>1, <1>3 DEF a

(* What stands at which place of two sequences in a row.                   *)
LEMMA Joined ==
    ASSUME NEW S, NEW s \in Seq(S), NEW t \in Seq(S)
    PROVE  /\ s \o t \in Seq(S) /\ Len(s \o t) = Len(s) + Len(t)
           /\ Len(s) \in Nat /\ Len(t) \in Nat
           /\ \A k \in 1 .. Len(s) : (s \o t)[k] = s[k]
           /\ \A k \in 1 .. Len(t) : (s \o t)[Len(s) + k] = t[k]
           /\ DOMAIN s = 1 .. Len(s) /\ DOMAIN t = 1 .. Len(t)
           /\ DOMAIN (s \o t) = 1 .. (Len(s) + Len(t))
OBVIOUS

(* A record with a line in front of a byte.                                *)
LEMMA JoinAppend ==
    ASSUME NEW S, NEW s \in Seq(S), NEW t \in Seq(S), NEW e \in S
    PROVE  s \o Append(t, e) = Append(s \o t, e)
<1>1. Append(t, e) = t \o <<e>> /\ <<e>> \in Seq(S) /\ s \o t \in Seq(S)
  BY AppendIsConcat, ConcatProperties
<1>2. (s \o t) \o <<e>> = s \o (t \o <<e>>)
  BY <1>1, ConcatAssociative
<1>3. Append(s \o t, e) = (s \o t) \o <<e>>
  BY <1>1, AppendIsConcat
<1>4. QED
  BY <1>1, <1>2, <1>3

LEMMA JoinFront ==
    ASSUME NEW S, NEW s \in Seq(S), NEW t \in Seq(S), t # <<>>
    PROVE  /\ s \o t # <<>> /\ s \o t \in Seq(S)
           /\ Front(s \o t) = s \o Front(t) /\ Last(s \o t) = Last(t)
<1> DEFINE f == Front(t)
           e == Last(t)
           g == s \o f
<1>1. f \in Seq(S) /\ e \in S /\ Append(f, e) = t
  BY FrontLast
<1> HIDE DEF f, e
<1>2. s \o Append(f, e) = Append(g, e)
  BY <1>1, JoinAppend
<1>3. g \in Seq(S)
  BY <1>1, ConcatProperties
<1> HIDE DEF g
<1>4. /\ Append(g, e) \in Seq(S) /\ Append(g, e) # <<>>
      /\ Front(Append(g, e)) = g /\ Last(Append(g, e)) = e
  BY <1>1, <1>3, AppendFront
<1>5. QED
  BY <1>1, <1>2, <1>4 DEF e, f, g

---------------------------------------------------------------------------
(* Lines.                                                                  *)

Texts == Seq(Bytes)

LEMMA LineTypes ==
    /\ Newline \in Bytes /\ Blank \in Bytes /\ Backslash \in Bytes /\ Backtick \in Bytes
    /\ Nul \notin Bytes
    /\ <<>> \in Texts /\ <<>> \in Seq(Texts) /\ <<<<>>>> \in Seq(Texts) \ {<<>>}
<1>1. Nul \notin Bytes
  BY LettersAssumption DEF Bytes, Nul, Newline, Blank, Comment, Backslash, Backtick
<1>2. <<>> \in Texts /\ <<>> \in Seq(Texts)
  BY DEF Texts
<1> DEFINE none == <<>>
<1> HIDE DEF none
<1>3. none \in Texts
  BY <1>2 DEF none
<1>4. <<none>> \in Seq(Texts) /\ <<none>> # <<>>
  BY <1>3
<1>5. QED
  BY <1>1, <1>2, <1>4 DEF Bytes, none

LEMMA LinesFacts ==
    ASSUME NEW text \in Texts, NEW c \in Bytes
    PROVE  /\ Lines(text) \in Seq(Texts) /\ Lines(text) # <<>>
           /\ Lines(<<>>) = <<<<>>>>
           /\ Lines(Append(text, c)) = AddByte(Lines(text), c)
<1> DEFINE S == Seq(Texts) \ {<<>>}
<1>1. ASSUME NEW ls \in S, NEW b \in Bytes PROVE AddByte(ls, b) \in S
  <2>1. Front(ls) \in Seq(Texts) /\ Last(ls) \in Texts
    BY FrontLast
  <2>2. Append(Last(ls), b) \in Texts
    BY <2>1, AppendProperties DEF Texts
  <2>3. Append(ls, <<>>) \in S
    BY LineTypes, AppendProperties
  <2>4. Append(Front(ls), Append(Last(ls), b)) \in S
    <3> DEFINE f == Front(ls)
               e == Append(Last(ls), b)
    <3>1. f \in Seq(Texts) /\ e \in Texts
      BY <2>1, <2>2
    <3> HIDE DEF f, e
    <3>2. Append(f, e) \in Seq(Texts) /\ Append(f, e) # <<>>
      BY <3>1, AppendProperties
    <3>3. QED
      BY <3>2 DEF f, e
  <2>5. QED
    BY <2>3, <2>4 DEF AddByte
<1>2. <<<<>>>> \in S
  BY LineTypes
<1> HIDE DEF S
<1>3. /\ Lines(text) \in S /\ Lines(<<>>) = <<<<>>>>
      /\ Lines(Append(text, c)) = AddByte(Lines(text), c)
  BY <1>1, <1>2, AddByteAppend DEF Texts
<1>4. QED
  BY <1>3 DEF S

(* The complete lines and the current one, as the bytes come.              *)
LEMMA CurrentFacts ==
    ASSUME NEW text \in Texts
    PROVE  /\ Before(text) \in Seq(Texts) /\ Current(text) \in Texts
           /\ Lines(text) = Append(Before(text), Current(text))
           /\ Before(Append(text, Newline)) = Lines(text)
           /\ Current(Append(text, Newline)) = <<>>
           /\ \A c \in Bytes \ {Newline} :
                /\ Before(Append(text, c)) = Before(text)
                /\ Current(Append(text, c)) = Append(Current(text), c)
<1>1. Lines(text) \in Seq(Texts) /\ Lines(text) # <<>>
  BY LinesFacts, LineTypes
<1>2. /\ Before(text) \in Seq(Texts) /\ Current(text) \in Texts
      /\ Lines(text) = Append(Before(text), Current(text))
  BY <1>1, FrontLast DEF Before, Current
<1>3. Lines(Append(text, Newline)) = Append(Lines(text), <<>>)
  BY LinesFacts, LineTypes DEF AddByte
<1>4. Before(Append(text, Newline)) = Lines(text) /\ Current(Append(text, Newline)) = <<>>
  BY <1>1, <1>3, LineTypes, AppendFront DEF Before, Current
<1>5. ASSUME NEW c \in Bytes \ {Newline}
      PROVE  /\ Before(Append(text, c)) = Before(text)
             /\ Current(Append(text, c)) = Append(Current(text), c)
  <2>1. Lines(Append(text, c)) = Append(Before(text), Append(Current(text), c))
    BY LinesFacts DEF AddByte, Before, Current
  <2>2. Append(Current(text), c) \in Texts
    BY <1>2, AppendProperties DEF Texts
  <2> DEFINE f == Before(text)
             e == Append(Current(text), c)
  <2>3. f \in Seq(Texts) /\ e \in Texts /\ Lines(Append(text, c)) = Append(f, e)
    BY <1>2, <2>1, <2>2
  <2> HIDE DEF f, e
  <2>4. Before(Append(text, c)) = f /\ Current(Append(text, c)) = e
    BY <2>3, AppendFront DEF Before, Current
  <2>5. QED
    BY <2>4 DEF f, e
<1>6. QED
  BY <1>2, <1>4, <1>5

---------------------------------------------------------------------------
(* Trimming.                                                               *)

(* The part of a line between two of its places.                           *)
LEMMA Part ==
    ASSUME NEW S, NEW s \in Seq(S), NEW a \in 1 .. Len(s), NEW b \in a .. Len(s)
    PROVE  /\ SubSeq(s, a, b) \in Seq(S) /\ Len(SubSeq(s, a, b)) = b - a + 1
           /\ SubSeq(s, a, b) # <<>>
           /\ \A k \in 1 .. (b - a + 1) : SubSeq(s, a, b)[k] = s[a + k - 1]
           /\ SubSeq(s, a, b)[1] = s[a] /\ Last(SubSeq(s, a, b)) = s[b]
<1>1. a \in Int /\ b \in Int /\ a <= b /\ Len(s) \in Nat /\ \A i \in a .. b : s[i] \in S
  OBVIOUS
<1> DEFINE q == SubSeq(s, a, b)
<1>2. q \in Seq(S) /\ Len(q) = b - a + 1 /\ \A k \in 1 .. (b - a + 1) : q[k] = s[a + k - 1]
  BY <1>1, SubSeqProperties
<1> HIDE DEF q
<1>3. q # <<>>
  BY <1>1, <1>2
<1>4. 1 \in 1 .. (b - a + 1) /\ a + 1 - 1 = a
  BY <1>1
<1>5. b - a + 1 \in 1 .. (b - a + 1) /\ a + (b - a + 1) - 1 = b
  BY <1>1
<1>6. q[1] = s[a] /\ Last(q) = s[b]
  BY <1>2, <1>4, <1>5 DEF Last
<1>7. QED
  BY <1>2, <1>3, <1>6 DEF q

LEMMA SolidFacts ==
    ASSUME NEW l \in Texts
    PROVE  /\ Len(l) \in Nat /\ DOMAIN l = 1 .. Len(l)
           /\ Solid(l) \in SUBSET (1 .. Len(l))
           /\ Solid(l) # {} =>
                /\ Min(Solid(l)) \in Solid(l) /\ Max(Solid(l)) \in Solid(l)
                /\ \A n \in Solid(l) : Min(Solid(l)) <= n /\ n <= Max(Solid(l))
                /\ Min(Solid(l)) \in 1 .. Len(l)
                /\ Max(Solid(l)) \in Min(Solid(l)) .. Len(l)
<1>1. Len(l) \in Nat /\ DOMAIN l = 1 .. Len(l)
  BY DEF Texts
<1> DEFINE S == Solid(l)
<1>2. S \in SUBSET (1 .. Len(l)) /\ S \in SUBSET Nat
  BY <1>1 DEF Solid
<1> HIDE DEF S
<1>3. ASSUME S # {}
      PROVE  /\ Min(S) \in S /\ Max(S) \in S
             /\ \A n \in S : Min(S) <= n /\ n <= Max(S)
             /\ Min(S) \in 1 .. Len(l) /\ Max(S) \in Min(S) .. Len(l)
  <2>1. Min(S) \in S /\ \A n \in S : Min(S) <= n
    BY <1>2, <1>3, MinIsMin
  <2>2. Max(S) \in S /\ \A n \in S : n <= Max(S)
    BY <1>1, <1>2, <1>3, MaxIsMax
  <2>3. Min(S) \in 1 .. Len(l) /\ Max(S) \in 1 .. Len(l) /\ Min(S) <= Max(S)
    BY <1>2, <2>1, <2>2
  <2>4. QED
    BY <1>1, <2>1, <2>2, <2>3
<1>4. QED
  BY <1>1, <1>2, <1>3 DEF S

LEMMA TrimFacts ==
    ASSUME NEW l \in Texts
    PROVE  /\ Trim(l) \in Texts
           /\ Trim(l) = <<>> <=> Solid(l) = {}
           /\ Trim(l) # <<>> =>
                /\ Trim(l)[1] \in Bytes \ {Blank} /\ Last(Trim(l)) \in Bytes \ {Blank}
                /\ Len(Trim(l)) \in Nat \ {0}
<1>1. CASE Solid(l) = {}
  BY <1>1, LineTypes DEF Trim
<1>2. CASE Solid(l) # {}
  <2> DEFINE a == Min(Solid(l))
             b == Max(Solid(l))
  <2>1. /\ a \in Solid(l) /\ b \in Solid(l) /\ a \in 1 .. Len(l) /\ b \in a .. Len(l)
        /\ Len(l) \in Nat /\ DOMAIN l = 1 .. Len(l)
    BY <1>2, SolidFacts
  <2>2. Trim(l) = SubSeq(l, a, b)
    BY <1>2 DEF Trim
  <2>3. l[a] \in Bytes \ {Blank} /\ l[b] \in Bytes \ {Blank}
    BY <2>1 DEF Solid, Texts
  <2> HIDE DEF a, b
  <2>4. /\ SubSeq(l, a, b) \in Texts /\ SubSeq(l, a, b) # <<>>
        /\ SubSeq(l, a, b)[1] = l[a] /\ Last(SubSeq(l, a, b)) = l[b]
    BY <2>1, Part DEF Texts
  <2>5. Len(SubSeq(l, a, b)) \in Nat \ {0}
    BY <2>4 DEF Texts
  <2>6. QED
    BY <1>2, <2>2, <2>3, <2>4, <2>5
<1>3. QED
  BY <1>1, <1>2

(* Blanks at the end of a line are trimmed.                                *)
LEMMA TrimBlank ==
    ASSUME NEW l \in Texts
    PROVE  Trim(Append(l, Blank)) = Trim(l)
<1> DEFINE m == Append(l, Blank)
           n == Len(l)
<1>1. /\ m \in Texts /\ n \in Nat /\ Len(m) = n + 1 /\ m[n + 1] = Blank
      /\ DOMAIN l = 1 .. n /\ DOMAIN m = 1 .. (n + 1)
      /\ \A k \in 1 .. n : m[k] = l[k]
  BY LineTypes DEF Texts
<1> HIDE DEF m, n
<1>2. Solid(m) = Solid(l)
  BY <1>1 DEF Solid
<1>3. CASE Solid(l) = {}
  BY <1>2, <1>3 DEF Trim, m
<1>4. CASE Solid(l) # {}
  <2> DEFINE a == Min(Solid(l))
             b == Max(Solid(l))
  <2>1. a \in 1 .. Len(l) /\ b \in a .. Len(l)
    BY <1>4, SolidFacts
  <2>2. Trim(l) = SubSeq(l, a, b) /\ Trim(m) = SubSeq(m, a, b)
    BY <1>2, <1>4 DEF Trim
  <2> HIDE DEF a, b
  <2>3. a \in 1 .. Len(m) /\ b \in a .. Len(m)
    BY <1>1, <2>1 DEF n
  <2>4. /\ SubSeq(l, a, b) \in Texts /\ Len(SubSeq(l, a, b)) = b - a + 1
        /\ \A k \in 1 .. (b - a + 1) : SubSeq(l, a, b)[k] = l[a + k - 1]
    BY <2>1, Part DEF Texts
  <2>5. /\ SubSeq(m, a, b) \in Texts /\ Len(SubSeq(m, a, b)) = b - a + 1
        /\ \A k \in 1 .. (b - a + 1) : SubSeq(m, a, b)[k] = m[a + k - 1]
    BY <1>1, <2>3, Part DEF Texts
  <2>6. \A k \in 1 .. (b - a + 1) : a + k - 1 \in 1 .. n
    BY <1>1, <2>1 DEF n
  <2>7. \A k \in 1 .. (b - a + 1) : SubSeq(m, a, b)[k] = SubSeq(l, a, b)[k]
    BY <1>1, <2>4, <2>5, <2>6
  <2>8. SubSeq(m, a, b) = SubSeq(l, a, b)
    BY <2>4, <2>5, <2>7, SeqEqual DEF Texts
  <2>9. QED
    BY <2>2, <2>8 DEF m
<1>5. QED
  BY <1>3, <1>4

(* Another byte keeps the blanks before it, if there are any.              *)
LEMMA TrimByte ==
    ASSUME NEW l \in Texts, NEW c \in Bytes, c # Blank
    PROVE  \E gap \in Texts :
             /\ Trim(Append(l, c)) = Append(Trim(l) \o gap, c)
             /\ gap # <<>> => gap[1] = Blank
             /\ gap = <<>> <=> Trim(l) = <<>> \/ Last(l) # Blank
<1> DEFINE m == Append(l, c)
           n == Len(l)
<1>1. /\ m \in Texts /\ n \in Nat /\ Len(m) = n + 1 /\ m[n + 1] = c
      /\ DOMAIN l = 1 .. n /\ DOMAIN m = 1 .. (n + 1)
      /\ \A k \in 1 .. n : m[k] = l[k]
  BY DEF Texts
<1> HIDE DEF m, n
<1>2. Solid(m) = Solid(l) \cup {n + 1}
  BY <1>1 DEF Solid
<1>3. Solid(m) # {} /\ Max(Solid(m)) = n + 1
  <2>1. n + 1 \in Nat /\ Solid(m) \in SUBSET (1 .. (n + 1)) /\ n + 1 \in Solid(m)
    BY <1>1, <1>2, SolidFacts
  <2>2. QED
    BY <2>1, MaxLast
<1> DEFINE a == Min(Solid(m))
<1>4. a \in Solid(m) /\ a \in 1 .. (n + 1) /\ \A k \in Solid(m) : a <= k
  BY <1>1, <1>3, SolidFacts
<1>5. Trim(m) = SubSeq(m, a, n + 1)
  BY <1>3 DEF Trim
<1> HIDE DEF a
<1> DEFINE T == SubSeq(m, a, n + 1)
<1>6. /\ T \in Texts /\ Len(T) = n + 1 - a + 1
      /\ \A k \in 1 .. (n + 1 - a + 1) : T[k] = m[a + k - 1]
  <2>1. a \in 1 .. Len(m) /\ n + 1 \in a .. Len(m)
    BY <1>1, <1>4
  <2>2. QED
    BY <1>1, <2>1, Part DEF Texts
<1> HIDE DEF T
<1>7. CASE Solid(l) = {}
  <2>1. a = n + 1 /\ Trim(l) = <<>>
    BY <1>2, <1>4, <1>7 DEF Trim
  <2>2. T \in Seq(Bytes) /\ Len(T) = 1 /\ T[1] = c
    BY <1>1, <1>6, <2>1 DEF Texts
  <2>3. Append(<<>> \o <<>>, c) = T
    <3>1. Append(<<>> \o <<>>, c) = <<c>>
      OBVIOUS
    <3>2. <<c>> \in Seq(Bytes) /\ Len(<<c>>) = 1 /\ <<c>>[1] = c
      OBVIOUS
    <3>3. <<c>> = T
      BY <2>2, <3>2, SeqEqual
    <3>4. QED
      BY <3>1, <3>3
  <2>4. QED
    BY <1>5, <2>1, <2>3, LineTypes DEF m, T
<1>8. CASE Solid(l) # {}
  <2> DEFINE b == Max(Solid(l))
             gap == SubSeq(l, b + 1, n)
  <2>1. /\ Min(Solid(l)) \in Solid(l) /\ b \in Solid(l)
        /\ \A k \in Solid(l) : Min(Solid(l)) <= k /\ k <= b
        /\ Min(Solid(l)) \in 1 .. n /\ b \in Min(Solid(l)) .. n
        /\ Solid(l) \in SUBSET (1 .. n)
    BY <1>1, <1>8, SolidFacts DEF n
  <2>2. a = Min(Solid(l))
    <3>1. a \in Solid(l) \cup {n + 1} /\ a <= Min(Solid(l)) /\ Min(Solid(l)) <= n
      BY <1>1, <1>2, <1>4, <2>1
    <3>2. a \in Solid(l)
      BY <1>1, <1>4, <2>1, <3>1
    <3>3. QED
      BY <1>4, <2>1, <3>1, <3>2
  <2>3. Trim(l) = SubSeq(l, a, b)
    BY <1>8, <2>2 DEF Trim
  <2>4. a \in 1 .. n /\ b \in a .. n
    BY <2>1, <2>2
  <2> HIDE DEF b
  <2>5. /\ SubSeq(l, a, b) \in Texts /\ SubSeq(l, a, b) # <<>>
        /\ Len(SubSeq(l, a, b)) = b - a + 1
        /\ \A k \in 1 .. (b - a + 1) : SubSeq(l, a, b)[k] = l[a + k - 1]
    <3>1. l \in Seq(Bytes) /\ a \in 1 .. Len(l) /\ b \in a .. Len(l)
      BY <2>4 DEF Texts, n
    <3>2. QED
      BY <3>1, Part, ZenonT(60) DEF Texts
  <2>6. /\ gap \in Texts /\ Len(gap) = n - b
        /\ \A k \in 1 .. (n - b) : gap[k] = l[b + k]
    <3>1. b + 1 \in Int /\ n \in Int /\ \A i \in (b + 1) .. n : l[i] \in Bytes
      BY <1>1, <2>4 DEF Texts
    <3>2. /\ gap \in Seq(Bytes)
          /\ Len(gap) = IF b + 1 <= n THEN n - (b + 1) + 1 ELSE 0
          /\ \A i \in 1 .. (n - (b + 1) + 1) : gap[i] = l[(b + 1) + i - 1]
      BY <3>1, SubSeqProperties
    <3> HIDE DEF gap
    <3>3. b \in Int /\ b <= n /\ n \in Int
      BY <1>1, <2>4
    <3>4. (IF b + 1 <= n THEN n - (b + 1) + 1 ELSE 0) = n - b
      BY <3>3
    <3>5. \A k \in 1 .. (n - b) : k \in 1 .. (n - (b + 1) + 1) /\ (b + 1) + k - 1 = b + k
      BY <3>3
    <3>6. QED
      BY <3>2, <3>4, <3>5 DEF Texts
  <2> HIDE DEF gap
  <2> DEFINE p == SubSeq(l, a, b)
             u == p \o gap
  <2>7. /\ u \in Texts /\ Len(u) = n - a + 1
        /\ \A k \in 1 .. (n - a + 1) : u[k] = l[a + k - 1]
    <3>1. p \in Seq(Bytes) /\ Len(p) = b - a + 1 /\ gap \in Seq(Bytes)
      BY <2>5, <2>6 DEF Texts
    <3>2. \A k \in 1 .. (b - a + 1) : p[k] = l[a + k - 1]
      BY <2>5
    <3> HIDE DEF p
    <3>3. /\ u \in Seq(Bytes) /\ Len(u) = Len(p) + Len(gap)
          /\ \A k \in 1 .. Len(p) + Len(gap) :
               u[k] = IF k <= Len(p) THEN p[k] ELSE gap[k - Len(p)]
      BY <3>1, ConcatProperties
    <3> HIDE DEF u
    <3>4. a \in Int /\ b \in Int /\ n \in Int /\ a <= b /\ b <= n /\ 1 <= a
      BY <1>1, <2>4
    <3>5. Len(u) = n - a + 1
      BY <2>6, <3>1, <3>3, <3>4
    <3>6. ASSUME NEW k \in 1 .. (n - a + 1) PROVE u[k] = l[a + k - 1]
      <4>1. u[k] = IF k <= b - a + 1 THEN p[k] ELSE gap[k - (b - a + 1)]
        BY <2>6, <3>1, <3>3, <3>4
      <4>2. CASE k <= b - a + 1
        BY <3>2, <3>4, <4>1, <4>2
      <4>3. CASE ~(k <= b - a + 1)
        <5>1. /\ k - (b - a + 1) \in 1 .. (n - b)
              /\ b + (k - (b - a + 1)) = a + k - 1
          BY <3>4, <4>3
        <5>2. QED
          BY <2>6, <4>1, <4>3, <5>1
      <4>4. QED
        BY <4>2, <4>3
    <3>7. QED
      BY <3>3, <3>5, <3>6 DEF Texts
  <2>8. Append(u, c) = T
    <3> HIDE DEF u
    <3>1. a \in Int /\ n \in Int /\ 1 <= a /\ a <= n
      BY <1>1, <2>4
    <3>2. /\ Append(u, c) \in Seq(Bytes) /\ Len(Append(u, c)) = Len(u) + 1
          /\ \A k \in 1 .. Len(u) : Append(u, c)[k] = u[k]
          /\ Append(u, c)[Len(u) + 1] = c
      BY <2>7, AppendProperties DEF Texts
    <3>3. Len(Append(u, c)) = Len(T)
      BY <1>6, <2>7, <3>1, <3>2
    <3>4. ASSUME NEW k \in 1 .. Len(T) PROVE Append(u, c)[k] = T[k]
      <4>1. k \in 1 .. (n + 1 - a + 1) /\ T[k] = m[a + k - 1]
        BY <1>6
      <4>2. CASE k = Len(u) + 1
        <5>1. a + k - 1 = n + 1
          BY <2>7, <3>1, <4>2
        <5>2. QED
          BY <1>1, <3>2, <4>1, <4>2, <5>1
      <4>3. CASE k # Len(u) + 1
        <5>1. k \in 1 .. (n - a + 1) /\ k \in 1 .. Len(u) /\ a + k - 1 \in 1 .. n
          BY <2>7, <3>1, <4>1, <4>3
        <5>2. QED
          BY <1>1, <2>7, <3>2, <4>1, <5>1
      <4>4. QED
        BY <4>2, <4>3
    <3>5. T \in Seq(Bytes)
      BY <1>6 DEF Texts
    <3>6. QED
      BY <3>2, <3>3, <3>4, <3>5, SeqEqual
  <2>9. gap # <<>> => gap[1] = Blank
    <3> SUFFICES ASSUME gap # <<>> PROVE gap[1] = Blank
      OBVIOUS
    <3>1. Len(gap) \in Nat \ {0}
      BY <2>6 DEF Texts
    <3>2. 1 \in 1 .. (n - b) /\ b + 1 \in 1 .. n
      BY <1>1, <2>4, <2>6, <3>1
    <3>3. b + 1 \notin Solid(l)
      BY <2>1, <2>4
    <3>4. QED
      BY <1>1, <2>6, <3>2, <3>3 DEF Solid
  <2>10. gap = <<>> <=> Last(l) # Blank
    <3>1. gap = <<>> <=> b = n
      <4>1. gap = <<>> <=> Len(gap) = 0
        BY <2>6 DEF Texts
      <4>2. QED
        BY <1>1, <2>4, <2>6, <4>1
    <3>2. n \in 1 .. n /\ Last(l) = l[n]
      BY <1>1, <2>4 DEF Last, n
    <3>3. n \in Solid(l) <=> Last(l) # Blank
      BY <1>1, <3>2 DEF Solid
    <3>4. n \in Solid(l) <=> b = n
      BY <1>1, <2>1, <2>4
    <3>5. QED
      BY <3>1, <3>3, <3>4
  <2>11. QED
    BY <1>5, <2>3, <2>5, <2>6, <2>8, <2>9, <2>10 DEF m, T
<1>9. QED
  BY <1>7, <1>8

---------------------------------------------------------------------------
(* The first word of a record.                                             *)

LEMMA BareWord ==
    ASSUME NEW q \in Texts, Bare(q)
    PROVE  FirstWord(q) = q
BY DEF Bare, FirstWord

LEMMA WordThenBlank ==
    ASSUME NEW w \in Texts, NEW b \in Texts, NEW z \in Texts,
           Bare(w), b # <<>>, b[1] = Blank
    PROVE  FirstWord((w \o b) \o z) = w
<1> DEFINE q == (w \o b) \o z
           n == Len(w)
<1>1. w \o b \in Seq(Bytes) /\ z \in Seq(Bytes) /\ n \in Nat /\ DOMAIN w = 1 .. n
  BY ConcatProperties DEF Texts
<1>2. Len(b) \in Nat \ {0} /\ Len(w \o b) = n + Len(b)
  BY DEF Texts
<1>3. (w \o b)[n + 1] = Blank /\ \A k \in 1 .. n : (w \o b)[k] = w[k]
  <2>1. 1 \in 1 .. Len(b)
    BY <1>2
  <2>2. QED
    BY <2>1, Joined DEF Texts
<1>4. /\ q \in Seq(Bytes) /\ Len(q) \in Nat /\ DOMAIN q = 1 .. Len(q) /\ n + 1 \in DOMAIN q
      /\ q[n + 1] = Blank /\ \A k \in 1 .. n : q[k] = w[k]
  <2> DEFINE u == w \o b
  <2>1. u \in Seq(Bytes) /\ Len(u) = n + Len(b) /\ n + 1 \in 1 .. Len(u)
    BY <1>1, <1>2
  <2>2. u[n + 1] = Blank /\ \A k \in 1 .. n : u[k] = w[k] /\ k \in 1 .. Len(u)
    BY <1>1, <1>2, <1>3
  <2> HIDE DEF u
  <2>3. /\ u \o z \in Seq(Bytes) /\ Len(u \o z) = Len(u) + Len(z)
        /\ Len(u) \in Nat /\ Len(z) \in Nat
        /\ \A k \in 1 .. Len(u) : (u \o z)[k] = u[k]
        /\ DOMAIN (u \o z) = 1 .. (Len(u) + Len(z))
    <3>1. u \in Seq(Bytes) /\ z \in Seq(Bytes)
      BY <1>1, <2>1
    <3>2. QED
      BY <3>1, Joined
  <2>4. n + 1 \in 1 .. (Len(u) + Len(z))
    BY <2>1, <2>3
  <2>5. QED
    BY <2>1, <2>2, <2>3, <2>4 DEF u
<1> HIDE DEF q
<1> DEFINE blanks == {k \in DOMAIN q : q[k] = Blank}
<1>5. blanks \in SUBSET Nat /\ n + 1 \in blanks
  BY <1>4
<1>6. \A k \in blanks : k \in Nat \ {0} /\ k \notin 1 .. n
  BY <1>1, <1>4 DEF Bare
<1>7. FirstWord(q) = SubSeq(q, 1, Min(blanks) - 1)
  BY <1>5 DEF FirstWord
<1> HIDE DEF blanks
<1>8. Min(blanks) = n + 1
  <2>1. Min(blanks) \in blanks /\ \A k \in blanks : Min(blanks) <= k
    BY <1>5, MinIsMin
  <2> DEFINE m == Min(blanks)
  <2>2. m \in blanks /\ m <= n + 1
    BY <1>5, <2>1
  <2>3. m \in Nat \ {0} /\ m \notin 1 .. n /\ n \in Nat
    BY <1>1, <1>6, <2>2
  <2> HIDE DEF m, n
  <2>4. m = n + 1
    BY <2>2, <2>3
  <2>5. QED
    BY <2>4 DEF m
<1>9. SubSeq(q, 1, n) = w
  <2>1. 1 \in Int /\ n \in Int /\ \A k \in 1 .. n : q[k] \in Bytes
    BY <1>1, <1>4 DEF Texts
  <2>2. /\ SubSeq(q, 1, n) \in Seq(Bytes)
        /\ Len(SubSeq(q, 1, n)) = IF 1 <= n THEN n - 1 + 1 ELSE 0
        /\ \A i \in 1 .. (n - 1 + 1) : SubSeq(q, 1, n)[i] = q[1 + i - 1]
    BY <2>1, SubSeqProperties
  <2>3. w \in Seq(Bytes) /\ Len(SubSeq(q, 1, n)) = Len(w)
    BY <1>1, <2>2 DEF Texts
  <2>4. \A i \in 1 .. n : SubSeq(q, 1, n)[i] = w[i]
    <3>1. \A i \in 1 .. n : i \in 1 .. (n - 1 + 1) /\ 1 + i - 1 = i
      BY <1>1
    <3>2. QED
      BY <1>4, <2>2, <3>1
  <2>5. QED
    BY <1>1, <2>2, <2>3, <2>4, SeqEqual
<1>10. QED
  BY <1>1, <1>7, <1>8, <1>9 DEF q

(* A part without a blank is inside the first word.                        *)
LEMMA BareAhead ==
    ASSUME NEW q \in Texts, NEW z \in Texts, Bare(q)
    PROVE  /\ FirstWord(q \o z) \in Texts /\ Len(FirstWord(q \o z)) >= Len(q)
           /\ Len(q) \in Nat
           /\ \A k \in 1 .. Len(q) : FirstWord(q \o z)[k] = q[k]
<1> DEFINE u == q \o z
           n == Len(q)
           blanks == {k \in DOMAIN u : u[k] = Blank}
<1>1. /\ u \in Seq(Bytes) /\ n \in Nat /\ Len(u) = n + Len(z) /\ Len(z) \in Nat
      /\ DOMAIN q = 1 .. n /\ DOMAIN u = 1 .. Len(u) /\ \A k \in 1 .. n : u[k] = q[k]
  BY Joined DEF Texts
<1> HIDE DEF u
<1>2. CASE blanks = {}
  <2>1. FirstWord(u) = u
    BY <1>2 DEF FirstWord
  <2>2. QED
    BY <1>1, <2>1 DEF Texts, u
<1>3. CASE blanks # {}
  <2>1. FirstWord(u) = SubSeq(u, 1, Min(blanks) - 1)
    BY <1>3 DEF FirstWord
  <2>2. \A k \in blanks : k \in 1 .. Len(u) /\ k \notin 1 .. n
    BY <1>1 DEF Bare
  <2>3. Len(u) \in Nat /\ blanks \in SUBSET Nat
    BY <1>1
  <2> HIDE DEF blanks
  <2>4. Min(blanks) \in blanks
    BY <1>3, <2>3, MinIsMin
  <2> DEFINE x == Min(blanks)
             m == x - 1
  <2>5. m \in Nat /\ n <= m /\ m <= Len(u)
    <3>1. x \in 1 .. Len(u) /\ x \notin 1 .. n /\ n \in Nat /\ Len(u) \in Nat
      BY <1>1, <2>2, <2>3, <2>4
    <3> HIDE DEF x, n
    <3>2. QED
      BY <3>1
  <2>6. FirstWord(u) = SubSeq(u, 1, m)
    BY <2>1
  <2> HIDE DEF m
  <2>7. 1 \in Int /\ m \in Int /\ \A k \in 1 .. m : u[k] \in Bytes
    BY <1>1, <2>5
  <2>8. /\ SubSeq(u, 1, m) \in Seq(Bytes)
        /\ Len(SubSeq(u, 1, m)) = IF 1 <= m THEN m - 1 + 1 ELSE 0
        /\ \A i \in 1 .. (m - 1 + 1) : SubSeq(u, 1, m)[i] = u[1 + i - 1]
    BY <2>7, SubSeqProperties
  <2>9. Len(SubSeq(u, 1, m)) = m
    BY <2>5, <2>8
  <2>10. \A k \in 1 .. n : k \in 1 .. (m - 1 + 1) /\ 1 + k - 1 = k
    BY <1>1, <2>5
  <2>11. \A k \in 1 .. n : SubSeq(u, 1, m)[k] = q[k]
    BY <1>1, <2>8, <2>10
  <2>12. QED
    BY <1>1, <2>5, <2>6, <2>8, <2>9, <2>11 DEF Texts, u
<1>4. QED
  BY <1>2, <1>3

(* A directive is short and has letters only.                              *)
LEMMA RefusesFacts ==
    ASSUME NEW w \in Texts, Refuses(w)
    PROVE  /\ Len(w) \in 1 .. (WordMax - 1)
           /\ ~Has(w, Backslash) /\ ~Has(w, Backtick)
<1> DEFINE d == Folded(w)
           n == Len(w)
<1>1. n \in Nat /\ DOMAIN w = 1 .. n
  BY DEF Texts
<1>2. DOMAIN d = 1 .. n /\ \A k \in 1 .. n : d[k] = Fold(w[k])
  BY <1>1 DEF Folded
<1>3. d = [k \in 1 .. n |-> d[k]]
  BY <1>1 DEF Folded
<1>4. d \in Unsupported
  BY DEF Refuses
<1> HIDE DEF d, n
<1>5. Len(d) = n
  <2> DEFINE X == {d[k] : k \in 1 .. n}
  <2>1. d \in [1 .. n -> X]
    BY <1>3
  <2> HIDE DEF X
  <2>2. d \in Seq(X)
    BY <1>1, <2>1
  <2>3. DOMAIN d = 1 .. Len(d) /\ Len(d) \in Nat
    BY <2>2
  <2>4. QED
    BY <1>1, <1>2, <2>3
<1>6. n \in 1 .. (WordMax - 1)
  BY <1>4, <1>5, WordAssumption
<1>7. Fold(Backslash) = Backslash /\ Fold(Backtick) = Backtick
  BY LettersAssumption DEF Fold
<1>8. \A k \in 1 .. n : d[k] # Backslash /\ d[k] # Backtick
  BY <1>2, <1>4, WordAssumption
<1>9. QED
  BY <1>1, <1>2, <1>6, <1>7, <1>8 DEF Has, n

---------------------------------------------------------------------------
(* When the first word decides.                                            *)

LEMMA SettledLonger ==
    ASSUME NEW w, NEW q \in Texts, NEW y \in Texts, NEW m, Settled(w, q, m)
    PROVE  Settled(w, q \o y, m)
<1> SUFFICES ASSUME NEW z \in Texts
             PROVE  /\ Refuses(w) => IsRefused((q \o y) \o z)
                    /\ ~m /\ IsRefused((q \o y) \o z) => Refuses(w)
  BY DEF Settled, Texts
<1>1. (q \o y) \o z = q \o (y \o z)
  BY ConcatAssociative DEF Texts
<1>2. y \o z \in Seq(Bytes)
  BY ConcatProperties DEF Texts
<1> DEFINE x == y \o z
<1> HIDE DEF x
<1>3. x \in Seq(Bytes) /\ (q \o y) \o z = q \o x
  BY <1>1, <1>2 DEF x
<1>4. /\ Refuses(w) => IsRefused(q \o x)
      /\ ~m /\ IsRefused(q \o x) => Refuses(w)
  BY <1>3 DEF Settled
<1>5. QED
  BY <1>3, <1>4

LEMMA SettledWeaker ==
    ASSUME NEW w, NEW q, NEW m, NEW k, m => k, Settled(w, q, m)
    PROVE  Settled(w, q, k)
BY DEF Settled

(* What a settled record is judged by.                                     *)
LEMMA SettledJudges ==
    ASSUME NEW w, NEW q \in Texts, NEW y \in Texts, NEW m, Settled(w, q, m)
    PROVE  /\ Refuses(w) => IsRefused(q \o y)
           /\ ~m /\ IsRefused(q \o y) => Refuses(w)
BY DEF Settled, Texts

(* A blank after the word settles it.                                      *)
LEMMA SettledWord ==
    ASSUME NEW w \in Texts, Bare(w), NEW b \in Texts, b # <<>>, b[1] = Blank, NEW m
    PROVE  Settled(w, w \o b, m)
<1> SUFFICES ASSUME NEW z \in Texts
             PROVE  IsRefused((w \o b) \o z) <=> Refuses(w)
  BY DEF Settled, Texts
<1>1. FirstWord((w \o b) \o z) = w
  BY WordThenBlank
<1>2. QED
  BY <1>1 DEF IsRefused, Refuses

(* So does a word that is longer than any directive,                       *)
LEMMA SettledLong ==
    ASSUME NEW q \in Texts, Bare(q), Len(q) >= WordMax, NEW m
    PROVE  Settled(<<>>, q, m)
<1>1. ASSUME NEW w \in Texts, Len(w) = 0 \/ Len(w) >= WordMax PROVE ~Refuses(w)
  <2> SUFFICES ASSUME Refuses(w) PROVE FALSE
    OBVIOUS
  <2>1. Len(w) \in 1 .. (WordMax - 1) /\ WordMax \in Nat
    BY RefusesFacts, WordAssumption
  <2>2. QED
    BY <1>1, <2>1
<1>2. ~Refuses(<<>>)
  <2> DEFINE e == <<>>
  <2>1. e \in Texts /\ Len(e) = 0
    BY LineTypes
  <2> HIDE DEF e
  <2>2. ~Refuses(e)
    BY <1>1, <2>1
  <2>3. QED
    BY <2>2 DEF e
<1>3. ASSUME NEW z \in Texts PROVE ~IsRefused(q \o z)
  <2> DEFINE w == FirstWord(q \o z)
  <2>1. w \in Texts /\ Len(w) >= Len(q) /\ Len(q) \in Nat /\ WordMax \in Nat
    BY BareAhead, WordAssumption
  <2> HIDE DEF w
  <2>2. Len(w) >= WordMax
    <3>1. Len(w) \in Nat
      BY <2>1 DEF Texts
    <3>2. QED
      BY <2>1, <3>1
  <2>3. ~Refuses(w)
    BY <1>1, <2>1, <2>2
  <2>4. QED
    BY <2>3 DEF w, IsRefused, Refuses
<1>4. QED
  BY <1>2, <1>3 DEF Settled, Texts

(* and one with a backtick in it.                                          *)
LEMMA SettledBacktick ==
    ASSUME NEW q \in Texts, Bare(q), Has(q, Backtick), NEW m
    PROVE  Settled(q, q, m)
<1>1. ~Refuses(q)
  BY RefusesFacts
<1>2. ASSUME NEW z \in Texts PROVE ~IsRefused(q \o z)
  <2> DEFINE w == FirstWord(q \o z)
  <2>1. /\ w \in Texts /\ Len(w) >= Len(q) /\ Len(q) \in Nat
        /\ \A k \in 1 .. Len(q) : w[k] = q[k]
    BY BareAhead
  <2> HIDE DEF w
  <2>2. Len(w) \in Nat /\ DOMAIN w = 1 .. Len(w) /\ DOMAIN q = 1 .. Len(q)
    BY <2>1 DEF Texts
  <2>3. PICK k \in 1 .. Len(q) : q[k] = Backtick
    BY <2>2 DEF Has
  <2>4. k \in 1 .. Len(w)
    BY <2>1, <2>2
  <2>5. Has(w, Backtick)
    BY <2>1, <2>2, <2>3, <2>4 DEF Has
  <2>6. ~Refuses(w)
    BY <2>1, <2>5, RefusesFacts
  <2>7. QED
    BY <2>6 DEF w, IsRefused, Refuses
<1>3. QED
  BY <1>1, <1>2 DEF Settled, Texts

(* A bare record is judged by the whole of it.                             *)
LEMMA BareJudged ==
    ASSUME NEW q \in Texts, Bare(q)
    PROVE  IsRefused(q) <=> Refuses(q)
BY BareWord DEF IsRefused, Refuses

LEMMA HasLonger ==
    ASSUME NEW q \in Texts, NEW y \in Texts, NEW c
    PROVE  Has(q, c) \/ Has(y, c) => Has(q \o y, c)
<1>1. /\ Len(q) \in Nat /\ Len(y) \in Nat
      /\ \A k \in 1 .. Len(q) : (q \o y)[k] = q[k]
      /\ \A k \in 1 .. Len(y) : (q \o y)[Len(q) + k] = y[k]
      /\ DOMAIN q = 1 .. Len(q) /\ DOMAIN y = 1 .. Len(y)
      /\ DOMAIN (q \o y) = 1 .. (Len(q) + Len(y))
  BY Joined DEF Texts
<1>2. ASSUME NEW k \in 1 .. Len(q), q[k] = c PROVE Has(q \o y, c)
  <2>1. k \in 1 .. (Len(q) + Len(y))
    BY <1>1
  <2>2. QED
    BY <1>1, <1>2, <2>1 DEF Has
<1>3. ASSUME NEW k \in 1 .. Len(y), y[k] = c PROVE Has(q \o y, c)
  <2>1. Len(q) + k \in 1 .. (Len(q) + Len(y))
    BY <1>1
  <2>2. QED
    BY <1>1, <1>3, <2>1 DEF Has
<1>4. QED
  BY <1>1, <1>2, <1>3 DEF Has

LEMMA HasLast ==
    ASSUME NEW q \in Texts, q # <<>>
    PROVE  Has(q, Last(q)) /\ Has(q, q[1])
<1>1. Len(q) \in Nat \ {0} /\ DOMAIN q = 1 .. Len(q)
  BY DEF Texts
<1>2. 1 \in DOMAIN q /\ Len(q) \in DOMAIN q
  BY <1>1
<1>3. \A n \in DOMAIN q : Has(q, q[n])
  BY Zenon DEF Has
<1>4. QED
  BY <1>2, <1>3 DEF Last

(* Bare parts.                                                             *)
LEMMA BareAppend ==
    ASSUME NEW q \in Texts, NEW c \in Bytes, c # Blank, Bare(q)
    PROVE  Bare(Append(q, c))
<1>1. /\ Len(q) \in Nat /\ DOMAIN q = 1 .. Len(q)
      /\ DOMAIN Append(q, c) = 1 .. (Len(q) + 1)
      /\ \A k \in 1 .. Len(q) : Append(q, c)[k] = q[k]
      /\ Append(q, c)[Len(q) + 1] = c
  BY DEF Texts
<1>2. QED
  BY <1>1 DEF Bare

LEMMA BareFront ==
    ASSUME NEW q \in Texts, q # <<>>, Bare(q)
    PROVE  Bare(Front(q))
<1>1. /\ Front(q) \in Seq(Bytes) /\ Len(q) \in Nat \ {0} /\ Len(Front(q)) = Len(q) - 1
      /\ \A k \in 1 .. (Len(q) - 1) : Front(q)[k] = q[k]
  BY FrontLast DEF Texts
<1>2. DOMAIN q = 1 .. Len(q) /\ DOMAIN Front(q) = 1 .. (Len(q) - 1)
  BY <1>1 DEF Texts
<1>3. QED
  BY <1>1, <1>2 DEF Bare

---------------------------------------------------------------------------
(* The records the lines are assembled into.                               *)

Records ==
    [line : Nat, record : Texts, list : BOOLEAN, more : BOOLEAN, from : Nat, bad : SUBSET Nat]

LEMMA AddLineType ==
    ASSUME NEW r \in Records, NEW line \in Texts
    PROVE  AddLine(r, line) \in Records
<1> DEFINE l == Trim(line)
<1>1. CASE l = <<>> \/ l[1] = Comment
  <2>1. [r EXCEPT !.line = @ + 1] \in Records
    BY DEF Records
  <2>2. QED
    BY <1>1, <2>1 DEF AddLine
<1>2. CASE ~(l = <<>> \/ l[1] = Comment)
  <2>1. l \in Texts /\ l # <<>>
    BY <1>2, TrimFacts
  <2> HIDE DEF l
  <2>2. Front(l) \in Texts
    BY <2>1, FrontLast DEF Texts
  <2>3. r.record \in Texts /\ r.line \in Nat /\ r.from \in Nat /\ r.bad \in SUBSET Nat
        /\ r.list \in BOOLEAN
    BY DEF Records
  <2> DEFINE list == IF r.list THEN l[1] # Backtick ELSE Last(l) = Backtick
             more == list \/ Last(l) = Backslash
             from == IF r.more THEN r.from ELSE r.line + 1
             glued == r.record \o (IF ~list /\ Last(l) = Backslash THEN Front(l) ELSE l)
             record == IF more THEN glued ELSE <<>>
             bad == r.bad \cup IF ~more /\ IsRefused(glued) THEN {from} ELSE {}
  <2>4. list \in BOOLEAN /\ more \in BOOLEAN
    BY <2>3
  <2>5. from \in Nat /\ r.line + 1 \in Nat
    BY <2>3
  <2>6. glued \in Texts
    BY <2>1, <2>2, <2>3, ConcatProperties DEF Texts
  <2>7. AddLine(r, line) =
          [line |-> r.line + 1, record |-> record, list |-> list, more |-> more,
           from |-> from, bad |-> bad]
    BY <1>2 DEF AddLine, AddSolid, l
  <2> HIDE DEF list, more, from, glued
  <2>8. record \in Texts /\ bad \in SUBSET Nat
    BY <2>3, <2>5, <2>6, LineTypes
  <2> HIDE DEF record, bad
  <2>9. QED
    BY <2>4, <2>5, <2>7, <2>8 DEF Records
<1>3. QED
  BY <1>1, <1>2

LEMMA AssembledFacts ==
    ASSUME NEW ls \in Seq(Texts), NEW l \in Texts
    PROVE  /\ Assembled(ls) \in Records
           /\ Assembled(<<>>) = NoRecord
           /\ Assembled(Append(ls, l)) = AddLine(Assembled(ls), l)
<1>1. NoRecord \in Records
  BY LineTypes DEF NoRecord, Records
<1>2. \A r \in Records, x \in Texts : AddLine(r, x) \in Records
  BY AddLineType
<1> HIDE DEF Records
<1>3. QED
  BY <1>1, <1>2, AddLineAppend

LEMMA MissedFacts ==
    ASSUME NEW ls \in Seq(Texts), NEW l \in Texts
    PROVE  /\ Missed(Append(ls, l)) <=> Missed(ls) \/ EndsInBackslashBlank(l)
           /\ ~Missed(<<>>)
<1> DEFINE n == Len(ls)
<1>1. /\ n \in Nat /\ DOMAIN ls = 1 .. n /\ DOMAIN Append(ls, l) = 1 .. (n + 1)
      /\ \A k \in 1 .. n : Append(ls, l)[k] = ls[k]
      /\ Append(ls, l)[n + 1] = l
  OBVIOUS
<1> HIDE DEF n
<1> DEFINE u == Append(ls, l)
<1> HIDE DEF u
<1>2. ToSet(u) = ToSet(ls) \cup {l}
  <2>1. \A k \in 1 .. (n + 1) : k \in 1 .. n \/ k = n + 1
    BY <1>1
  <2>2. n + 1 \in 1 .. (n + 1) /\ \A k \in 1 .. n : k \in 1 .. (n + 1)
    BY <1>1
  <2>3. QED
    BY <1>1, <2>1, <2>2 DEF ToSet, u
<1>3. ToSet(<<>>) = {}
  <2>1. ASSUME NEW x \in ToSet(<<>>) PROVE FALSE
    BY <2>1 DEF ToSet
  <2>2. QED
    BY <2>1
<1>4. QED
  BY <1>2, <1>3 DEF Missed, u

LEMMA NoLine == Trim(<<>>) = <<>> /\ ~EndsInBackslashBlank(<<>>)
<1> DEFINE e == <<>>
<1>1. e \in Texts /\ Len(e) = 0
  BY LineTypes
<1> HIDE DEF e
<1>2. Solid(e) = {}
  BY <1>1, SolidFacts
<1>3. Trim(e) = <<>>
  BY <1>1, <1>2, TrimFacts
<1>4. QED
  BY <1>3 DEF e, EndsInBackslashBlank

---------------------------------------------------------------------------
(* One byte of a line.                                                     *)

(* The types of what the scanner and the assembly hold.                    *)
LEMMA PartTypes ==
    ASSUME NEW s \in Scans, NEW r \in Records, NEW l \in Texts
    PROVE  /\ s.line \in Nat /\ s.rec_line \in Nat /\ s.in_record \in BOOLEAN
           /\ s.in_backticks \in BOOLEAN /\ s.word_done \in BOOLEAN
           /\ s.word \in Texts /\ Len(s.word) <= WordMax
           /\ r.line \in Nat /\ r.record \in Texts /\ r.list \in BOOLEAN
           /\ r.more \in BOOLEAN /\ r.from \in Nat /\ r.bad \in SUBSET Nat
           /\ Trim(l) \in Texts /\ r.record \o Trim(l) \in Texts
<1>1. /\ s.line \in Nat /\ s.rec_line \in Nat /\ s.in_record \in BOOLEAN
      /\ s.in_backticks \in BOOLEAN /\ s.word_done \in BOOLEAN
      /\ s.word \in Texts /\ Len(s.word) <= WordMax
  BY DEF Scans, Texts
<1>2. /\ r.line \in Nat /\ r.record \in Texts /\ r.list \in BOOLEAN
      /\ r.more \in BOOLEAN /\ r.from \in Nat /\ r.bad \in SUBSET Nat
  BY DEF Records
<1>3. Trim(l) \in Texts
  BY TrimFacts
<1>4. r.record \o Trim(l) \in Texts
  BY <1>2, <1>3, ConcatProperties DEF Texts
<1>5. QED
  BY <1>1, <1>2, <1>3, <1>4

(* A line is ignored when it has no solid byte, or its first one starts a  *)
(* comment.                                                                *)
LEMMA IgnoredLine ==
    ASSUME NEW s \in Scans, NEW l \in Texts, LinePart(s, l)
    PROVE  /\ s.first = Nul <=> Trim(l) = <<>>
           /\ Ignored(s) <=> Trim(l) = <<>> \/ Trim(l)[1] = Comment
           /\ Trim(l) # <<>> => s.first = Trim(l)[1] /\ s.last = Last(Trim(l))
<1>1. Nul \notin Bytes
  BY LineTypes
<1>2. Trim(l) # <<>> => Trim(l)[1] \in Bytes
  BY TrimFacts
<1>3. /\ s.first = IF Trim(l) = <<>> THEN Nul ELSE Trim(l)[1]
      /\ s.last = IF Trim(l) = <<>> THEN Nul ELSE Last(Trim(l))
  BY DEF LinePart
<1>4. QED
  BY <1>1, <1>2, <1>3 DEF Ignored

LEMMA BlankStep ==
    ASSUME NEW s \in Scans, NEW r \in Records, NEW l \in Texts, NEW m, Follows(s, r, l, m)
    PROVE  Follows(ScanBlank(s), r, Append(l, Blank), m)
<1> DEFINE b == Append(l, Blank)
           u == ScanBlank(s)
           glued == r.record \o Trim(l)
<1>1. Trim(b) = Trim(l) /\ Last(b) = Blank
  BY TrimBlank, AppendFront, LineTypes DEF Texts
<1>2. /\ u.line = s.line /\ u.rec_line = s.rec_line /\ u.in_record = s.in_record
      /\ u.in_backticks = s.in_backticks /\ u.first = s.first /\ u.last = s.last
      /\ u.word = s.word
      /\ u.word_done = (s.word_done \/ (~Ignored(s) /\ s.word # <<>>))
  BY DEF ScanBlank, Scans
<1>3. Ignored(u) <=> Ignored(s)
  BY <1>2 DEF Ignored
<1> HIDE DEF b, u
<1>4. LinePart(u, b)
  BY <1>1, <1>2 DEF Follows, LinePart
<1>5. RecordPart(u, r, m)
  BY <1>2, <1>3 DEF Follows, RecordPart
<1>6. WordPart(u, r, b, m)
  <2>1. CASE Ignored(s)
    BY <2>1, <1>1, <1>2, <1>3 DEF Follows, WordPart
  <2>2. CASE ~Ignored(s)
    <3>1. Trim(l) # <<>> /\ r.record \in Texts /\ Trim(l) \in Texts
      BY <2>2, IgnoredLine, PartTypes DEF Follows
    <3>2. glued # <<>>
      BY <3>1, JoinFront DEF Texts
    <3>3. \/ s.word = glued /\ Bare(glued)
          \/ s.word_done /\ Settled(s.word, Front(glued), m)
      BY <2>2 DEF Follows, WordPart
    <3>4. r.record \o Trim(b) = glued
      BY <1>1
    <3> HIDE DEF glued
    <3>5. CASE s.word = glued /\ Bare(glued)
      BY <3>5, <3>2, <3>4, <2>2, <1>1, <1>2, <1>3 DEF WordPart
    <3>6. CASE s.word_done /\ Settled(s.word, Front(glued), m)
      BY <3>6, <3>4, <2>2, <1>2, <1>3 DEF WordPart
    <3>7. QED
      BY <3>3, <3>5, <3>6
  <2>3. QED
    BY <2>1, <2>2
<1>7. QED
  BY <1>4, <1>5, <1>6 DEF Follows, b, u

(* A byte for the word either fits or makes it longer than a directive.    *)
LEMMA CollectStep ==
    ASSUME NEW t \in Scans, NEW c \in Bytes, c # Blank, Bare(t.word), ~t.word_done, NEW m
    PROVE  LET u == Collect(t, c) IN
           /\ u.line = t.line /\ u.rec_line = t.rec_line /\ u.in_record = t.in_record
           /\ u.in_backticks = t.in_backticks /\ u.first = t.first /\ u.last = t.last
           /\ \/ u.word = Append(t.word, c) /\ Bare(u.word) /\ ~u.word_done
              \/ u.word_done /\ Settled(u.word, t.word, m)
<1> DEFINE u == Collect(t, c)
<1>1. t.word \in Texts /\ Len(t.word) \in Nat /\ WordMax \in Nat
  BY WordAssumption DEF Scans, Texts
<1>2. CASE Len(t.word) < WordMax
  <2>1. Bare(Append(t.word, c))
    BY <1>1, BareAppend
  <2>2. /\ u.line = t.line /\ u.rec_line = t.rec_line /\ u.in_record = t.in_record
        /\ u.in_backticks = t.in_backticks /\ u.first = t.first /\ u.last = t.last
        /\ u.word = Append(t.word, c) /\ u.word_done = t.word_done
    BY <1>2 DEF Collect, Scans
  <2>3. QED
    BY <2>1, <2>2
<1>3. CASE ~(Len(t.word) < WordMax)
  <2>1. Len(t.word) >= WordMax
    BY <1>1, <1>3
  <2>2. Settled(<<>>, t.word, m)
    BY <1>1, <2>1, SettledLong
  <2>3. /\ u.line = t.line /\ u.rec_line = t.rec_line /\ u.in_record = t.in_record
        /\ u.in_backticks = t.in_backticks /\ u.first = t.first /\ u.last = t.last
        /\ u.word = <<>> /\ u.word_done
    BY <1>3 DEF Collect, Scans
  <2>4. QED
    BY <2>2, <2>3
<1>4. QED
  BY <1>2, <1>3

(* What a byte other than a blank does to the scanner.                     *)
LEMMA ByteEffect ==
    ASSUME NEW s \in Scans, NEW c \in Bytes, c # Blank, NEW m
    PROVE  LET u == ScanByte(s, c)
               starts == s.first = Nul /\ c # Comment /\ ~s.in_record
           IN /\ u.line = s.line /\ u.in_backticks = s.in_backticks /\ u.last = c
              /\ u.first = IF s.first = Nul THEN c ELSE s.first
              /\ u.in_record <=> s.in_record \/ starts
              /\ u.rec_line = IF starts THEN s.line ELSE s.rec_line
              /\ u.first = Comment \/ s.word_done =>
                   u.word = s.word /\ u.word_done = s.word_done
              /\ ~(u.first = Comment \/ s.word_done) /\ Bare(s.word) =>
                   \/ u.word = Append(s.word, c) /\ Bare(u.word) /\ ~u.word_done
                   \/ u.word_done /\ Settled(u.word, s.word, m)
<1> DEFINE u == ScanByte(s, c)
           starts == s.first = Nul /\ c # Comment /\ ~s.in_record
           t == [s EXCEPT
                  !.first = IF @ = Nul THEN c ELSE @,
                  !.last = c,
                  !.in_record = @ \/ starts,
                  !.rec_line = IF starts THEN s.line ELSE @]
<1>1. t \in Scans
  BY DEF Scans
<1>2. /\ t.line = s.line /\ t.in_backticks = s.in_backticks /\ t.last = c
      /\ t.first = IF s.first = Nul THEN c ELSE s.first
      /\ t.in_record <=> s.in_record \/ starts
      /\ t.rec_line = IF starts THEN s.line ELSE s.rec_line
      /\ t.word = s.word /\ t.word_done = s.word_done
  BY DEF Scans
<1>3. u = IF t.first = Comment \/ t.word_done THEN t ELSE Collect(t, c)
  BY DEF ScanByte
<1> HIDE DEF t, u
<1>4. CASE t.first = Comment \/ t.word_done
  <2>1. u = t
    BY <1>3, <1>4
  <2>2. QED
    BY <2>1, <1>2, <1>4 DEF u
<1>5. CASE ~(t.first = Comment \/ t.word_done)
  <2>1. u = Collect(t, c)
    BY <1>3, <1>5
  <2>2. CASE Bare(s.word)
    <3>1. Bare(t.word) /\ ~t.word_done
      BY <2>2, <1>2, <1>5
    <3>2. /\ u.line = t.line /\ u.rec_line = t.rec_line /\ u.in_record = t.in_record
          /\ u.in_backticks = t.in_backticks /\ u.first = t.first /\ u.last = t.last
          /\ \/ u.word = Append(t.word, c) /\ Bare(u.word) /\ ~u.word_done
             \/ u.word_done /\ Settled(u.word, t.word, m)
      BY <3>1, <2>1, <1>1, CollectStep
    <3>3. QED
      BY <3>2, <1>2, <1>5 DEF u
  <2>3. CASE ~Bare(s.word)
    <3>1. /\ u.line = t.line /\ u.rec_line = t.rec_line /\ u.in_record = t.in_record
          /\ u.in_backticks = t.in_backticks /\ u.first = t.first /\ u.last = t.last
      BY <2>1, <1>1 DEF Collect, Scans
    <3>2. QED
      BY <3>1, <2>3, <1>2, <1>5 DEF u
  <2>4. QED
    BY <2>2, <2>3
<1>6. QED
  BY <1>4, <1>5

(* A longer line: what the record glued so far becomes.                    *)
Grown(q, l, c, gap) ==
    LET glued == q \o Trim(l)
        b == Append(l, c)
    IN /\ q \o Trim(b) = Append(glued \o gap, c)
       /\ Front(q \o Trim(b)) = glued \o gap
       /\ Trim(b) # <<>> /\ Last(Trim(b)) = c /\ Last(b) = c
       /\ Trim(b)[1] = IF Trim(l) = <<>> THEN c ELSE Trim(l)[1]
       /\ gap # <<>> => gap[1] = Blank
       /\ gap = <<>> <=> Trim(l) = <<>> \/ Last(l) # Blank

LEMMA GluedByte ==
    ASSUME NEW q \in Texts, NEW l \in Texts, NEW c \in Bytes, c # Blank
    PROVE  \E gap \in Texts : Grown(q, l, c, gap)
<1> DEFINE b == Append(l, c)
           t == Trim(l)
<1>1. t \in Texts
  BY TrimFacts
<1>2. PICK gap \in Texts :
        /\ Trim(b) = Append(t \o gap, c)
        /\ gap # <<>> => gap[1] = Blank
        /\ gap = <<>> <=> t = <<>> \/ Last(l) # Blank
  BY TrimByte
<1> HIDE DEF t
<1> DEFINE x == t \o gap
<1>3. x \in Texts
  BY <1>1, ConcatProperties DEF Texts
<1>4. q \o x = (q \o t) \o gap /\ q \o t \in Texts
  BY <1>1, ConcatAssociative, ConcatProperties, SMTT(40) DEF Texts
<1>5. (t # <<>> => x[1] = t[1]) /\ (t = <<>> => x = <<>>)
  <2>1. CASE t # <<>>
    <3>1. Len(t) \in Nat \ {0}
      BY <1>1, <2>1 DEF Texts
    <3>2. 1 \in 1 .. Len(t)
      BY <3>1
    <3>3. QED
      BY <1>1, <2>1, <3>2, Joined DEF Texts
  <2>2. CASE t = <<>>
    <3>1. gap = <<>>
      BY <1>2, <2>2
    <3>2. QED
      BY <1>1, <2>2, <3>1, ConcatEmptySeq DEF Texts
  <2>3. QED
    BY <2>1, <2>2
<1> HIDE DEF x
<1> DEFINE y == q \o x
<1>6. q \o Append(x, c) = Append(y, c) /\ y \in Texts
  BY <1>3, JoinAppend, ConcatProperties DEF Texts
<1> HIDE DEF y
<1>7. Front(Append(y, c)) = y /\ Last(Append(x, c)) = c /\ Append(x, c) # <<>>
      /\ Last(b) = c
  BY <1>3, <1>6, AppendFront DEF Texts
<1>8. Append(x, c)[1] = IF t = <<>> THEN c ELSE t[1]
  <2>1. CASE t = <<>>
    BY <2>1, <1>5
  <2>2. CASE t # <<>>
    <3>1. x # <<>>
      <4>1. Len(x) = Len(t) + Len(gap) /\ Len(t) \in Nat \ {0} /\ Len(gap) \in Nat
        BY <1>1, <2>2, Joined DEF Texts, x
      <4>2. Len(x) # 0
        BY <4>1
      <4>3. QED
        BY <4>2
    <3>2. Len(x) \in Nat \ {0}
      BY <1>3, <3>1 DEF Texts
    <3>3. Append(x, c)[1] = x[1]
      BY <1>3, <3>2 DEF Texts
    <3>4. QED
      BY <3>3, <2>2, <1>5
  <2>3. QED
    BY <2>1, <2>2
<1>9. Trim(b) = Append(x, c) /\ y = (q \o t) \o gap
  BY <1>2, <1>4 DEF x, y
<1> HIDE DEF b
<1>10. QED
  BY <1>2, <1>6, <1>7, <1>8, <1>9 DEF Grown, b, t

LEMMA LastPart ==
    ASSUME NEW q \in Texts, q # <<>>
    PROVE  /\ Front(q) \in Texts /\ <<Last(q)>> \in Texts
           /\ Front(q) \o <<Last(q)>> = q
<1>1. Front(q) \in Texts /\ Last(q) \in Bytes /\ Front(q) \o <<Last(q)>> = q
  BY FrontLast DEF Texts
<1>2. <<Last(q)>> \in Texts
  BY <1>1 DEF Texts
<1>3. QED
  BY <1>1, <1>2

LEMMA ByteStep ==
    ASSUME NEW s \in Scans, NEW r \in Records, NEW l \in Texts, NEW m,
           NEW c \in Bytes, c # Blank, Follows(s, r, l, m)
    PROVE  Follows(ScanByte(s, c), r, Append(l, c), m)
<1> DEFINE b == Append(l, c)
           u == ScanByte(s, c)
           glued == r.record \o Trim(l)
           next == r.record \o Trim(b)
           starts == s.first = Nul /\ c # Comment /\ ~s.in_record
<1>1. r.record \in Texts /\ Trim(l) \in Texts /\ glued \in Texts
      /\ s.word \in Texts /\ s.word_done \in BOOLEAN /\ s.line \in Nat /\ r.line \in Nat
  BY PartTypes
<1>0. PICK gap \in Texts : Grown(r.record, l, c, gap)
  BY <1>1, GluedByte
<1>2. /\ next = Append(glued \o gap, c) /\ Front(next) = glued \o gap
      /\ Trim(b) # <<>> /\ Last(Trim(b)) = c /\ Last(b) = c
      /\ Trim(b)[1] = IF Trim(l) = <<>> THEN c ELSE Trim(l)[1]
      /\ gap # <<>> => gap[1] = Blank
      /\ gap = <<>> <=> Trim(l) = <<>> \/ Last(l) # Blank
  BY <1>0 DEF Grown
<1>3. /\ u.line = s.line /\ u.in_backticks = s.in_backticks /\ u.last = c
      /\ u.first = IF s.first = Nul THEN c ELSE s.first
      /\ u.in_record <=> s.in_record \/ starts
      /\ u.rec_line = IF starts THEN s.line ELSE s.rec_line
      /\ u.first = Comment \/ s.word_done =>
           u.word = s.word /\ u.word_done = s.word_done
      /\ ~(u.first = Comment \/ s.word_done) /\ Bare(s.word) =>
           \/ u.word = Append(s.word, c) /\ Bare(u.word) /\ ~u.word_done
           \/ u.word_done /\ Settled(u.word, s.word, m)
  BY ByteEffect
<1>4. /\ s.first = Nul <=> Trim(l) = <<>>
      /\ Ignored(s) <=> Trim(l) = <<>> \/ Trim(l)[1] = Comment
      /\ Trim(l) # <<>> => s.first = Trim(l)[1] /\ s.last = Last(Trim(l))
  BY IgnoredLine DEF Follows
<1> HIDE DEF b, u, next
<1>5. LinePart(u, b)
  BY <1>2, <1>3, <1>4 DEF LinePart
<1>6. u.first # Nul /\ (Ignored(u) <=> u.first = Comment)
      /\ (Ignored(u) => Ignored(s)) /\ (s.first # Nul => (Ignored(s) <=> Ignored(u)))
      /\ (s.first = Nul => Ignored(s) /\ (Ignored(u) <=> c = Comment))
  BY <1>3, LineTypes DEF Ignored
<1>7. RecordPart(u, r, m)
  <2>1. /\ s.line = r.line + 1
        /\ s.in_backticks = r.list
        /\ r.list => r.more /\ Has(r.record, Backtick)
        /\ ~r.more => r.record = <<>> /\ (Ignored(s) => ~s.word_done)
        /\ s.in_record <=> r.more \/ ~Ignored(s)
        /\ s.in_record => s.rec_line = IF r.more THEN r.from ELSE r.line + 1
        /\ ~m => r.bad = {}
    BY DEF Follows, RecordPart
  <2>2. u.line = r.line + 1 /\ u.in_backticks = r.list
    BY <2>1, <1>3
  <2>3. Ignored(u) => u.word_done = s.word_done
    BY <1>3, <1>6
  <2>4. u.in_record <=> r.more \/ ~Ignored(u)
    BY <2>1, <1>3, <1>6
  <2>5. u.in_record => u.rec_line = IF r.more THEN r.from ELSE r.line + 1
    BY <2>1, <1>3
  <2>6. QED
    BY <2>1, <2>2, <2>3, <2>4, <2>5, <1>6 DEF RecordPart
<1>8. WordPart(u, r, b, m)
  <2>1. CASE Ignored(u)
    <3>1. Ignored(s) /\ u.word = s.word /\ u.word_done = s.word_done
      BY <2>1, <1>3, <1>6
    <3>2. QED
      BY <2>1, <3>1 DEF Follows, WordPart
  <2>2. CASE ~Ignored(u)
    <3>1. SUFFICES \/ u.word = next /\ Bare(next) /\ ~u.word_done
                   \/ u.word_done /\ Settled(u.word, glued \o gap, m)
      BY <1>2, <2>2 DEF WordPart, next
    <3>2. u.first # Comment
      BY <2>2, <1>6
    <3>3. CASE ~s.word_done
      <4>1. s.word = glued /\ Bare(glued) /\ gap = <<>>
        <5>1. CASE s.first = Nul
          <6>1. Trim(l) = <<>> /\ Ignored(s) /\ gap = <<>>
            BY <5>1, <1>2, <1>4
          <6>2. glued = r.record
            BY <6>1, <1>1, ConcatEmptySeq DEF Texts
          <6>3. s.word = r.record /\ Bare(r.record)
            BY <6>1, <3>3 DEF Follows, WordPart
          <6>4. QED
            BY <6>1, <6>2, <6>3
        <5>2. CASE s.first # Nul
          <6>1. ~Ignored(s)
            BY <5>2, <2>2, <1>6
          <6>2. s.word = glued /\ Bare(glued) /\ Last(l) # Blank
            BY <6>1, <3>3 DEF Follows, WordPart
          <6>3. QED
            BY <6>2, <1>2
        <5>3. QED
          BY <5>1, <5>2
      <4>2. glued \o gap = glued
        BY <4>1, <1>1, ConcatEmptySeq DEF Texts
      <4> HIDE DEF glued
      <4>3. \/ u.word = Append(glued, c) /\ Bare(u.word) /\ ~u.word_done
            \/ u.word_done /\ Settled(u.word, glued, m)
        BY <3>2, <3>3, <4>1, <1>3
      <4>4. QED
        BY <4>2, <4>3, <1>2
    <3>4. CASE s.word_done
      <4>1. u.word = s.word /\ u.word_done
        BY <3>4, <1>3
      <4>2. CASE s.first = Nul
        <5>1. Trim(l) = <<>> /\ Ignored(s)
          BY <4>2, <1>4
        <5>2. glued = r.record
          BY <5>1, <1>1, ConcatEmptySeq DEF Texts
        <5>3. Settled(s.word, glued, m)
          BY <5>1, <5>2, <3>4 DEF Follows, WordPart
        <5> HIDE DEF glued
        <5>4. Settled(s.word, glued \o gap, m)
          BY <5>3, <1>1, SettledLonger
        <5>5. QED
          BY <5>4, <4>1
      <4>3. CASE s.first # Nul
        <5>1. ~Ignored(s) /\ Trim(l) # <<>>
          BY <4>3, <2>2, <1>4, <1>6
        <5>2. \/ s.word = glued /\ Bare(glued) /\ Last(l) = Blank
              \/ Settled(s.word, Front(glued), m)
          BY <5>1, <3>4 DEF Follows, WordPart
        <5>3. glued # <<>>
          BY <5>1, <1>1, JoinFront DEF Texts
        <5> HIDE DEF glued
        <5>4. CASE s.word = glued /\ Bare(glued) /\ Last(l) = Blank
          <6>1. gap # <<>> /\ gap[1] = Blank
            BY <5>1, <5>4, <1>2
          <6>2. Settled(glued, glued \o gap, m)
            BY <6>1, <5>4, <1>1, SettledWord
          <6>3. QED
            BY <6>2, <5>4, <4>1
        <5>5. CASE Settled(s.word, Front(glued), m)
          <6>1. /\ Front(glued) \in Texts /\ <<Last(glued)>> \in Texts
                /\ Front(glued) \o <<Last(glued)>> = glued
            BY <5>3, <1>1, LastPart
          <6>2. Settled(s.word, Front(glued) \o <<Last(glued)>>, m)
            BY <6>1, <5>5, SettledLonger
          <6>3. Settled(s.word, glued, m)
            BY <6>1, <6>2
          <6>4. Settled(s.word, glued \o gap, m)
            BY <6>3, <1>1, SettledLonger
          <6>5. QED
            BY <6>4, <4>1
        <5>6. QED
          BY <5>2, <5>4, <5>5
      <4>4. QED
        BY <4>2, <4>3
    <3>5. QED
      BY <3>3, <3>4, <1>1
  <2>3. QED
    BY <2>1, <2>2
<1>9. QED
  BY <1>5, <1>7, <1>8 DEF Follows, b, u

---------------------------------------------------------------------------
(* The end of a line.                                                      *)

(* The scanner at the start of the next line.                              *)
Started(s) == [coraza_rules_scan_eol(s) EXCEPT !.line = @ + 1]

LEMMA EolEffect ==
    ASSUME NEW s \in Scans
    PROVE  LET u == Started(s) IN
           /\ u.line = s.line + 1 /\ u.rec_line = s.rec_line
           /\ u.first = Nul /\ u.last = Nul
           /\ coraza_rules_scan_eol(s).rec_line = u.rec_line
           /\ coraza_rules_scan_eol(s).in_backticks = u.in_backticks
           /\ coraza_rules_scan_eol(s).word = u.word
           /\ Ignored(s) =>
                /\ u.in_backticks = s.in_backticks /\ u.in_record = s.in_record
                /\ u.word = s.word /\ u.word_done = s.word_done
           /\ ~Ignored(s) =>
                /\ u.in_backticks = InBackticks(s)
                /\ ~Continues(s) => ~u.in_record /\ ~u.word_done /\ u.word = <<>>
                /\ Continues(s) => u.in_record = s.in_record /\ u.word_done = s.word_done
                /\ InBackticks(s) => u.word = s.word
                /\ ~InBackticks(s) /\ s.last = Backslash =>
                     u.word = IF ~s.word_done /\ s.word # <<>> /\ Last(s.word) = Backslash
                              THEN Front(s.word) ELSE s.word
<1> DEFINE open == InBackticks(s)
           kept == IF open \/ s.last # Backslash THEN s ELSE DropBackslash(s)
           t == [LineState(kept) EXCEPT !.in_backticks = open]
           e == coraza_rules_scan_eol(s)
           F == {"line", "rec_line", "in_record", "in_backticks", "word_done",
                 "first", "last", "word"}
<1>1. e = IF Ignored(s) THEN LineState(s)
          ELSE IF Continues(s) THEN t
          ELSE [t EXCEPT !.in_record = FALSE, !.word_done = FALSE, !.word = <<>>]
  BY DEF coraza_rules_scan_eol
<1>2. s = [f \in F |-> s[f]]
  BY DEF Scans
<1>3. DOMAIN s = F
  BY <1>2
<1>4. /\ DOMAIN kept = F /\ kept.line = s.line /\ kept.rec_line = s.rec_line
      /\ kept.in_record = s.in_record /\ kept.word_done = s.word_done
      /\ open => kept.word = s.word
      /\ ~open /\ s.last = Backslash =>
           kept.word = IF ~s.word_done /\ s.word # <<>> /\ Last(s.word) = Backslash
                       THEN Front(s.word) ELSE s.word
  BY <1>3 DEF DropBackslash
<1> HIDE DEF kept
<1>5. /\ DOMAIN t = F /\ t.line = s.line /\ t.rec_line = s.rec_line
      /\ t.in_record = s.in_record /\ t.word_done = s.word_done /\ t.word = kept.word
      /\ t.in_backticks = open /\ t.first = Nul /\ t.last = Nul
  BY <1>4 DEF LineState
<1> HIDE DEF t, e, open
<1>6. /\ Started(s).line = e.line + 1 /\ Started(s).rec_line = e.rec_line
      /\ Started(s).in_record = e.in_record /\ Started(s).in_backticks = e.in_backticks
      /\ Started(s).word_done = e.word_done /\ Started(s).word = e.word
      /\ Started(s).first = e.first /\ Started(s).last = e.last
  <2>1. DOMAIN e = F
    BY <1>1, <1>3, <1>5 DEF LineState
  <2>2. QED
    BY <2>1 DEF Started, e
<1>7. CASE Ignored(s)
  <2>1. e = LineState(s)
    BY <1>1, <1>7
  <2>2. /\ DOMAIN e = F /\ e.line = s.line /\ e.rec_line = s.rec_line
        /\ e.in_record = s.in_record /\ e.in_backticks = s.in_backticks
        /\ e.word_done = s.word_done /\ e.word = s.word /\ e.first = Nul /\ e.last = Nul
    BY <2>1, <1>3 DEF LineState
  <2>3. QED
    BY <2>2, <1>6, <1>7 DEF e
<1>8. CASE ~Ignored(s) /\ Continues(s)
  <2>1. e = t
    BY <1>1, <1>8
  <2>2. QED
    BY <2>1, <1>4, <1>5, <1>6, <1>8 DEF e, open
<1>9. CASE ~Ignored(s) /\ ~Continues(s)
  <2>1. e = [t EXCEPT !.in_record = FALSE, !.word_done = FALSE, !.word = <<>>]
    BY <1>1, <1>9
  <2>2. /\ DOMAIN e = F /\ e.line = s.line /\ e.rec_line = s.rec_line
        /\ ~e.in_record /\ e.in_backticks = open
        /\ ~e.word_done /\ e.word = <<>> /\ e.first = Nul /\ e.last = Nul
    BY <2>1, <1>5
  <2>3. ~open /\ s.last # Backslash
    BY <1>9 DEF Continues, open
  <2>4. QED
    BY <2>2, <2>3, <1>6, <1>9 DEF e, open
<1>10. QED
  BY <1>7, <1>8, <1>9

(* What a line that is not ignored does to the record.                     *)
LEMMA SolidEffect ==
    ASSUME NEW s \in Scans, NEW r \in Records, NEW l \in Texts, NEW m,
           Follows(s, r, l, m), ~Ignored(s)
    PROVE  LET a == AddLine(r, l)
               glued == r.record \o Trim(l)
           IN /\ a.line = r.line + 1 /\ a.from = s.rec_line /\ s.in_record
              /\ a.list = InBackticks(s) /\ a.more = Continues(s)
              /\ ~Continues(s) =>
                   /\ a.record = <<>>
                   /\ a.bad = r.bad \cup IF IsRefused(glued) THEN {s.rec_line} ELSE {}
              /\ Continues(s) => a.bad = r.bad
              /\ InBackticks(s) => a.record = glued /\ Has(glued, Backtick)
              /\ ~InBackticks(s) /\ s.last = Backslash => a.record = Front(glued)
              /\ glued # <<>> /\ glued \in Texts /\ Last(glued) = s.last
<1> DEFINE t == Trim(l)
           a == AddLine(r, l)
           glued == r.record \o t
<1>1. /\ t # <<>> /\ t[1] # Comment /\ s.first = t[1] /\ s.last = Last(t)
  BY IgnoredLine DEF Follows
<1>2. /\ s.in_backticks = r.list
      /\ r.list => r.more /\ Has(r.record, Backtick)
      /\ s.in_record
      /\ s.rec_line = IF r.more THEN r.from ELSE r.line + 1
  BY DEF Follows, RecordPart
<1>3. r.record \in Texts /\ t \in Texts /\ r.list \in BOOLEAN /\ r.line \in Nat
  BY PartTypes
<1>4. AddLine(r, l) = AddSolid(r, t)
  BY <1>1 DEF AddLine
<1> HIDE DEF t
<1>5. /\ glued # <<>> /\ glued \in Texts /\ Last(glued) = s.last
      /\ Front(glued) = r.record \o Front(t)
  BY <1>1, <1>3, JoinFront DEF Texts
<1>6. InBackticks(s) => Has(glued, Backtick)
  <2>1. Has(r.record, Backtick) \/ Has(t, Backtick) => Has(glued, Backtick)
    BY <1>3, HasLonger
  <2>2. Has(t, Last(t))
    BY <1>1, <1>3, HasLast
  <2>3. QED
    BY <2>1, <2>2, <1>1, <1>2 DEF InBackticks
<1> DEFINE list == IF r.list THEN t[1] # Backtick ELSE Last(t) = Backtick
           more == list \/ Last(t) = Backslash
           from == IF r.more THEN r.from ELSE r.line + 1
           whole == r.record \o (IF ~list /\ Last(t) = Backslash THEN Front(t) ELSE t)
           bad == r.bad \cup IF ~more /\ IsRefused(whole) THEN {from} ELSE {}
<1>7. a = [line |-> r.line + 1, record |-> IF more THEN whole ELSE <<>>,
           list |-> list, more |-> more, from |-> from, bad |-> bad]
  BY <1>4 DEF AddSolid
<1>8. list = InBackticks(s) /\ more = Continues(s) /\ from = s.rec_line
  BY <1>1, <1>2 DEF InBackticks, Continues
<1>9. whole = IF ~InBackticks(s) /\ s.last = Backslash THEN Front(glued) ELSE glued
  BY <1>1, <1>5, <1>8
<1> HIDE DEF list, more, from, whole, glued, a
<1>10. /\ a.line = r.line + 1 /\ a.from = from /\ a.list = list /\ a.more = more
       /\ a.record = (IF more THEN whole ELSE <<>>)
       /\ a.bad = r.bad \cup IF ~more /\ IsRefused(whole) THEN {from} ELSE {}
  BY <1>7
<1>11. ~Continues(s) => ~InBackticks(s) /\ s.last # Backslash
  BY DEF Continues
<1>12. InBackticks(s) \/ s.last = Backslash => Continues(s)
  BY DEF Continues
<1>13. ~Continues(s) =>
         /\ a.record = <<>>
         /\ a.bad = r.bad \cup IF IsRefused(glued) THEN {s.rec_line} ELSE {}
  BY <1>8, <1>9, <1>10, <1>11
<1>14. Continues(s) => a.bad = r.bad /\ a.record = whole
  BY <1>8, <1>10
<1>15. QED
  BY <1>2, <1>5, <1>6, <1>8, <1>9, <1>10, <1>12, <1>13, <1>14 DEF glued, a, t

(* The word of a record that ends here, and the one the engine reads.      *)
LEMMA WordJudges ==
    ASSUME NEW s \in Scans, NEW r \in Records, NEW l \in Texts, NEW m,
           Follows(s, r, l, m), ~Ignored(s)
    PROVE  LET glued == r.record \o Trim(l) IN
           /\ Refuses(s.word) => IsRefused(glued)
           /\ ~m /\ IsRefused(glued) => Refuses(s.word)
<1> DEFINE glued == r.record \o Trim(l)
<1>1. glued # <<>> /\ glued \in Texts
  BY SolidEffect
<1>2. \/ s.word = glued /\ Bare(glued)
      \/ Settled(s.word, Front(glued), m)
  BY DEF Follows, WordPart
<1> HIDE DEF glued
<1>3. CASE s.word = glued /\ Bare(glued)
  BY <1>3, <1>1, BareJudged DEF glued
<1>4. CASE Settled(s.word, Front(glued), m)
  <2>1. /\ Front(glued) \in Texts /\ <<Last(glued)>> \in Texts
        /\ Front(glued) \o <<Last(glued)>> = glued
    BY <1>1, LastPart
  <2>2. /\ Refuses(s.word) => IsRefused(Front(glued) \o <<Last(glued)>>)
        /\ ~m /\ IsRefused(Front(glued) \o <<Last(glued)>>) => Refuses(s.word)
    BY <2>1, <1>4, SettledJudges
  <2>3. QED
    BY <2>1, <2>2 DEF glued
<1>5. QED
  BY <1>2, <1>3, <1>4

(* At the start of a line the scanner has no byte of it.                   *)
LEMMA StartFollows ==
    ASSUME NEW u, NEW a, NEW m, u.first = Nul, u.last = Nul, RecordPart(u, a, m),
           IF u.word_done THEN Settled(u.word, a.record, m)
           ELSE u.word = a.record /\ Bare(a.record)
    PROVE  Follows(u, a, <<>>, m)
<1>1. Trim(<<>>) = <<>> /\ Ignored(u)
  BY NoLine DEF Ignored
<1>2. LinePart(u, <<>>)
  BY <1>1 DEF LinePart
<1>3. WordPart(u, a, <<>>, m)
  BY <1>1 DEF WordPart
<1>4. QED
  BY <1>2, <1>3 DEF Follows

(* A blank line or a comment leaves the record alone.                      *)
LEMMA IgnoredStep ==
    ASSUME NEW s \in Scans, NEW r \in Records, NEW l \in Texts, NEW m, NEW k, m => k,
           Follows(s, r, l, m), Ignored(s)
    PROVE  Follows(Started(s), AddLine(r, l), <<>>, k)
<1> DEFINE u == Started(s)
           a == AddLine(r, l)
<1>1. /\ u.line = s.line + 1 /\ u.rec_line = s.rec_line
      /\ u.first = Nul /\ u.last = Nul
      /\ u.in_backticks = s.in_backticks /\ u.in_record = s.in_record
      /\ u.word = s.word /\ u.word_done = s.word_done
  BY EolEffect
<1>2. Trim(l) = <<>> \/ Trim(l)[1] = Comment
  BY IgnoredLine DEF Follows
<1>3. a = [r EXCEPT !.line = @ + 1]
  BY <1>2 DEF AddLine
<1>4. /\ a.line = r.line + 1 /\ a.record = r.record /\ a.list = r.list
      /\ a.more = r.more /\ a.from = r.from /\ a.bad = r.bad
  BY <1>3 DEF Records
<1>5. r.line \in Nat
  BY PartTypes
<1>6. Ignored(u)
  BY <1>1 DEF Ignored
<1> HIDE DEF u, a
<1>7. RecordPart(u, a, k)
  <2>1. /\ s.line = r.line + 1
        /\ s.in_backticks = r.list
        /\ r.list => r.more /\ Has(r.record, Backtick)
        /\ ~r.more => r.record = <<>> /\ ~s.word_done
        /\ s.in_record <=> r.more
        /\ s.in_record => s.rec_line = IF r.more THEN r.from ELSE r.line + 1
        /\ ~m => r.bad = {}
    BY DEF Follows, RecordPart
  <2>2. u.in_record => u.rec_line = IF a.more THEN a.from ELSE a.line + 1
    BY <2>1, <1>1, <1>4
  <2>3. QED
    BY <2>1, <2>2, <1>1, <1>4, <1>6 DEF RecordPart
<1>8. IF s.word_done THEN Settled(s.word, r.record, m)
      ELSE s.word = r.record /\ Bare(r.record)
  BY DEF Follows, WordPart
<1>9. IF u.word_done THEN Settled(u.word, a.record, k)
      ELSE u.word = a.record /\ Bare(a.record)
  BY <1>1, <1>4, <1>8, SettledWeaker
<1>10. QED
  BY <1>1, <1>7, <1>9, StartFollows DEF u, a

(* A line that ends the record: refused by the scanner, or clean unless a  *)
(* continuation was missed.                                                *)
LEMMA EndStep ==
    ASSUME NEW s \in Scans, NEW r \in Records, NEW l \in Texts, NEW m, NEW k, m => k,
           Follows(s, r, l, m), ~Ignored(s), ~Continues(s)
    PROVE  LET a == AddLine(r, l) IN
           /\ Refuses(s.word) =>
                ~a.list /\ s.rec_line \in a.bad /\ (~k => a.bad = {s.rec_line})
           /\ ~Refuses(s.word) => Follows(Started(s), a, <<>>, k)
<1> DEFINE u == Started(s)
           a == AddLine(r, l)
           glued == r.record \o Trim(l)
<1>1. /\ a.line = r.line + 1 /\ ~a.list /\ ~a.more /\ a.record = <<>>
      /\ a.bad = r.bad \cup IF IsRefused(glued) THEN {s.rec_line} ELSE {}
  <2>1. ~InBackticks(s)
    BY DEF Continues
  <2>2. /\ a.line = r.line + 1 /\ a.list = InBackticks(s) /\ a.more = Continues(s)
        /\ a.record = <<>>
        /\ a.bad = r.bad \cup IF IsRefused(glued) THEN {s.rec_line} ELSE {}
    BY SolidEffect
  <2>3. QED
    BY <2>1, <2>2
<1>2. /\ Refuses(s.word) => IsRefused(glued)
      /\ ~m /\ IsRefused(glued) => Refuses(s.word)
  BY WordJudges
<1>3. /\ u.line = s.line + 1 /\ u.rec_line = s.rec_line
      /\ u.first = Nul /\ u.last = Nul /\ ~u.in_backticks
      /\ ~u.in_record /\ ~u.word_done /\ u.word = <<>>
  BY EolEffect DEF Continues
<1>4. s.line = r.line + 1 /\ (~m => r.bad = {})
  BY DEF Follows, RecordPart
<1>5. u.in_backticks = a.list
  BY EolEffect, SolidEffect
<1>6. Ignored(u)
  BY <1>3 DEF Ignored
<1> HIDE DEF u, a, glued
<1>7. Refuses(s.word) => s.rec_line \in a.bad /\ (~k => a.bad = {s.rec_line})
  BY <1>1, <1>2, <1>4
<1>8. ASSUME ~Refuses(s.word) PROVE Follows(u, a, <<>>, k)
  <2>1. ~k => a.bad = {}
    BY <1>1, <1>2, <1>4, <1>8
  <2>2. RecordPart(u, a, k)
    BY <2>1, <1>1, <1>3, <1>4, <1>5, <1>6 DEF RecordPart
  <2>3. Bare(<<>>)
    BY DEF Bare
  <2>4. QED
    BY <2>2, <2>3, <1>1, <1>3, StartFollows
<1>9. QED
  BY <1>1, <1>7, <1>8 DEF u, a

(* A line that leaves the record open.                                     *)
LEMMA OpenStep ==
    ASSUME NEW s \in Scans, NEW r \in Records, NEW l \in Texts, NEW m, NEW k, m => k,
           Follows(s, r, l, m), ~Ignored(s), Continues(s),
           EndsInBackslashBlank(l) => k
    PROVE  Follows(Started(s), AddLine(r, l), <<>>, k)
<1> DEFINE u == Started(s)
           a == AddLine(r, l)
           glued == r.record \o Trim(l)
<1>1. /\ a.line = r.line + 1 /\ a.from = s.rec_line /\ s.in_record
      /\ a.list = InBackticks(s) /\ a.more = Continues(s) /\ a.bad = r.bad
      /\ InBackticks(s) => a.record = glued /\ Has(glued, Backtick)
      /\ ~InBackticks(s) /\ s.last = Backslash => a.record = Front(glued)
      /\ glued # <<>> /\ glued \in Texts /\ Last(glued) = s.last
  <2>1. s.in_record
    BY DEF Follows, RecordPart
  <2>2. a.line = r.line + 1 /\ a.from = s.rec_line /\ a.list = InBackticks(s)
    BY SolidEffect
  <2>3. a.more = Continues(s)
    BY SolidEffect
  <2>4. Continues(s) => a.bad = r.bad
    BY SolidEffect
  <2>5. /\ InBackticks(s) => a.record = glued /\ Has(glued, Backtick)
        /\ ~InBackticks(s) /\ s.last = Backslash => a.record = Front(glued)
        /\ glued # <<>> /\ glued \in Texts /\ Last(glued) = s.last
    BY SolidEffect
  <2>6. QED
    BY <2>1, <2>2, <2>3, <2>4, <2>5
<1>2. /\ u.line = s.line + 1 /\ u.rec_line = s.rec_line
      /\ u.first = Nul /\ u.last = Nul /\ u.in_backticks = InBackticks(s)
      /\ u.in_record = s.in_record /\ u.word_done = s.word_done
      /\ InBackticks(s) => u.word = s.word
      /\ ~InBackticks(s) /\ s.last = Backslash =>
           u.word = IF ~s.word_done /\ s.word # <<>> /\ Last(s.word) = Backslash
                    THEN Front(s.word) ELSE s.word
  BY EolEffect
<1>3. s.line = r.line + 1 /\ (~m => r.bad = {})
  BY DEF Follows, RecordPart
<1>4. \/ s.word = glued /\ Bare(glued) /\ (s.word_done <=> Last(l) = Blank)
      \/ s.word_done /\ Settled(s.word, Front(glued), m)
  BY DEF Follows, WordPart
<1>5. Trim(l) # <<>> /\ s.last = Last(Trim(l))
  BY IgnoredLine DEF Follows
<1>6. s.word_done \in BOOLEAN
  BY PartTypes
<1>7. Ignored(u)
  BY <1>2 DEF Ignored
<1> HIDE DEF u, a, glued
<1>8. RecordPart(u, a, k)
  <2>1. a.list => a.more /\ Has(a.record, Backtick)
    BY <1>1
  <2>2. QED
    BY <2>1, <1>1, <1>2, <1>3, <1>7 DEF RecordPart
<1>9. IF u.word_done THEN Settled(u.word, a.record, k)
      ELSE u.word = a.record /\ Bare(a.record)
  <2>1. CASE InBackticks(s)
    <3>1. a.record = glued /\ Has(glued, Backtick) /\ u.word = s.word
      BY <2>1, <1>1, <1>2
    <3>2. CASE s.word = glued /\ Bare(glued)
      <4>1. Settled(glued, glued, k)
        BY <3>1, <3>2, <1>1, SettledBacktick
      <4>2. QED
        BY <4>1, <3>1, <3>2
    <3>3. CASE s.word_done /\ Settled(s.word, Front(glued), m)
      <4>1. /\ Front(glued) \in Texts /\ <<Last(glued)>> \in Texts
            /\ Front(glued) \o <<Last(glued)>> = glued
        BY <1>1, LastPart
      <4>2. Settled(s.word, Front(glued) \o <<Last(glued)>>, m)
        BY <4>1, <3>3, SettledLonger
      <4>3. Settled(s.word, glued, m)
        BY <4>1, <4>2
      <4>4. Settled(s.word, glued, k)
        BY <4>3, SettledWeaker
      <4>5. QED
        BY <4>4, <3>1, <3>3, <1>2
    <3>4. QED
      BY <3>2, <3>3, <1>4
  <2>2. CASE ~InBackticks(s)
    <3>1. s.last = Backslash
      BY <2>2 DEF Continues
    <3>2. /\ a.record = Front(glued)
          /\ u.word = IF ~s.word_done /\ s.word # <<>> /\ Last(s.word) = Backslash
                      THEN Front(s.word) ELSE s.word
      BY <2>2, <3>1, <1>1, <1>2
    <3>3. CASE s.word = glued /\ Bare(glued) /\ ~s.word_done
      <4>1. u.word = Front(glued)
        BY <3>1, <3>2, <3>3, <1>1
      <4>2. Bare(Front(glued))
        BY <3>3, <1>1, BareFront
      <4>3. QED
        BY <4>1, <4>2, <3>2, <3>3, <1>2
    <3>4. CASE s.word = glued /\ s.word_done /\ Last(l) = Blank
      <4>1. k
        BY <3>1, <3>4, <1>5 DEF EndsInBackslashBlank
      <4>2. Has(glued, Backslash)
        BY <3>1, <1>1, HasLast
      <4>3. ~Refuses(glued)
        BY <4>2, <1>1, RefusesFacts
      <4>4. Settled(glued, Front(glued), k)
        BY <4>1, <4>3 DEF Settled
      <4>5. QED
        BY <4>4, <3>2, <3>4, <1>2
    <3>5. CASE s.word_done /\ Settled(s.word, Front(glued), m)
      <4>1. Settled(s.word, Front(glued), k)
        BY <3>5, SettledWeaker
      <4>2. QED
        BY <4>1, <3>2, <3>5, <1>2
    <3>6. QED
      BY <3>3, <3>4, <3>5, <1>4, <1>6
  <2>3. QED
    BY <2>1, <2>2
<1>10. QED
  BY <1>2, <1>8, <1>9, StartFollows DEF u, a

LEMMA EolStep ==
    ASSUME NEW s \in Scans, NEW r \in Records, NEW l \in Texts, NEW m, NEW k,
           k <=> m \/ EndsInBackslashBlank(l), Follows(s, r, l, m)
    PROVE  LET a == AddLine(r, l) IN
           /\ EolRefuses(s) =>
                ~a.list /\ s.rec_line \in a.bad /\ (~k => a.bad = {s.rec_line})
           /\ ~EolRefuses(s) => Follows(Started(s), a, <<>>, k)
<1>1. m => k
  OBVIOUS
<1>2. EndsInBackslashBlank(l) => k
  OBVIOUS
<1>3. EolRefuses(s) <=> ~Ignored(s) /\ ~Continues(s) /\ Refuses(s.word)
  BY DEF EolRefuses, coraza_rules_scan_word, Refuses
<1>4. CASE Ignored(s)
  BY <1>1, <1>3, <1>4, IgnoredStep
<1>5. CASE ~Ignored(s) /\ ~Continues(s)
  BY <1>1, <1>3, <1>5, EndStep
<1>6. CASE ~Ignored(s) /\ Continues(s)
  BY <1>1, <1>2, <1>3, <1>6, OpenStep
<1>7. QED
  BY <1>4, <1>5, <1>6

---------------------------------------------------------------------------
(* The verdict.                                                            *)

Judged(r) == r.bad \cup IF r.list /\ IsRefused(r.record) THEN {r.from} ELSE {}

LEMMA VerdictFacts ==
    ASSUME NEW text \in Texts
    PROVE  LET r == Assembled(Before(text))
               a == AddLine(r, Current(text))
               k == Missed(Lines(text))
           IN /\ r \in Records /\ a \in Records
              /\ Assembled(Lines(text)) = a
              /\ RefusedLines(text) = Judged(a)
              /\ BlankAfterBackslash(text) <=> k
              /\ k <=> Missed(Before(text)) \/ EndsInBackslashBlank(Current(text))
              /\ BlankAfterBackslash(Append(text, Newline)) <=> k
              /\ RefusedLines(Append(text, Newline)) = Judged(AddLine(a, <<>>))
<1> DEFINE b == Before(text)
           l == Current(text)
           ls == Lines(text)
           next == Append(text, Newline)
<1>1. /\ b \in Seq(Texts) /\ l \in Texts /\ ls = Append(b, l) /\ ls \in Seq(Texts)
  BY CurrentFacts, LinesFacts, LineTypes
<1>2. next \in Texts
  BY LineTypes, AppendFront DEF Texts
<1>3. Lines(next) = Append(ls, <<>>) /\ <<>> \in Texts
  BY <1>2, CurrentFacts, LineTypes
<1> HIDE DEF b, l, ls, next
<1>4. Assembled(b) \in Records /\ Assembled(ls) = AddLine(Assembled(b), l)
  BY <1>1, AssembledFacts
<1>5. Assembled(ls) \in Records /\ Assembled(Append(ls, <<>>)) = AddLine(Assembled(ls), <<>>)
  BY <1>1, <1>3, AssembledFacts
<1>6. Missed(ls) <=> Missed(b) \/ EndsInBackslashBlank(l)
  BY <1>1, MissedFacts
<1>7. Missed(Append(ls, <<>>)) <=> Missed(ls)
  BY <1>1, <1>3, MissedFacts, NoLine
<1>8. /\ BlankAfterBackslash(text) <=> Missed(ls)
      /\ BlankAfterBackslash(next) <=> Missed(Lines(next))
  BY DEF BlankAfterBackslash, Missed, ls
<1>9. /\ RefusedLines(text) = Judged(Assembled(ls))
      /\ RefusedLines(next) = Judged(Assembled(Lines(next)))
  BY DEF RefusedLines, Judged, ls
<1>10. QED
  BY <1>3, <1>4, <1>5, <1>6, <1>7, <1>8, <1>9 DEF b, l, ls, next

(* A blank line after the record changes no verdict.                       *)
LEMMA VerdictStays ==
    ASSUME NEW a \in Records
    PROVE  Judged(AddLine(a, <<>>)) = Judged(a)
<1>1. AddLine(a, <<>>) = [a EXCEPT !.line = @ + 1]
  BY NoLine DEF AddLine
<1> DEFINE x == [a EXCEPT !.line = @ + 1]
<1>2. x.record = a.record /\ x.list = a.list /\ x.from = a.from /\ x.bad = a.bad
  BY DEF Records
<1> HIDE DEF x
<1>3. QED
  BY <1>1, <1>2 DEF Judged, x

(* The end of the text, from the state at the start of the line after it.  *)
LEMMA DoneStep ==
    ASSUME NEW u, NEW a \in Records, NEW k, u.first = Nul, u.word_done \in BOOLEAN,
           Follows(u, a, <<>>, k)
    PROVE  /\ u.in_backticks /\ Refuses(u.word) =>
                u.rec_line \in Judged(a) /\ (~k => Judged(a) = {u.rec_line})
           /\ ~(u.in_backticks /\ Refuses(u.word)) /\ ~k => Judged(a) = {}
<1>1. Ignored(u) /\ a.record \in Texts
  BY DEF Ignored, Records
<1>2. /\ u.in_backticks = a.list
      /\ a.list => a.more
      /\ u.in_record <=> a.more
      /\ u.in_record => u.rec_line = IF a.more THEN a.from ELSE a.line + 1
      /\ ~k => a.bad = {}
  BY <1>1 DEF Follows, RecordPart
<1>3. a.list => u.rec_line = a.from
  BY <1>2
<1>4. IF u.word_done THEN Settled(u.word, a.record, k)
      ELSE u.word = a.record /\ Bare(a.record)
  BY <1>1 DEF Follows, WordPart
<1> DEFINE q == a.record
<1> HIDE DEF q
<1>5. /\ Refuses(u.word) => IsRefused(q)
      /\ ~k /\ IsRefused(q) => Refuses(u.word)
  <2>1. CASE u.word_done
    <3> DEFINE e == <<>>
    <3>1. Settled(u.word, q, k) /\ q \in Texts /\ e \in Texts
      BY <2>1, <1>1, <1>4, LineTypes DEF q
    <3>2. q \o e = q
      BY <3>1, ConcatEmptySeq DEF Texts
    <3> HIDE DEF e
    <3>3. /\ Refuses(u.word) => IsRefused(q \o e)
          /\ ~k /\ IsRefused(q \o e) => Refuses(u.word)
      BY <3>1, SettledJudges
    <3>4. QED
      BY <3>2, <3>3
  <2>2. CASE ~u.word_done
    BY <2>2, <1>1, <1>4, BareJudged DEF q
  <2>3. QED
    BY <2>1, <2>2
<1>6. Judged(a) = a.bad \cup IF a.list /\ IsRefused(q) THEN {a.from} ELSE {}
  BY DEF Judged, q
<1>7. QED
  BY <1>2, <1>3, <1>5, <1>6

---------------------------------------------------------------------------
(* The invariant.                                                          *)

LEMMA ScanInit == Init => ScanInv
<1> SUFFICES ASSUME Init PROVE ScanInv
  OBVIOUS
<1>1. scan \in Scans
  BY WordAssumption DEF Init, coraza_rules_scan_init, Scans
<1>2. input = <<>> /\ result = "scanning" /\ scan = coraza_rules_scan_init
  BY DEF Init
<1>3. Lines(<<>>) = <<<<>>>> /\ <<>> \in Texts
  BY LinesFacts, LineTypes
<1>4. Before(<<>>) = <<>> /\ Current(<<>>) = <<>>
  <2> DEFINE e == <<>>
             f == <<>>
  <2>1. f \in Seq(Texts) /\ e \in Texts /\ <<e>> = Append(f, e)
    BY LineTypes
  <2> HIDE DEF e, f
  <2>2. Front(Append(f, e)) = f /\ Last(Append(f, e)) = e
    BY <2>1, AppendFront
  <2>3. Lines(<<>>) = <<e>>
    BY <1>3 DEF e
  <2>4. QED
    BY <2>1, <2>2, <2>3 DEF Before, Current, e, f
<1>5. Assembled(<<>>) = NoRecord /\ ~Missed(<<>>)
  BY AssembledFacts, MissedFacts, LineTypes
<1>6. Follows(scan, NoRecord, <<>>, Missed(<<>>))
  <2>1. /\ scan.first = Nul /\ scan.last = Nul /\ scan.line = 1 /\ ~scan.in_record
        /\ ~scan.in_backticks /\ ~scan.word_done /\ scan.word = <<>>
    BY <1>2 DEF coraza_rules_scan_init
  <2>2. /\ NoRecord.line = 0 /\ NoRecord.record = <<>> /\ ~NoRecord.list
        /\ ~NoRecord.more /\ NoRecord.bad = {}
    BY DEF NoRecord
  <2>3. scan.in_backticks = NoRecord.list
    BY <1>2 DEF coraza_rules_scan_init, NoRecord
  <2>4. RecordPart(scan, NoRecord, Missed(<<>>))
    BY <2>1, <2>2, <2>3 DEF RecordPart, Ignored
  <2>5. Bare(<<>>)
    BY DEF Bare
  <2>6. QED
    BY <2>1, <2>2, <2>4, <2>5, StartFollows
<1>7. QED
  BY <1>1, <1>2, <1>3, <1>4, <1>5, <1>6
  DEF ScanInv, RefusalIsReal, AcceptedIsClean, Texts

(* A byte of the text.                                                     *)
LEMMA ScanFeed ==
    ASSUME ScanInv, Feed
    PROVE  ScanInv'
<1> DEFINE r == Assembled(Before(input))
           l == Current(input)
           m == Missed(Before(input))
           a == AddLine(r, l)
           k == Missed(Lines(input))
<1>1. result = "scanning" /\ scan \in Scans /\ input \in Texts /\ Follows(scan, r, l, m)
  BY DEF ScanInv, Feed, Texts
<1>2. PICK c \in Bytes :
        /\ input' = Append(input, c)
        /\ \/ /\ c = Newline /\ EolRefuses(scan)
              /\ result' = "refused"
              /\ scan' = coraza_rules_scan_eol(scan)
           \/ /\ ~(c = Newline /\ EolRefuses(scan))
              /\ result' = result
              /\ scan' = coraza_rules_scan(scan, c)
  BY DEF Feed
<1>3. scan' \in Scans /\ input' \in Texts
  <2>1. scan' \in Scans
    BY <1>1, <1>2, EolType, ByteType
  <2>2. input' \in Texts
    BY <1>1, <1>2, AppendFront DEF Texts
  <2>3. QED
    BY <2>1, <2>2
<1>4. /\ r \in Records /\ a \in Records /\ Assembled(Lines(input)) = a
      /\ k <=> m \/ EndsInBackslashBlank(l)
      /\ BlankAfterBackslash(Append(input, Newline)) <=> k
      /\ RefusedLines(Append(input, Newline)) = Judged(AddLine(a, <<>>))
  BY <1>1, VerdictFacts
<1>5. /\ l \in Texts
      /\ Before(Append(input, Newline)) = Lines(input)
      /\ Current(Append(input, Newline)) = <<>>
      /\ \A d \in Bytes \ {Newline} :
           /\ Before(Append(input, d)) = Before(input)
           /\ Current(Append(input, d)) = Append(l, d)
  BY <1>1, CurrentFacts
<1> HIDE DEF r, l, m, k
<1>6. /\ EolRefuses(scan) =>
           ~a.list /\ scan.rec_line \in a.bad /\ (~k => a.bad = {scan.rec_line})
      /\ ~EolRefuses(scan) => Follows(Started(scan), a, <<>>, k)
  BY <1>1, <1>4, <1>5, EolStep
<1> HIDE DEF a
<1>7. CASE c = Newline /\ EolRefuses(scan)
  <2>1. /\ result' = "refused" /\ scan'.rec_line = scan.rec_line
        /\ input' = Append(input, Newline)
    BY <1>1, <1>2, <1>7, EolEffect
  <2>2. RefusedLines(Append(input, Newline)) = a.bad
    BY <1>4, <1>6, <1>7, VerdictStays DEF Judged
  <2>3. /\ scan'.rec_line \in RefusedLines(Append(input, Newline))
        /\ BlankAfterBackslash(Append(input, Newline))
           \/ RefusedLines(Append(input, Newline)) = {scan'.rec_line}
    BY <2>1, <2>2, <1>4, <1>6, <1>7
  <2>4. RefusalIsReal' /\ AcceptedIsClean'
    BY <2>1, <2>3 DEF RefusalIsReal, AcceptedIsClean
  <2>5. QED
    BY <2>1, <2>4, <1>3 DEF ScanInv, Texts
<1>8. CASE ~(c = Newline /\ EolRefuses(scan))
  <2>1. result' = "scanning" /\ scan' = coraza_rules_scan(scan, c)
    BY <1>1, <1>2, <1>8
  <2>2. RefusalIsReal' /\ AcceptedIsClean'
    BY <2>1 DEF RefusalIsReal, AcceptedIsClean
  <2>3. SUFFICES Follows(scan', Assembled(Before(input')), Current(input'),
                         Missed(Before(input')))
    BY <2>1, <2>2, <1>3 DEF ScanInv, Texts
  <2>4. CASE c = Newline
    <3>1. scan' = Started(scan)
      BY <2>1, <2>4 DEF coraza_rules_scan, Started, Newline, Blank
    <3>2. /\ Assembled(Before(input')) = a /\ Current(input') = <<>>
          /\ Missed(Before(input')) = k
      BY <2>4, <1>2, <1>4, <1>5 DEF k
    <3>3. QED
      BY <3>1, <3>2, <2>4, <1>6, <1>8
  <2>5. CASE c # Newline
    <3>1. /\ Assembled(Before(input')) = r /\ Current(input') = Append(l, c)
          /\ Missed(Before(input')) = m
      BY <2>5, <1>2, <1>5 DEF r, m
    <3>2. CASE c = Blank
      <4>1. scan' = ScanBlank(scan)
        BY <2>1, <2>5, <3>2 DEF coraza_rules_scan
      <4>2. Follows(ScanBlank(scan), r, Append(l, Blank), m)
        BY <1>1, <1>4, <1>5, BlankStep
      <4>3. QED
        BY <3>1, <3>2, <4>1, <4>2
    <3>3. CASE c # Blank
      <4>1. scan' = ScanByte(scan, c)
        BY <2>1, <2>5, <3>3 DEF coraza_rules_scan
      <4>2. Follows(ScanByte(scan, c), r, Append(l, c), m)
        BY <3>3, <1>1, <1>4, <1>5, ByteStep
      <4>3. QED
        BY <3>1, <4>1, <4>2
    <3>4. QED
      BY <3>2, <3>3
  <2>6. QED
    BY <2>4, <2>5
<1>9. QED
  BY <1>7, <1>8

(* The end of the text.                                                    *)
LEMMA ScanDone ==
    ASSUME ScanInv, coraza_rules_scan_done
    PROVE  ScanInv'
<1> DEFINE r == Assembled(Before(input))
           l == Current(input)
           m == Missed(Before(input))
           a == AddLine(r, l)
           k == Missed(Lines(input))
           u == Started(scan)
<1>1. result = "scanning" /\ scan \in Scans /\ input \in Texts /\ Follows(scan, r, l, m)
  BY DEF ScanInv, coraza_rules_scan_done, Texts
<1>2. /\ result' = IF DoneRefuses(scan) THEN "refused" ELSE "accepted"
      /\ scan' = coraza_rules_scan_eol(scan) /\ input' = input
  BY DEF coraza_rules_scan_done
<1>3. scan' \in Scans
  BY <1>1, <1>2, EolType
<1>4. /\ r \in Records /\ a \in Records
      /\ RefusedLines(input) = Judged(a)
      /\ BlankAfterBackslash(input) <=> k
      /\ k <=> m \/ EndsInBackslashBlank(l)
  BY <1>1, VerdictFacts
<1>5. l \in Texts
  BY <1>1, CurrentFacts
<1>6. u.word_done \in BOOLEAN
  <2>1. Started(scan) = coraza_rules_scan(scan, Newline)
    BY DEF Started, coraza_rules_scan, Newline, Blank
  <2>2. Started(scan) \in Scans
    BY <2>1, <1>1, ByteType, LineTypes
  <2>3. QED
    BY <2>2 DEF Scans
<1>7. /\ scan'.rec_line = scan.rec_line /\ u.rec_line = scan.rec_line /\ u.first = Nul
      /\ scan'.in_backticks = u.in_backticks /\ scan'.word = u.word
  BY <1>1, <1>2, EolEffect
<1> HIDE DEF r, l, m, k
<1>8. /\ EolRefuses(scan) =>
           ~a.list /\ scan.rec_line \in a.bad /\ (~k => a.bad = {scan.rec_line})
      /\ ~EolRefuses(scan) => Follows(u, a, <<>>, k)
  BY <1>1, <1>4, <1>5, EolStep
<1> HIDE DEF a, u
<1>9. DoneRefuses(scan) <=> EolRefuses(scan) \/ (u.in_backticks /\ Refuses(u.word))
  BY <1>2, <1>7 DEF DoneRefuses, coraza_rules_scan_word, Refuses
<1>10. /\ DoneRefuses(scan) =>
            scan.rec_line \in Judged(a) /\ (~k => Judged(a) = {scan.rec_line})
       /\ ~DoneRefuses(scan) /\ ~k => Judged(a) = {}
  <2>1. CASE EolRefuses(scan)
    <3>1. Judged(a) = a.bad
      BY <2>1, <1>8 DEF Judged
    <3>2. QED
      BY <2>1, <3>1, <1>8, <1>9
  <2>2. CASE ~EolRefuses(scan)
    <3>1. /\ u.in_backticks /\ Refuses(u.word) =>
               u.rec_line \in Judged(a) /\ (~k => Judged(a) = {u.rec_line})
          /\ ~(u.in_backticks /\ Refuses(u.word)) /\ ~k => Judged(a) = {}
      BY <2>2, <1>4, <1>6, <1>7, <1>8, DoneStep
    <3>2. QED
      BY <2>2, <3>1, <1>7, <1>9
  <2>3. QED
    BY <2>1, <2>2
<1>11. RefusalIsReal' /\ AcceptedIsClean'
  <2>1. /\ RefusedLines(input') = Judged(a)
        /\ BlankAfterBackslash(input') <=> k
    BY <1>2, <1>4
  <2>2. RefusalIsReal'
    BY <2>1, <1>2, <1>7, <1>10 DEF RefusalIsReal
  <2>3. AcceptedIsClean'
    BY <2>1, <1>2, <1>10 DEF AcceptedIsClean
  <2>4. QED
    BY <2>2, <2>3
<1>12. QED
  BY <1>1, <1>2, <1>3, <1>11 DEF ScanInv, Texts

(* Byte by byte, coraza_rules_scan keeps what it needs of the record the   *)
(* engine assembles from the same lines: the ends of the line, whether the *)
(* record goes on, where it started, and a word that is the record so far  *)
(* or is all it will be judged by.                                         *)
THEOREM ScanInvariance == Spec => []ScanInv
  <1>1. Init => ScanInv
    BY ScanInit
  <1>2. ScanInv /\ [Next]_vars => ScanInv'
    <2> SUFFICES ASSUME ScanInv, [Next]_vars PROVE ScanInv'
      OBVIOUS
    <2>1. CASE Feed
      BY <2>1, ScanFeed
    <2>2. CASE coraza_rules_scan_done
      BY <2>2, ScanDone
    <2>3. CASE Unreadable
      BY <2>3 DEF Unreadable, ScanInv, RefusalIsReal, AcceptedIsClean
    <2>4. CASE UNCHANGED vars
      BY <2>4 DEF vars, ScanInv, RefusalIsReal, AcceptedIsClean
    <2>5. QED
      BY <2>1, <2>2, <2>3, <2>4 DEF Next
  <1>3. QED
    BY <1>1, <1>2, PTL DEF Spec

(* A text is refused only for a record the engine would refuse, and the    *)
(* message has the line where that record starts; without a blank after a  *)
(* continuation's backslash it is the first such record.                   *)
THEOREM RefusalIsRealHolds == Spec => []RefusalIsReal
  <1>1. ScanInv => RefusalIsReal
    BY DEF ScanInv
  <1>2. QED
    BY <1>1, ScanInvariance, PTL

(* A text that is accepted holds no record the engine would refuse, unless *)
(* a blank follows the backslash of a continuation.                        *)
THEOREM AcceptedIsCleanHolds == Spec => []AcceptedIsClean
  <1>1. ScanInv => AcceptedIsClean
    BY DEF ScanInv
  <1>2. QED
    BY <1>1, ScanInvariance, PTL
=============================================================================
