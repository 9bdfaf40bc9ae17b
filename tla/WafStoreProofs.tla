--------------------------- MODULE WafStoreProofs ---------------------------
(***************************************************************************)
(* Theorems about WafStore, for any number of servers, sections and        *)
(* threads, any configuration, any library and any hash.  Inv is an        *)
(* inductive invariant of the child: types, the lock, the WAFs and who     *)
(* owns them.  ConfInv, relative to it, says that every configuration      *)
(* holds what the text asks for, and EnforceInv, relative to both, that    *)
(* every WAF was compiled from rules its users may run on.  The properties *)
(* follow from the three.                                                  *)
(***************************************************************************)
EXTENDS WafStore, FoldFacts

---------------------------------------------------------------------------
(* What the folds of the model compute.                                    *)

(* Configurations whose rules array, WAF and merge_child are in A, W and M.*)
ConfRecs(A, W, M) ==
    [enable : {-1, 0, 1}, transaction_id : Int, body_mem_limit : Int,
     rules : Seq(STRING), array : A, has_rules : BOOLEAN,
     waf : W, merge_child : M]

(* The configurations a .htaccess file can make: they have no WAF and no   *)
(* merge_child.                                                            *)
HtConfs(x) == ConfRecs({x}, {NoWaf}, {NoConf})

(* A directive changes the settings and the rules of a configuration; its  *)
(* WAF, its merge_child and its rules array stay.                          *)
LEMMA ApplyDirectiveType ==
    ASSUME NEW A, NEW W, NEW M, NEW d, IsDirective(d), NEW conf \in ConfRecs(A, W, M)
    PROVE  /\ ApplyDirective(conf, d) \in ConfRecs(A, W, M)
           /\ ApplyDirective(conf, d).waf = conf.waf
           /\ ApplyDirective(conf, d).merge_child = conf.merge_child
           /\ ApplyDirective(conf, d).array = conf.array
<1> USE DEF ConfRecs
<1>1. CASE d.cmd = "enable" /\ d.arg \in {0, 1}
  BY <1>1 DEF ApplyDirective, cmd_coraza_enable
<1>2. CASE d.cmd = "transaction_id" /\ d.arg \in Int
  BY <1>2 DEF ApplyDirective, cmd_coraza_transaction_id
<1>3. CASE d.cmd = "body_mem_limit" /\ d.arg \in Int
  BY <1>3 DEF ApplyDirective, cmd_coraza_body_mem_limit
<1>4. CASE d.cmd = "rules" /\ d.arg \in STRING
  <2>1. Append(conf.rules, d.arg) \in Seq(STRING)
    BY <1>4
  <2>2. QED
    BY <1>4, <2>1 DEF ApplyDirective, cmd_coraza_rules
<1>5. QED
  BY <1>1, <1>2, <1>3, <1>4 DEF IsDirective

(* A merged configuration has the WAF of one of the two, or none, and the  *)
(* merge_child it is called with, or none; its settings come from the two. *)
LEMMA MergeType ==
    ASSUME NEW A, NEW W, NEW M, NoWaf \in W, NoConf \in M,
           NEW p \in ConfRecs(A, W, M), NEW c \in ConfRecs(A, W, M),
           NEW childName \in M, NEW name \in A
    PROVE  /\ coraza_merge_dir_conf(p, c, childName, name) \in ConfRecs(A, W, M)
           /\ coraza_merge_dir_conf(p, c, childName, name).waf \in {NoWaf, p.waf, c.waf}
           /\ coraza_merge_dir_conf(p, c, childName, name).merge_child
                \in {NoConf, childName}
           /\ coraza_merge_dir_conf(p, c, childName, name).enable
                \in {p.enable, c.enable}
<1> DEFINE r == MergeRules(p, c, childName, name)
           m == coraza_merge_dir_conf(p, c, childName, name)
<1>1. /\ r.rules \in Seq(STRING) /\ r.array \in A /\ r.has_rules \in BOOLEAN
      /\ r.waf \in {NoWaf, p.waf, c.waf} /\ r.merge_child \in {NoConf, childName}
  <2>1. CASE p.rules # <<>> /\ c.rules # <<>>
    <3>1. p.rules \o c.rules \in Seq(STRING)
      BY DEF ConfRecs
    <3>2. QED
      BY <2>1, <3>1 DEF MergeRules, MergeBoth
  <2>2. CASE p.rules # <<>> /\ c.rules = <<>>
    BY <2>2 DEF MergeRules, Inherit, ConfRecs
  <2>3. CASE p.rules = <<>> /\ c.rules # <<>>
    BY <2>3 DEF MergeRules, Inherit, ConfRecs
  <2>4. CASE p.rules = <<>> /\ c.rules = <<>>
    <3>1. r = Inherit(coraza_create_dir_conf(name))
      BY <2>4 DEF MergeRules
    <3>2. r = [rules |-> <<>>, array |-> name, has_rules |-> FALSE,
               waf |-> NoWaf, merge_child |-> NoConf]
      BY <3>1 DEF Inherit, coraza_create_dir_conf
    <3> HIDE DEF r
    <3>3. <<>> \in Seq(STRING)
      OBVIOUS
    <3>4. QED
      BY <3>2, <3>3
  <2>5. QED
    BY <2>1, <2>2, <2>3, <2>4
<1>2. r.waf \in W /\ r.merge_child \in M
  BY <1>1 DEF ConfRecs
<1>3. /\ m.rules = r.rules /\ m.array = r.array /\ m.has_rules = r.has_rules
      /\ m.waf = r.waf /\ m.merge_child = r.merge_child
      /\ m.enable = Override(p.enable, c.enable)
  BY DEF coraza_merge_dir_conf
<1>4. m \in ConfRecs(A, W, M)
  <2> HIDE DEF r
  <2>1. m = [enable |-> Override(p.enable, c.enable),
             transaction_id |-> Override(p.transaction_id, c.transaction_id),
             body_mem_limit |-> Override(p.body_mem_limit, c.body_mem_limit),
             rules |-> r.rules, array |-> r.array, has_rules |-> r.has_rules,
             waf |-> r.waf, merge_child |-> r.merge_child]
    BY DEF coraza_merge_dir_conf, r
  <2>2. QED
    BY <1>1, <1>2, <2>1 DEF ConfRecs, Override
<1>5. m.enable \in {p.enable, c.enable}
  BY <1>3 DEF Override
<1>6. QED
  BY <1>1, <1>3, <1>4, <1>5

(* What holds of a configuration and is kept by every directive holds when *)
(* a whole text has been applied; T[k] is what holds after k directives.   *)
LEMMA ApplyDirectiveFold ==
    ASSUME NEW S, NEW D, NEW base \in S, NEW ds \in Seq(D),
           \A c \in S, d \in D : ApplyDirective(c, d) \in S,
           NEW T, base \in T[0],
           \A k \in 1 .. Len(ds), c \in S :
             c \in T[k - 1] => ApplyDirective(c, ds[k]) \in T[k]
    PROVE  /\ FoldLeft(ApplyDirective, base, ds) \in S
           /\ FoldLeft(ApplyDirective, base, ds) \in T[Len(ds)]
<1> DEFINE n == Len(ds)
           g == [p \in S \X D |-> ApplyDirective(p[1], p[2])]
           Rec(f) == [y \in SUBSET (DOMAIN ds) |->
                        IF y = {} THEN base
                        ELSE ApplyDirective(f[y \ {Max(y)}], ds[Max(y)])]
           it == CHOOSE iter : iter = Rec(iter)
<1>1. n \in Nat /\ DOMAIN ds = 1 .. n /\ ds \in [1 .. n -> D]
  OBVIOUS
<1>2. g \in [S \X D -> S]
  OBVIOUS
<1>3. \A c \in S, d \in D : g[<<c, d>>] = ApplyDirective(c, d)
  OBVIOUS
<1> HIDE DEF n, g
<1>4. PICK f \in FoldSolutions(S, base, g, n, ds) : TRUE
  <2>1. n \in Nat
    BY <1>1
  <2>2. ds \in [1 .. n -> D]
    BY <1>1
  <2>3. FoldSolutions(S, base, g, n, ds) # {}
    BY <2>1, <2>2, <1>2, FoldExists
  <2>4. QED
    BY <2>3
<1>5. f = Rec(f)
  <2>1. /\ f \in [SUBSET (1 .. n) -> S]
        /\ \A y \in SUBSET (1 .. n) :
             f[y] = IF y = {} THEN base
                    ELSE g[<<f[y \ {Max(y)}], ds[Max(y)]>>]
    BY <1>4 DEF FoldSolutions
  <2>2. ASSUME NEW y \in SUBSET (1 .. n)
        PROVE  f[y] = IF y = {} THEN base
                      ELSE ApplyDirective(f[y \ {Max(y)}], ds[Max(y)])
    <3>1. CASE y = {}
      BY <3>1, <2>1
    <3>2. CASE y # {}
      <4>1. Max(y) \in y
        BY <3>2, <1>1, MaxIsMax
      <4>2. ds[Max(y)] \in D /\ f[y \ {Max(y)}] \in S
        BY <4>1, <1>1, <2>1
      <4>3. QED
        BY <3>2, <4>2, <1>3, <2>1
    <3>3. QED
      BY <3>1, <3>2
  <2>3. QED
    BY <2>1, <2>2, <1>1
<1>6. it = Rec(it)
  BY <1>5
<1>7. FoldLeft(ApplyDirective, base, ds) = it[DOMAIN ds]
  BY DEF FoldLeft, MapThenFoldSet
<1> HIDE DEF it
<1>8. \A y \in SUBSET (1 .. n) :
        it[y] = IF y = {} THEN base
                ELSE ApplyDirective(it[y \ {Max(y)}], ds[Max(y)])
  BY <1>1, <1>6
<1>9. it[{}] = base
  BY <1>8
<1>10. ASSUME NEW k \in 1 .. n
       PROVE  it[1 .. k] = ApplyDirective(it[1 .. (k - 1)], ds[k])
  <2>1. k \in Nat \ {0}
    BY <1>1
  <2>2. /\ Max(1 .. k) = k
        /\ (1 .. k) \ {Max(1 .. k)} = 1 .. (k - 1)
        /\ 1 .. k # {}
    BY <2>1, PrefixStep
  <2>3. 1 .. k \in SUBSET (1 .. n)
    BY <1>1
  <2>4. QED
    BY <2>2, <2>3, <1>8
<1>11. \A k \in 1 .. n, c \in S : c \in T[k - 1] => ApplyDirective(c, ds[k]) \in T[k]
  BY DEF n
<1> DEFINE U == [k \in 0 .. n |-> {c \in S : c \in T[k]}]
<1>12. it[{}] \in U[0]
  BY <1>1, <1>9
<1>13. ASSUME NEW k \in 1 .. n, it[1 .. (k - 1)] \in U[k - 1]
       PROVE  it[1 .. k] \in U[k]
  <2>1. it[1 .. (k - 1)] \in S /\ ds[k] \in D /\ it[1 .. (k - 1)] \in T[k - 1]
    BY <1>1, <1>13
  <2>2. /\ ApplyDirective(it[1 .. (k - 1)], ds[k]) \in S
        /\ ApplyDirective(it[1 .. (k - 1)], ds[k]) \in T[k]
    BY <2>1, <1>11
  <2>3. QED
    BY <2>2, <1>1, <1>10
<1>14. it[1 .. n] \in U[n]
  BY <1>1, <1>12, <1>13, PrefixInd
<1>15. it[1 .. n] \in S /\ it[1 .. n] \in T[n]
  BY <1>1, <1>14
<1>16. QED
  BY <1>1, <1>7, <1>15 DEF n

(* Reading a .htaccess file makes a configuration without a WAF.           *)
LEMMA HtConfType ==
    ASSUME NEW x \in Sections, Kind[x] = "htaccess"
    PROVE  HtConf(x) \in HtConfs(x)
<1> DEFINE S == HtConfs(x)
           ds == HtText[x]
           D == ToSet(ds)
           base == coraza_create_dir_conf(x)
<1>1. AreDirectives(ds)
  BY StoreAssumption
<1>2. ds \in Seq(D) /\ \A d \in D : IsDirective(d)
  BY <1>1 DEF AreDirectives
<1>3. base \in S
  BY DEF HtConfs, ConfRecs, coraza_create_dir_conf, Unset
<1>4. \A c \in S, d \in D : ApplyDirective(c, d) \in S
  <2> SUFFICES ASSUME NEW c \in S, NEW d \in D PROVE ApplyDirective(c, d) \in S
    OBVIOUS
  <2>1. IsDirective(d)
    BY <1>2
  <2>2. QED
    BY <2>1, ApplyDirectiveType DEF HtConfs
<1>5. HtConf(x) = FoldLeft(ApplyDirective, base, ds)
  BY DEF HtConf
<1> DEFINE T == [k \in Nat |-> S]
<1>6. FoldLeft(ApplyDirective, base, ds) \in S
  <2> HIDE DEF S, D, base, ds
  <2>1. \A k \in 1 .. Len(ds) : T[k] = S /\ ds[k] \in D
    BY <1>2
  <2>2. base \in T[0]
    BY <1>3
  <2>3. \A k \in 1 .. Len(ds), c \in S :
          c \in T[k - 1] => ApplyDirective(c, ds[k]) \in T[k]
    BY <2>1, <1>4
  <2> HIDE DEF T
  <2>4. QED
    BY <1>2, <1>3, <1>4, <2>2, <2>3, ApplyDirectiveFold
<1>7. QED
  BY <1>5, <1>6 DEF S

(* The same for the virtual hosts that are tracked one after the other.    *)
LEMMA TrackMadeFold ==
    ASSUME NEW S, NEW D, NEW base \in S, NEW ds \in Seq(D),
           \A c \in S, d \in D : TrackMade(c, d) \in S,
           NEW T, base \in T[0],
           \A k \in 1 .. Len(ds), c \in S :
             c \in T[k - 1] => TrackMade(c, ds[k]) \in T[k]
    PROVE  /\ FoldLeft(TrackMade, base, ds) \in S
           /\ FoldLeft(TrackMade, base, ds) \in T[Len(ds)]
<1> DEFINE n == Len(ds)
           g == [p \in S \X D |-> TrackMade(p[1], p[2])]
           Rec(f) == [y \in SUBSET (DOMAIN ds) |->
                        IF y = {} THEN base
                        ELSE TrackMade(f[y \ {Max(y)}], ds[Max(y)])]
           it == CHOOSE iter : iter = Rec(iter)
<1>1. n \in Nat /\ DOMAIN ds = 1 .. n /\ ds \in [1 .. n -> D]
  OBVIOUS
<1>2. g \in [S \X D -> S]
  OBVIOUS
<1>3. \A c \in S, d \in D : g[<<c, d>>] = TrackMade(c, d)
  OBVIOUS
<1> HIDE DEF n, g
<1>4. PICK f \in FoldSolutions(S, base, g, n, ds) : TRUE
  <2>1. n \in Nat
    BY <1>1
  <2>2. ds \in [1 .. n -> D]
    BY <1>1
  <2>3. FoldSolutions(S, base, g, n, ds) # {}
    BY <2>1, <2>2, <1>2, FoldExists
  <2>4. QED
    BY <2>3
<1>5. f = Rec(f)
  <2>1. /\ f \in [SUBSET (1 .. n) -> S]
        /\ \A y \in SUBSET (1 .. n) :
             f[y] = IF y = {} THEN base
                    ELSE g[<<f[y \ {Max(y)}], ds[Max(y)]>>]
    BY <1>4 DEF FoldSolutions
  <2>2. ASSUME NEW y \in SUBSET (1 .. n)
        PROVE  f[y] = IF y = {} THEN base
                      ELSE TrackMade(f[y \ {Max(y)}], ds[Max(y)])
    <3>1. CASE y = {}
      BY <3>1, <2>1
    <3>2. CASE y # {}
      <4>1. Max(y) \in y
        BY <3>2, <1>1, MaxIsMax
      <4>2. ds[Max(y)] \in D /\ f[y \ {Max(y)}] \in S
        BY <4>1, <1>1, <2>1
      <4>3. QED
        BY <3>2, <4>2, <1>3, <2>1
    <3>3. QED
      BY <3>1, <3>2
  <2>3. QED
    BY <2>1, <2>2, <1>1
<1>6. it = Rec(it)
  BY <1>5
<1>7. FoldLeft(TrackMade, base, ds) = it[DOMAIN ds]
  BY DEF FoldLeft, MapThenFoldSet
<1> HIDE DEF it
<1>8. \A y \in SUBSET (1 .. n) :
        it[y] = IF y = {} THEN base
                ELSE TrackMade(it[y \ {Max(y)}], ds[Max(y)])
  BY <1>1, <1>6
<1>9. it[{}] = base
  BY <1>8
<1>10. ASSUME NEW k \in 1 .. n
       PROVE  it[1 .. k] = TrackMade(it[1 .. (k - 1)], ds[k])
  <2>1. k \in Nat \ {0}
    BY <1>1
  <2>2. /\ Max(1 .. k) = k
        /\ (1 .. k) \ {Max(1 .. k)} = 1 .. (k - 1)
        /\ 1 .. k # {}
    BY <2>1, PrefixStep
  <2>3. 1 .. k \in SUBSET (1 .. n)
    BY <1>1
  <2>4. QED
    BY <2>2, <2>3, <1>8
<1>11. \A k \in 1 .. n, c \in S : c \in T[k - 1] => TrackMade(c, ds[k]) \in T[k]
  BY DEF n
<1> DEFINE U == [k \in 0 .. n |-> {c \in S : c \in T[k]}]
<1>12. it[{}] \in U[0]
  BY <1>1, <1>9
<1>13. ASSUME NEW k \in 1 .. n, it[1 .. (k - 1)] \in U[k - 1]
       PROVE  it[1 .. k] \in U[k]
  <2>1. it[1 .. (k - 1)] \in S /\ ds[k] \in D /\ it[1 .. (k - 1)] \in T[k - 1]
    BY <1>1, <1>13
  <2>2. /\ TrackMade(it[1 .. (k - 1)], ds[k]) \in S
        /\ TrackMade(it[1 .. (k - 1)], ds[k]) \in T[k]
    BY <2>1, <1>11
  <2>3. QED
    BY <2>2, <1>1, <1>10
<1>14. it[1 .. n] \in U[n]
  BY <1>1, <1>12, <1>13, PrefixInd
<1>15. it[1 .. n] \in S /\ it[1 .. n] \in T[n]
  BY <1>1, <1>14
<1>16. QED
  BY <1>1, <1>7, <1>15 DEF n

(* The same for the WAFs of the tracked configurations...                  *)
LEMMA TakeDirFold ==
    ASSUME NEW S, NEW D, NEW base \in S, NEW ds \in Seq(D),
           \A c \in S, d \in D : TakeDir(c, d) \in S
    PROVE  FoldLeft(TakeDir, base, ds) \in S
<1> DEFINE n == Len(ds)
           g == [p \in S \X D |-> TakeDir(p[1], p[2])]
           Rec(f) == [y \in SUBSET (DOMAIN ds) |->
                        IF y = {} THEN base
                        ELSE TakeDir(f[y \ {Max(y)}], ds[Max(y)])]
           it == CHOOSE iter : iter = Rec(iter)
<1>1. n \in Nat /\ DOMAIN ds = 1 .. n /\ ds \in [1 .. n -> D]
  OBVIOUS
<1>2. g \in [S \X D -> S]
  OBVIOUS
<1>3. \A c \in S, d \in D : g[<<c, d>>] = TakeDir(c, d)
  OBVIOUS
<1> HIDE DEF n, g
<1>4. PICK f \in FoldSolutions(S, base, g, n, ds) : TRUE
  <2>1. n \in Nat
    BY <1>1
  <2>2. ds \in [1 .. n -> D]
    BY <1>1
  <2>3. FoldSolutions(S, base, g, n, ds) # {}
    BY <2>1, <2>2, <1>2, FoldExists
  <2>4. QED
    BY <2>3
<1>5. f = Rec(f)
  <2>1. /\ f \in [SUBSET (1 .. n) -> S]
        /\ \A y \in SUBSET (1 .. n) :
             f[y] = IF y = {} THEN base
                    ELSE g[<<f[y \ {Max(y)}], ds[Max(y)]>>]
    BY <1>4 DEF FoldSolutions
  <2>2. ASSUME NEW y \in SUBSET (1 .. n)
        PROVE  f[y] = IF y = {} THEN base
                      ELSE TakeDir(f[y \ {Max(y)}], ds[Max(y)])
    <3>1. CASE y = {}
      BY <3>1, <2>1
    <3>2. CASE y # {}
      <4>1. Max(y) \in y
        BY <3>2, <1>1, MaxIsMax
      <4>2. ds[Max(y)] \in D /\ f[y \ {Max(y)}] \in S
        BY <4>1, <1>1, <2>1
      <4>3. QED
        BY <3>2, <4>2, <1>3, <2>1
    <3>3. QED
      BY <3>1, <3>2
  <2>3. QED
    BY <2>1, <2>2, <1>1
<1>6. it = Rec(it)
  BY <1>5
<1>7. FoldLeft(TakeDir, base, ds) = it[DOMAIN ds]
  BY DEF FoldLeft, MapThenFoldSet
<1> HIDE DEF it
<1>8. \A y \in SUBSET (1 .. n) :
        it[y] = IF y = {} THEN base
                ELSE TakeDir(it[y \ {Max(y)}], ds[Max(y)])
  BY <1>1, <1>6
<1>9. it[{}] = base
  BY <1>8
<1>10. ASSUME NEW k \in 1 .. n
       PROVE  it[1 .. k] = TakeDir(it[1 .. (k - 1)], ds[k])
  <2>1. k \in Nat \ {0}
    BY <1>1
  <2>2. /\ Max(1 .. k) = k
        /\ (1 .. k) \ {Max(1 .. k)} = 1 .. (k - 1)
        /\ 1 .. k # {}
    BY <2>1, PrefixStep
  <2>3. 1 .. k \in SUBSET (1 .. n)
    BY <1>1
  <2>4. QED
    BY <2>2, <2>3, <1>8
<1> DEFINE T == [k \in 0 .. n |-> S]
<1>11. it[{}] \in T[0]
  BY <1>1, <1>9
<1>12. ASSUME NEW k \in 1 .. n, it[1 .. (k - 1)] \in T[k - 1]
       PROVE  it[1 .. k] \in T[k]
  <2>1. it[1 .. (k - 1)] \in S /\ ds[k] \in D
    BY <1>1, <1>12
  <2>2. TakeDir(it[1 .. (k - 1)], ds[k]) \in S
    BY <2>1
  <2>3. QED
    BY <2>2, <1>1, <1>10
<1>13. it[1 .. n] \in T[n]
  BY <1>1, <1>11, <1>12, PrefixInd
<1>14. QED
  BY <1>1, <1>7, <1>13

(* ...and for those of the servers, where T[k] is what holds after the     *)
(* first k of them.                                                        *)
LEMMA TakeServerFold ==
    ASSUME NEW S, NEW D, NEW base \in S, NEW ds \in Seq(D),
           \A c \in S, d \in D : TakeServer(c, d) \in S,
           NEW T, base \in T[0],
           \A k \in 1 .. Len(ds) : \A c \in T[k - 1] : TakeServer(c, ds[k]) \in T[k]
    PROVE  FoldLeft(TakeServer, base, ds) \in T[Len(ds)]
<1> DEFINE n == Len(ds)
           g == [p \in S \X D |-> TakeServer(p[1], p[2])]
           Rec(f) == [y \in SUBSET (DOMAIN ds) |->
                        IF y = {} THEN base
                        ELSE TakeServer(f[y \ {Max(y)}], ds[Max(y)])]
           it == CHOOSE iter : iter = Rec(iter)
<1>1. n \in Nat /\ DOMAIN ds = 1 .. n /\ ds \in [1 .. n -> D]
  OBVIOUS
<1>2. g \in [S \X D -> S]
  OBVIOUS
<1>3. \A c \in S, d \in D : g[<<c, d>>] = TakeServer(c, d)
  OBVIOUS
<1> HIDE DEF n, g
<1>4. PICK f \in FoldSolutions(S, base, g, n, ds) : TRUE
  <2>1. n \in Nat
    BY <1>1
  <2>2. ds \in [1 .. n -> D]
    BY <1>1
  <2>3. FoldSolutions(S, base, g, n, ds) # {}
    BY <2>1, <2>2, <1>2, FoldExists
  <2>4. QED
    BY <2>3
<1>5. f = Rec(f)
  <2>1. /\ f \in [SUBSET (1 .. n) -> S]
        /\ \A y \in SUBSET (1 .. n) :
             f[y] = IF y = {} THEN base
                    ELSE g[<<f[y \ {Max(y)}], ds[Max(y)]>>]
    BY <1>4 DEF FoldSolutions
  <2>2. ASSUME NEW y \in SUBSET (1 .. n)
        PROVE  f[y] = IF y = {} THEN base
                      ELSE TakeServer(f[y \ {Max(y)}], ds[Max(y)])
    <3>1. CASE y = {}
      BY <3>1, <2>1
    <3>2. CASE y # {}
      <4>1. Max(y) \in y
        BY <3>2, <1>1, MaxIsMax
      <4>2. ds[Max(y)] \in D /\ f[y \ {Max(y)}] \in S
        BY <4>1, <1>1, <2>1
      <4>3. QED
        BY <3>2, <4>2, <1>3, <2>1
    <3>3. QED
      BY <3>1, <3>2
  <2>3. QED
    BY <2>1, <2>2, <1>1
<1>6. it = Rec(it)
  BY <1>5
<1>7. FoldLeft(TakeServer, base, ds) = it[DOMAIN ds]
  BY DEF FoldLeft, MapThenFoldSet
<1> HIDE DEF it
<1>8. \A y \in SUBSET (1 .. n) :
        it[y] = IF y = {} THEN base
                ELSE TakeServer(it[y \ {Max(y)}], ds[Max(y)])
  BY <1>1, <1>6
<1>9. it[{}] = base
  BY <1>8
<1>10. ASSUME NEW k \in 1 .. n
       PROVE  it[1 .. k] = TakeServer(it[1 .. (k - 1)], ds[k])
  <2>1. k \in Nat \ {0}
    BY <1>1
  <2>2. /\ Max(1 .. k) = k
        /\ (1 .. k) \ {Max(1 .. k)} = 1 .. (k - 1)
        /\ 1 .. k # {}
    BY <2>1, PrefixStep
  <2>3. 1 .. k \in SUBSET (1 .. n)
    BY <1>1
  <2>4. QED
    BY <2>2, <2>3, <1>8
<1>11. it[{}] \in T[0]
  BY <1>9
<1>12. ASSUME NEW k \in 1 .. n, it[1 .. (k - 1)] \in T[k - 1]
       PROVE  it[1 .. k] \in T[k]
  <2>1. k \in 1 .. Len(ds)
    BY DEF n
  <2>2. QED
    BY <2>1, <1>10, <1>12
<1>13. it[1 .. n] \in T[n]
  BY <1>1, <1>11, <1>12, PrefixInd
<1>14. QED
  BY <1>1, <1>7, <1>13 DEF n

---------------------------------------------------------------------------
(* The inductive invariant.                                                *)

ConfNames == Servers \cup Sections \cup Threads

PCs == {"idle", "merging", "lock", "merge_child", "cache", "build", "store",
        "unlock", "use", "serving"}

(* The statements between the lock and the unlock of g_waf_build_mutex.    *)
Holding == {"merge_child", "cache", "build", "store", "unlock"}

ServerConfs == [rules : Seq(STRING), collected : Nat, waf : 0 .. Len(built)]

ThreadStates ==
    [pc : PCs, url : Urls \cup {NoUrl}, todo : Seq(Sections),
     dcf : Servers \cup Threads, waf : Nat]

ConfigTypes ==
    /\ phase \in {"reading", "checking", "refused", "loading", "servers",
                  "dirs", "ready", "disabled", "exited", "crashed"}
    /\ text \in Texts
    /\ pos \in 1 .. Len(text) + 1
    /\ Main \in made /\ made \subseteq Servers \cup Sections
    /\ Main \in own /\ own \subseteq Servers
    /\ confs \in [ConfNames -> ConfRecs(ConfNames, 0 .. Len(built), Sections \cup {NoConf})]
    /\ scfs \in [Servers -> ServerConfs]
    /\ tracked \in Seq(ConfNames)

ChildTypes ==
    /\ library \in Libraries \cup {NoLibrary}
    /\ built \in Seq([rules : Seq(STRING), by : {"child_init", "request"}])
    /\ loop \in Nat \ {0}
    /\ phase \in {"reading", "checking", "refused", "loading"} => loop = 1
    /\ phase = "servers" => loop <= Len(ServerList)

(* A cache entry is filed under the hash of its rules.                     *)
StoreTypes ==
    /\ threads \in [Threads -> ThreadStates]
    /\ \A t \in Threads : threads[t].dcf \in Servers \cup {t}
    /\ mutex \in Threads \cup {NoThread}
    /\ cache \in Seq(ToSet(cache)) /\ Len(cache) <= CacheMax
    /\ \A n \in DOMAIN cache : /\ cache[n].hash = Hash(cache[n].rules)
                               /\ cache[n].waf \in 1 .. Len(built)

TypeInv == ConfigTypes /\ ChildTypes /\ StoreTypes

---------------------------------------------------------------------------
(* Facts about the constants and the parts of a state.                     *)

(* The names of servers, sections and threads never collide.               *)
LEMMA NameFacts ==
    /\ Main \in Servers
    /\ Len(ServerList) \in Nat \ {0}
    /\ \A n \in 1 .. Len(ServerList) : ServerList[n] \in Servers
    /\ \A s \in Servers : s \notin Sections /\ s \notin Threads /\ s # NoConf
    /\ \A x \in Sections : x \notin Threads /\ x # NoConf
    /\ \A t \in Threads : t # NoConf /\ t # NoThread
    /\ ToSet(Tail(ServerList)) \subseteq Servers
    /\ Tail(ServerList) \in Seq(Servers)
<1>1. ServerList \in Seq(Servers) /\ ServerList # <<>>
  BY NamesAssumption
<1>2. Len(ServerList) \in Nat \ {0} /\ DOMAIN ServerList = 1 .. Len(ServerList)
  BY <1>1
<1>3. Tail(ServerList) \in Seq(Servers)
  BY <1>1
<1>4. ToSet(Tail(ServerList)) \subseteq Servers
  BY <1>3 DEF ToSet
<1>5. Main \in Servers
  BY <1>1, <1>2 DEF Main
<1>6. QED
  BY <1>1, <1>2, <1>3, <1>4, <1>5, NamesAssumption, StoreAssumption

(* A text is a sequence of directives.                                     *)
LEMMA TextFacts ==
    ASSUME text \in Texts
    PROVE  /\ Len(text) \in Nat
           /\ DOMAIN text = 1 .. Len(text)
           /\ \A n \in 1 .. Len(text) : IsDirective(text[n])
<1>1. AreDirectives(text)
  BY TextsAssumption
<1>2. QED
  BY <1>1 DEF AreDirectives, ToSet

LEMMA EmptySeq ==
    ASSUME NEW S
    PROVE  <<>> \in Seq(S)
OBVIOUS

(* A new configuration is well typed.                                      *)
LEMMA FreshConf ==
    ASSUME NEW A, NEW W, NEW M, NoWaf \in W, NoConf \in M, NEW x \in A
    PROVE  coraza_create_dir_conf(x) \in ConfRecs(A, W, M)
BY DEF coraza_create_dir_conf, ConfRecs, Unset

(* Where a server finds its configurations.                                *)
LEMMA ServerFacts ==
    ASSUME TypeInv, NEW s \in Servers
    PROVE  ServerConf(s) \in Servers /\ Defaults(s) \in Servers
BY NameFacts DEF ServerConf, Defaults

(* The configuration a thread works with.                                  *)
LEMMA ConfFacts ==
    ASSUME TypeInv, NEW t \in Threads
    PROVE  /\ threads[t].dcf \in ConfNames
           /\ Conf(t) \in ConfRecs(ConfNames, 0 .. Len(built), Sections \cup {NoConf})
           /\ Conf(t).waf \in 0 .. Len(built)
           /\ Conf(t).merge_child \in Sections \cup {NoConf}
           /\ Conf(t).rules \in Seq(STRING)
<1>1. threads[t].dcf \in Servers \cup {t}
  BY DEF TypeInv, StoreTypes
<1>2. threads[t].dcf \in ConfNames
  BY <1>1 DEF ConfNames
<1>3. Conf(t) \in ConfRecs(ConfNames, 0 .. Len(built), Sections \cup {NoConf})
  BY <1>2 DEF TypeInv, ConfigTypes, Conf
<1>4. QED
  BY <1>2, <1>3 DEF ConfRecs

(* More WAFs: what was a handle is still one.                              *)
LEMMA Grown ==
    ASSUME NEW A, NEW M, NEW c, NEW m \in Nat, NEW n \in Nat, m <= n,
           c \in ConfRecs(A, 0 .. m, M)
    PROVE  c \in ConfRecs(A, 0 .. n, M)
<1>1. 0 .. m \subseteq 0 .. n
  OBVIOUS
<1>2. QED
  BY <1>1 DEF ConfRecs
---------------------------------------------------------------------------
(* Types.                                                                  *)

LEMMA TypeInit ==
    ASSUME Init
    PROVE  TypeInv
<1> USE DEF Init, ConfigInit, ChildInit
<1>1. /\ \A x \in ConfNames : coraza_create_dir_conf(x)
           \in ConfRecs(ConfNames, 0 .. Len(built), Sections \cup {NoConf})
      /\ confs = [x \in ConfNames |-> coraza_create_dir_conf(x)]
  <2>1. NoWaf \in 0 .. Len(built)
    BY DEF NoWaf
  <2>2. QED
    BY <2>1, FreshConf DEF ConfNames
<1>2. ConfigTypes
  <2>1. pos \in 1 .. Len(text) + 1
    BY TextFacts
  <2>2. scfs \in [Servers -> ServerConfs]
    BY DEF ServerConfs, coraza_create_server_conf, NoWaf
  <2>3. confs \in [ConfNames -> ConfRecs(ConfNames, 0 .. Len(built), Sections \cup {NoConf})]
    BY <1>1
  <2>4. tracked \in Seq(ConfNames)
    BY EmptySeq
  <2>5. QED
    BY <2>1, <2>2, <2>3, <2>4, NameFacts DEF ConfigTypes
<1>3. ChildTypes
  BY NameFacts DEF ChildTypes
<1>4. StoreTypes
  <2>1. Idle \in ThreadStates /\ Idle.dcf = Main
    BY NameFacts DEF Idle, ThreadStates, PCs, NoWaf
  <2>2. cache \in Seq(ToSet(cache)) /\ Len(cache) = 0
    OBVIOUS
  <2>3. QED
    BY <2>1, <2>2, NameFacts, StoreAssumption DEF StoreTypes
<1>5. QED
  BY <1>2, <1>3, <1>4 DEF TypeInv

LEMMA ReadDirectiveTypes ==
    ASSUME TypeInv, ReadDirective, UNCHANGED <<childVars, storeVars>>
    PROVE  TypeInv'
<1> DEFINE d == text[pos]
           R == ConfRecs(ConfNames, 0 .. Len(built), Sections \cup {NoConf})
<1> USE DEF TypeInv
<1>1. /\ IsDirective(d) /\ pos \in Nat /\ Len(text) \in Nat
      /\ pos + 1 \in 1 .. Len(text) + 1
  BY TextFacts DEF ReadDirective, ConfigTypes
<1>2. d.server \in Servers /\ d.scope \in Servers \cup Sections /\ d.scope \in ConfNames
  BY <1>1 DEF IsDirective, ConfNames
<1>3. confs[d.scope] \in R
  BY <1>2 DEF ConfigTypes
<1>4. ApplyDirective(confs[d.scope], d) \in R
  BY <1>1, <1>3, ApplyDirectiveType
<1>5. scfs[d.server] \in ServerConfs
  BY <1>2 DEF ConfigTypes
<1>6. CountRule(scfs[d.server], d) \in ServerConfs
  <2>1. CASE d.cmd = "rules"
    <3>1. d.arg \in STRING
      BY <1>1, <2>1 DEF IsDirective
    <3>2. Append(scfs[d.server].rules, d.arg) \in Seq(STRING)
      BY <1>5, <3>1 DEF ServerConfs
    <3> DEFINE scf == scfs[d.server]
    <3>3. /\ scf \in ServerConfs /\ scf.rules \in Seq(STRING)
          /\ Append(scf.rules, d.arg) \in Seq(STRING) /\ scf.collected + 1 \in Nat
      BY <1>5, <3>2 DEF ServerConfs
    <3>4. CountRule(scf, d) =
            [scf EXCEPT !.collected = @ + 1,
               !.rules = IF d.scope = d.server THEN Append(@, d.arg) ELSE @]
      BY <2>1 DEF CountRule
    <3> HIDE DEF scf
    <3>5. QED
      BY <3>3, <3>4 DEF ServerConfs, scf
  <2>2. CASE d.cmd # "rules"
    BY <1>5, <2>2 DEF CountRule
  <2>3. QED
    BY <2>1, <2>2
<1>7. /\ confs' \in [ConfNames -> R]
      /\ scfs' \in [Servers -> ServerConfs]
      /\ phase' \in {"reading", "refused"}
      /\ phase = "reading"
  <2> HIDE DEF R
  <2>1. CASE DirectiveRefused(d)
    BY <2>1 DEF ReadDirective, ConfigTypes, R
  <2>2. CASE ~DirectiveRefused(d)
    BY <2>2, <1>4, <1>6 DEF ReadDirective, ConfigTypes, R
  <2>3. QED
    BY <2>1, <2>2
<1>8. /\ text' = text /\ pos' = pos + 1 /\ made' = made \cup {d.scope}
      /\ own' = own \cup {d.server} /\ tracked' \in {tracked, <<>>}
      /\ built' = built /\ library' = library /\ loop' = loop
      /\ threads' = threads /\ mutex' = mutex /\ cache' = cache
  BY DEF ReadDirective, childVars, storeVars
<1>9. tracked' \in Seq(ConfNames)
  <2>1. tracked \in Seq(ConfNames) /\ <<>> \in Seq(ConfNames)
    BY EmptySeq DEF ConfigTypes
  <2>2. QED
    BY <1>8, <2>1
<1> HIDE DEF d
<1>10. ConfigTypes'
  BY <1>1, <1>2, <1>7, <1>8, <1>9 DEF ConfigTypes, ServerConfs
<1>11. ChildTypes' /\ StoreTypes'
  BY <1>7, <1>8 DEF ChildTypes, StoreTypes
<1>12. QED
  BY <1>10, <1>11

LEMMA FixupTypes ==
    ASSUME TypeInv, FixupVirtualHosts, UNCHANGED <<childVars, storeVars>>
    PROVE  TypeInv'
<1> DEFINE R == ConfRecs(ConfNames, 0 .. Len(built), Sections \cup {NoConf})
<1> USE DEF TypeInv
<1>1. ASSUME NEW x \in Servers
      PROVE  coraza_merge_dir_conf(confs[Main], confs[x], NoConf, x) \in R
  <2>1. x \in ConfNames /\ Main \in ConfNames
    BY NameFacts DEF ConfNames
  <2>2. confs[x] \in R /\ confs[Main] \in R
    BY <2>1 DEF ConfigTypes
  <2>3. NoWaf \in 0 .. Len(built)
    BY DEF NoWaf, ChildTypes
  <2>4. QED
    BY <2>1, <2>2, <2>3, MergeType
<1>2. confs' \in [ConfNames -> R]
  <2> HIDE DEF R
  <2>1. confs \in [ConfNames -> R]
    BY DEF ConfigTypes, R
  <2>2. QED
    BY <1>1, <2>1, NameFacts DEF FixupVirtualHosts
<1>3. tracked' \in Seq(ConfNames)
  <2> DEFINE S == Seq(ConfNames)
  <2>1. \A c \in S, s \in Servers : TrackMade(c, s) \in S
    BY DEF TrackMade, ConfNames
  <2>2. tracked \in S
    BY DEF ConfigTypes
  <2>3. Tail(ServerList) \in Seq(Servers)
    BY NameFacts
  <2> HIDE DEF S
  <2> DEFINE T == [k \in Nat |-> S]
  <2>4. /\ tracked \in T[0]
        /\ \A k \in 1 .. Len(Tail(ServerList)), c \in S :
             c \in T[k - 1] => TrackMade(c, Tail(ServerList)[k]) \in T[k]
    BY <2>1, <2>2, <2>3
  <2> HIDE DEF T
  <2>5. FoldLeft(TrackMade, tracked, Tail(ServerList)) \in S
    BY <2>1, <2>2, <2>3, <2>4, TrackMadeFold
  <2>6. QED
    BY <2>5 DEF FixupVirtualHosts, S
<1>4. /\ text' = text /\ pos' = pos /\ made' = made
      /\ own' = own /\ scfs' = scfs /\ phase' = "checking" /\ phase = "reading"
      /\ built' = built /\ library' = library /\ loop' = loop
      /\ threads' = threads /\ mutex' = mutex /\ cache' = cache
  BY DEF FixupVirtualHosts, childVars, storeVars
<1>5. ConfigTypes'
  BY <1>2, <1>3, <1>4 DEF ConfigTypes, ServerConfs
<1>6. ChildTypes' /\ StoreTypes'
  BY <1>4 DEF ChildTypes, StoreTypes
<1>7. QED
  BY <1>5, <1>6

(* What a build does: another WAF, compiled from the rules, or none.       *)
LEMMA BuildFacts ==
    ASSUME TypeInv, NEW rules \in Seq(STRING), NEW by \in {"child_init", "request"},
           NEW waf,
           \/ waf = NewWaf /\ built' = Append(built, [rules |-> rules, by |-> by])
           \/ waf # NewWaf /\ built' = built
    PROVE  /\ built' \in Seq([rules : Seq(STRING), by : {"child_init", "request"}])
           /\ Len(built) \in Nat /\ Len(built') \in Nat /\ Len(built) <= Len(built')
           /\ DOMAIN built = 1 .. Len(built) /\ DOMAIN built' = 1 .. Len(built')
           /\ \A h \in DOMAIN built : built'[h] = built[h]
           /\ waf = NewWaf => /\ Len(built') = waf /\ waf = Len(built) + 1
                              /\ built'[waf] = [rules |-> rules, by |-> by]
<1> DEFINE B == [rules : Seq(STRING), by : {"child_init", "request"}]
           b == [rules |-> rules, by |-> by]
<1>1. built \in Seq(B) /\ b \in B
  BY DEF TypeInv, ChildTypes
<1> HIDE DEF B, b
<1>2. CASE waf = NewWaf /\ built' = Append(built, b)
  BY <1>1, <1>2 DEF NewWaf, B, b
<1>3. CASE waf # NewWaf /\ built' = built
  BY <1>1, <1>3 DEF B, b
<1>4. QED
  BY <1>2, <1>3 DEF b

(* Configurations stay well typed when more WAFs are built.                *)
LEMMA ConfsGrow ==
    ASSUME NEW A, NEW M, NEW X, NEW m \in Nat, NEW n \in Nat, m <= n,
           NEW f \in [X -> ConfRecs(A, 0 .. m, M)]
    PROVE  f \in [X -> ConfRecs(A, 0 .. n, M)]
<1> DEFINE R == ConfRecs(A, 0 .. m, M)
           Q == ConfRecs(A, 0 .. n, M)
<1>1. \A c \in R : c \in Q
  BY Grown
<1> HIDE DEF R, Q
<1>2. f \in [X -> R]
  BY DEF R
<1>3. f \in [X -> Q]
  BY <1>1, <1>2
<1>4. QED
  BY <1>3 DEF Q

(* The WAF of one configuration is set.                                    *)
LEMMA SetWaf ==
    ASSUME NEW A, NEW M, NEW X, NEW W, NEW w \in W,
           NEW f \in [X -> ConfRecs(A, W, M)], NEW x
    PROVE  [f EXCEPT ![x].waf = w] \in [X -> ConfRecs(A, W, M)]
<1> DEFINE R == ConfRecs(A, W, M)
<1>1. \A c \in R : [c EXCEPT !.waf = w] \in R
  BY DEF ConfRecs
<1> HIDE DEF R
<1>2. f \in [X -> R]
  BY DEF R
<1>3. [f EXCEPT ![x].waf = w] \in [X -> R]
  BY <1>1, <1>2
<1>4. QED
  BY <1>3 DEF R

(* A server takes a WAF without changing its rules.                        *)
LEMMA ServerWafTypes ==
    ASSUME NEW m \in Nat, NEW n \in Nat, m <= n, NEW w \in 0 .. n, NEW s, NEW X,
           NEW f \in [X -> [rules : Seq(STRING), collected : Nat, waf : 0 .. m]]
    PROVE  [f EXCEPT ![s].waf = w]
             \in [X -> [rules : Seq(STRING), collected : Nat, waf : 0 .. n]]
<1> DEFINE R == [rules : Seq(STRING), collected : Nat, waf : 0 .. m]
           Q == [rules : Seq(STRING), collected : Nat, waf : 0 .. n]
<1>0. 0 .. m \subseteq 0 .. n
  OBVIOUS
<1>1. \A c \in R : c \in Q /\ [c EXCEPT !.waf = w] \in Q
  BY <1>0
<1> HIDE DEF R, Q
<1>2. f \in [X -> R]
  BY DEF R
<1>3. [f EXCEPT ![s].waf = w] \in [X -> Q]
  BY <1>1, <1>2
<1>4. QED
  BY <1>3 DEF Q

LEMMA CheckLoadTypes ==
    ASSUME TypeInv,
           \/ coraza_check_config /\ UNCHANGED <<childVars, storeVars>>
           \/ coraza_dl_open /\ UNCHANGED storeVars
           \/ ChildReady /\ UNCHANGED storeVars
           \/ DisabledExit /\ UNCHANGED storeVars
    PROVE  TypeInv'
<1> USE DEF TypeInv
<1>1. /\ UNCHANGED <<text, pos, made, own, confs, scfs, tracked>>
      /\ UNCHANGED <<built, failures, freed, loop>>
      /\ UNCHANGED <<threads, mutex, cache>>
  BY DEF coraza_check_config, coraza_dl_open, ChildReady, DisabledExit, childVars, storeVars
<1>2. /\ phase' \in {"refused", "loading", "servers", "disabled", "ready", "exited"}
      /\ phase' \in {"refused", "loading", "servers"} => phase \in {"checking", "loading"}
      /\ library' \in Libraries \cup {NoLibrary}
  BY DEF coraza_check_config, coraza_dl_open, ChildReady, DisabledExit, childVars, ChildTypes
<1>3. ConfigTypes'
  BY <1>1, <1>2 DEF ConfigTypes, ServerConfs
<1>4. ChildTypes'
  BY <1>1, <1>2, NameFacts DEF ChildTypes
<1>5. StoreTypes'
  BY <1>1 DEF StoreTypes
<1>6. QED
  BY <1>3, <1>4, <1>5

LEMMA StoreTypesKept ==
    ASSUME TypeInv, UNCHANGED <<threads, mutex, cache>>, Len(built') \in Nat,
           Len(built) \in Nat, Len(built) <= Len(built')
    PROVE  StoreTypes'
BY DEF TypeInv, StoreTypes

LEMMA BuildServerTypes ==
    ASSUME TypeInv, BuildServerWaf, UNCHANGED storeVars
    PROVE  TypeInv'
<1> DEFINE s == ServerList[loop]
           c == ServerConf(s)
           base == Defaults(s)
<1>1. s \in Servers /\ c \in Servers /\ base \in Servers
  <2>1. loop \in 1 .. Len(ServerList)
    BY NameFacts DEF TypeInv, ChildTypes, BuildServerWaf
  <2>2. s \in Servers
    BY <2>1, NameFacts
  <2>3. QED
    BY <2>2, ServerFacts
<1>2. scfs[c] \in ServerConfs /\ scfs[c].rules \in Seq(STRING)
      /\ scfs[c].waf \in 0 .. Len(built)
  BY <1>1 DEF TypeInv, ConfigTypes, ServerConfs
<1>3. PICK waf \in {NoWaf, NewWaf, scfs[c].waf} :
        /\ IF scfs[c].rules # <<>>
           THEN coraza_build_waf(scfs[c].rules, "child_init", waf)
           ELSE EmptyWaf(scfs[c].waf, waf)
        /\ scfs' = [scfs EXCEPT ![c].waf = waf]
        /\ confs' = [confs EXCEPT ![base].waf = IF @ = NoWaf THEN waf ELSE @]
  BY DEF BuildServerWaf
<1> HIDE DEF s, c, base
<1>4. Len(built) \in Nat
  BY DEF TypeInv, ChildTypes
<1>5. \E rules \in Seq(STRING) :
        \/ waf = NewWaf /\ built' = Append(built, [rules |-> rules, by |-> "child_init"])
        \/ waf # NewWaf /\ built' = built
  <2>1. NoWaf # NewWaf /\ scfs[c].waf # NewWaf
    BY <1>2, <1>4 DEF NoWaf, NewWaf
  <2>2. <<>> \in Seq(STRING)
    BY EmptySeq
  <2>3. QED
    BY <1>2, <1>3, <2>1, <2>2
       DEF coraza_build_waf, EmptyWaf, coraza_new_waf, BuildFails
<1>6. /\ built' \in Seq([rules : Seq(STRING), by : {"child_init", "request"}])
      /\ Len(built') \in Nat /\ Len(built) <= Len(built')
      /\ waf = NewWaf => Len(built') = waf
  BY <1>5, BuildFacts
<1>7. waf \in 0 .. Len(built')
  BY <1>2, <1>3, <1>4, <1>6 DEF NoWaf
<1>8. confs' \in [ConfNames -> ConfRecs(ConfNames, 0 .. Len(built'), Sections \cup {NoConf})]
  <2> DEFINE R == ConfRecs(ConfNames, 0 .. Len(built'), Sections \cup {NoConf})
             w == IF confs[base].waf = NoWaf THEN waf ELSE confs[base].waf
  <2>1. confs \in [ConfNames -> R]
    BY <1>4, <1>6, ConfsGrow DEF TypeInv, ConfigTypes
  <2>2. base \in ConfNames
    BY <1>1 DEF ConfNames
  <2>3. w \in 0 .. Len(built')
    BY <1>7, <2>1, <2>2 DEF ConfRecs
  <2>4. confs' = [confs EXCEPT ![base].waf = w]
    BY <1>3, <2>1, <2>2
  <2> HIDE DEF w
  <2>5. QED
    BY <2>1, <2>3, <2>4, SetWaf
<1>9. scfs' \in [Servers -> ServerConfs']
  <2>1. scfs \in [Servers -> [rules : Seq(STRING), collected : Nat, waf : 0 .. Len(built)]]
    BY DEF TypeInv, ConfigTypes, ServerConfs
  <2>2. [scfs EXCEPT ![c].waf = waf]
          \in [Servers -> [rules : Seq(STRING), collected : Nat, waf : 0 .. Len(built')]]
    BY <1>4, <1>6, <1>7, <2>1, ServerWafTypes
  <2>3. QED
    BY <1>3, <2>2 DEF ServerConfs
<1>10. /\ UNCHANGED <<text, pos, made, own, tracked, library>>
       /\ UNCHANGED <<threads, mutex, cache>>
       /\ phase = "servers" /\ phase' \in {"servers", "dirs"}
       /\ loop' \in Nat \ {0}
       /\ phase' = "servers" => loop' <= Len(ServerList)
  BY NameFacts DEF BuildServerWaf, storeVars, TypeInv, ChildTypes
<1>11. ConfigTypes'
  BY <1>8, <1>9, <1>10 DEF TypeInv, ConfigTypes
<1>12. ChildTypes'
  BY <1>6, <1>10 DEF TypeInv, ChildTypes
<1>13. StoreTypes'
  BY <1>4, <1>6, <1>10, StoreTypesKept
<1>14. QED
  BY <1>11, <1>12, <1>13 DEF TypeInv

LEMMA BuildDirTypes ==
    ASSUME TypeInv, BuildDirWaf, UNCHANGED storeVars
    PROVE  TypeInv'
<1> DEFINE x == tracked[loop]
           R == ConfRecs(ConfNames, 0 .. Len(built), Sections \cup {NoConf})
           Q == ConfRecs(ConfNames, 0 .. Len(built'), Sections \cup {NoConf})
<1> HIDE DEF R, Q
<1>1. /\ tracked \in Seq(ConfNames) /\ loop \in Nat \ {0} /\ loop <= Len(tracked)
      /\ confs \in [ConfNames -> R] /\ Len(built) \in Nat
      /\ built' = built => Q = R
  <2>1. tracked \in Seq(ConfNames) /\ confs \in [ConfNames -> R]
    BY DEF TypeInv, ConfigTypes, R
  <2>2. loop \in Nat \ {0} /\ loop <= Len(tracked) /\ Len(built) \in Nat
    BY DEF TypeInv, ChildTypes, BuildDirWaf
  <2>3. built' = built => Q = R
    BY DEF R, Q
  <2>4. QED
    BY <2>1, <2>2, <2>3
<1>2. x \in ConfNames /\ \A j \in 1 .. (loop - 1) : tracked[j] \in ConfNames
  BY <1>1
<1>3. confs[x].rules \in Seq(STRING)
  BY <1>1, <1>2 DEF ConfRecs, R
<1>4. /\ built' \in Seq([rules : Seq(STRING), by : {"child_init", "request"}])
      /\ Len(built') \in Nat /\ Len(built) <= Len(built')
      /\ confs' \in [ConfNames -> Q]
  <2>1. CASE UNCHANGED <<confs, built, failures>>
    BY <1>1, <2>1 DEF TypeInv, ChildTypes
  <2>2. CASE /\ SameArray # {}
             /\ confs' = [confs EXCEPT ![x].waf = confs[tracked[Min(SameArray)]].waf]
             /\ UNCHANGED <<built, failures>>
    <3>1. Min(SameArray) \in 1 .. (loop - 1)
      <4>1. SameArray \in SUBSET Nat /\ SameArray \subseteq 1 .. (loop - 1)
        BY <1>1 DEF SameArray
      <4>2. QED
        BY <2>2, <4>1, MinIsMin
    <3>2. confs[tracked[Min(SameArray)]].waf \in 0 .. Len(built)
      BY <1>1, <1>2, <3>1 DEF ConfRecs, R
    <3>3. confs' \in [ConfNames -> R]
      <4> DEFINE w == confs[tracked[Min(SameArray)]].waf
      <4>1. w \in 0 .. Len(built) /\ confs' = [confs EXCEPT ![x].waf = w]
        BY <2>2, <3>2
      <4> HIDE DEF w, x
      <4>2. [confs EXCEPT ![x].waf = w] \in [ConfNames -> R]
        BY <1>1, <4>1, SetWaf DEF R
      <4>3. QED
        BY <4>1, <4>2
    <3>4. QED
      BY <1>1, <2>2, <3>3 DEF TypeInv, ChildTypes
  <2>3. ASSUME NEW waf \in {NoWaf, NewWaf},
               coraza_build_waf(confs[x].rules, "child_init", waf),
               confs' = [confs EXCEPT ![x].waf = waf]
        PROVE  /\ built' \in Seq([rules : Seq(STRING), by : {"child_init", "request"}])
               /\ Len(built') \in Nat /\ Len(built) <= Len(built')
               /\ confs' \in [ConfNames -> Q]
    <3>1. NoWaf # NewWaf
      BY <1>1 DEF NoWaf, NewWaf
    <3>2. \/ waf = NewWaf /\ built' = Append(built, [rules |-> confs[x].rules, by |-> "child_init"])
          \/ waf # NewWaf /\ built' = built
      BY <2>3, <3>1 DEF coraza_build_waf, coraza_new_waf, BuildFails
    <3>3. /\ built' \in Seq([rules : Seq(STRING), by : {"child_init", "request"}])
          /\ Len(built') \in Nat /\ Len(built) <= Len(built')
          /\ waf = NewWaf => Len(built') = waf
      BY <1>3, <3>2, BuildFacts
    <3>4. waf \in 0 .. Len(built')
      BY <3>3 DEF NoWaf
    <3>5. confs \in [ConfNames -> Q]
      BY <1>1, <3>3, ConfsGrow DEF R, Q
    <3>6. confs' \in [ConfNames -> Q]
      <4>1. [confs EXCEPT ![x].waf = waf] \in [ConfNames -> Q]
        BY <3>4, <3>5, SetWaf DEF Q
      <4>2. QED
        BY <2>3, <4>1
    <3>7. QED
      BY <3>3, <3>6
  <2>4. QED
    BY <2>1, <2>2, <2>3 DEF BuildDirWaf
<1>5. /\ UNCHANGED <<phase, text, pos, made, own, scfs, tracked, library>>
      /\ UNCHANGED <<threads, mutex, cache>>
      /\ phase = "dirs" /\ loop' \in Nat \ {0}
  BY <1>1 DEF BuildDirWaf, storeVars
<1>6. scfs \in [Servers -> ServerConfs']
  <2>1. 0 .. Len(built) \subseteq 0 .. Len(built')
    BY <1>1, <1>4
  <2>2. QED
    BY <2>1 DEF TypeInv, ConfigTypes, ServerConfs
<1>7. ConfigTypes'
  BY <1>4, <1>5, <1>6 DEF TypeInv, ConfigTypes, Q
<1>8. ChildTypes'
  BY <1>4, <1>5 DEF TypeInv, ChildTypes
<1>9. StoreTypes'
  BY <1>1, <1>4, <1>5, StoreTypesKept
<1>10. QED
  BY <1>7, <1>8, <1>9 DEF TypeInv

LEMMA ChildExitTypes ==
    ASSUME TypeInv, coraza_child_exit, UNCHANGED storeVars
    PROVE  TypeInv'
<1> DEFINE R == ConfRecs(ConfNames, 0 .. Len(built), Sections \cup {NoConf})
<1>1. NoWaf \in 0 .. Len(built)
  BY DEF NoWaf, TypeInv, ChildTypes
<1>2. \A c \in R : [c EXCEPT !.waf = NoWaf] \in R
  BY <1>1 DEF ConfRecs
<1>3. confs' \in [ConfNames -> R]
  <2> HIDE DEF R
  <2>1. confs \in [ConfNames -> R]
    BY DEF TypeInv, ConfigTypes, R
  <2>2. QED
    BY <1>2, <2>1 DEF coraza_child_exit
<1>4. scfs' \in [Servers -> ServerConfs]
  BY <1>1 DEF coraza_child_exit, TypeInv, ConfigTypes, ServerConfs
<1>5. /\ UNCHANGED <<text, pos, made, own, tracked, built, loop, library>>
      /\ UNCHANGED <<threads, mutex, cache>> /\ phase' = "exited"
  BY DEF coraza_child_exit, coraza_dl_close, storeVars
<1>6. ConfigTypes'
  BY <1>3, <1>4, <1>5 DEF TypeInv, ConfigTypes, ServerConfs
<1>7. ChildTypes' /\ StoreTypes'
  BY <1>5 DEF TypeInv, ChildTypes, StoreTypes
<1>8. QED
  BY <1>6, <1>7 DEF TypeInv
---------------------------------------------------------------------------
(* The steps of a request: what each one does to the threads and to the    *)
(* configurations.                                                         *)

(* Only the thread t changes, to the state r.                              *)
Moves(t, r) ==
    /\ threads' \in [Threads -> ThreadStates]
    /\ \A u \in Threads : threads'[u].dcf \in Servers \cup {u}
    /\ threads'[t] = r
    /\ \A u \in Threads \ {t} : threads'[u] = threads[u]

(* A step of a thread that gives it the state r and leaves the others.     *)
LEMMA MovesFacts ==
    ASSUME TypeInv, NEW t \in Threads, NEW r \in ThreadStates,
           r.dcf \in Servers \cup {t}, threads' = [threads EXCEPT ![t] = r]
    PROVE  Moves(t, r)
<1>1. threads \in [Threads -> ThreadStates] /\ \A u \in Threads : threads[u].dcf \in Servers \cup {u}
  BY DEF TypeInv, StoreTypes
<1>2. threads' \in [Threads -> ThreadStates]
  BY <1>1
<1>3. threads'[t] = r /\ \A u \in Threads \ {t} : threads'[u] = threads[u]
  BY <1>1
<1>4. QED
  BY <1>1, <1>2, <1>3 DEF Moves

(* The statement of t changes and nothing else about it.                   *)
GoesTo(t, pc) ==
    /\ threads' \in [Threads -> ThreadStates]
    /\ \A u \in Threads : threads'[u].dcf \in Servers \cup {u}
    /\ threads'[t].pc = pc
    /\ threads'[t].url = threads[t].url /\ threads'[t].todo = threads[t].todo
    /\ threads'[t].dcf = threads[t].dcf
    /\ \A u \in Threads \ {t} : threads'[u] = threads[u]

(* A step of a thread that changes its program counter alone.              *)
LEMMA GotoFacts ==
    ASSUME TypeInv, NEW t \in Threads, NEW pc \in PCs, Goto(t, pc)
    PROVE  GoesTo(t, pc)
<1> DEFINE r == [threads[t] EXCEPT !.pc = pc]
<1>1. threads \in [Threads -> ThreadStates] /\ threads[t] \in ThreadStates
      /\ threads[t].dcf \in Servers \cup {t}
  BY DEF TypeInv, StoreTypes
<1>2. r \in ThreadStates /\ r.dcf = threads[t].dcf /\ r.pc = pc
      /\ r.url = threads[t].url /\ r.todo = threads[t].todo
  BY <1>1 DEF ThreadStates
<1>3. threads' = [threads EXCEPT ![t] = r]
  BY <1>1 DEF Goto
<1> HIDE DEF r
<1>4. Moves(t, r)
  BY <1>1, <1>2, <1>3, MovesFacts
<1>5. QED
  BY <1>2, <1>4 DEF Moves, GoesTo

(* The configurations stay, but for that of x.                             *)
Keeps(x) == \A y \in ConfNames \ {x} : confs'[y] = confs[y]

Rs == ConfRecs(ConfNames, 0 .. Len(built), Sections \cup {NoConf})

(* The end of a request frees the thread and its pool: the configuration   *)
(* merged for it is gone.                                                  *)
LEMMA EndRequestFacts ==
    ASSUME TypeInv, NEW t \in Threads, EndRequest(t)
    PROVE  /\ Moves(t, Idle)
           /\ confs' \in [ConfNames -> Rs]
           /\ confs'[t] = coraza_create_dir_conf(t)
           /\ Keeps(t)
<1>1. Idle \in ThreadStates /\ Idle.dcf \in Servers \cup {t}
  BY NameFacts DEF Idle, ThreadStates, PCs, NoWaf
<1>2. Moves(t, Idle)
  BY <1>1, MovesFacts DEF EndRequest
<1>3. t \in ConfNames /\ NoWaf \in 0 .. Len(built)
  BY DEF ConfNames, NoWaf, TypeInv, ChildTypes
<1>4. coraza_create_dir_conf(t) \in Rs
  BY <1>3, FreshConf DEF Rs
<1>5. confs \in [ConfNames -> Rs]
  BY DEF TypeInv, ConfigTypes, Rs
<1>6. confs' = [confs EXCEPT ![t] = coraza_create_dir_conf(t)]
  BY DEF EndRequest
<1>7. QED
  BY <1>2, <1>3, <1>4, <1>5, <1>6 DEF Keeps

(* The types after a step that builds no WAF and adds nothing to the cache.*)
LEMMA StepTypes ==
    ASSUME TypeInv, UNCHANGED <<text, pos, made, own, scfs, library, loop, built, cache>>,
           phase' = phase \/ phase' = "crashed",
           confs' \in [ConfNames -> Rs], tracked' \in Seq(ConfNames),
           threads' \in [Threads -> ThreadStates],
           \A u \in Threads : threads'[u].dcf \in Servers \cup {u},
           mutex' \in Threads \cup {NoThread}
    PROVE  TypeInv'
<1>1. ConfigTypes'
  BY DEF TypeInv, ConfigTypes, ServerConfs, Rs
<1>2. ChildTypes'
  BY DEF TypeInv, ChildTypes
<1>3. StoreTypes'
  BY DEF TypeInv, StoreTypes
<1>4. QED
  BY <1>1, <1>2, <1>3 DEF TypeInv

(* The state of a thread whose request for u has just come in.             *)
Started(u) ==
    [pc |-> "merging", url |-> u, todo |-> u.path,
     dcf |-> Defaults(u.server), waf |-> NoWaf]

LEMMA StartFacts ==
    ASSUME TypeInv, NEW t \in Threads, Start(t)
    PROVE  /\ TypeInv'
           /\ \E u \in Urls : Moves(t, Started(u))
           /\ UNCHANGED <<configVars, childVars, mutex, cache>>
           /\ threads[t].pc = "idle" /\ phase \in {"ready", "disabled"}
<1>1. PICK u \in Urls : threads' = [threads EXCEPT ![t] = Started(u)]
  BY DEF Start, Started
<1>2. u.server \in Servers /\ u.path \in Seq(Sections)
  BY StoreAssumption
<1>3. Started(u) \in ThreadStates /\ Started(u).dcf \in Servers
  BY <1>2, ServerFacts DEF Started, ThreadStates, PCs, NoWaf
<1>4. Moves(t, Started(u))
  BY <1>1, <1>3, MovesFacts
<1>5. UNCHANGED <<configVars, childVars, mutex, cache>>
  BY DEF Start
<1>6. confs' \in [ConfNames -> Rs] /\ tracked' \in Seq(ConfNames)
      /\ mutex' \in Threads \cup {NoThread}
  BY <1>5 DEF configVars, TypeInv, ConfigTypes, StoreTypes, Rs
<1>7. TypeInv'
  BY <1>4, <1>5, <1>6, StepTypes DEF Moves, configVars, childVars
<1>8. QED
  BY <1>4, <1>5, <1>7 DEF Start

(* One section further: skipped, refused, or merged into the request's     *)
(* own configuration.                                                      *)
Advances(t, dcf) ==
    /\ threads' \in [Threads -> ThreadStates]
    /\ \A u \in Threads : threads'[u].dcf \in Servers \cup {u}
    /\ threads'[t].pc = "merging" /\ threads'[t].url = threads[t].url
    /\ threads'[t].todo = Tail(threads[t].todo)
    /\ threads'[t].dcf = dcf
    /\ \A u \in Threads \ {t} : threads'[u] = threads[u]

(* A thread that is done with the next section of its path.                *)
LEMMA AdvanceFacts ==
    ASSUME TypeInv, NEW t \in Threads, threads[t].pc = "merging",
           threads[t].todo # <<>>, NEW dcf \in Servers \cup {t},
           threads' = [threads EXCEPT ![t].todo = Tail(@), ![t].dcf = dcf]
    PROVE  Advances(t, dcf)
<1> DEFINE r == [threads[t] EXCEPT !.todo = Tail(@), !.dcf = dcf]
<1>1. threads \in [Threads -> ThreadStates] /\ threads[t] \in ThreadStates
      /\ threads[t].todo \in Seq(Sections)
  BY DEF TypeInv, StoreTypes, ThreadStates
<1>2. Tail(threads[t].todo) \in Seq(Sections)
  BY <1>1
<1>3. r \in ThreadStates /\ r.dcf = dcf /\ r.pc = threads[t].pc
      /\ r.url = threads[t].url /\ r.todo = Tail(threads[t].todo)
  BY <1>1, <1>2 DEF ThreadStates
<1>4. threads' = [threads EXCEPT ![t] = r]
  BY <1>1
<1> HIDE DEF r
<1>5. Moves(t, r)
  BY <1>3, <1>4, MovesFacts
<1>6. QED
  BY <1>3, <1>5 DEF Moves, Advances

(* What the merge of a section leaves in the request's configuration.      *)
Merged(t, x) ==
    /\ confs'[t].waf = NoWaf \/ \E y \in ConfNames : confs'[t].waf = confs[y].waf
    /\ Kind[x] # "htaccess" => confs'[t].enable \in {Conf(t).enable, confs[x].enable}

LEMMA MergeSectionFacts ==
    ASSUME TypeInv, NEW t \in Threads, MergeSection(t)
    PROVE  /\ TypeInv'
           /\ threads[t].pc = "merging" /\ threads[t].todo # <<>>
           /\ NextSection(t) \in Sections
           /\ UNCHANGED <<phase, text, pos, made, own, scfs, childVars, mutex, cache>>
           /\ Keeps(t)
           /\ \/ Moves(t, Idle) /\ confs'[t] = coraza_create_dir_conf(t)
              \/ Advances(t, threads[t].dcf) /\ confs' = confs
              \/ Advances(t, t) /\ Merged(t, NextSection(t))
<1> DEFINE x == NextSection(t)
           private == Kind[x] = "htaccess"
           child == IF private THEN HtConf(x) ELSE confs[x]
           name == IF private THEN NoConf ELSE x
           merged == coraza_merge_dir_conf(confs[threads[t].dcf], child, name, t)
<1>1. /\ threads[t].pc = "merging" /\ threads[t].todo # <<>>
      /\ UNCHANGED <<phase, text, pos, made, own, scfs, childVars, mutex, cache>>
  BY DEF MergeSection
<1>2. threads[t].todo \in Seq(Sections)
  BY DEF TypeInv, StoreTypes, ThreadStates
<1>3. x \in Sections /\ x \in ConfNames /\ t \in ConfNames
  BY <1>1, <1>2 DEF NextSection, ConfNames
<1>4. confs \in [ConfNames -> Rs] /\ tracked \in Seq(ConfNames)
      /\ NoWaf \in 0 .. Len(built)
  <2>1. confs \in [ConfNames -> Rs] /\ tracked \in Seq(ConfNames)
    BY DEF TypeInv, ConfigTypes, Rs
  <2>2. NoWaf \in 0 .. Len(built)
    BY DEF TypeInv, ChildTypes, NoWaf
  <2>3. QED
    BY <2>1, <2>2
<1>5. child \in Rs
  <2>1. CASE private
    <3>1. HtConf(x) \in HtConfs(x)
      BY <1>3, <2>1, HtConfType
    <3>2. QED
      BY <1>3, <1>4, <2>1, <3>1 DEF HtConfs, Rs, ConfRecs
  <2>2. CASE ~private
    BY <1>3, <1>4, <2>2
  <2>3. QED
    BY <2>1, <2>2
<1>6. child.waf = NoWaf \/ child.waf = confs[x].waf
  <2>1. CASE private
    <3>1. HtConf(x) \in HtConfs(x)
      BY <1>3, <2>1, HtConfType
    <3>2. QED
      BY <2>1, <3>1 DEF HtConfs, ConfRecs
  <2>2. CASE ~private
    BY <2>2
  <2>3. QED
    BY <2>1, <2>2
<1>7. threads[t].dcf \in ConfNames /\ confs[threads[t].dcf] \in Rs
  BY ConfFacts, <1>4
<1>8. /\ merged \in Rs
      /\ merged.waf \in {NoWaf, Conf(t).waf, child.waf}
      /\ merged.enable \in {Conf(t).enable, child.enable}
  <2>1. name \in Sections \cup {NoConf}
    BY <1>3
  <2> DEFINE p == confs[threads[t].dcf]
  <2>2. p \in Rs /\ p = Conf(t)
    BY <1>7 DEF Conf
  <2> HIDE DEF child, name, p
  <2>3. /\ coraza_merge_dir_conf(p, child, name, t) \in Rs
        /\ coraza_merge_dir_conf(p, child, name, t).waf \in {NoWaf, p.waf, child.waf}
        /\ coraza_merge_dir_conf(p, child, name, t).enable \in {p.enable, child.enable}
    BY <1>3, <1>4, <1>5, <2>1, <2>2, MergeType DEF Rs
  <2>4. QED
    BY <2>2, <2>3 DEF p
<1>9. tracked' \in Seq(ConfNames)
  <2>1. tracked' = tracked \/ tracked' = Append(tracked, t)
    BY DEF MergeSection, TrackMerged
  <2>2. QED
    BY <1>3, <1>4, <2>1
<1>10. \/ EndRequest(t)
       \/ confs' = confs /\ threads' = [threads EXCEPT ![t].todo = Tail(@)]
       \/ /\ confs' = [confs EXCEPT ![t] = merged]
          /\ threads' = [threads EXCEPT ![t].todo = Tail(@), ![t].dcf = t]
  BY DEF MergeSection
<1> HIDE DEF x, private, child, name, merged
<1>11. CASE EndRequest(t)
  <2>1. /\ Moves(t, Idle) /\ confs' \in [ConfNames -> Rs]
        /\ confs'[t] = coraza_create_dir_conf(t) /\ Keeps(t)
    BY <1>11, EndRequestFacts
  <2>2. mutex' \in Threads \cup {NoThread}
    BY <1>1 DEF TypeInv, StoreTypes
  <2>3. TypeInv'
    BY <1>1, <1>9, <2>1, <2>2, StepTypes DEF Moves, childVars
  <2>4. QED
    BY <1>1, <1>3, <2>1, <2>3 DEF x
<1>12. CASE confs' = confs /\ threads' = [threads EXCEPT ![t].todo = Tail(@)]
  <2>1. threads[t].dcf \in Servers \cup {t} /\ threads \in [Threads -> ThreadStates]
    BY DEF TypeInv, StoreTypes
  <2>2. threads' = [threads EXCEPT ![t].todo = Tail(@), ![t].dcf = threads[t].dcf]
    BY <1>12, <2>1 DEF ThreadStates
  <2>3. Advances(t, threads[t].dcf)
    BY <1>1, <2>1, <2>2, AdvanceFacts
  <2>4. mutex' \in Threads \cup {NoThread}
    BY <1>1 DEF TypeInv, StoreTypes
  <2>5. TypeInv'
    BY <1>1, <1>4, <1>9, <1>12, <2>3, <2>4, StepTypes DEF Advances, childVars
  <2>6. Keeps(t)
    BY <1>12 DEF Keeps
  <2>7. QED
    BY <1>1, <1>3, <1>12, <2>3, <2>5, <2>6 DEF x
<1>13. CASE /\ confs' = [confs EXCEPT ![t] = merged]
            /\ threads' = [threads EXCEPT ![t].todo = Tail(@), ![t].dcf = t]
  <2>1. Advances(t, t)
    BY <1>1, <1>13, AdvanceFacts
  <2>2. confs' \in [ConfNames -> Rs] /\ confs'[t] = merged /\ Keeps(t)
    BY <1>3, <1>4, <1>8, <1>13 DEF Keeps
  <2>3. mutex' \in Threads \cup {NoThread}
    BY <1>1 DEF TypeInv, StoreTypes
  <2>4. TypeInv'
    BY <1>1, <1>9, <2>1, <2>2, <2>3, StepTypes DEF Advances, childVars
  <2>5. Merged(t, x)
    <3>1. Conf(t).waf = confs[threads[t].dcf].waf
      BY DEF Conf
    <3>2. ~private => child = confs[x]
      BY DEF child
    <3>3. QED
      BY <1>3, <1>6, <1>7, <1>8, <2>2, <3>1, <3>2 DEF Merged, private
  <2>6. QED
    BY <1>1, <1>3, <2>1, <2>2, <2>4, <2>5 DEF x
<1>14. QED
  BY <1>10, <1>11, <1>12, <1>13

(* The parts of the type invariant the steps of a request use.             *)
LEMMA StateFacts ==
    ASSUME TypeInv
    PROVE  /\ confs \in [ConfNames -> Rs] /\ tracked \in Seq(ConfNames)
           /\ mutex \in Threads \cup {NoThread}
           /\ Len(built) \in Nat /\ NoWaf \in 0 .. Len(built)
           /\ threads \in [Threads -> ThreadStates]
           /\ \A t \in Threads : threads[t].dcf \in Servers \cup {t}
<1>1. confs \in [ConfNames -> Rs] /\ tracked \in Seq(ConfNames)
  BY DEF TypeInv, ConfigTypes, Rs
<1>2. Len(built) \in Nat /\ NoWaf \in 0 .. Len(built)
  BY DEF TypeInv, ChildTypes, NoWaf
<1>3. QED
  BY <1>1, <1>2 DEF TypeInv, StoreTypes

LEMMA CheckWafFacts ==
    ASSUME TypeInv, NEW t \in Threads, CheckWaf(t)
    PROVE  /\ TypeInv'
           /\ threads[t].pc = "merging"
           /\ UNCHANGED <<phase, text, pos, made, own, scfs, childVars, mutex, cache>>
           /\ Keeps(t)
           /\ \/ Moves(t, Idle) /\ confs'[t] = coraza_create_dir_conf(t)
              \/ /\ GoesTo(t, "lock") \/ GoesTo(t, "use")
                 /\ Conf(t).enable = 1 /\ confs' = confs
<1>1. /\ threads[t].pc = "merging"
      /\ UNCHANGED <<phase, text, pos, made, own, scfs, tracked, childVars, mutex, cache>>
  BY DEF CheckWaf
<1>2. mutex' \in Threads \cup {NoThread} /\ tracked' \in Seq(ConfNames)
  BY <1>1, StateFacts
<1>3. CASE EndRequest(t)
  <2>1. /\ Moves(t, Idle) /\ confs' \in [ConfNames -> Rs]
        /\ confs'[t] = coraza_create_dir_conf(t) /\ Keeps(t)
    BY <1>3, EndRequestFacts
  <2>2. TypeInv'
    BY <1>1, <1>2, <2>1, StepTypes DEF Moves, childVars
  <2>3. QED
    BY <1>1, <2>1, <2>2
<1>4. ASSUME NEW pc \in {"lock", "use"}, Goto(t, pc), confs' = confs, Conf(t).enable = 1
      PROVE  /\ TypeInv' /\ GoesTo(t, pc) /\ Keeps(t)
  <2>1. GoesTo(t, pc)
    BY <1>4, GotoFacts DEF PCs
  <2>2. confs' \in [ConfNames -> Rs]
    BY <1>4, StateFacts
  <2>3. TypeInv'
    BY <1>1, <1>2, <2>1, <2>2, StepTypes DEF GoesTo, childVars
  <2>4. QED
    BY <1>4, <2>1, <2>3 DEF Keeps
<1>5. \/ EndRequest(t)
      \/ \E pc \in {"lock", "use"} : Goto(t, pc) /\ confs' = confs /\ Conf(t).enable = 1
  BY DEF CheckWaf
<1>6. QED
  BY <1>1, <1>3, <1>4, <1>5

LEMMA LockFacts ==
    ASSUME TypeInv, NEW t \in Threads, Lock(t)
    PROVE  /\ TypeInv'
           /\ threads[t].pc = "lock"
           /\ UNCHANGED <<text, pos, made, own, confs, scfs, tracked, childVars, cache>>
           /\ \/ /\ phase = "ready" /\ phase' = phase
                 /\ mutex = NoThread /\ mutex' = t /\ GoesTo(t, "merge_child")
              \/ /\ phase = "disabled" /\ phase' = "crashed"
                 /\ UNCHANGED <<threads, mutex>>
<1>1. /\ threads[t].pc = "lock"
      /\ UNCHANGED <<text, pos, made, own, confs, scfs, tracked, childVars, cache>>
  BY DEF Lock
<1>2. confs' \in [ConfNames -> Rs] /\ tracked' \in Seq(ConfNames)
  BY <1>1, StateFacts
<1>3. CASE /\ phase = "ready" /\ phase' = phase
           /\ mutex = NoThread /\ mutex' = t /\ Goto(t, "merge_child")
  <2>1. GoesTo(t, "merge_child")
    BY <1>3, GotoFacts DEF PCs
  <2>2. TypeInv'
    BY <1>1, <1>2, <1>3, <2>1, StepTypes DEF GoesTo, childVars
  <2>3. QED
    BY <1>1, <1>3, <2>1, <2>2
<1>4. CASE phase = "disabled" /\ phase' = "crashed" /\ UNCHANGED <<threads, mutex>>
  <2>1. TypeInv'
    BY <1>1, <1>2, <1>4, StateFacts, StepTypes DEF childVars
  <2>2. QED
    BY <1>1, <1>4, <2>1
<1>5. QED
  BY <1>3, <1>4 DEF Lock

(* Of the configurations only the WAFs change.                             *)
OnlyWafs ==
    \A y \in ConfNames :
      /\ confs'[y].enable = confs[y].enable
      /\ confs'[y].transaction_id = confs[y].transaction_id
      /\ confs'[y].body_mem_limit = confs[y].body_mem_limit
      /\ confs'[y].rules = confs[y].rules
      /\ confs'[y].array = confs[y].array
      /\ confs'[y].has_rules = confs[y].has_rules
      /\ confs'[y].merge_child = confs[y].merge_child

(* The WAF of one configuration is set.                                    *)
LEMMA OneWaf ==
    ASSUME NEW f \in [ConfNames -> Rs], NEW x \in ConfNames, NEW w
    PROVE  /\ [f EXCEPT ![x].waf = w][x].waf = w
           /\ \A y \in ConfNames \ {x} : [f EXCEPT ![x].waf = w][y] = f[y]
           /\ \A y \in ConfNames :
                /\ [f EXCEPT ![x].waf = w][y].enable = f[y].enable
                /\ [f EXCEPT ![x].waf = w][y].transaction_id = f[y].transaction_id
                /\ [f EXCEPT ![x].waf = w][y].body_mem_limit = f[y].body_mem_limit
                /\ [f EXCEPT ![x].waf = w][y].rules = f[y].rules
                /\ [f EXCEPT ![x].waf = w][y].array = f[y].array
                /\ [f EXCEPT ![x].waf = w][y].has_rules = f[y].has_rules
                /\ [f EXCEPT ![x].waf = w][y].merge_child = f[y].merge_child
<1> DEFINE g == [f EXCEPT ![x].waf = w]
<1>1. /\ g[x] = [f[x] EXCEPT !.waf = w]
      /\ \A y \in ConfNames \ {x} : g[y] = f[y]
  OBVIOUS
<1>2. f[x] \in Rs
  OBVIOUS
<1>3. /\ g[x].waf = w /\ g[x].enable = f[x].enable /\ g[x].rules = f[x].rules
      /\ g[x].transaction_id = f[x].transaction_id
      /\ g[x].body_mem_limit = f[x].body_mem_limit
      /\ g[x].array = f[x].array /\ g[x].has_rules = f[x].has_rules
      /\ g[x].merge_child = f[x].merge_child
  BY <1>1, <1>2 DEF Rs, ConfRecs
<1>4. QED
  BY <1>1, <1>3

LEMMA TryMergeChildFacts ==
    ASSUME TypeInv, NEW t \in Threads, TryMergeChild(t)
    PROVE  /\ TypeInv'
           /\ threads[t].pc = "merge_child" /\ GoesTo(t, "cache")
           /\ UNCHANGED <<phase, text, pos, made, own, scfs, tracked>>
           /\ UNCHANGED <<childVars, mutex, cache>>
           /\ Keeps(threads[t].dcf) /\ OnlyWafs
           /\ confs'[threads[t].dcf].waf =
                IF Conf(t).waf = NoWaf /\ Conf(t).merge_child # NoConf
                THEN confs[Conf(t).merge_child].waf ELSE Conf(t).waf
<1> DEFINE x == threads[t].dcf
           w == IF Conf(t).waf = NoWaf /\ Conf(t).merge_child # NoConf
                THEN confs[Conf(t).merge_child].waf ELSE Conf(t).waf
<1>1. /\ threads[t].pc = "merge_child"
      /\ UNCHANGED <<phase, text, pos, made, own, scfs, tracked>>
      /\ UNCHANGED <<childVars, mutex, cache>>
  BY DEF TryMergeChild
<1>2. x \in ConfNames /\ confs \in [ConfNames -> Rs]
  BY ConfFacts, StateFacts
<1>3. confs' = [confs EXCEPT ![x].waf = w]
  BY <1>2 DEF TryMergeChild, Conf
<1>4. w \in 0 .. Len(built)
  <2>1. Conf(t).waf \in 0 .. Len(built) /\ Conf(t).merge_child \in Sections \cup {NoConf}
    BY ConfFacts
  <2>2. \A y \in ConfNames : confs[y].waf \in 0 .. Len(built)
    BY <1>2 DEF Rs, ConfRecs
  <2>3. QED
    BY <2>1, <2>2 DEF ConfNames
<1>5. GoesTo(t, "cache")
  BY GotoFacts DEF PCs, TryMergeChild
<1> HIDE DEF x, w
<1>6. /\ confs'[x].waf = w
      /\ \A y \in ConfNames \ {x} : confs'[y] = confs[y]
      /\ OnlyWafs
  BY <1>2, <1>3, OneWaf DEF OnlyWafs
<1>7. confs' \in [ConfNames -> Rs]
  BY <1>2, <1>3, <1>4, SetWaf DEF Rs
<1>8. mutex' \in Threads \cup {NoThread} /\ tracked' \in Seq(ConfNames)
  BY <1>1, StateFacts
<1>9. TypeInv'
  BY <1>1, <1>5, <1>7, <1>8, StepTypes DEF GoesTo, childVars
<1>10. QED
  BY <1>1, <1>5, <1>6, <1>9 DEF x, w, Keeps

(* The cache gives the WAF of an entry with the same rules; when it gives  *)
(* none there is no such entry, whatever the hash does.                    *)
LEMMA FindFacts ==
    ASSUME TypeInv, NEW rules
    PROVE  /\ waf_cache_find(rules) \in 0 .. Len(built)
           /\ waf_cache_find(rules) = NoWaf =>
                \A n \in DOMAIN cache : cache[n].rules # rules
           /\ waf_cache_find(rules) # NoWaf =>
                \E n \in DOMAIN cache :
                  cache[n].rules = rules /\ cache[n].waf = waf_cache_find(rules)
<1> DEFINE hits == {n \in DOMAIN cache :
                      cache[n].hash = Hash(rules) /\ rules_equal(cache[n], rules)}
<1>1. /\ cache \in Seq(ToSet(cache))
      /\ \A n \in DOMAIN cache : /\ cache[n].hash = Hash(cache[n].rules)
                                 /\ cache[n].waf \in 1 .. Len(built)
  BY DEF TypeInv, StoreTypes
<1>2. waf_cache_find(rules) = IF hits = {} THEN NoWaf ELSE cache[Min(hits)].waf
  BY DEF waf_cache_find, FirstHit
<1>3. hits \in SUBSET Nat /\ hits \subseteq DOMAIN cache
  BY <1>1
<1>4. \A n \in DOMAIN cache : cache[n].rules = rules <=> n \in hits
  BY <1>1 DEF rules_equal
<1>5. Len(built) \in Nat /\ NoWaf \in 0 .. Len(built)
  BY StateFacts
<1> HIDE DEF hits
<1>6. CASE hits = {}
  BY <1>2, <1>4, <1>5, <1>6
<1>7. CASE hits # {}
  <2>1. Min(hits) \in hits /\ Min(hits) \in DOMAIN cache
    BY <1>3, <1>7, MinIsMin
  <2>2. cache[Min(hits)].waf \in 1 .. Len(built) /\ cache[Min(hits)].rules = rules
    BY <1>1, <1>4, <2>1
  <2>3. waf_cache_find(rules) = cache[Min(hits)].waf
    BY <1>2, <1>7
  <2>4. waf_cache_find(rules) \in 0 .. Len(built) /\ waf_cache_find(rules) # NoWaf
    BY <1>5, <2>2, <2>3 DEF NoWaf
  <2>5. QED
    BY <2>1, <2>2, <2>3, <2>4
<1>8. QED
  BY <1>6, <1>7

(* The configuration of the request and its merge_child get the WAF.       *)
WafGiven(t, waf) ==
    /\ OnlyWafs
    /\ confs'[threads[t].dcf].waf = waf
    /\ Conf(t).merge_child # NoConf => confs'[Conf(t).merge_child].waf = waf
    /\ \A y \in ConfNames \ {threads[t].dcf, Conf(t).merge_child} : confs'[y] = confs[y]

LEMMA GiveWafFacts ==
    ASSUME TypeInv, NEW t \in Threads, NEW waf \in 0 .. Len(built), GiveWaf(t, waf)
    PROVE  confs' \in [ConfNames -> Rs] /\ WafGiven(t, waf)
<1> DEFINE kept == {threads[t].dcf, Conf(t).merge_child}
<1>1. confs \in [ConfNames -> Rs] /\ threads[t].dcf \in ConfNames
  BY ConfFacts, StateFacts
<1>2. Conf(t).merge_child # NoConf => Conf(t).merge_child \in ConfNames
  BY ConfFacts DEF ConfNames
<1>3. confs' = [y \in ConfNames |-> IF y \in kept THEN [confs[y] EXCEPT !.waf = waf] ELSE confs[y]]
  BY <1>1 DEF GiveWaf
<1>4. \A c \in Rs : /\ [c EXCEPT !.waf = waf] \in Rs
                    /\ [c EXCEPT !.waf = waf].waf = waf
                    /\ [c EXCEPT !.waf = waf].enable = c.enable
                    /\ [c EXCEPT !.waf = waf].transaction_id = c.transaction_id
                    /\ [c EXCEPT !.waf = waf].body_mem_limit = c.body_mem_limit
                    /\ [c EXCEPT !.waf = waf].rules = c.rules
                    /\ [c EXCEPT !.waf = waf].array = c.array
                    /\ [c EXCEPT !.waf = waf].has_rules = c.has_rules
                    /\ [c EXCEPT !.waf = waf].merge_child = c.merge_child
  BY DEF Rs, ConfRecs
<1> HIDE DEF kept
<1>5. confs' \in [ConfNames -> Rs]
  BY <1>1, <1>3, <1>4
<1>6. /\ OnlyWafs
      /\ \A y \in ConfNames : y \in kept => confs'[y].waf = waf
      /\ \A y \in ConfNames : y \notin kept => confs'[y] = confs[y]
  BY <1>1, <1>3, <1>4 DEF OnlyWafs
<1>7. QED
  BY <1>1, <1>2, <1>5, <1>6 DEF WafGiven, kept

LEMMA TryCacheFacts ==
    ASSUME TypeInv, NEW t \in Threads, TryCache(t)
    PROVE  /\ TypeInv'
           /\ threads[t].pc = "cache"
           /\ UNCHANGED <<phase, text, pos, made, own, scfs, tracked>>
           /\ UNCHANGED <<childVars, mutex, cache>>
           /\ \/ GoesTo(t, "unlock") /\ Conf(t).waf # NoWaf /\ confs' = confs
              \/ /\ GoesTo(t, "unlock") /\ Conf(t).waf = NoWaf
                 /\ \E waf : /\ WafGiven(t, waf)
                            /\ \E n \in DOMAIN cache :
                                 cache[n].rules = Conf(t).rules /\ cache[n].waf = waf
              \/ /\ GoesTo(t, "build") /\ Conf(t).waf = NoWaf /\ confs' = confs
                 /\ \A n \in DOMAIN cache : cache[n].rules # Conf(t).rules
<1> DEFINE waf == waf_cache_find(Conf(t).rules)
<1>1. /\ threads[t].pc = "cache"
      /\ UNCHANGED <<phase, text, pos, made, own, scfs, tracked>>
      /\ UNCHANGED <<childVars, mutex, cache>>
  BY DEF TryCache
<1>2. mutex' \in Threads \cup {NoThread} /\ tracked' \in Seq(ConfNames)
  BY <1>1, StateFacts
<1>3. /\ waf \in 0 .. Len(built)
      /\ waf = NoWaf => \A n \in DOMAIN cache : cache[n].rules # Conf(t).rules
      /\ waf # NoWaf =>
           \E n \in DOMAIN cache : cache[n].rules = Conf(t).rules /\ cache[n].waf = waf
  BY FindFacts
<1>4. \/ Goto(t, "unlock") /\ Conf(t).waf # NoWaf /\ confs' = confs
      \/ Goto(t, "unlock") /\ Conf(t).waf = NoWaf /\ waf # NoWaf /\ GiveWaf(t, waf)
      \/ Goto(t, "build") /\ Conf(t).waf = NoWaf /\ waf = NoWaf /\ confs' = confs
  BY DEF TryCache
<1> HIDE DEF waf
<1>5. confs' \in [ConfNames -> Rs] /\ (GiveWaf(t, waf) => WafGiven(t, waf))
  <2>1. CASE confs' = confs
    <3>1. confs' \in [ConfNames -> Rs]
      BY <2>1, StateFacts
    <3>2. GiveWaf(t, waf) => WafGiven(t, waf)
      BY <1>3, GiveWafFacts
    <3>3. QED
      BY <3>1, <3>2
  <2>2. CASE GiveWaf(t, waf)
    BY <1>3, <2>2, GiveWafFacts
  <2>3. QED
    BY <1>4, <2>1, <2>2
<1>6. /\ Goto(t, "unlock") => GoesTo(t, "unlock")
      /\ Goto(t, "build") => GoesTo(t, "build")
  BY GotoFacts DEF PCs
<1>7. TypeInv'
  <2>1. /\ threads' \in [Threads -> ThreadStates]
        /\ \A u \in Threads : threads'[u].dcf \in Servers \cup {u}
    BY <1>4, <1>6 DEF GoesTo
  <2>2. QED
    BY <1>1, <1>2, <1>5, <2>1, StepTypes DEF childVars
<1>8. QED
  BY <1>1, <1>3, <1>4, <1>5, <1>6, <1>7

LEMMA BuildWafFacts ==
    ASSUME TypeInv, NEW t \in Threads, BuildWaf(t)
    PROVE  /\ TypeInv'
           /\ threads[t].pc = "build" /\ GoesTo(t, "store")
           /\ UNCHANGED <<phase, text, pos, made, own, scfs, tracked>>
           /\ UNCHANGED <<library, freed, loop, mutex, cache>>
           /\ Keeps(threads[t].dcf) /\ OnlyWafs
           /\ DOMAIN built = 1 .. Len(built) /\ DOMAIN built' = 1 .. Len(built')
           /\ \A h \in DOMAIN built : built'[h] = built[h]
           /\ \/ /\ confs'[threads[t].dcf].waf = NoWaf /\ Len(built') = Len(built)
                 /\ failures' = failures + 1
              \/ /\ confs'[threads[t].dcf].waf = Len(built') /\ failures' = failures
                 /\ Len(built') = Len(built) + 1
                 /\ built'[Len(built')] = [rules |-> Conf(t).rules, by |-> "request"]
<1> DEFINE x == threads[t].dcf
           Q == ConfRecs(ConfNames, 0 .. Len(built'), Sections \cup {NoConf})
<1>1. /\ threads[t].pc = "build"
      /\ UNCHANGED <<phase, text, pos, made, own, scfs, tracked>>
      /\ UNCHANGED <<library, freed, loop, mutex, cache>>
  BY DEF BuildWaf
<1>2. PICK waf \in {NoWaf, NewWaf} :
        /\ coraza_build_waf(Conf(t).rules, "request", waf)
        /\ confs' = [confs EXCEPT ![x].waf = waf]
  BY DEF BuildWaf
<1>3. /\ x \in ConfNames /\ confs \in [ConfNames -> Rs] /\ Conf(t).rules \in Seq(STRING)
      /\ Len(built) \in Nat
  BY ConfFacts, StateFacts
<1>4. NoWaf # NewWaf
  BY <1>3 DEF NoWaf, NewWaf
<1>5. \/ waf = NewWaf /\ built' = Append(built, [rules |-> Conf(t).rules, by |-> "request"])
      \/ waf # NewWaf /\ built' = built
  BY <1>2, <1>4 DEF coraza_build_waf, coraza_new_waf, BuildFails
<1>5a. failures' = IF waf = NewWaf THEN failures ELSE failures + 1
  BY <1>2, <1>4 DEF coraza_build_waf, coraza_new_waf, BuildFails
<1>6. /\ built' \in Seq([rules : Seq(STRING), by : {"child_init", "request"}])
      /\ Len(built') \in Nat /\ Len(built) <= Len(built')
      /\ DOMAIN built = 1 .. Len(built) /\ DOMAIN built' = 1 .. Len(built')
      /\ \A h \in DOMAIN built : built'[h] = built[h]
      /\ waf = NewWaf => /\ Len(built') = waf /\ waf = Len(built) + 1
                         /\ built'[waf] = [rules |-> Conf(t).rules, by |-> "request"]
  BY <1>3, <1>5, BuildFacts
<1>7. GoesTo(t, "store")
  BY GotoFacts DEF PCs, BuildWaf
<1> HIDE DEF x, Q
<1>8. /\ confs'[x].waf = waf
      /\ \A y \in ConfNames \ {x} : confs'[y] = confs[y]
      /\ OnlyWafs
  BY <1>2, <1>3, OneWaf DEF OnlyWafs
<1>9. waf \in 0 .. Len(built')
  BY <1>2, <1>6 DEF NoWaf
<1>10. confs' \in [ConfNames -> Q]
  <2>1. confs \in [ConfNames -> Q]
    BY <1>3, <1>6, ConfsGrow DEF Rs, Q
  <2>2. [confs EXCEPT ![x].waf = waf] \in [ConfNames -> Q]
    BY <1>9, <2>1, SetWaf DEF Q
  <2>3. QED
    BY <1>2, <2>2
<1>11. ConfigTypes'
  <2>1. 0 .. Len(built) \subseteq 0 .. Len(built')
    BY <1>3, <1>6
  <2>2. scfs \in [Servers -> ServerConfs']
    BY <2>1 DEF TypeInv, ConfigTypes, ServerConfs
  <2>3. QED
    BY <1>1, <1>10, <2>2 DEF TypeInv, ConfigTypes, Q
<1>12. ChildTypes'
  BY <1>1, <1>6 DEF TypeInv, ChildTypes
<1>13. StoreTypes'
  BY <1>1, <1>3, <1>6, <1>7 DEF TypeInv, StoreTypes, GoesTo
<1>14. Len(built') = Len(built) \/ waf = NewWaf
  BY <1>5
<1>15. QED
  BY <1>1, <1>2, <1>4, <1>6, <1>7, <1>8, <1>11, <1>12, <1>13, <1>14, <1>5a
     DEF x, Keeps, TypeInv

(* An element at the end of a sequence.                                    *)
LEMMA AppendFacts ==
    ASSUME NEW s, s \in Seq(ToSet(s)), NEW e
    PROVE  /\ Append(s, e) \in Seq(ToSet(Append(s, e)))
           /\ Len(Append(s, e)) = Len(s) + 1 /\ Len(s) \in Nat
           /\ DOMAIN s = 1 .. Len(s)
           /\ DOMAIN Append(s, e) = 1 .. (Len(s) + 1)
           /\ Append(s, e)[Len(s) + 1] = e
           /\ \A n \in 1 .. Len(s) : Append(s, e)[n] = s[n]
<1> DEFINE S == ToSet(s) \cup {e}
           r == Append(s, e)
<1>1. s \in Seq(S) /\ e \in S
  <2>1. ToSet(s) \subseteq S
    OBVIOUS
  <2> HIDE DEF S
  <2>2. \A n \in 1 .. Len(s) : s[n] \in S
    BY <2>1
  <2>3. QED
    BY <2>2 DEF S
<1> HIDE DEF S
<1>2. /\ r \in Seq(S) /\ Len(r) = Len(s) + 1 /\ Len(s) \in Nat
      /\ DOMAIN s = 1 .. Len(s) /\ DOMAIN r = 1 .. (Len(s) + 1)
      /\ r[Len(s) + 1] = e /\ \A n \in 1 .. Len(s) : r[n] = s[n]
  BY <1>1
<1> HIDE DEF r
<1>3. \A n \in 1 .. Len(r) : r[n] \in ToSet(r)
  BY <1>2 DEF ToSet
<1>4. r \in Seq(ToSet(r))
  <2> DEFINE T == ToSet(r)
  <2> HIDE DEF T
  <2>1. \A n \in 1 .. Len(r) : r[n] \in T
    BY <1>3 DEF T
  <2>2. r \in Seq(T)
    BY <1>2, <2>1
  <2>3. QED
    BY <2>2 DEF T
<1>5. QED
  BY <1>2, <1>4 DEF r

(* What StoreWaf does to the cache.                                        *)
Stored(t) ==
    \/ cache' = cache /\ (Conf(t).waf # NoWaf => Len(cache) = CacheMax)
    \/ /\ Conf(t).waf # NoWaf /\ Len(cache) < CacheMax
       /\ DOMAIN cache' = 1 .. (Len(cache) + 1)
       /\ Len(cache') = Len(cache) + 1
       /\ cache'[Len(cache) + 1].rules = Conf(t).rules
       /\ cache'[Len(cache) + 1].waf = Conf(t).waf
       /\ \A n \in DOMAIN cache : cache'[n] = cache[n]

LEMMA StoreWafFacts ==
    ASSUME TypeInv, NEW t \in Threads, StoreWaf(t)
    PROVE  /\ TypeInv'
           /\ threads[t].pc = "store" /\ GoesTo(t, "unlock")
           /\ UNCHANGED <<phase, text, pos, made, own, scfs, tracked>>
           /\ UNCHANGED <<childVars, mutex>>
           /\ WafGiven(t, Conf(t).waf)
           /\ Stored(t)
           /\ DOMAIN cache = 1 .. Len(cache) /\ Len(cache) \in Nat
<1> DEFINE e == [hash |-> Hash(Conf(t).rules), rules |-> Conf(t).rules, waf |-> Conf(t).waf]
<1>1. /\ threads[t].pc = "store"
      /\ UNCHANGED <<phase, text, pos, made, own, scfs, tracked>>
      /\ UNCHANGED <<childVars, mutex>>
  BY DEF StoreWaf
<1>2. Conf(t).waf \in 0 .. Len(built) /\ Len(built) \in Nat
  BY ConfFacts, StateFacts
<1>3. confs' \in [ConfNames -> Rs] /\ WafGiven(t, Conf(t).waf)
  BY <1>2, GiveWafFacts DEF StoreWaf
<1>4. GoesTo(t, "unlock")
  BY GotoFacts DEF PCs, StoreWaf
<1>5. /\ cache \in Seq(ToSet(cache)) /\ Len(cache) <= CacheMax
      /\ \A n \in DOMAIN cache : /\ cache[n].hash = Hash(cache[n].rules)
                                 /\ cache[n].waf \in 1 .. Len(built)
      /\ CacheMax \in Nat
  BY StoreAssumption DEF TypeInv, StoreTypes
<1>6. /\ Append(cache, e) \in Seq(ToSet(Append(cache, e)))
      /\ Len(Append(cache, e)) = Len(cache) + 1 /\ Len(cache) \in Nat
      /\ DOMAIN cache = 1 .. Len(cache)
      /\ DOMAIN Append(cache, e) = 1 .. (Len(cache) + 1)
      /\ Append(cache, e)[Len(cache) + 1] = e
      /\ \A n \in 1 .. Len(cache) : Append(cache, e)[n] = cache[n]
  BY <1>5, AppendFacts
<1>7. e.hash = Hash(e.rules) /\ e.rules = Conf(t).rules /\ e.waf = Conf(t).waf
  OBVIOUS
<1>8. \/ cache' = cache /\ (Conf(t).waf # NoWaf => ~(Len(cache) < CacheMax))
      \/ Conf(t).waf # NoWaf /\ Len(cache) < CacheMax /\ cache' = Append(cache, e)
  BY DEF StoreWaf, waf_cache_add
<1> HIDE DEF e
<1>9. Stored(t)
  <2>1. CASE cache' = cache /\ (Conf(t).waf # NoWaf => ~(Len(cache) < CacheMax))
    <3>1. ~(Len(cache) < CacheMax) => Len(cache) = CacheMax
      <4> DEFINE n == Len(cache)
      <4>1. n \in Nat /\ CacheMax \in Nat /\ n <= CacheMax
        BY <1>5, <1>6
      <4> HIDE DEF n
      <4>2. ~(n < CacheMax) => n = CacheMax
        BY <4>1
      <4>3. QED
        BY <4>2 DEF n
    <3>2. QED
      BY <2>1, <3>1 DEF Stored
  <2>2. CASE Conf(t).waf # NoWaf /\ Len(cache) < CacheMax /\ cache' = Append(cache, e)
    <3>1. /\ DOMAIN cache' = 1 .. (Len(cache) + 1) /\ Len(cache') = Len(cache) + 1
          /\ cache'[Len(cache) + 1] = e
          /\ \A n \in DOMAIN cache : cache'[n] = cache[n]
      BY <1>6, <2>2
    <3>2. QED
      BY <1>7, <2>2, <3>1 DEF Stored
  <2>3. QED
    BY <1>8, <2>1, <2>2
<1>10. /\ cache' \in Seq(ToSet(cache')) /\ Len(cache') <= CacheMax
       /\ \A n \in DOMAIN cache' : /\ cache'[n].hash = Hash(cache'[n].rules)
                                   /\ cache'[n].waf \in 1 .. Len(built)
  <2>1. CASE cache' = cache
    BY <1>5, <2>1
  <2>2. CASE Conf(t).waf # NoWaf /\ Len(cache) < CacheMax /\ cache' = Append(cache, e)
    <3>1. e.waf \in 1 .. Len(built)
      BY <1>2, <1>7, <2>2 DEF NoWaf
    <3>2. \A n \in 1 .. (Len(cache) + 1) : n \in 1 .. Len(cache) \/ n = Len(cache) + 1
      BY <1>6
    <3>3. QED
      BY <1>5, <1>6, <1>7, <2>2, <3>1, <3>2
  <2>3. QED
    BY <1>8, <2>1, <2>2
<1>11. ConfigTypes'
  BY <1>1, <1>3 DEF TypeInv, ConfigTypes, ServerConfs, Rs, childVars
<1>12. ChildTypes'
  BY <1>1 DEF TypeInv, ChildTypes, childVars
<1>13. StoreTypes'
  BY <1>1, <1>4, <1>10, StateFacts DEF StoreTypes, GoesTo, childVars
<1>14. QED
  BY <1>1, <1>3, <1>4, <1>6, <1>9, <1>11, <1>12, <1>13 DEF TypeInv

LEMMA UnlockFacts ==
    ASSUME TypeInv, NEW t \in Threads, Unlock(t)
    PROVE  /\ TypeInv'
           /\ threads[t].pc = "unlock" /\ GoesTo(t, "use") /\ mutex' = NoThread
           /\ UNCHANGED <<configVars, childVars, cache>>
<1>1. /\ threads[t].pc = "unlock" /\ mutex' = NoThread
      /\ UNCHANGED <<configVars, childVars, cache>>
  BY DEF Unlock
<1>2. GoesTo(t, "use")
  BY GotoFacts DEF PCs, Unlock
<1>3. TypeInv'
  BY <1>1, <1>2, StateFacts, StepTypes DEF GoesTo, configVars, childVars
<1>4. QED
  BY <1>1, <1>2, <1>3

LEMMA UseWafFacts ==
    ASSUME TypeInv, NEW t \in Threads, UseWaf(t)
    PROVE  /\ TypeInv'
           /\ threads[t].pc = "use" /\ GoesTo(t, "serving")
           /\ EffectiveWaf(t) # NoWaf /\ threads'[t].waf = EffectiveWaf(t)
           /\ UNCHANGED <<configVars, childVars, mutex, cache>>
<1> DEFINE r == [threads[t] EXCEPT !.pc = "serving", !.waf = EffectiveWaf(t)]
<1>1. /\ threads[t].pc = "use" /\ EffectiveWaf(t) # NoWaf
      /\ UNCHANGED <<configVars, childVars, mutex, cache>>
  BY DEF UseWaf
<1>2. threads \in [Threads -> ThreadStates] /\ threads[t] \in ThreadStates
      /\ threads[t].dcf \in Servers \cup {t}
  BY DEF TypeInv, StoreTypes
<1>3. EffectiveWaf(t) \in Nat
  <2>1. Conf(t).waf \in 0 .. Len(built)
    BY ConfFacts
  <2>2. threads[t].url.server \in Servers
    <3>1. threads[t].url \in Urls \cup {NoUrl}
      BY <1>2 DEF ThreadStates
    <3>2. QED
      BY <3>1, StoreAssumption, NameFacts DEF NoUrl
  <2>3. ServerConf(threads[t].url.server) \in Servers
    BY <2>2, ServerFacts
  <2>4. scfs[ServerConf(threads[t].url.server)].waf \in 0 .. Len(built)
    BY <2>3 DEF TypeInv, ConfigTypes, ServerConfs
  <2>5. QED
    BY <2>1, <2>4, StateFacts DEF EffectiveWaf
<1>4. /\ r \in ThreadStates /\ r.dcf = threads[t].dcf /\ r.pc = "serving"
      /\ r.url = threads[t].url /\ r.todo = threads[t].todo /\ r.waf = EffectiveWaf(t)
  BY <1>2, <1>3 DEF ThreadStates, PCs
<1>5. threads' = [threads EXCEPT ![t] = r]
  BY <1>2 DEF UseWaf
<1> HIDE DEF r
<1>6. Moves(t, r)
  BY <1>2, <1>4, <1>5, MovesFacts
<1>7. GoesTo(t, "serving") /\ threads'[t].waf = EffectiveWaf(t)
  BY <1>4, <1>6 DEF Moves, GoesTo
<1>8. TypeInv'
  BY <1>1, <1>7, StateFacts, StepTypes DEF GoesTo, configVars, childVars
<1>9. QED
  BY <1>1, <1>7, <1>8

LEMMA EndFacts ==
    ASSUME TypeInv, NEW t \in Threads, NoTransaction(t) \/ Finish(t)
    PROVE  /\ TypeInv'
           /\ threads[t].pc \in {"use", "serving"} /\ Moves(t, Idle)
           /\ UNCHANGED <<phase, text, pos, made, own, scfs, tracked>>
           /\ UNCHANGED <<childVars, mutex, cache>>
           /\ confs'[t] = coraza_create_dir_conf(t) /\ Keeps(t)
<1>1. /\ threads[t].pc \in {"use", "serving"} /\ EndRequest(t)
      /\ UNCHANGED <<phase, text, pos, made, own, scfs, tracked>>
      /\ UNCHANGED <<childVars, mutex, cache>>
  BY DEF NoTransaction, Finish
<1>2. /\ Moves(t, Idle) /\ confs' \in [ConfNames -> Rs]
      /\ confs'[t] = coraza_create_dir_conf(t) /\ Keeps(t)
  BY <1>1, EndRequestFacts
<1>3. mutex' \in Threads \cup {NoThread} /\ tracked' \in Seq(ConfNames)
  BY <1>1, StateFacts
<1>4. TypeInv'
  BY <1>1, <1>2, <1>3, StepTypes DEF Moves, childVars
<1>5. QED
  BY <1>1, <1>2, <1>4
---------------------------------------------------------------------------
(* The invariant proper.                                                   *)

(* Before its library is found usable, and in a child where it is not, the *)
(* process has no WAF.                                                     *)
NoWafPhases == {"reading", "checking", "refused", "loading", "disabled", "crashed"}

NoWafs ==
    /\ \A x \in ConfNames : confs[x].waf = NoWaf
    /\ \A s \in Servers : scfs[s].waf = NoWaf
    /\ \A t \in Threads : threads[t].pc \notin Holding \cup {"serving"}

(* Threads run in a ready or a disabled child only.                        *)
LifeInv ==
    /\ phase \notin {"ready", "disabled", "crashed"} =>
         \A t \in Threads : threads[t].pc = "idle"
    /\ phase \in NoWafPhases => NoWafs
    /\ phase \in {"servers", "dirs", "ready"} => Usable(library)
    /\ phase # "exited" => freed = <<>>

(* Mutual exclusion.                                                       *)
MutexInv == \A t \in Threads : threads[t].pc \in Holding <=> mutex = t

(* The merge_child of the request's configuration has no WAF yet.          *)
MergeChildFree(t) ==
    Conf(t).merge_child # NoConf => confs[Conf(t).merge_child].waf = NoWaf

Uncached(t) == \A n \in DOMAIN cache : cache[n].rules # Conf(t).rules

(* What the thread that holds the mutex knows: until it has built a WAF    *)
(* and stored it, nobody else has one for its rules.                       *)
Known(t) ==
    /\ threads[t].pc = "cache" /\ Conf(t).waf = NoWaf => MergeChildFree(t)
    /\ threads[t].pc = "build" =>
         Conf(t).waf = NoWaf /\ MergeChildFree(t) /\ Uncached(t)
    /\ threads[t].pc = "store" =>
         /\ MergeChildFree(t) /\ Uncached(t)
         /\ Conf(t).waf # NoWaf /\ Len(cache) < CacheMax =>
              RequestBuilds(Conf(t).rules) = {Conf(t).waf}

(* Only the merged configuration of a request has a merge_child.           *)
BuildInv ==
    /\ \A x \in Servers \cup Sections : confs[x].merge_child = NoConf
    /\ \A t \in Threads : Known(t)

(* The request goes through <Directory> and <Location> sections only.      *)
Plain(t) == \A x \in ToSet(threads[t].url.path) : Kind[x] \in {"directory", "location"}

(* Where a request may find Coraza on, coraza_check_config has looked.     *)
ArmPart(t) ==
    /\ threads[t].pc = "merging" =>
         ToSet(threads[t].todo) \subseteq ToSet(threads[t].url.path)
    /\ threads[t].pc # "idle" /\ Plain(t) /\ Conf(t).enable = 1 =>
         coraza_config_enabled_where
    /\ threads[t].pc \notin {"idle", "merging"} => Conf(t).enable = 1

HasRulesDirective == \E n \in DOMAIN text : text[n].cmd = "rules"

ArmInv ==
    /\ \A s \in Servers : scfs[s].collected > 0 => HasRulesDirective
    /\ phase \notin {"reading", "checking", "refused"} =>
         (coraza_config_enabled_where => coraza_config_has_rules)
    /\ \A t \in Threads : ArmPart(t)

(* No two servers have the same WAF.                                       *)
ApartInv ==
    \A s, r \in Servers : s # r /\ scfs[s].waf # NoWaf => scfs[s].waf # scfs[r].waf

FreedOnce == \A n, m \in DOMAIN freed : freed[n] = freed[m] => n = m

Inv ==
    /\ TypeInv /\ LifeInv /\ MutexInv /\ BuildInv /\ OneBuildPerRuleSet
    /\ ArmInv /\ ApartInv /\ FreedOnce

---------------------------------------------------------------------------
(* Start-up.                                                               *)

LEMMA InvInit ==
    ASSUME Init
    PROVE  Inv
<1> USE DEF Init, ConfigInit, ChildInit
<1>1. TypeInv
  BY TypeInit
<1>2. \A t \in Threads : threads[t].pc = "idle"
  BY DEF Idle
<1>3. /\ \A x \in ConfNames : confs[x].waf = NoWaf /\ confs[x].merge_child = NoConf
      /\ \A s \in Servers : scfs[s].waf = NoWaf /\ scfs[s].collected = 0
  BY DEF ConfNames, coraza_create_dir_conf, coraza_create_server_conf
<1>4. LifeInv
  BY <1>2, <1>3 DEF LifeInv, NoWafs, Holding
<1>5. MutexInv
  BY <1>2, NameFacts DEF MutexInv, Holding
<1>6. BuildInv
  BY <1>2, <1>3 DEF BuildInv, Known, ConfNames
<1>7. OneBuildPerRuleSet
  BY DEF OneBuildPerRuleSet
<1>8. ArmInv
  BY <1>2, <1>3 DEF ArmInv, ArmPart
<1>9. ApartInv
  BY <1>3 DEF ApartInv
<1>10. FreedOnce
  BY DEF FreedOnce
<1>11. QED
  BY <1>1, <1>4, <1>5, <1>6, <1>7, <1>8, <1>9, <1>10 DEF Inv

(* Without new WAFs for requests, and with the same cache.                 *)
LEMMA OneBuildKept ==
    ASSUME OneBuildPerRuleSet, cache' = cache, \A t \in Threads : threads[t].pc # "store",
           \A h \in DOMAIN built' :
             \/ built'[h].by = "child_init"
             \/ h \in DOMAIN built /\ built'[h] = built[h],
           \A h \in DOMAIN built : h \in DOMAIN built' /\ built'[h] = built[h]
    PROVE  OneBuildPerRuleSet'
<1>1. \A n \in DOMAIN cache : RequestBuilds(cache[n].rules)' = RequestBuilds(cache[n].rules)
  BY DEF RequestBuilds
<1>2. QED
  BY <1>1 DEF OneBuildPerRuleSet

LEMMA ReadDirectiveInv ==
    ASSUME Inv, ReadDirective, UNCHANGED <<childVars, storeVars>>
    PROVE  Inv'
<1> DEFINE d == text[pos]
<1>1. /\ phase = "reading" /\ phase' \in {"reading", "refused"}
      /\ text' = text
      /\ UNCHANGED <<library, built, failures, freed, loop, threads, mutex, cache>>
  BY DEF ReadDirective, childVars, storeVars
<1>2. TypeInv /\ TypeInv'
  BY ReadDirectiveTypes DEF Inv
<1>3. /\ IsDirective(d) /\ pos \in DOMAIN text /\ d.scope \in ConfNames
      /\ d.server \in Servers
  BY <1>2, TextFacts DEF ReadDirective, TypeInv, ConfigTypes, IsDirective, ConfNames
<1>4. confs \in [ConfNames -> Rs] /\ scfs \in [Servers -> ServerConfs]
  BY <1>2, StateFacts DEF TypeInv, ConfigTypes
<1>5. /\ ApplyDirective(confs[d.scope], d).waf = confs[d.scope].waf
      /\ ApplyDirective(confs[d.scope], d).merge_child = confs[d.scope].merge_child
  <2>1. confs[d.scope] \in ConfRecs(ConfNames, 0 .. Len(built), Sections \cup {NoConf})
    BY <1>3, <1>4 DEF Rs
  <2>2. QED
    BY <1>3, <2>1, ApplyDirectiveType
<1>6. \A x \in ConfNames : /\ confs'[x].waf = confs[x].waf
                           /\ confs'[x].merge_child = confs[x].merge_child
  BY <1>4, <1>5 DEF ReadDirective
<1>7. /\ CountRule(scfs[d.server], d).waf = scfs[d.server].waf
      /\ \/ CountRule(scfs[d.server], d) = scfs[d.server]
         \/ d.cmd = "rules"
  BY <1>3, <1>4 DEF CountRule, ServerConfs
<1>8. \A s \in Servers : /\ scfs'[s].waf = scfs[s].waf
                         /\ scfs'[s].collected = scfs[s].collected \/ d.cmd = "rules"
  BY <1>4, <1>7 DEF ReadDirective
<1>9. \A t \in Threads : threads[t].pc = "idle" /\ threads'[t].pc = "idle"
  BY <1>1 DEF Inv, LifeInv
<1> HIDE DEF d
<1>10. LifeInv'
  <2>1. NoWafs
    BY <1>1 DEF Inv, LifeInv, NoWafPhases
  <2>2. NoWafs'
    BY <1>6, <1>8, <1>9, <2>1 DEF NoWafs, Holding
  <2>3. freed' = <<>>
    BY <1>1 DEF Inv, LifeInv
  <2>4. QED
    BY <1>1, <1>9, <2>2, <2>3 DEF LifeInv
<1>11. MutexInv'
  BY <1>1 DEF Inv, MutexInv
<1>12. BuildInv'
  <2>1. \A x \in Servers \cup Sections : confs'[x].merge_child = NoConf
    BY <1>6 DEF Inv, BuildInv, ConfNames
  <2>2. QED
    BY <1>9, <2>1 DEF BuildInv, Known
<1>13. OneBuildPerRuleSet'
  BY <1>1, <1>9, OneBuildKept DEF Inv
<1>14. ArmInv'
  <2>1. \A s \in Servers : scfs'[s].collected > 0 => HasRulesDirective'
    BY <1>1, <1>3, <1>8 DEF Inv, ArmInv, HasRulesDirective, d
  <2>2. QED
    BY <1>1, <1>9, <2>1 DEF ArmInv, ArmPart
<1>15. ApartInv' /\ FreedOnce'
  BY <1>1, <1>8 DEF Inv, ApartInv, FreedOnce
<1>16. QED
  BY <1>2, <1>10, <1>11, <1>12, <1>13, <1>14, <1>15 DEF Inv

LEMMA FixupInv ==
    ASSUME Inv, FixupVirtualHosts, UNCHANGED <<childVars, storeVars>>
    PROVE  Inv'
<1>1. /\ phase = "reading" /\ phase' = "checking"
      /\ text' = text /\ scfs' = scfs /\ made' = made /\ own' = own
      /\ UNCHANGED <<library, built, failures, freed, loop, threads, mutex, cache>>
  BY DEF FixupVirtualHosts, childVars, storeVars
<1>2. TypeInv /\ TypeInv'
  BY FixupTypes DEF Inv
<1>3. confs \in [ConfNames -> Rs] /\ NoWaf \in 0 .. Len(built)
  BY <1>2, StateFacts
<1>4. NoWafs
  BY <1>1 DEF Inv, LifeInv, NoWafPhases
<1>5. ASSUME NEW x \in Servers
      PROVE  /\ coraza_merge_dir_conf(confs[Main], confs[x], NoConf, x).waf = NoWaf
             /\ coraza_merge_dir_conf(confs[Main], confs[x], NoConf, x).merge_child = NoConf
  <2>1. x \in ConfNames /\ Main \in ConfNames
    BY NameFacts DEF ConfNames
  <2>2. confs[x] \in Rs /\ confs[Main] \in Rs /\ confs[x].waf = NoWaf /\ confs[Main].waf = NoWaf
    BY <1>3, <1>4, <2>1 DEF NoWafs
  <2> DEFINE p == confs[Main]
             c == confs[x]
  <2> HIDE DEF p, c
  <2>3. p \in Rs /\ c \in Rs /\ p.waf = NoWaf /\ c.waf = NoWaf
    BY <2>2 DEF p, c
  <2>4. /\ coraza_merge_dir_conf(p, c, NoConf, x).waf \in {NoWaf, p.waf, c.waf}
        /\ coraza_merge_dir_conf(p, c, NoConf, x).merge_child \in {NoConf, NoConf}
    <3> DEFINE W == 0 .. Len(built)
               M == Sections \cup {NoConf}
    <3>1. NoConf \in M /\ NoWaf \in W /\ x \in ConfNames
          /\ p \in ConfRecs(ConfNames, W, M) /\ c \in ConfRecs(ConfNames, W, M)
      BY <1>3, <2>1, <2>3 DEF Rs
    <3> HIDE DEF W, M
    <3>2. QED
      BY <3>1, MergeType
  <2>5. QED
    BY <2>3, <2>4 DEF p, c
<1>6. /\ \A x \in ConfNames : confs'[x].waf = NoWaf
      /\ \A x \in Servers \cup Sections : confs'[x].merge_child = NoConf
  <2>1. \A x \in Servers \cup Sections : confs[x].merge_child = NoConf
    BY DEF Inv, BuildInv
  <2>2. \A x \in ConfNames :
          \/ confs'[x] = confs[x]
          \/ /\ x \in Servers
             /\ confs'[x] = coraza_merge_dir_conf(confs[Main], confs[x], NoConf, x)
    BY <1>3, NameFacts DEF FixupVirtualHosts
  <2>3. QED
    BY <1>4, <1>5, <2>1, <2>2 DEF NoWafs, ConfNames
<1>7. \A t \in Threads : threads[t].pc = "idle" /\ threads'[t].pc = "idle"
  BY <1>1 DEF Inv, LifeInv
<1>8. LifeInv'
  <2>1. NoWafs'
    BY <1>1, <1>4, <1>6, <1>7 DEF NoWafs, Holding
  <2>2. freed' = <<>>
    BY <1>1 DEF Inv, LifeInv
  <2>3. QED
    BY <1>1, <1>7, <2>1, <2>2 DEF LifeInv
<1>9. MutexInv'
  BY <1>1 DEF Inv, MutexInv
<1>10. BuildInv'
  BY <1>6, <1>7 DEF BuildInv, Known
<1>11. OneBuildPerRuleSet'
  BY <1>1, <1>7, OneBuildKept DEF Inv
<1>12. ArmInv'
  <2>1. \A s \in Servers : scfs'[s].collected > 0 => HasRulesDirective'
    BY <1>1 DEF Inv, ArmInv, HasRulesDirective
  <2>2. QED
    BY <1>1, <1>7, <2>1 DEF ArmInv, ArmPart
<1>13. ApartInv' /\ FreedOnce'
  BY <1>1 DEF Inv, ApartInv, FreedOnce
<1>14. QED
  BY <1>2, <1>8, <1>9, <1>10, <1>11, <1>12, <1>13 DEF Inv

(* The check of the whole configuration is where Coraza being on somewhere *)
(* comes to imply that there are rules.                                    *)
LEMMA CheckConfigInv ==
    ASSUME Inv, coraza_check_config, UNCHANGED <<childVars, storeVars>>
    PROVE  Inv'
<1>1. /\ phase = "checking" /\ phase' \in {"refused", "loading"}
      /\ phase' = "loading" => (coraza_config_enabled_where => coraza_config_has_rules)
      /\ UNCHANGED <<text, pos, made, own, confs, scfs, tracked>>
      /\ UNCHANGED <<library, built, failures, freed, loop, threads, mutex, cache>>
  BY DEF coraza_check_config, childVars, storeVars
<1>2. TypeInv'
  BY CheckLoadTypes DEF Inv
<1>3. \A t \in Threads : threads[t].pc = "idle"
  BY <1>1 DEF Inv, LifeInv
<1>4. LifeInv'
  BY <1>1 DEF Inv, LifeInv, NoWafs, NoWafPhases
<1>5. MutexInv' /\ ApartInv' /\ FreedOnce'
  BY <1>1 DEF Inv, MutexInv, ApartInv, FreedOnce
<1>6. BuildInv'
  BY <1>1, <1>3 DEF Inv, BuildInv, Known
<1>7. OneBuildPerRuleSet'
  BY <1>1, <1>3, OneBuildKept DEF Inv
<1>8. ArmInv'
  <2>1. /\ coraza_config_enabled_where' = coraza_config_enabled_where
        /\ coraza_config_has_rules' = coraza_config_has_rules
    BY <1>1 DEF coraza_config_enabled_where, coraza_config_has_rules, Defaults, ServerConf
  <2>2. QED
    BY <1>1, <1>3, <2>1 DEF Inv, ArmInv, ArmPart, HasRulesDirective
<1>9. QED
  BY <1>2, <1>4, <1>5, <1>6, <1>7, <1>8 DEF Inv

(* The phases coraza_child_init goes through, and the end of the process.  *)
LEMMA PhaseInv ==
    ASSUME Inv, UNCHANGED storeVars,
           coraza_dl_open \/ ChildReady \/ DisabledExit,
           phase' = "exited" => \A t \in Threads : threads[t].pc = "idle"
    PROVE  Inv'
<1>1. /\ UNCHANGED <<text, pos, made, own, confs, scfs, tracked>>
      /\ UNCHANGED <<built, failures, freed, loop, threads, mutex, cache>>
      /\ \/ phase = "loading" /\ phase' = "servers" /\ Usable(library')
         \/ phase = "loading" /\ phase' = "disabled"
         \/ phase = "dirs" /\ phase' = "ready" /\ library' = library
         \/ phase = "disabled" /\ phase' = "exited"
  BY DEF coraza_dl_open, ChildReady, DisabledExit, childVars, storeVars
<1>2. TypeInv'
  BY CheckLoadTypes DEF Inv
<1>3. \A t \in Threads : threads[t].pc = "idle"
  BY <1>1 DEF Inv, LifeInv
<1>4. LifeInv'
  BY <1>1, <1>3 DEF Inv, LifeInv, NoWafs, NoWafPhases
<1>5. MutexInv' /\ ApartInv' /\ FreedOnce'
  BY <1>1 DEF Inv, MutexInv, ApartInv, FreedOnce
<1>6. BuildInv'
  BY <1>1, <1>3 DEF Inv, BuildInv, Known
<1>7. OneBuildPerRuleSet'
  BY <1>1, <1>3, OneBuildKept DEF Inv
<1>8. ArmInv'
  <2>1. /\ coraza_config_enabled_where' = coraza_config_enabled_where
        /\ coraza_config_has_rules' = coraza_config_has_rules
    BY <1>1 DEF coraza_config_enabled_where, coraza_config_has_rules, Defaults, ServerConf
  <2>2. QED
    BY <1>1, <1>3, <2>1 DEF Inv, ArmInv, ArmPart, HasRulesDirective
<1>9. QED
  BY <1>2, <1>4, <1>5, <1>6, <1>7, <1>8 DEF Inv

(* Only the WAFs of configurations and servers change, and what is built   *)
(* is built for the child: the rest of the invariant of a child that has   *)
(* no threads yet.                                                         *)
LEMMA ChildBuildInv ==
    ASSUME Inv, TypeInv', phase \in {"servers", "dirs"}, phase' \in {"servers", "dirs"},
           UNCHANGED <<text, pos, made, own, tracked, library, freed, threads, mutex, cache>>,
           OnlyWafs, ApartInv',
           \A s \in Servers : scfs'[s].collected = scfs[s].collected,
           \A h \in DOMAIN built' :
             \/ built'[h].by = "child_init"
             \/ h \in DOMAIN built /\ built'[h] = built[h],
           \A h \in DOMAIN built : h \in DOMAIN built' /\ built'[h] = built[h]
    PROVE  Inv'
<1>1. \A t \in Threads : threads[t].pc = "idle"
  BY DEF Inv, LifeInv
<1>2. LifeInv'
  BY <1>1 DEF Inv, LifeInv, NoWafPhases
<1>3. MutexInv' /\ FreedOnce'
  BY DEF Inv, MutexInv, FreedOnce
<1>4. BuildInv'
  BY <1>1 DEF Inv, BuildInv, Known, OnlyWafs, ConfNames
<1>5. OneBuildPerRuleSet'
  BY <1>1, OneBuildKept DEF Inv
<1>6. ArmInv'
  <2>1. TypeInv
    BY DEF Inv
  <2>2. \A s \in Servers : Defaults(s) \in Servers /\ ServerConf(s) \in Servers
    BY <2>1, ServerFacts
  <2>3. coraza_config_enabled_where' = coraza_config_enabled_where
    <3>1. \A s \in Servers : confs'[Defaults(s)'].enable = confs[Defaults(s)].enable
      BY <2>2 DEF OnlyWafs, ConfNames, Defaults
    <3>2. \A x \in Sections : confs'[x].enable = confs[x].enable
      BY DEF OnlyWafs, ConfNames
    <3>3. QED
      BY <3>1, <3>2 DEF coraza_config_enabled_where
  <2>4. coraza_config_has_rules' = coraza_config_has_rules
    <3>1. \A s \in Servers : scfs'[ServerConf(s)'].collected = scfs[ServerConf(s)].collected
      BY <2>2 DEF ServerConf
    <3>2. QED
      BY <3>1 DEF coraza_config_has_rules
  <2>5. QED
    BY <1>1, <2>3, <2>4 DEF Inv, ArmInv, ArmPart, HasRulesDirective
<1>7. QED
  BY <1>2, <1>3, <1>4, <1>5, <1>6 DEF Inv

(* A WAF built for the child is a new one and leaves the others.           *)
LEMMA GrowFacts ==
    ASSUME NEW B, built \in Seq(B),
           \/ built' = built
           \/ \E rules : built' = Append(built, [rules |-> rules, by |-> "child_init"])
    PROVE  /\ \A h \in DOMAIN built' :
                \/ built'[h].by = "child_init"
                \/ h \in DOMAIN built /\ built'[h] = built[h]
           /\ \A h \in DOMAIN built : h \in DOMAIN built' /\ built'[h] = built[h]
<1>1. CASE built' = built
  BY <1>1
<1>2. ASSUME NEW rules, built' = Append(built, [rules |-> rules, by |-> "child_init"])
      PROVE  /\ \A h \in DOMAIN built' :
                  \/ built'[h].by = "child_init"
                  \/ h \in DOMAIN built /\ built'[h] = built[h]
             /\ \A h \in DOMAIN built : h \in DOMAIN built' /\ built'[h] = built[h]
  <2> DEFINE e == [rules |-> rules, by |-> "child_init"]
  <2>1. e.by = "child_init"
    OBVIOUS
  <2> HIDE DEF e
  <2>2. /\ DOMAIN built = 1 .. Len(built) /\ Len(built) \in Nat
        /\ DOMAIN Append(built, e) = 1 .. (Len(built) + 1)
        /\ Append(built, e)[Len(built) + 1] = e
        /\ \A h \in 1 .. Len(built) : Append(built, e)[h] = built[h]
    OBVIOUS
  <2>3. built' = Append(built, e)
    BY <1>2 DEF e
  <2>4. \A h \in 1 .. (Len(built) + 1) : h \in 1 .. Len(built) \/ h = Len(built) + 1
    BY <2>2
  <2>5. /\ DOMAIN built' = 1 .. (Len(built) + 1) /\ built'[Len(built) + 1] = e
        /\ \A h \in 1 .. Len(built) : built'[h] = built[h]
    BY <2>2, <2>3
  <2>6. \A h \in DOMAIN built : h \in DOMAIN built' /\ built'[h] = built[h]
    BY <2>2, <2>5
  <2>7. ASSUME NEW h \in DOMAIN built'
        PROVE  built'[h].by = "child_init" \/ (h \in DOMAIN built /\ built'[h] = built[h])
    <3>1. CASE h = Len(built) + 1
      BY <3>1, <2>1, <2>5
    <3>2. CASE h \in 1 .. Len(built)
      BY <3>2, <2>2, <2>5
    <3>3. QED
      BY <2>4, <2>5, <3>1, <3>2
  <2>8. QED
    BY <2>6, <2>7
<1>3. QED
  BY <1>1, <1>2

LEMMA BuildServerInv ==
    ASSUME Inv, BuildServerWaf, UNCHANGED storeVars
    PROVE  Inv'
<1> DEFINE s == ServerList[loop]
           c == ServerConf(s)
           base == Defaults(s)
<1>0. TypeInv
  BY DEF Inv
<1>1. TypeInv'
  BY <1>0, BuildServerTypes
<1>2. c \in Servers /\ base \in ConfNames
  <2>1. loop \in 1 .. Len(ServerList)
    BY <1>0, NameFacts DEF TypeInv, ChildTypes, BuildServerWaf
  <2>2. s \in Servers
    BY <2>1, NameFacts
  <2>3. QED
    BY <1>0, <2>2, ServerFacts DEF ConfNames
<1>3. PICK waf \in {NoWaf, NewWaf, scfs[c].waf} :
        /\ IF scfs[c].rules # <<>>
           THEN coraza_build_waf(scfs[c].rules, "child_init", waf)
           ELSE EmptyWaf(scfs[c].waf, waf)
        /\ scfs' = [scfs EXCEPT ![c].waf = waf]
        /\ confs' = [confs EXCEPT ![base].waf = IF @ = NoWaf THEN waf ELSE @]
  BY DEF BuildServerWaf
<1>4. /\ UNCHANGED <<text, pos, made, own, tracked, library, freed>>
      /\ UNCHANGED <<threads, mutex, cache>>
      /\ phase = "servers" /\ phase' \in {"servers", "dirs"}
  BY DEF BuildServerWaf, storeVars
<1> HIDE DEF s, c, base
<1>5. /\ confs \in [ConfNames -> Rs] /\ Len(built) \in Nat
      /\ scfs \in [Servers -> ServerConfs]
      /\ built \in Seq([rules : Seq(STRING), by : {"child_init", "request"}])
  BY <1>0, StateFacts DEF TypeInv, ConfigTypes, ChildTypes
<1>6. OnlyWafs
  <2> DEFINE w == IF confs[base].waf = NoWaf THEN waf ELSE confs[base].waf
  <2>1. confs' = [confs EXCEPT ![base].waf = w]
    BY <1>2, <1>3, <1>5
  <2> HIDE DEF w
  <2>2. QED
    BY <1>2, <1>5, <2>1, OneWaf DEF OnlyWafs
<1>7. /\ scfs'[c].waf = waf
      /\ \A r \in Servers \ {c} : scfs'[r] = scfs[r]
      /\ \A r \in Servers : scfs'[r].collected = scfs[r].collected
  BY <1>2, <1>3, <1>5 DEF ServerConfs
<1>8. ApartInv'
  <2>1. \A r \in Servers : scfs[r].waf \in 0 .. Len(built)
    BY <1>5 DEF ServerConfs
  <2>2. \A r \in Servers : scfs[r].waf # NewWaf
    BY <1>5, <2>1 DEF NewWaf
  <2>3. ApartInv
    BY DEF Inv
  <2>4. \A r \in Servers \ {c} : waf # NoWaf => waf # scfs[r].waf
    BY <1>2, <1>3, <2>2, <2>3 DEF ApartInv
  <2>5. QED
    BY <1>7, <2>3, <2>4 DEF ApartInv
<1>9. \/ built' = built
      \/ \E rules : built' = Append(built, [rules |-> rules, by |-> "child_init"])
  BY <1>3 DEF coraza_build_waf, EmptyWaf, coraza_new_waf, BuildFails
<1>10. /\ \A h \in DOMAIN built' :
            \/ built'[h].by = "child_init"
            \/ h \in DOMAIN built /\ built'[h] = built[h]
       /\ \A h \in DOMAIN built : h \in DOMAIN built' /\ built'[h] = built[h]
  BY <1>5, <1>9, GrowFacts
<1>11. QED
  BY <1>1, <1>4, <1>6, <1>7, <1>8, <1>10, ChildBuildInv

LEMMA BuildDirInv ==
    ASSUME Inv, BuildDirWaf, UNCHANGED storeVars
    PROVE  Inv'
<1> DEFINE x == tracked[loop]
<1>0. TypeInv
  BY DEF Inv
<1>1. TypeInv'
  BY <1>0, BuildDirTypes
<1>2. /\ UNCHANGED <<text, pos, made, own, scfs, tracked, library, freed>>
      /\ UNCHANGED <<threads, mutex, cache>>
      /\ phase = "dirs" /\ phase' = "dirs"
  BY DEF BuildDirWaf, storeVars
<1>3. /\ confs \in [ConfNames -> Rs]
      /\ built \in Seq([rules : Seq(STRING), by : {"child_init", "request"}])
  BY <1>0, StateFacts DEF TypeInv, ChildTypes
<1>4. x \in ConfNames
  <2>1. tracked \in Seq(ConfNames) /\ loop \in Nat \ {0} /\ loop <= Len(tracked)
    BY <1>0, StateFacts DEF TypeInv, ChildTypes, BuildDirWaf
  <2>2. QED
    BY <2>1
<1>5. confs' = confs \/ \E w : confs' = [confs EXCEPT ![x].waf = w]
  BY DEF BuildDirWaf
<1>6. \/ built' = built
      \/ \E rules : built' = Append(built, [rules |-> rules, by |-> "child_init"])
  BY DEF BuildDirWaf, coraza_build_waf, coraza_new_waf, BuildFails
<1> HIDE DEF x
<1>7. OnlyWafs
  <2>1. CASE confs' = confs
    BY <2>1 DEF OnlyWafs
  <2>2. ASSUME NEW w, confs' = [confs EXCEPT ![x].waf = w] PROVE OnlyWafs
    BY <1>3, <1>4, <2>2, OneWaf DEF OnlyWafs
  <2>3. QED
    BY <1>5, <2>1, <2>2
<1>8. ApartInv' /\ \A s \in Servers : scfs'[s].collected = scfs[s].collected
  BY <1>2 DEF Inv, ApartInv
<1>9. /\ \A h \in DOMAIN built' :
           \/ built'[h].by = "child_init"
           \/ h \in DOMAIN built /\ built'[h] = built[h]
      /\ \A h \in DOMAIN built : h \in DOMAIN built' /\ built'[h] = built[h]
  BY <1>3, <1>6, GrowFacts
<1>10. QED
  BY <1>1, <1>2, <1>7, <1>8, <1>9, ChildBuildInv
---------------------------------------------------------------------------
(* The exit of a child.                                                    *)

Once(q) == \A n, m \in DOMAIN q : q[n] = q[m] => n = m

(* A handle that is not in a list yet may be added to it.                  *)
LEMMA OnceAppend ==
    ASSUME NEW q \in Seq(Nat), Once(q), NEW e \in Nat, \A n \in DOMAIN q : q[n] # e
    PROVE  Append(q, e) \in Seq(Nat) /\ Once(Append(q, e))
<1> DEFINE r == Append(q, e)
<1>1. /\ r \in Seq(Nat) /\ Len(q) \in Nat
      /\ DOMAIN q = 1 .. Len(q) /\ DOMAIN r = 1 .. (Len(q) + 1)
      /\ r[Len(q) + 1] = e /\ \A n \in 1 .. Len(q) : r[n] = q[n]
  OBVIOUS
<1> HIDE DEF r
<1>2. \A n \in 1 .. (Len(q) + 1) : n \in 1 .. Len(q) \/ n = Len(q) + 1
  BY <1>1
<1>3. ASSUME NEW n \in DOMAIN r, NEW m \in DOMAIN r, r[n] = r[m] PROVE n = m
  BY <1>1, <1>2, <1>3 DEF Once
<1>4. QED
  BY <1>1, <1>3 DEF Once, r

(* Two lists without a handle in common may be joined.                     *)
LEMMA OnceConcat ==
    ASSUME NEW p \in Seq(Nat), NEW q \in Seq(Nat), Once(p), Once(q),
           \A n \in DOMAIN p, m \in DOMAIN q : p[n] # q[m]
    PROVE  p \o q \in Seq(Nat) /\ Once(p \o q)
<1> DEFINE r == p \o q
           a == Len(p)
           b == Len(q)
<1>1. /\ r \in Seq(Nat) /\ a \in Nat /\ b \in Nat
      /\ DOMAIN p = 1 .. a /\ DOMAIN q = 1 .. b
      /\ DOMAIN r = 1 .. (a + b)
      /\ \A n \in 1 .. a : r[n] = p[n]
      /\ \A n \in 1 .. (a + b) : ~(n <= a) => r[n] = q[n - a]
  OBVIOUS
<1> HIDE DEF r, a, b
<1>2. ASSUME NEW n \in 1 .. (a + b)
      PROVE  \/ n \in 1 .. a /\ r[n] = p[n]
             \/ ~(n <= a) /\ n - a \in 1 .. b /\ r[n] = q[n - a]
  <2>1. n <= a => n \in 1 .. a
    BY <1>1
  <2>2. ~(n <= a) => n - a \in 1 .. b
    BY <1>1
  <2>3. QED
    BY <1>1, <2>1, <2>2
<1>3. ASSUME NEW n \in 1 .. (a + b), NEW m \in 1 .. (a + b), r[n] = r[m] PROVE n = m
  <2>1. CASE n \in 1 .. a /\ r[n] = p[n] /\ m \in 1 .. a /\ r[m] = p[m]
    BY <1>1, <1>3, <2>1 DEF Once
  <2>2. CASE n - a \in 1 .. b /\ r[n] = q[n - a] /\ m - a \in 1 .. b /\ r[m] = q[m - a]
    <3>1. n - a = m - a
      BY <1>1, <1>3, <2>2 DEF Once
    <3>2. QED
      BY <1>1, <3>1
  <2>3. CASE n \in 1 .. a /\ r[n] = p[n] /\ m - a \in 1 .. b /\ r[m] = q[m - a]
    BY <1>1, <1>3, <2>3
  <2>4. CASE m \in 1 .. a /\ r[m] = p[m] /\ n - a \in 1 .. b /\ r[n] = q[n - a]
    BY <1>1, <1>3, <2>4
  <2>5. QED
    BY <1>2, <2>1, <2>2, <2>3, <2>4
<1>4. QED
  BY <1>1, <1>3 DEF Once, r

(* The tracked configurations give each of their WAFs once, and none that  *)
(* a server has.                                                           *)
LEMMA UniqueDirFacts ==
    ASSUME TypeInv
    PROVE  /\ UniqueDirWafs \in Seq(Nat) /\ Once(UniqueDirWafs)
           /\ \A n \in DOMAIN UniqueDirWafs : ~SharedWithServer(UniqueDirWafs[n])
<1> DEFINE S == {q \in Seq(Nat) : Once(q) /\ \A n \in DOMAIN q : ~SharedWithServer(q[n])}
<1>1. <<>> \in S
  BY EmptySeq DEF Once
<1>2. ASSUME NEW q \in S, NEW x \in ConfNames PROVE TakeDir(q, x) \in S
  <2> DEFINE waf == confs[x].waf
  <2>1. waf \in Nat
    BY StateFacts DEF Rs, ConfRecs
  <2>2. CASE waf = NoWaf \/ SharedWithServer(waf) \/ waf \in ToSet(q)
    BY <1>2, <2>2 DEF TakeDir
  <2>3. CASE ~(waf = NoWaf \/ SharedWithServer(waf) \/ waf \in ToSet(q))
    <3>1. q \in Seq(Nat) /\ Once(q) /\ \A n \in DOMAIN q : q[n] # waf
      BY <2>3 DEF ToSet
    <3>2. TakeDir(q, x) = Append(q, waf)
      BY <2>3 DEF TakeDir
    <3> HIDE DEF waf
    <3>3. Append(q, waf) \in Seq(Nat) /\ Once(Append(q, waf))
      BY <2>1, <3>1, OnceAppend
    <3>4. \A n \in DOMAIN Append(q, waf) : Append(q, waf)[n] = waf \/
             (n \in DOMAIN q /\ Append(q, waf)[n] = q[n])
      BY <2>1, <3>1
    <3>5. QED
      BY <2>3, <3>2, <3>3, <3>4
  <2>4. QED
    BY <2>2, <2>3
<1>3. tracked \in Seq(ConfNames)
  BY StateFacts
<1>4. UniqueDirWafs = FoldLeft(TakeDir, <<>>, tracked)
  BY DEF UniqueDirWafs
<1> HIDE DEF S
<1>5. FoldLeft(TakeDir, <<>>, tracked) \in S
  BY <1>1, <1>2, <1>3, TakeDirFold
<1>6. QED
  BY <1>4, <1>5 DEF S

(* The servers give each of their WAFs once.                               *)
LEMMA ServerWafsFacts ==
    ASSUME TypeInv, ApartInv
    PROVE  /\ ServerWafs \in Seq(Nat) /\ Once(ServerWafs)
           /\ \A n \in DOMAIN ServerWafs : SharedWithServer(ServerWafs[n])
<1> DEFINE L == Len(ServerList)
           From(q, k) == \A n \in DOMAIN q : \E i \in 1 .. k :
                           /\ ServerList[i] \in own
                           /\ q[n] = scfs[ServerList[i]].waf /\ q[n] # NoWaf
           T == [k \in 0 .. L |-> {q \in Seq(Nat) : Once(q) /\ From(q, k)}]
<1>1. /\ ServerList \in Seq(Servers) /\ L \in Nat
      /\ \A n, m \in 1 .. L : ServerList[n] = ServerList[m] => n = m
      /\ \A n \in 1 .. L : ServerList[n] \in Servers
  BY NamesAssumption, NameFacts
<1>2. \A s \in Servers : scfs[s].waf \in Nat
  <2>1. scfs \in [Servers -> ServerConfs]
    BY DEF TypeInv, ConfigTypes
  <2>2. QED
    BY <2>1, StateFacts DEF ServerConfs
<1>3. \A q \in Seq(Nat), s \in Servers : TakeServer(q, s) \in Seq(Nat)
  BY <1>2 DEF TakeServer
<1>4. <<>> \in Seq(Nat)
  BY EmptySeq
<1>5. <<>> \in T[0]
  BY <1>1, <1>4 DEF Once
<1>6. ASSUME NEW k \in 1 .. L, NEW q \in T[k - 1]
      PROVE  TakeServer(q, ServerList[k]) \in T[k]
  <2> DEFINE s == ServerList[k]
             waf == scfs[s].waf
  <2>1. k - 1 \in 0 .. L /\ k \in 0 .. L /\ s \in Servers
    BY <1>1
  <2>2. q \in Seq(Nat) /\ Once(q) /\ From(q, k - 1)
    BY <1>6, <2>1
  <2>3. From(q, k)
    <3>1. \A i \in 1 .. (k - 1) : i \in 1 .. k
      BY <1>1
    <3>2. QED
      BY <2>2, <3>1
  <2>4. CASE ~(s \in own /\ waf # NoWaf)
    BY <2>1, <2>2, <2>3, <2>4 DEF TakeServer
  <2>5. CASE s \in own /\ waf # NoWaf
    <3>1. ASSUME NEW n \in DOMAIN q PROVE q[n] # waf
      <4>1. PICK i \in 1 .. (k - 1) : q[n] = scfs[ServerList[i]].waf
        BY <2>2
      <4>2. i \in 1 .. L /\ i # k
        BY <1>1, <4>1
      <4>3. ServerList[i] # s /\ ServerList[i] \in Servers
        BY <1>1, <4>2
      <4>4. QED
        BY <2>1, <2>5, <4>1, <4>3 DEF ApartInv
    <3>2. waf \in Nat
      BY <1>2, <2>1
    <3>3. Append(q, waf) \in Seq(Nat) /\ Once(Append(q, waf))
      <4> HIDE DEF waf
      <4>1. QED
        BY <2>2, <3>1, <3>2, OnceAppend
    <3>4. From(Append(q, waf), k)
      <4>1. ASSUME NEW n \in DOMAIN Append(q, waf)
            PROVE  \/ n \in DOMAIN q /\ Append(q, waf)[n] = q[n]
                   \/ Append(q, waf)[n] = waf
        <5> HIDE DEF waf
        <5>1. QED
          BY <2>2, <3>2
      <4>2. k \in 1 .. k
        BY <1>1
      <4>3. ASSUME NEW n \in DOMAIN Append(q, waf)
            PROVE  \E i \in 1 .. k :
                     /\ ServerList[i] \in own
                     /\ Append(q, waf)[n] = scfs[ServerList[i]].waf
                     /\ Append(q, waf)[n] # NoWaf
        <5>1. CASE n \in DOMAIN q /\ Append(q, waf)[n] = q[n]
          <6>1. PICK i \in 1 .. k : /\ ServerList[i] \in own
                                    /\ q[n] = scfs[ServerList[i]].waf /\ q[n] # NoWaf
            BY <5>1, <2>3
          <6>2. QED
            BY <5>1, <6>1
        <5>2. CASE Append(q, waf)[n] = waf
          BY <5>2, <4>2, <2>5
        <5>3. QED
          BY <4>1, <5>1, <5>2
      <4>4. QED
        BY <4>3
    <3>5. TakeServer(q, s) = Append(q, waf)
      BY <2>5 DEF TakeServer
    <3>6. QED
      BY <2>1, <3>3, <3>4, <3>5
  <2>6. QED
    BY <2>4, <2>5
<1>7. ServerWafs = FoldLeft(TakeServer, <<>>, ServerList)
  BY DEF ServerWafs
<1>8. ServerWafs \in T[L]
  <2> HIDE DEF T
  <2>1. \A k \in 1 .. Len(ServerList) : \A c \in T[k - 1] : TakeServer(c, ServerList[k]) \in T[k]
    BY <1>6
  <2>2. FoldLeft(TakeServer, <<>>, ServerList) \in T[Len(ServerList)]
    BY <1>1, <1>3, <1>4, <1>5, <2>1, TakeServerFold
  <2>3. QED
    BY <1>7, <2>2
<1>9. ServerWafs \in Seq(Nat) /\ Once(ServerWafs) /\ From(ServerWafs, L)
  BY <1>1, <1>8
<1>10. ASSUME NEW n \in DOMAIN ServerWafs PROVE SharedWithServer(ServerWafs[n])
  <2>1. PICK i \in 1 .. L : /\ ServerList[i] \in own
                            /\ ServerWafs[n] = scfs[ServerList[i]].waf
    BY <1>9
  <2>2. ServerList[i] \in Servers /\ ServerConf(ServerList[i]) = ServerList[i]
    BY <1>1, <2>1 DEF ServerConf
  <2>3. QED
    BY <2>1, <2>2 DEF SharedWithServer
<1>11. QED
  BY <1>9, <1>10

(* Freeing the configurations' WAFs and then the servers', from nothing    *)
(* freed, frees none twice.                                                *)
LEMMA ChildExitInv ==
    ASSUME Inv, coraza_child_exit, UNCHANGED storeVars,
           \A t \in Threads : threads[t].pc = "idle"
    PROVE  Inv'
<1>0. TypeInv
  BY DEF Inv
<1>1. TypeInv'
  BY <1>0, ChildExitTypes
<1>2. /\ phase = "ready" /\ phase' = "exited"
      /\ freed' = freed \o (UniqueDirWafs \o ServerWafs)
      /\ UNCHANGED <<text, made, own, built, threads, mutex, cache>>
  BY DEF coraza_child_exit, coraza_free_waf, storeVars
<1>3. confs \in [ConfNames -> Rs] /\ scfs \in [Servers -> ServerConfs]
  BY <1>0, StateFacts DEF TypeInv, ConfigTypes
<1>4. OnlyWafs
  <2>1. \A c \in Rs : /\ [c EXCEPT !.waf = NoWaf].enable = c.enable
                      /\ [c EXCEPT !.waf = NoWaf].rules = c.rules
                      /\ [c EXCEPT !.waf = NoWaf].merge_child = c.merge_child
    BY DEF Rs, ConfRecs
  <2>2. QED
    BY <1>3, <2>1 DEF coraza_child_exit, OnlyWafs
<1>5. \A s \in Servers : scfs'[s].collected = scfs[s].collected /\ scfs'[s].waf = NoWaf
  BY <1>3 DEF coraza_child_exit, ServerConfs
<1>6. LifeInv'
  BY <1>2 DEF LifeInv, NoWafPhases
<1>7. MutexInv'
  BY <1>2 DEF Inv, MutexInv
<1>8. BuildInv'
  BY <1>2, <1>4 DEF Inv, BuildInv, Known, OnlyWafs, ConfNames
<1>9. OneBuildPerRuleSet'
  BY <1>2, OneBuildKept DEF Inv
<1>10. ArmInv'
  <2>1. \A s \in Servers : Defaults(s) \in Servers /\ ServerConf(s) \in Servers
    BY <1>0, ServerFacts
  <2>2. coraza_config_enabled_where' = coraza_config_enabled_where
    <3>1. \A s \in Servers : confs'[Defaults(s)'].enable = confs[Defaults(s)].enable
      BY <1>2, <1>4, <2>1 DEF OnlyWafs, ConfNames, Defaults
    <3>2. \A x \in Sections : confs'[x].enable = confs[x].enable
      BY <1>4 DEF OnlyWafs, ConfNames
    <3>3. QED
      BY <3>1, <3>2 DEF coraza_config_enabled_where
  <2>3. coraza_config_has_rules' = coraza_config_has_rules
    <3>1. \A s \in Servers : scfs'[ServerConf(s)'].collected = scfs[ServerConf(s)].collected
      BY <1>2, <1>5, <2>1 DEF ServerConf
    <3>2. QED
      BY <3>1 DEF coraza_config_has_rules
  <2>4. QED
    BY <1>2, <1>5, <2>2, <2>3 DEF Inv, ArmInv, ArmPart, HasRulesDirective
<1>11. ApartInv'
  BY <1>5 DEF ApartInv
<1>12. FreedOnce'
  <2> DEFINE p == UniqueDirWafs
             q == ServerWafs
  <2>1. /\ p \in Seq(Nat) /\ Once(p)
        /\ \A n \in DOMAIN p : ~SharedWithServer(p[n])
    BY <1>0, UniqueDirFacts
  <2>2. /\ q \in Seq(Nat) /\ Once(q)
        /\ \A n \in DOMAIN q : SharedWithServer(q[n])
    BY <1>0, ServerWafsFacts DEF Inv
  <2> HIDE DEF p, q
  <2>3. p \o q \in Seq(Nat) /\ Once(p \o q)
    <3>1. \A n \in DOMAIN p, m \in DOMAIN q : p[n] # q[m]
      BY <2>1, <2>2
    <3>2. QED
      BY <2>1, <2>2, <3>1, OnceConcat
  <2>4. freed = <<>>
    BY <1>2 DEF Inv, LifeInv
  <2> DEFINE r == p \o q
  <2>5. freed' = <<>> \o r
    BY <1>2, <2>4 DEF p, q
  <2> HIDE DEF r
  <2>6. <<>> \o r = r
    BY <2>3 DEF r
  <2>7. QED
    BY <2>3, <2>5, <2>6 DEF FreedOnce, Once, r
<1>13. QED
  BY <1>1, <1>6, <1>7, <1>8, <1>9, <1>10, <1>11, <1>12 DEF Inv

---------------------------------------------------------------------------
(* The steps of a request.                                                 *)

(* What coraza_check_config has looked at does not change.                 *)
LEMMA ConfigKept ==
    ASSUME TypeInv, UNCHANGED <<made, own, scfs>>,
           \A x \in Servers \cup Sections : confs'[x].enable = confs[x].enable
    PROVE  /\ coraza_config_enabled_where' = coraza_config_enabled_where
           /\ coraza_config_has_rules' = coraza_config_has_rules
<1>1. \A s \in Servers : Defaults(s) \in Servers /\ ServerConf(s) \in Servers
  BY ServerFacts
<1>2. \A s \in Servers : confs'[Defaults(s)'].enable = confs[Defaults(s)].enable
  BY <1>1 DEF Defaults
<1>3. coraza_config_enabled_where' = coraza_config_enabled_where
  BY <1>2 DEF coraza_config_enabled_where
<1>4. coraza_config_has_rules' = coraza_config_has_rules
  BY DEF coraza_config_has_rules, ServerConf
<1>5. QED
  BY <1>3, <1>4

(* A step of one thread that leaves the settings of the others leaves them *)
(* armed as they were.                                                     *)
LEMMA ArmKept ==
    ASSUME Inv, NEW t \in Threads, UNCHANGED <<text, made, own, scfs>>,
           phase \notin {"reading", "checking", "refused"},
           \A x \in Servers \cup Sections : confs'[x].enable = confs[x].enable,
           \A u \in Threads \ {t} : /\ threads'[u] = threads[u]
                                    /\ Conf(u)'.enable = Conf(u).enable,
           ArmPart(t)'
    PROVE  ArmInv'
<1>1. /\ coraza_config_enabled_where' = coraza_config_enabled_where
      /\ coraza_config_has_rules' = coraza_config_has_rules
  BY ConfigKept DEF Inv
<1>2. ASSUME NEW u \in Threads \ {t} PROVE ArmPart(u)'
  <2>1. ArmPart(u) /\ threads'[u] = threads[u] /\ Conf(u)'.enable = Conf(u).enable
    BY DEF Inv, ArmInv
  <2>2. QED
    BY <1>1, <2>1 DEF ArmPart, Plain
<1>3. \A s \in Servers : scfs'[s].collected > 0 => HasRulesDirective'
  BY DEF Inv, ArmInv, HasRulesDirective
<1>4. coraza_config_enabled_where => coraza_config_has_rules
  BY DEF Inv, ArmInv
<1>5. QED
  BY <1>1, <1>2, <1>3, <1>4 DEF ArmInv

(* The WAFs stay and so does the thread that is about to store one.        *)
LEMMA OneBuildStays ==
    ASSUME OneBuildPerRuleSet, cache' = cache, built' = built,
           \A u \in Threads : threads[u].pc = "store" =>
             threads'[u].pc = "store" /\ Conf(u)'.waf = Conf(u).waf
    PROVE  OneBuildPerRuleSet'
<1>1. \A n \in DOMAIN cache : RequestBuilds(cache[n].rules)' = RequestBuilds(cache[n].rules)
  BY DEF RequestBuilds
<1>2. ASSUME NEW h \in DOMAIN built,
             \E u \in Threads : threads[u].pc = "store" /\ Conf(u).waf = h
      PROVE  \E u \in Threads : threads'[u].pc = "store" /\ Conf(u)'.waf = h
  BY <1>2
<1>3. QED
  BY <1>1, <1>2 DEF OneBuildPerRuleSet

(* A step outside the lock, which touches the request's own configuration  *)
(* only: the other threads, with their configurations and merge_childs,    *)
(* do not notice it.                                                       *)
LEMMA OutsideInv ==
    ASSUME Inv, NEW t \in Threads, TypeInv',
           phase \in {"ready", "disabled"}, phase' = phase,
           UNCHANGED <<text, made, own, scfs, childVars, mutex, cache>>,
           Keeps(t), \A u \in Threads \ {t} : threads'[u] = threads[u],
           threads[t].pc \notin Holding, threads'[t].pc \notin Holding,
           phase = "disabled" => confs'[t].waf = NoWaf /\ threads'[t].pc # "serving",
           ArmPart(t)'
    PROVE  Inv'
<1>1. TypeInv
  BY DEF Inv
<1>2. \A x \in Servers \cup Sections : confs'[x] = confs[x]
  BY NameFacts DEF Keeps, ConfNames
<1>3. ASSUME NEW u \in Threads \ {t}
      PROVE  /\ Conf(u)' = Conf(u)
             /\ Conf(u).merge_child # NoConf =>
                  confs'[Conf(u).merge_child] = confs[Conf(u).merge_child]
  <2>1. threads[u].dcf \in Servers \cup {u} /\ Conf(u).merge_child \in Sections \cup {NoConf}
    BY <1>1, ConfFacts, StateFacts
  <2>2. threads[u].dcf \in ConfNames \ {t} /\ threads'[u].dcf = threads[u].dcf
    BY <2>1, NameFacts DEF ConfNames
  <2>3. QED
    BY <1>2, <2>1, <2>2 DEF Conf, Keeps
<1>4. LifeInv'
  <2>1. phase = "disabled" => NoWafs'
    <3>1. phase = "disabled" => NoWafs
      BY DEF Inv, LifeInv, NoWafPhases
    <3>2. QED
      BY <3>1 DEF NoWafs, Keeps
  <2>2. QED
    BY <2>1 DEF Inv, LifeInv, NoWafPhases, childVars
<1>5. MutexInv'
  BY DEF Inv, MutexInv
<1>6. BuildInv'
  <2>1. Known(t)'
    BY DEF Known, Holding
  <2>2. ASSUME NEW u \in Threads \ {t} PROVE Known(u)'
    <3>1. Known(u) /\ threads'[u] = threads[u] /\ built' = built /\ cache' = cache
      BY DEF Inv, BuildInv, childVars
    <3>2. /\ MergeChildFree(u)' = MergeChildFree(u) /\ Uncached(u)' = Uncached(u)
          /\ RequestBuilds(Conf(u).rules)' = RequestBuilds(Conf(u).rules)
      BY <1>3, <3>1 DEF MergeChildFree, Uncached, RequestBuilds
    <3>3. QED
      BY <1>3, <3>1, <3>2 DEF Known
  <2>3. QED
    BY <1>2, <2>1, <2>2 DEF Inv, BuildInv
<1>7. OneBuildPerRuleSet'
  <2>1. threads[t].pc # "store"
    BY DEF Holding
  <2>2. \A u \in Threads : threads[u].pc = "store" =>
          threads'[u].pc = "store" /\ Conf(u)'.waf = Conf(u).waf
    BY <1>3, <2>1
  <2>3. QED
    BY <2>2, OneBuildStays DEF Inv, childVars
<1>8. ArmInv'
  BY <1>2, <1>3, ArmKept
<1>9. ApartInv' /\ FreedOnce'
  BY DEF Inv, ApartInv, FreedOnce, childVars
<1>10. QED
  BY <1>4, <1>5, <1>6, <1>7, <1>8, <1>9 DEF Inv

(* A step under the lock, which touches WAFs only: no other thread is      *)
(* between the lock and the unlock.                                        *)
LEMMA HolderInv ==
    ASSUME Inv, NEW t \in Threads, TypeInv',
           phase \in {"ready", "disabled"}, phase' = phase,
           UNCHANGED <<text, made, own, scfs, library, freed, mutex>>,
           threads[t].pc \in Holding, NEW pc \in Holding, GoesTo(t, pc),
           OnlyWafs, Known(t)', OneBuildPerRuleSet'
    PROVE  Inv'
<1>1. TypeInv
  BY DEF Inv
<1>2. \A u \in Threads \ {t} : threads[u].pc \notin Holding /\ threads'[u] = threads[u]
  BY DEF Inv, MutexInv, GoesTo
<1>3. \A u \in Threads : threads[u].dcf \in ConfNames /\ threads'[u].dcf = threads[u].dcf
  BY <1>1, ConfFacts DEF GoesTo
<1>4. \A u \in Threads : Conf(u)'.enable = Conf(u).enable
  BY <1>3 DEF Conf, OnlyWafs
<1>5. phase = "ready"
  <2>1. phase = "disabled" => NoWafs
    BY DEF Inv, LifeInv, NoWafPhases
  <2>2. QED
    BY <2>1 DEF NoWafs
<1>6. LifeInv'
  BY <1>5 DEF Inv, LifeInv, NoWafPhases
<1>7. MutexInv'
  <2>1. threads'[t].pc = pc
    BY DEF GoesTo
  <2>2. QED
    BY <1>2, <2>1 DEF Inv, MutexInv
<1>8. BuildInv'
  <2>1. \A x \in Servers \cup Sections : confs'[x].merge_child = NoConf
    BY DEF Inv, BuildInv, OnlyWafs, ConfNames
  <2>2. \A u \in Threads \ {t} : Known(u)'
    BY <1>2 DEF Known, Holding
  <2>3. QED
    BY <2>1, <2>2 DEF BuildInv
<1>9. ArmInv'
  <2>1. \A x \in Servers \cup Sections : confs'[x].enable = confs[x].enable
    BY DEF OnlyWafs, ConfNames
  <2>2. /\ threads'[t].pc \in Holding /\ threads'[t].url = threads[t].url
        /\ Conf(t)'.enable = Conf(t).enable
    BY <1>4 DEF GoesTo
  <2>3. coraza_config_enabled_where' = coraza_config_enabled_where
    BY <1>1, <2>1, ConfigKept
  <2>4. ArmPart(t)'
    <3>1. ArmPart(t)
      BY DEF Inv, ArmInv
    <3>2. QED
      BY <2>2, <2>3, <3>1 DEF ArmPart, Plain, Holding
  <2>5. QED
    BY <1>2, <1>4, <1>5, <2>1, <2>4, ArmKept
<1>10. ApartInv' /\ FreedOnce'
  BY DEF Inv, ApartInv, FreedOnce
<1>11. QED
  BY <1>6, <1>7, <1>8, <1>9, <1>10 DEF Inv

LEMMA StartInv ==
    ASSUME Inv, NEW t \in Threads, Start(t)
    PROVE  Inv'
<1>1. TypeInv
  BY DEF Inv
<1>2. /\ TypeInv'
      /\ UNCHANGED <<configVars, childVars, mutex, cache>>
      /\ threads[t].pc = "idle" /\ phase \in {"ready", "disabled"}
  BY <1>1, StartFacts
<1>3. PICK u \in Urls : Moves(t, Started(u))
  BY <1>1, StartFacts
<1>4. /\ threads'[t].pc = "merging" /\ threads'[t].url = u /\ threads'[t].todo = u.path
      /\ threads'[t].dcf = Defaults(u.server)
      /\ \A v \in Threads \ {t} : threads'[v] = threads[v]
  BY <1>3 DEF Moves, Started
<1>5. UNCHANGED <<text, made, own, scfs, confs, phase>> /\ Keeps(t)
  BY <1>2 DEF configVars, Keeps
<1>6. ArmPart(t)'
  <2>1. u.server \in Servers
    BY StoreAssumption
  <2>2. Conf(t)' = confs[Defaults(u.server)]
    BY <1>4, <1>5 DEF Conf
  <2>3. coraza_config_enabled_where' = coraza_config_enabled_where
    BY <1>1, <1>5, ConfigKept
  <2>4. Conf(t)'.enable = 1 => coraza_config_enabled_where
    BY <2>1, <2>2 DEF coraza_config_enabled_where
  <2>5. QED
    BY <1>4, <2>3, <2>4 DEF ArmPart
<1>7. phase = "disabled" => confs'[t].waf = NoWaf
  BY <1>5 DEF Inv, LifeInv, NoWafPhases, NoWafs, ConfNames
<1>8. QED
  BY <1>2, <1>4, <1>5, <1>6, <1>7, OutsideInv DEF Holding

(* The end of a request, wherever it ends.                                 *)
LEMMA IdleInv ==
    ASSUME Inv, NEW t \in Threads, TypeInv', Moves(t, Idle),
           phase \in {"ready", "disabled"}, phase' = phase,
           UNCHANGED <<text, made, own, scfs, childVars, mutex, cache>>,
           Keeps(t), confs'[t] = coraza_create_dir_conf(t),
           threads[t].pc \notin Holding
    PROVE  Inv'
<1>1. threads'[t].pc = "idle" /\ \A v \in Threads \ {t} : threads'[v] = threads[v]
  BY DEF Moves, Idle
<1>2. ArmPart(t)'
  BY <1>1 DEF ArmPart
<1>3. confs'[t].waf = NoWaf
  BY DEF coraza_create_dir_conf
<1>4. QED
  BY <1>1, <1>2, <1>3, OutsideInv DEF Holding

(* The first section of a path and those after it.                         *)
LEMMA PathFacts ==
    ASSUME NEW q \in Seq(Sections), q # <<>>
    PROVE  Head(q) \in ToSet(q) /\ ToSet(Tail(q)) \subseteq ToSet(q)
<1>1. Head(q) = q[1] /\ 1 \in DOMAIN q
  OBVIOUS
<1>2. ASSUME NEW n \in DOMAIN Tail(q) PROVE Tail(q)[n] = q[n + 1] /\ n + 1 \in DOMAIN q
  OBVIOUS
<1>3. QED
  BY <1>1, <1>2 DEF ToSet

LEMMA MergeSectionInv ==
    ASSUME Inv, NEW t \in Threads, MergeSection(t), phase \in {"ready", "disabled"}
    PROVE  Inv'
<1> DEFINE x == NextSection(t)
<1>1. TypeInv
  BY DEF Inv
<1>2. /\ TypeInv' /\ threads[t].pc = "merging" /\ threads[t].todo # <<>>
      /\ x \in Sections
      /\ UNCHANGED <<phase, text, pos, made, own, scfs, childVars, mutex, cache>>
      /\ Keeps(t)
      /\ \/ Moves(t, Idle) /\ confs'[t] = coraza_create_dir_conf(t)
         \/ Advances(t, threads[t].dcf) /\ confs' = confs
         \/ Advances(t, t) /\ Merged(t, x)
  BY <1>1, MergeSectionFacts
<1>3. threads[t].pc \notin Holding
  BY <1>2 DEF Holding
<1>4. CASE Moves(t, Idle) /\ confs'[t] = coraza_create_dir_conf(t)
  BY <1>2, <1>3, <1>4, IdleInv
<1>5. coraza_config_enabled_where' = coraza_config_enabled_where
  <2>1. \A y \in Servers \cup Sections : confs'[y] = confs[y]
    BY <1>2, NameFacts DEF Keeps, ConfNames
  <2>2. QED
    BY <1>1, <1>2, <2>1, ConfigKept
<1>6. /\ ToSet(threads[t].todo) \subseteq ToSet(threads[t].url.path)
      /\ Plain(t) /\ Conf(t).enable = 1 => coraza_config_enabled_where
  <2>1. ArmPart(t)
    BY DEF Inv, ArmInv
  <2>2. QED
    BY <1>2, <2>1 DEF ArmPart
<1>7. x \in ToSet(threads[t].todo) /\ ToSet(Tail(threads[t].todo)) \subseteq ToSet(threads[t].todo)
  <2>1. threads[t].todo \in Seq(Sections)
    BY <1>1 DEF TypeInv, StoreTypes, ThreadStates
  <2>2. QED
    BY <1>2, <2>1, PathFacts DEF NextSection
<1>8. CASE \/ Advances(t, threads[t].dcf) /\ confs' = confs
           \/ Advances(t, t) /\ Merged(t, x)
  <2>1. /\ threads'[t].pc = "merging" /\ threads'[t].url = threads[t].url
        /\ threads'[t].todo = Tail(threads[t].todo)
        /\ \A u \in Threads \ {t} : threads'[u] = threads[u]
    BY <1>8 DEF Advances
  <2>2. Plain(t)' = Plain(t)
    BY <2>1 DEF Plain
  <2>3. Plain(t) /\ Conf(t)'.enable = 1 => coraza_config_enabled_where
    <3>1. CASE Advances(t, threads[t].dcf) /\ confs' = confs
      BY <1>6, <3>1 DEF Advances, Conf
    <3>2. CASE Advances(t, t) /\ Merged(t, x)
      <4>1. Conf(t)' = confs'[t]
        BY <3>2 DEF Advances, Conf
      <4>2. Plain(t) => Kind[x] \in {"directory", "location"}
        BY <1>6, <1>7 DEF Plain
      <4>3. Plain(t) => confs'[t].enable \in {Conf(t).enable, confs[x].enable}
        BY <3>2, <4>2 DEF Merged
      <4>4. Plain(t) /\ confs[x].enable = 1 => coraza_config_enabled_where
        BY <1>2, <4>2 DEF coraza_config_enabled_where
      <4>5. QED
        BY <1>6, <4>1, <4>3, <4>4
    <3>3. QED
      BY <1>8, <3>1, <3>2
  <2>4. ArmPart(t)'
    BY <1>5, <1>6, <1>7, <2>1, <2>2, <2>3 DEF ArmPart
  <2>5. phase = "disabled" => confs'[t].waf = NoWaf
    <3>1. phase = "disabled" => \A y \in ConfNames : confs[y].waf = NoWaf
      BY DEF Inv, LifeInv, NoWafPhases, NoWafs
    <3>2. t \in ConfNames
      BY DEF ConfNames
    <3>3. QED
      BY <1>8, <3>1, <3>2 DEF Merged
  <2>6. QED
    BY <1>2, <1>3, <2>1, <2>4, <2>5, OutsideInv DEF Holding
<1>9. QED
  BY <1>2, <1>4, <1>8

LEMMA CheckWafInv ==
    ASSUME Inv, NEW t \in Threads, CheckWaf(t), phase \in {"ready", "disabled"}
    PROVE  Inv'
<1>1. TypeInv
  BY DEF Inv
<1>2. /\ TypeInv' /\ threads[t].pc = "merging"
      /\ UNCHANGED <<phase, text, pos, made, own, scfs, childVars, mutex, cache>>
      /\ Keeps(t)
      /\ \/ Moves(t, Idle) /\ confs'[t] = coraza_create_dir_conf(t)
         \/ /\ GoesTo(t, "lock") \/ GoesTo(t, "use")
            /\ Conf(t).enable = 1 /\ confs' = confs
  BY <1>1, CheckWafFacts
<1>3. threads[t].pc \notin Holding
  BY <1>2 DEF Holding
<1>4. CASE Moves(t, Idle) /\ confs'[t] = coraza_create_dir_conf(t)
  BY <1>2, <1>3, <1>4, IdleInv
<1>5. CASE /\ GoesTo(t, "lock") \/ GoesTo(t, "use")
           /\ Conf(t).enable = 1 /\ confs' = confs
  <2>1. /\ threads'[t].pc \in {"lock", "use"} /\ threads'[t].url = threads[t].url
        /\ threads'[t].dcf = threads[t].dcf
        /\ \A u \in Threads \ {t} : threads'[u] = threads[u]
    BY <1>5 DEF GoesTo
  <2>2. coraza_config_enabled_where' = coraza_config_enabled_where
    BY <1>1, <1>2, <1>5, ConfigKept
  <2>3. ArmPart(t)'
    <3>1. ArmPart(t) /\ Conf(t)' = Conf(t)
      BY <1>5, <2>1 DEF Inv, ArmInv, Conf
    <3>2. QED
      BY <1>2, <1>5, <2>1, <2>2, <3>1 DEF ArmPart, Plain
  <2>4. phase = "disabled" => confs'[t].waf = NoWaf
    BY <1>5 DEF Inv, LifeInv, NoWafPhases, NoWafs, ConfNames
  <2>5. QED
    BY <1>2, <1>3, <2>1, <2>3, <2>4, OutsideInv DEF Holding
<1>6. QED
  BY <1>2, <1>4, <1>5

LEMMA UseWafInv ==
    ASSUME Inv, NEW t \in Threads, UseWaf(t), phase \in {"ready", "disabled"}
    PROVE  Inv'
<1>1. TypeInv
  BY DEF Inv
<1>2. /\ TypeInv' /\ threads[t].pc = "use" /\ GoesTo(t, "serving")
      /\ EffectiveWaf(t) # NoWaf
      /\ UNCHANGED <<configVars, childVars, mutex, cache>>
  BY <1>1, UseWafFacts
<1>3. UNCHANGED <<text, made, own, scfs, confs, phase>> /\ Keeps(t)
  BY <1>2 DEF configVars, Keeps
<1>4. /\ threads'[t].pc = "serving" /\ threads'[t].url = threads[t].url
      /\ threads'[t].dcf = threads[t].dcf
      /\ \A u \in Threads \ {t} : threads'[u] = threads[u]
  BY <1>2 DEF GoesTo
<1>5. phase # "disabled"
  <2>1. threads[t].url.server \in Servers
    <3>1. threads[t].url \in Urls \cup {NoUrl}
      BY <1>1 DEF TypeInv, StoreTypes, ThreadStates
    <3>2. QED
      BY <3>1, StoreAssumption, NameFacts DEF NoUrl
  <2>2. ServerConf(threads[t].url.server) \in Servers /\ threads[t].dcf \in ConfNames
    BY <1>1, <2>1, ServerFacts, ConfFacts
  <2>3. phase = "disabled" => EffectiveWaf(t) = NoWaf
    BY <2>2 DEF Inv, LifeInv, NoWafPhases, NoWafs, EffectiveWaf, Conf
  <2>4. QED
    BY <1>2, <2>3
<1>6. ArmPart(t)'
  <2>1. ArmPart(t) /\ Conf(t)' = Conf(t)
    BY <1>3, <1>4 DEF Inv, ArmInv, Conf
  <2>2. coraza_config_enabled_where' = coraza_config_enabled_where
    BY <1>1, <1>3, ConfigKept
  <2>3. QED
    BY <1>2, <1>4, <2>1, <2>2 DEF ArmPart, Plain
<1>7. threads[t].pc \notin Holding /\ threads'[t].pc \notin Holding
  BY <1>2, <1>4 DEF Holding
<1>8. QED
  BY <1>2, <1>3, <1>4, <1>5, <1>6, <1>7, OutsideInv

LEMMA EndInv ==
    ASSUME Inv, NEW t \in Threads, NoTransaction(t) \/ Finish(t),
           phase \in {"ready", "disabled"}
    PROVE  Inv'
<1>1. /\ TypeInv'
      /\ threads[t].pc \in {"use", "serving"} /\ Moves(t, Idle)
      /\ UNCHANGED <<phase, text, pos, made, own, scfs, tracked>>
      /\ UNCHANGED <<childVars, mutex, cache>>
      /\ confs'[t] = coraza_create_dir_conf(t) /\ Keeps(t)
  BY EndFacts DEF Inv
<1>2. threads[t].pc \notin Holding
  BY <1>1 DEF Holding
<1>3. QED
  BY <1>1, <1>2, IdleInv

LEMMA LockInv ==
    ASSUME Inv, NEW t \in Threads, Lock(t), phase \in {"ready", "disabled"}
    PROVE  Inv'
<1>1. TypeInv
  BY DEF Inv
<1>2. /\ TypeInv' /\ threads[t].pc = "lock"
      /\ UNCHANGED <<text, pos, made, own, confs, scfs, tracked, childVars, cache>>
      /\ \/ /\ phase = "ready" /\ phase' = phase
            /\ mutex = NoThread /\ mutex' = t /\ GoesTo(t, "merge_child")
         \/ /\ phase = "disabled" /\ phase' = "crashed"
            /\ UNCHANGED <<threads, mutex>>
  BY <1>1, LockFacts
<1>3. UNCHANGED <<library, built, freed>>
  BY <1>2 DEF childVars
<1>4. /\ \A u \in Threads : /\ threads'[u].dcf = threads[u].dcf
                            /\ threads'[u].url = threads[u].url
                            /\ threads'[u].todo = threads[u].todo
      /\ \A u \in Threads \ {t} : threads'[u] = threads[u]
      /\ threads'[t].pc \in {"lock", "merge_child"}
  BY <1>2 DEF GoesTo
<1>5. \A u \in Threads : Conf(u)' = Conf(u)
  BY <1>2, <1>4 DEF Conf
<1>6. LifeInv'
  <2>1. CASE phase = "ready" /\ phase' = phase
    BY <1>3, <2>1 DEF Inv, LifeInv, NoWafPhases
  <2>2. CASE phase = "disabled" /\ phase' = "crashed" /\ UNCHANGED <<threads, mutex>>
    <3>1. NoWafs
      BY <2>2 DEF Inv, LifeInv, NoWafPhases
    <3>2. NoWafs'
      BY <1>2, <2>2, <3>1 DEF NoWafs
    <3>3. QED
      BY <1>3, <2>2, <3>2 DEF Inv, LifeInv
  <2>3. QED
    BY <1>2, <2>1, <2>2
<1>7. MutexInv'
  <2>1. CASE mutex = NoThread /\ mutex' = t /\ GoesTo(t, "merge_child")
    <3>1. \A u \in Threads : threads[u].pc \notin Holding
      BY <2>1, NameFacts DEF Inv, MutexInv
    <3>2. threads'[t].pc \in Holding
      BY <2>1 DEF GoesTo, Holding
    <3>3. QED
      BY <1>4, <2>1, <3>1, <3>2 DEF MutexInv
  <2>2. CASE UNCHANGED <<threads, mutex>>
    BY <2>2 DEF Inv, MutexInv
  <2>3. QED
    BY <1>2, <2>1, <2>2
<1>8. BuildInv'
  <2>1. Known(t)'
    BY <1>4 DEF Known
  <2>2. ASSUME NEW u \in Threads \ {t} PROVE Known(u)'
    <3>1. Known(u) /\ threads'[u] = threads[u] /\ Conf(u)' = Conf(u)
      BY <1>4, <1>5 DEF Inv, BuildInv
    <3>2. /\ MergeChildFree(u)' = MergeChildFree(u) /\ Uncached(u)' = Uncached(u)
          /\ RequestBuilds(Conf(u).rules)' = RequestBuilds(Conf(u).rules)
      BY <1>2, <1>3, <3>1 DEF MergeChildFree, Uncached, RequestBuilds
    <3>3. QED
      BY <1>2, <3>1, <3>2 DEF Known
  <2>3. QED
    BY <1>2, <2>1, <2>2 DEF Inv, BuildInv
<1>9. OneBuildPerRuleSet'
  <2>1. \A u \in Threads : threads[u].pc = "store" =>
          threads'[u].pc = "store" /\ Conf(u)'.waf = Conf(u).waf
    BY <1>2, <1>4, <1>5
  <2>2. QED
    BY <1>2, <1>3, <2>1, OneBuildStays DEF Inv
<1>10. ArmInv'
  <2>1. coraza_config_enabled_where' = coraza_config_enabled_where
    BY <1>1, <1>2, ConfigKept
  <2>2. ArmPart(t)'
    <3>1. ArmPart(t)
      BY DEF Inv, ArmInv
    <3>2. QED
      BY <1>2, <1>4, <1>5, <2>1, <3>1 DEF ArmPart, Plain
  <2>3. QED
    BY <1>2, <1>4, <1>5, <2>2, ArmKept
<1>11. ApartInv' /\ FreedOnce'
  BY <1>2, <1>3 DEF Inv, ApartInv, FreedOnce
<1>12. QED
  BY <1>2, <1>6, <1>7, <1>8, <1>9, <1>10, <1>11 DEF Inv

LEMMA UnlockInv ==
    ASSUME Inv, NEW t \in Threads, Unlock(t), phase \in {"ready", "disabled"}
    PROVE  Inv'
<1>1. TypeInv
  BY DEF Inv
<1>2. /\ TypeInv' /\ threads[t].pc = "unlock" /\ GoesTo(t, "use") /\ mutex' = NoThread
      /\ UNCHANGED <<phase, text, made, own, confs, scfs, library, built, freed, cache>>
  BY <1>1, UnlockFacts DEF configVars, childVars
<1>3. /\ \A u \in Threads : threads'[u].dcf = threads[u].dcf
      /\ threads'[t].url = threads[t].url /\ threads'[t].pc = "use"
      /\ \A u \in Threads \ {t} : threads'[u] = threads[u]
  BY <1>2 DEF GoesTo
<1>4. \A u \in Threads : Conf(u)' = Conf(u)
  BY <1>2, <1>3 DEF Conf
<1>5. \A u \in Threads : threads'[u].pc \notin Holding
  <2>1. \A u \in Threads \ {t} : threads[u].pc \notin Holding
    BY <1>2 DEF Inv, MutexInv, Holding
  <2>2. QED
    BY <1>3, <2>1 DEF Holding
<1>6. LifeInv'
  <2>1. phase = "disabled" => NoWafs
    BY DEF Inv, LifeInv, NoWafPhases
  <2>2. phase = "ready"
    BY <1>2, <2>1 DEF NoWafs, Holding
  <2>3. QED
    BY <1>2, <2>2 DEF Inv, LifeInv, NoWafPhases
<1>7. MutexInv'
  BY <1>2, <1>5, NameFacts DEF MutexInv
<1>8. BuildInv'
  BY <1>2, <1>5 DEF Inv, BuildInv, Known, Holding
<1>9. OneBuildPerRuleSet'
  <2>1. \A u \in Threads : threads[u].pc = "store" =>
          threads'[u].pc = "store" /\ Conf(u)'.waf = Conf(u).waf
    BY <1>2, <1>3, <1>4
  <2>2. QED
    BY <1>2, <2>1, OneBuildStays DEF Inv
<1>10. ArmInv'
  <2>1. coraza_config_enabled_where' = coraza_config_enabled_where
    BY <1>1, <1>2, ConfigKept
  <2>2. ArmPart(t)'
    <3>1. ArmPart(t)
      BY DEF Inv, ArmInv
    <3>2. QED
      BY <1>2, <1>3, <1>4, <2>1, <3>1 DEF ArmPart, Plain
  <2>3. QED
    BY <1>2, <1>3, <1>4, <2>2, ArmKept
<1>11. ApartInv' /\ FreedOnce'
  BY <1>2 DEF Inv, ApartInv, FreedOnce
<1>12. QED
  BY <1>2, <1>6, <1>7, <1>8, <1>9, <1>10, <1>11 DEF Inv

(* The thread at its WAF is alone there, and the configuration it works    *)
(* with is not the merge_child.                                            *)
LEMMA HolderFacts ==
    ASSUME Inv, NEW t \in Threads, threads[t].pc \in Holding
    PROVE  /\ \A u \in Threads \ {t} : threads[u].pc # "store"
           /\ Known(t)
           /\ threads[t].dcf \in ConfNames
           /\ Conf(t).merge_child # NoConf =>
                /\ Conf(t).merge_child \in ConfNames
                /\ Conf(t).merge_child # threads[t].dcf
<1>1. TypeInv
  BY DEF Inv
<1>2. \A u \in Threads \ {t} : threads[u].pc # "store"
  BY DEF Inv, MutexInv, Holding
<1>3. Known(t)
  BY DEF Inv, BuildInv
<1>4. threads[t].dcf \in Servers \cup {t} /\ threads[t].dcf \in ConfNames
      /\ Conf(t).merge_child \in Sections \cup {NoConf}
  BY <1>1, ConfFacts, StateFacts
<1>5. QED
  BY <1>2, <1>3, <1>4, NameFacts DEF ConfNames

LEMMA TryMergeChildInv ==
    ASSUME Inv, NEW t \in Threads, TryMergeChild(t), phase \in {"ready", "disabled"}
    PROVE  Inv'
<1>1. /\ TypeInv'
      /\ threads[t].pc = "merge_child" /\ GoesTo(t, "cache")
      /\ UNCHANGED <<phase, text, pos, made, own, scfs, tracked>>
      /\ UNCHANGED <<childVars, mutex, cache>>
      /\ Keeps(threads[t].dcf) /\ OnlyWafs
      /\ confs'[threads[t].dcf].waf =
           IF Conf(t).waf = NoWaf /\ Conf(t).merge_child # NoConf
           THEN confs[Conf(t).merge_child].waf ELSE Conf(t).waf
  BY TryMergeChildFacts DEF Inv
<1>2. threads[t].pc \in Holding /\ "cache" \in Holding
  BY <1>1 DEF Holding
<1>3. /\ \A u \in Threads \ {t} : threads[u].pc # "store"
      /\ threads[t].dcf \in ConfNames
      /\ Conf(t).merge_child # NoConf =>
           /\ Conf(t).merge_child \in ConfNames
           /\ Conf(t).merge_child # threads[t].dcf
  BY <1>2, HolderFacts
<1>4. threads'[t].pc = "cache" /\ Conf(t)' = confs'[threads[t].dcf]
  BY <1>1 DEF GoesTo, Conf
<1>5. Known(t)'
  <2>1. Conf(t)'.merge_child = Conf(t).merge_child
    BY <1>1, <1>3, <1>4 DEF OnlyWafs, Conf
  <2>2. Conf(t).merge_child # NoConf =>
          confs'[Conf(t).merge_child] = confs[Conf(t).merge_child]
    BY <1>1, <1>3 DEF Keeps
  <2>3. Conf(t)'.waf = NoWaf => MergeChildFree(t)'
    BY <1>1, <1>4, <2>1, <2>2 DEF MergeChildFree
  <2>4. QED
    BY <1>4, <2>3 DEF Known
<1>6. OneBuildPerRuleSet'
  <2>1. \A u \in Threads : threads[u].pc # "store"
    BY <1>1, <1>3
  <2>2. QED
    BY <1>1, <2>1, OneBuildStays DEF Inv, childVars
<1>7. QED
  BY <1>1, <1>2, <1>5, <1>6, HolderInv DEF childVars

LEMMA TryCacheInv ==
    ASSUME Inv, NEW t \in Threads, TryCache(t), phase \in {"ready", "disabled"}
    PROVE  Inv'
<1>1. /\ TypeInv'
      /\ threads[t].pc = "cache"
      /\ UNCHANGED <<phase, text, pos, made, own, scfs, tracked>>
      /\ UNCHANGED <<childVars, mutex, cache>>
      /\ \/ GoesTo(t, "unlock") /\ confs' = confs
         \/ /\ GoesTo(t, "unlock") /\ Conf(t).waf = NoWaf
            /\ \E waf : WafGiven(t, waf)
         \/ /\ GoesTo(t, "build") /\ Conf(t).waf = NoWaf /\ confs' = confs
            /\ \A n \in DOMAIN cache : cache[n].rules # Conf(t).rules
  BY TryCacheFacts DEF Inv
<1>2. threads[t].pc \in Holding /\ "unlock" \in Holding /\ "build" \in Holding
  BY <1>1 DEF Holding
<1>3. (\A u \in Threads \ {t} : threads[u].pc # "store") /\ Known(t)
  BY <1>2, HolderFacts
<1>4. OnlyWafs
  BY <1>1 DEF OnlyWafs, WafGiven
<1>5. OneBuildPerRuleSet'
  <2>1. \A u \in Threads : threads[u].pc # "store"
    BY <1>1, <1>3
  <2>2. QED
    BY <1>1, <2>1, OneBuildStays DEF Inv, childVars
<1>6. CASE GoesTo(t, "unlock")
  <2>1. Known(t)'
    BY <1>6 DEF GoesTo, Known
  <2>2. QED
    BY <1>1, <1>2, <1>4, <1>5, <1>6, <2>1, HolderInv DEF childVars
<1>7. CASE /\ GoesTo(t, "build") /\ Conf(t).waf = NoWaf /\ confs' = confs
           /\ \A n \in DOMAIN cache : cache[n].rules # Conf(t).rules
  <2>1. threads'[t].pc = "build" /\ Conf(t)' = Conf(t)
    BY <1>7 DEF GoesTo, Conf
  <2>2. MergeChildFree(t)'
    BY <1>1, <1>3, <1>7, <2>1 DEF Known, MergeChildFree
  <2>3. Uncached(t)'
    BY <1>1, <1>7, <2>1 DEF Uncached
  <2>4. Known(t)'
    BY <1>7, <2>1, <2>2, <2>3 DEF Known
  <2>5. QED
    BY <1>1, <1>2, <1>4, <1>5, <1>7, <2>4, HolderInv DEF childVars
<1>8. QED
  BY <1>1, <1>6, <1>7

(* The holder of the mutex builds a WAF for rules that nobody has built    *)
(* one for, unless the cache is full.                                      *)
LEMMA BuildWafInv ==
    ASSUME Inv, NEW t \in Threads, BuildWaf(t), phase \in {"ready", "disabled"}
    PROVE  Inv'
<1>1. /\ TypeInv'
      /\ threads[t].pc = "build" /\ GoesTo(t, "store")
      /\ UNCHANGED <<phase, text, pos, made, own, scfs, tracked>>
      /\ UNCHANGED <<library, freed, loop, mutex, cache>>
      /\ Keeps(threads[t].dcf) /\ OnlyWafs
      /\ DOMAIN built = 1 .. Len(built) /\ DOMAIN built' = 1 .. Len(built')
      /\ \A h \in DOMAIN built : built'[h] = built[h]
      /\ \/ confs'[threads[t].dcf].waf = NoWaf /\ Len(built') = Len(built)
         \/ /\ confs'[threads[t].dcf].waf = Len(built')
            /\ Len(built') = Len(built) + 1
            /\ built'[Len(built')] = [rules |-> Conf(t).rules, by |-> "request"]
  BY BuildWafFacts DEF Inv
<1>2. threads[t].pc \in Holding /\ "store" \in Holding
  BY <1>1 DEF Holding
<1>3. /\ \A u \in Threads : threads[u].pc # "store"
      /\ Known(t) /\ threads[t].dcf \in ConfNames
      /\ Conf(t).merge_child # NoConf =>
           /\ Conf(t).merge_child \in ConfNames
           /\ Conf(t).merge_child # threads[t].dcf
  BY <1>1, <1>2, HolderFacts
<1>4. MergeChildFree(t) /\ Uncached(t) /\ OneBuildPerRuleSet /\ Len(built) \in Nat
  BY <1>1, <1>3, StateFacts DEF Known, Inv
<1>5. /\ threads'[t].pc = "store" /\ Conf(t)' = confs'[threads[t].dcf]
      /\ Conf(t)'.rules = Conf(t).rules /\ Conf(t)'.merge_child = Conf(t).merge_child
  BY <1>1, <1>3 DEF GoesTo, Conf, OnlyWafs
<1>6. MergeChildFree(t)' /\ Uncached(t)'
  <2>1. Conf(t).merge_child # NoConf =>
          confs'[Conf(t).merge_child] = confs[Conf(t).merge_child]
    BY <1>1, <1>3 DEF Keeps
  <2>2. QED
    BY <1>1, <1>4, <1>5, <2>1 DEF MergeChildFree, Uncached
<1>7. Len(cache) < CacheMax => RequestBuilds(Conf(t).rules) = {}
  <2>1. SUFFICES ASSUME Len(cache) < CacheMax, NEW h \in RequestBuilds(Conf(t).rules)
                 PROVE  FALSE
    OBVIOUS
  <2>2. h \in DOMAIN built /\ built[h].by = "request" /\ built[h].rules = Conf(t).rules
    BY <2>1 DEF RequestBuilds
  <2>3. Len(cache) # CacheMax
    <3>1. Len(cache) \in Nat /\ CacheMax \in Nat
      BY StoreAssumption DEF Inv, TypeInv, StoreTypes
    <3>2. QED
      BY <2>1, <3>1
  <2>4. PICK n \in DOMAIN cache : cache[n].waf = h
    BY <1>3, <1>4, <2>2, <2>3 DEF OneBuildPerRuleSet
  <2>5. h \in RequestBuilds(cache[n].rules)
    BY <1>4, <2>4 DEF OneBuildPerRuleSet
  <2>6. built[h].rules = cache[n].rules
    BY <2>5 DEF RequestBuilds
  <2>7. QED
    BY <1>4, <2>2, <2>4, <2>6 DEF Uncached
<1>8. CASE confs'[threads[t].dcf].waf = NoWaf /\ Len(built') = Len(built)
  <2>1. Known(t)'
    BY <1>5, <1>6, <1>8 DEF Known
  <2>2. DOMAIN built' = DOMAIN built /\ \A h \in DOMAIN built : built'[h] = built[h]
    BY <1>1, <1>8
  <2>3. OneBuildPerRuleSet'
    <3>1. \A n \in DOMAIN cache : RequestBuilds(cache[n].rules)' = RequestBuilds(cache[n].rules)
      BY <1>1, <2>2 DEF RequestBuilds
    <3>2. \A h \in DOMAIN built :
            \/ built[h].by = "child_init"
            \/ \E n \in DOMAIN cache : cache[n].waf = h
            \/ Len(cache) = CacheMax
      BY <1>3, <1>4 DEF OneBuildPerRuleSet
    <3>3. \A h \in DOMAIN built' :
            \/ built'[h].by = "child_init"
            \/ \E n \in DOMAIN cache' : cache'[n].waf = h
            \/ Len(cache') = CacheMax
      BY <1>1, <2>2, <3>2
    <3>4. \A n \in DOMAIN cache' : RequestBuilds(cache[n].rules)' = {cache'[n].waf}
      BY <1>1, <1>4, <3>1 DEF OneBuildPerRuleSet
    <3>5. QED
      BY <3>3, <3>4 DEF OneBuildPerRuleSet
  <2>4. QED
    BY <1>1, <1>2, <2>1, <2>3, HolderInv
<1>9. CASE /\ confs'[threads[t].dcf].waf = Len(built')
           /\ Len(built') = Len(built) + 1
           /\ built'[Len(built')] = [rules |-> Conf(t).rules, by |-> "request"]
  <2> DEFINE new == Len(built) + 1
  <2>1. /\ \A h \in DOMAIN built' : h \in DOMAIN built \/ h = new
        /\ new \in DOMAIN built' /\ new \notin DOMAIN built
        /\ \A h \in DOMAIN built : h \in DOMAIN built'
    BY <1>1, <1>4, <1>9
  <2>2. /\ built'[new].rules = Conf(t).rules /\ built'[new].by = "request"
        /\ Conf(t)'.waf = new
    BY <1>5, <1>9
  <2> HIDE DEF new
  <2>3. \A rules : RequestBuilds(rules)' =
          RequestBuilds(rules) \cup (IF rules = Conf(t).rules THEN {new} ELSE {})
    BY <1>1, <2>1, <2>2, ZenonT(40), SMTT(40) DEF RequestBuilds
  <2>4. Known(t)'
    <3>1. PICK rules : rules = Conf(t).rules
      OBVIOUS
    <3>2. Len(cache) < CacheMax => RequestBuilds(rules)' = {new}
      BY <1>7, <2>3, <3>1
    <3>3. RequestBuilds(Conf(t).rules)' = RequestBuilds(rules)'
      BY <1>5, <3>1
    <3>4. QED
      BY <1>1, <1>5, <1>6, <2>2, <3>2, <3>3 DEF Known
  <2>5. OneBuildPerRuleSet'
    <3>1. ASSUME NEW n \in DOMAIN cache
          PROVE  RequestBuilds(cache[n].rules)' = {cache[n].waf}
      <4>1. cache[n].rules # Conf(t).rules
        BY <1>4 DEF Uncached
      <4>2. PICK rules : rules = cache[n].rules
        OBVIOUS
      <4>3. RequestBuilds(rules)' = {cache[n].waf}
        BY <1>4, <2>3, <4>1, <4>2 DEF OneBuildPerRuleSet
      <4>4. QED
        BY <1>1, <4>2, <4>3
    <3>2. ASSUME NEW h \in DOMAIN built'
          PROVE  \/ built'[h].by = "child_init"
                 \/ \E n \in DOMAIN cache : cache[n].waf = h
                 \/ Len(cache) = CacheMax
                 \/ \E u \in Threads : threads'[u].pc = "store" /\ Conf(u)'.waf = h
      <4>1. CASE h = new
        BY <1>5, <2>2, <4>1
      <4>2. CASE h \in DOMAIN built
        BY <1>1, <1>3, <1>4, <4>2 DEF OneBuildPerRuleSet
      <4>3. QED
        BY <2>1, <4>1, <4>2
    <3>3. QED
      BY <1>1, <3>1, <3>2 DEF OneBuildPerRuleSet
  <2>6. QED
    BY <1>1, <1>2, <2>4, <2>5, HolderInv
<1>10. QED
  BY <1>1, <1>8, <1>9

LEMMA StoreWafInv ==
    ASSUME Inv, NEW t \in Threads, StoreWaf(t), phase \in {"ready", "disabled"}
    PROVE  Inv'
<1>1. /\ TypeInv'
      /\ threads[t].pc = "store" /\ GoesTo(t, "unlock")
      /\ UNCHANGED <<phase, text, pos, made, own, scfs, tracked>>
      /\ UNCHANGED <<library, built, freed, mutex>>
      /\ WafGiven(t, Conf(t).waf)
      /\ Stored(t)
      /\ DOMAIN cache = 1 .. Len(cache) /\ Len(cache) \in Nat
  BY StoreWafFacts DEF Inv, childVars
<1>2. threads[t].pc \in Holding /\ "unlock" \in Holding
  BY <1>1 DEF Holding
<1>3. (\A u \in Threads \ {t} : threads[u].pc # "store") /\ Known(t)
  BY <1>2, HolderFacts
<1>4. OneBuildPerRuleSet /\ DOMAIN built = 1 .. Len(built) /\ Len(built) \in Nat
  BY DEF Inv, TypeInv, ChildTypes
<1>5. \A h \in DOMAIN built : h # NoWaf
  BY <1>4 DEF NoWaf
<1>6. \A h \in DOMAIN built :
        (\E u \in Threads : threads[u].pc = "store" /\ Conf(u).waf = h) =>
           Conf(t).waf = h /\ Conf(t).waf # NoWaf
  BY <1>3, <1>5
<1>7. \A rules : RequestBuilds(rules)' = RequestBuilds(rules)
  BY <1>1 DEF RequestBuilds
<1>8. OneBuildPerRuleSet'
  <2>1. CASE cache' = cache /\ (Conf(t).waf # NoWaf => Len(cache) = CacheMax)
    BY <1>1, <1>4, <1>6, <1>7, <2>1 DEF OneBuildPerRuleSet
  <2>2. CASE /\ Conf(t).waf # NoWaf /\ Len(cache) < CacheMax
             /\ DOMAIN cache' = 1 .. (Len(cache) + 1)
             /\ cache'[Len(cache) + 1].rules = Conf(t).rules
             /\ cache'[Len(cache) + 1].waf = Conf(t).waf
             /\ \A n \in DOMAIN cache : cache'[n] = cache[n]
    <3> DEFINE last == Len(cache) + 1
    <3>1. /\ \A n \in DOMAIN cache' : n \in DOMAIN cache \/ n = last
          /\ last \in DOMAIN cache' /\ \A n \in DOMAIN cache : n \in DOMAIN cache'
          /\ Len(cache) # CacheMax
      <4> DEFINE len == Len(cache)
      <4>1. /\ CacheMax \in Nat /\ len \in Nat /\ len < CacheMax
            /\ DOMAIN cache = 1 .. len /\ DOMAIN cache' = 1 .. (len + 1)
        BY <1>1, <2>2, StoreAssumption
      <4> HIDE DEF len
      <4>2. /\ \A n \in 1 .. (len + 1) : n \in 1 .. len \/ n = len + 1
            /\ len + 1 \in 1 .. (len + 1) /\ len # CacheMax
            /\ \A n \in 1 .. len : n \in 1 .. (len + 1)
        BY <4>1
      <4>3. QED
        BY <4>1, <4>2 DEF len
    <3>2. cache'[last].rules = Conf(t).rules /\ cache'[last].waf = Conf(t).waf
      BY <2>2
    <3> HIDE DEF last
    <3>3. RequestBuilds(Conf(t).rules) = {Conf(t).waf}
      BY <1>1, <1>3, <2>2 DEF Known
    <3>4. ASSUME NEW n \in DOMAIN cache'
          PROVE  RequestBuilds(cache[n].rules)' = {cache'[n].waf}
      <4>0. PICK rules : rules = cache'[n].rules
        OBVIOUS
      <4>1. CASE n = last
        BY <1>7, <3>2, <3>3, <4>0, <4>1
      <4>2. CASE n \in DOMAIN cache
        BY <1>4, <1>7, <2>2, <4>0, <4>2 DEF OneBuildPerRuleSet
      <4>3. QED
        BY <3>1, <4>1, <4>2
    <3>5. ASSUME NEW h \in DOMAIN built
          PROVE  built[h].by = "child_init" \/ \E n \in DOMAIN cache' : cache'[n].waf = h
      <4>1. CASE built[h].by = "child_init"
        BY <4>1
      <4>2. ASSUME NEW n \in DOMAIN cache, cache[n].waf = h
            PROVE  \E m \in DOMAIN cache' : cache'[m].waf = h
        BY <2>2, <3>1, <4>2
      <4>3. CASE \E u \in Threads : threads[u].pc = "store" /\ Conf(u).waf = h
        BY <1>6, <3>1, <3>2, <4>3
      <4>4. QED
        BY <1>4, <3>1, <4>1, <4>2, <4>3 DEF OneBuildPerRuleSet
    <3>6. QED
      BY <1>1, <3>4, <3>5 DEF OneBuildPerRuleSet
  <2>3. QED
    BY <1>1, <2>1, <2>2 DEF Stored
<1>9. Known(t)'
  BY <1>1 DEF GoesTo, Known
<1>10. OnlyWafs
  BY <1>1 DEF WafGiven
<1>11. QED
  BY <1>1, <1>2, <1>8, <1>9, <1>10, HolderInv

---------------------------------------------------------------------------

LEMMA StepInv ==
    ASSUME Inv, NEW t \in Threads, Step(t)
    PROVE  Inv'
<1>1. phase \in {"ready", "disabled"}
  BY DEF Step
<1>2. CASE MergeSection(t)
  BY <1>1, <1>2, MergeSectionInv
<1>3. CASE CheckWaf(t)
  BY <1>1, <1>3, CheckWafInv
<1>4. CASE Lock(t)
  BY <1>1, <1>4, LockInv
<1>5. CASE TryMergeChild(t)
  BY <1>1, <1>5, TryMergeChildInv
<1>6. CASE TryCache(t)
  BY <1>1, <1>6, TryCacheInv
<1>7. CASE BuildWaf(t)
  BY <1>1, <1>7, BuildWafInv
<1>8. CASE StoreWaf(t)
  BY <1>1, <1>8, StoreWafInv
<1>9. CASE Unlock(t)
  BY <1>1, <1>9, UnlockInv
<1>10. CASE UseWaf(t)
  BY <1>1, <1>10, UseWafInv
<1>11. CASE NoTransaction(t) \/ Finish(t)
  BY <1>1, <1>11, EndInv
<1>12. QED
  BY <1>2, <1>3, <1>4, <1>5, <1>6, <1>7, <1>8, <1>9, <1>10, <1>11 DEF Step

LEMMA StutterInv ==
    ASSUME Inv, UNCHANGED vars
    PROVE  Inv'
<1> USE DEF vars, configVars, childVars, storeVars
<1>1. TypeInv'
  BY DEF Inv, TypeInv, ConfigTypes, ChildTypes, StoreTypes, ServerConfs
<1>2. LifeInv' /\ MutexInv'
  BY DEF Inv, LifeInv, NoWafs, MutexInv
<1>3. BuildInv' /\ OneBuildPerRuleSet'
  BY DEF Inv, BuildInv, Known, MergeChildFree, Uncached, Conf, RequestBuilds,
         OneBuildPerRuleSet
<1>4. ArmInv'
  BY DEF Inv, ArmInv, ArmPart, Plain, Conf, HasRulesDirective,
         coraza_config_enabled_where, coraza_config_has_rules, Defaults, ServerConf
<1>5. ApartInv' /\ FreedOnce'
  BY DEF Inv, ApartInv, FreedOnce
<1>6. QED
  BY <1>1, <1>2, <1>3, <1>4, <1>5 DEF Inv

(* Every step of the child keeps Inv.                                      *)
LEMMA InvStep ==
    ASSUME Inv, [Next]_vars
    PROVE  Inv'
<1>1. CASE ReadConfig /\ UNCHANGED <<childVars, storeVars>>
  BY <1>1, ReadDirectiveInv, FixupInv, CheckConfigInv DEF ReadConfig
<1>2. CASE coraza_child_init /\ UNCHANGED storeVars
  <2>1. CASE coraza_dl_open \/ ChildReady
    <3>1. phase' # "exited"
      BY <2>1 DEF coraza_dl_open, ChildReady
    <3>2. QED
      BY <1>2, <2>1, <3>1, PhaseInv
  <2>2. CASE BuildServerWaf
    BY <1>2, <2>2, BuildServerInv
  <2>3. CASE BuildDirWaf
    BY <1>2, <2>3, BuildDirInv
  <2>4. QED
    BY <1>2, <2>1, <2>2, <2>3 DEF coraza_child_init
<1>3. ASSUME NEW t \in Threads, Start(t) \/ Step(t) PROVE Inv'
  BY <1>3, StartInv, StepInv
<1>4. CASE Exit
  <2>1. (\A t \in Threads : threads[t].pc = "idle") /\ UNCHANGED storeVars
    BY <1>4 DEF Exit
  <2>2. CASE coraza_child_exit
    BY <2>1, <2>2, ChildExitInv
  <2>3. CASE DisabledExit
    BY <2>1, <2>3, PhaseInv
  <2>4. QED
    BY <1>4, <2>2, <2>3 DEF Exit
<1>5. CASE Gone \/ UNCHANGED vars
  BY <1>5, StutterInv DEF Gone
<1>6. QED
  BY <1>1, <1>2, <1>3, <1>4, <1>5 DEF Next, Startup

(* The invariant above holds in every state of a child and of the process  *)
(* it is forked from.                                                      *)
THEOREM StoreInvariance == Spec => []Inv
<1>1. Init => Inv
  BY InvInit
<1>2. Inv /\ [Next]_vars => Inv'
  BY InvStep
<1>3. QED
  BY <1>1, <1>2, PTL DEF Spec

(* Type correctness: whatever the threads do, every handle of a            *)
(* configuration, of a server and of g_waf_cache names a WAF that was      *)
(* built, and the cache keeps to WAF_CACHE_MAX.                            *)
THEOREM TypeCorrect == Spec => []TypeOK
<1>1. Inv => TypeOK
  <2> SUFFICES ASSUME Inv PROVE TypeOK
    OBVIOUS
  <2>1. TypeInv
    BY DEF Inv
  <2>2. \A x \in Servers \cup Sections \cup Threads : confs[x] \in DirConfs
    <3>1. \A x \in ConfNames : confs[x] \in Rs
      BY <2>1, StateFacts
    <3>2. \A c \in Rs : c \in DirConfs
      BY DEF Rs, ConfRecs, DirConfs, ConfNames
    <3>3. QED
      BY <3>1, <3>2 DEF ConfNames
  <2>3. \A s \in Servers : scfs[s].waf \in 0 .. Len(built)
    BY <2>1 DEF TypeInv, ConfigTypes, ServerConfs
  <2>4. QED
    BY <2>1, <2>2, <2>3 DEF TypeInv, ConfigTypes, StoreTypes, TypeOK
<1>2. QED
  BY <1>1, StoreInvariance, PTL

(* However many threads race through coraza_create_ctx, and whatever       *)
(* rules_hash gives, a rule set is compiled once as long as the cache has  *)
(* room.                                                                   *)
THEOREM OneBuildPerRuleSetHolds == Spec => []OneBuildPerRuleSet
<1>1. Inv => OneBuildPerRuleSet
  BY DEF Inv
<1>2. QED
  BY <1>1, StoreInvariance, PTL

(* coraza_child_exit frees no WAF twice, whatever is shared, and none is   *)
(* freed under a request that runs on it.                                  *)
THEOREM NoDoubleFreeHolds == Spec => []NoDoubleFree
<1>1. Inv => NoDoubleFree
  <2> SUFFICES ASSUME Inv PROVE NoDoubleFree
    OBVIOUS
  <2>1. \A n, m \in DOMAIN freed : freed[n] = freed[m] => n = m
    BY DEF Inv, FreedOnce
  <2>2. ASSUME NEW t \in Threads, Serving(t) PROVE threads[t].waf \notin ToSet(freed)
    <3>1. phase # "exited"
      BY <2>2 DEF Serving, Inv, LifeInv
    <3>2. freed = <<>>
      BY <3>1 DEF Inv, LifeInv
    <3>3. QED
      BY <3>2 DEF ToSet
  <2>3. QED
    BY <2>1, <2>2 DEF NoDoubleFree
<1>2. QED
  BY <1>1, StoreInvariance, PTL

(* A request is inspected only by a library that coraza_dl_open accepted.  *)
THEOREM InspectedByUsableEngineHolds == Spec => []InspectedByUsableEngine
<1>1. Inv => InspectedByUsableEngine
  <2> SUFFICES ASSUME Inv, NEW t \in Threads, Serving(t)
               PROVE  /\ library.present /\ library.exports = Symbols
                      /\ library.version >= 10800
    BY DEF InspectedByUsableEngine
  <2>1. phase = "ready"
    BY DEF Serving, Inv, LifeInv, NoWafPhases, NoWafs
  <2>2. Usable(library)
    BY <2>1 DEF Inv, LifeInv
  <2>3. library \in Libraries
    BY <2>2 DEF Inv, TypeInv, ChildTypes, Usable, NoLibrary
  <2>4. library.exports \subseteq Symbols
    BY <2>3, LibrariesAssumption
  <2>5. /\ library.present /\ "core" \in library.exports
        /\ VersionNum(library) >= 10800 /\ "accessible" \in library.exports
    BY <2>2 DEF Usable, dynlib_sym
  <2>6. "version" \in library.exports /\ library.version >= 10800
    BY <2>5 DEF VersionNum, dynlib_sym
  <2>7. QED
    BY <2>4, <2>5, <2>6 DEF Symbols
<1>2. QED
  BY <1>1, StoreInvariance, PTL

(* A request through <Directory> and <Location> sections is inspected only *)
(* where some rule was configured: coraza_check_config has seen to it.     *)
THEOREM ArmedHasRulesHolds == Spec => []ArmedHasRules
<1>1. Inv => ArmedHasRules
  <2> SUFFICES ASSUME Inv, NEW t \in Threads, Serving(t),
                      \A x \in ToSet(Requested(t).path) : Kind[x] \in {"directory", "location"}
               PROVE  \E n \in DOMAIN text : text[n].cmd = "rules"
    BY DEF ArmedHasRules
  <2>1. ArmPart(t) /\ Plain(t) /\ threads[t].pc = "serving"
    BY DEF Inv, ArmInv, Plain, Requested, Serving
  <2>2. coraza_config_enabled_where
    BY <2>1 DEF ArmPart
  <2>3. phase = "ready"
    BY <2>1 DEF Inv, LifeInv, NoWafPhases, NoWafs
  <2>4. coraza_config_has_rules
    BY <2>2, <2>3 DEF Inv, ArmInv
  <2>5. PICK s \in Servers : scfs[ServerConf(s)].collected > 0
    BY <2>4 DEF coraza_config_has_rules
  <2>6. ServerConf(s) \in Servers
    BY ServerFacts DEF Inv
  <2>7. HasRulesDirective
    BY <2>5, <2>6 DEF Inv, ArmInv
  <2>8. QED
    BY <2>7 DEF HasRulesDirective
<1>2. QED
  BY <1>1, StoreInvariance, PTL

(* What PolicyStable says of one step.                                     *)
KeepsPolicy ==
    phase = "ready" /\ phase' = "ready" =>
      \A x \in Servers \cup Sections :
        confs[x].waf # NoWaf => confs'[x].waf = confs[x].waf

(* A step that touches the configuration of one request alone keeps the    *)
(* policy of the servers and sections.                                     *)
LEMMA KeptPolicy ==
    ASSUME NEW t \in Threads, Keeps(t)
    PROVE  KeepsPolicy
BY NameFacts DEF Keeps, KeepsPolicy, ConfNames

(* Under the lock a WAF is given only to configurations that have none.    *)
LEMMA GivenPolicy ==
    ASSUME Inv, NEW t \in Threads, NEW waf, WafGiven(t, waf),
           Conf(t).waf \in {NoWaf, waf}, MergeChildFree(t)
    PROVE  KeepsPolicy
<1>1. ASSUME NEW x \in Servers \cup Sections, confs[x].waf # NoWaf
      PROVE  confs'[x].waf = confs[x].waf
  <2>1. CASE x = threads[t].dcf
    BY <1>1, <2>1 DEF WafGiven, Conf
  <2>2. CASE x = Conf(t).merge_child
    BY <1>1, <2>2, NameFacts DEF MergeChildFree
  <2>3. CASE x \notin {threads[t].dcf, Conf(t).merge_child}
    BY <2>3 DEF WafGiven, ConfNames
  <2>4. QED
    BY <2>1, <2>2, <2>3
<1>2. QED
  BY <1>1 DEF KeepsPolicy

(* So does every step of a request.                                        *)
LEMMA StepPolicy ==
    ASSUME Inv, NEW t \in Threads, Step(t)
    PROVE  KeepsPolicy
<1>0. TypeInv
  BY DEF Inv
<1>1. CASE MergeSection(t)
  BY <1>0, <1>1, MergeSectionFacts, KeptPolicy
<1>2. CASE CheckWaf(t)
  BY <1>0, <1>2, CheckWafFacts, KeptPolicy
<1>3. CASE Lock(t) \/ Unlock(t) \/ UseWaf(t)
  <2>1. confs' = confs
    BY <1>3 DEF Lock, Unlock, UseWaf, configVars
  <2>2. QED
    BY <2>1 DEF KeepsPolicy
<1>4. CASE TryMergeChild(t)
  <2>1. /\ Keeps(threads[t].dcf)
        /\ Conf(t).waf # NoWaf => confs'[threads[t].dcf].waf = Conf(t).waf
    BY <1>0, <1>4, TryMergeChildFacts
  <2>2. QED
    BY <2>1 DEF Keeps, KeepsPolicy, Conf, ConfNames
<1>5. CASE TryCache(t)
  <2>1. /\ threads[t].pc = "cache"
        /\ confs' = confs \/ (Conf(t).waf = NoWaf /\ \E waf : WafGiven(t, waf))
    BY <1>0, <1>5, TryCacheFacts
  <2>2. Conf(t).waf = NoWaf => MergeChildFree(t)
    BY <2>1 DEF Inv, BuildInv, Known
  <2>3. CASE confs' = confs
    BY <2>3 DEF KeepsPolicy
  <2>4. QED
    BY <2>1, <2>2, <2>3, GivenPolicy
<1>6. CASE BuildWaf(t)
  <2>1. threads[t].pc = "build" /\ Keeps(threads[t].dcf)
    BY <1>0, <1>6, BuildWafFacts
  <2>2. Conf(t).waf = NoWaf
    BY <2>1 DEF Inv, BuildInv, Known
  <2>3. QED
    BY <2>1, <2>2 DEF Keeps, KeepsPolicy, Conf, ConfNames
<1>7. CASE StoreWaf(t)
  <2>1. threads[t].pc = "store" /\ WafGiven(t, Conf(t).waf)
    BY <1>0, <1>7, StoreWafFacts
  <2>2. MergeChildFree(t)
    BY <2>1 DEF Inv, BuildInv, Known
  <2>3. QED
    BY <2>1, <2>2, GivenPolicy
<1>8. CASE NoTransaction(t) \/ Finish(t)
  BY <1>0, <1>8, EndFacts, KeptPolicy
<1>9. QED
  BY <1>1, <1>2, <1>3, <1>4, <1>5, <1>6, <1>7, <1>8 DEF Step

(* While a child serves requests no request replaces the WAF of a server's *)
(* or a section's configuration once it is set, although every thread may  *)
(* write it: each looks again under g_waf_build_mutex.                     *)
THEOREM PolicyStableHolds == Spec => PolicyStable
<1>1. Inv /\ [Next]_vars => [KeepsPolicy]_vars
  <2> SUFFICES ASSUME Inv, [Next]_vars PROVE [KeepsPolicy]_vars
    OBVIOUS
  <2>1. CASE Startup \/ Exit
    <3>1. ~(phase = "ready" /\ phase' = "ready")
      BY <2>1 DEF Startup, Exit, ReadConfig, ReadDirective, FixupVirtualHosts,
                  coraza_check_config, coraza_child_init, coraza_dl_open, BuildServerWaf,
                  BuildDirWaf, ChildReady, coraza_child_exit, DisabledExit
    <3>2. QED
      BY <3>1 DEF KeepsPolicy
  <2>2. ASSUME NEW t \in Threads, Start(t) PROVE KeepsPolicy
    BY <2>2 DEF Start, configVars, KeepsPolicy
  <2>3. ASSUME NEW t \in Threads, Step(t) PROVE KeepsPolicy
    BY <2>3, StepPolicy
  <2>4. CASE Gone \/ UNCHANGED vars
    BY <2>4 DEF Gone
  <2>5. QED
    BY <2>1, <2>2, <2>3, <2>4 DEF Next
<1>2. QED
  BY <1>1, StoreInvariance, PTL DEF Spec, PolicyStable, KeepsPolicy

---------------------------------------------------------------------------
(* What a configuration asks for.                                          *)

(* The text a scope takes its directives from.                             *)
LEMMA SourceFacts ==
    ASSUME NEW ds \in Texts, NEW x
    PROVE  /\ Source(ds, x) \in Seq(ToSet(Source(ds, x)))
           /\ Len(Source(ds, x)) \in Nat
           /\ DOMAIN Source(ds, x) = 1 .. Len(Source(ds, x))
           /\ \A n \in 1 .. Len(Source(ds, x)) : IsDirective(Source(ds, x)[n])
<1> DEFINE src == Source(ds, x)
<1>1. AreDirectives(src)
  BY TextsAssumption, StoreAssumption DEF Source, Private
<1> HIDE DEF src
<1>2. src \in Seq(ToSet(src)) /\ \A d \in ToSet(src) : IsDirective(d)
  BY <1>1 DEF AreDirectives
<1>3. Len(src) \in Nat /\ DOMAIN src = 1 .. Len(src)
  BY <1>2
<1>4. \A n \in 1 .. Len(src) : IsDirective(src[n])
  BY <1>2, <1>3 DEF ToSet
<1>5. QED
  BY <1>2, <1>3, <1>4 DEF src

(* Appending keeps the type of a sequence.                                 *)
LEMMA AppendType ==
    ASSUME NEW S, NEW s \in Seq(S), NEW e \in S
    PROVE  Append(s, e) \in Seq(S)
OBVIOUS

(* The rules of a scope are appended one by one.                           *)
LEMMA RulesUpToFacts ==
    ASSUME NEW ds \in Texts, NEW x
    PROVE  /\ RulesUpTo(ds, x) \in [0 .. Len(Source(ds, x)) -> Seq(STRING)]
           /\ RulesUpTo(ds, x)[0] = <<>>
           /\ \A k \in 1 .. Len(Source(ds, x)) :
                RulesUpTo(ds, x)[k] =
                  IF For(x, Source(ds, x)[k], "rules")
                  THEN Append(RulesUpTo(ds, x)[k - 1], Source(ds, x)[k].arg)
                  ELSE RulesUpTo(ds, x)[k - 1]
<1> DEFINE src == Source(ds, x)
           n == Len(src)
           S == Seq(STRING)
           g == [p \in S \X (1 .. n) |->
                   IF For(x, src[p[2]], "rules") THEN Append(p[1], src[p[2]].arg) ELSE p[1]]
           Rec(f) == [k \in 0 .. n |->
                        IF k = 0 THEN <<>>
                        ELSE IF For(x, src[k], "rules") THEN Append(f[k - 1], src[k].arg)
                        ELSE f[k - 1]]
           F == CHOOSE f : f = Rec(f)
<1>1. n \in Nat /\ \A k \in 1 .. n : IsDirective(src[k])
  BY SourceFacts
<1>2. RulesUpTo(ds, x) = F
  BY DEF RulesUpTo
<1> HIDE DEF n, src
<1>3. \A k \in 1 .. n : For(x, src[k], "rules") => src[k].arg \in STRING
  BY <1>1 DEF For, IsDirective
<1>4. g \in [S \X (1 .. n) -> S]
  <2> SUFFICES ASSUME NEW p \in S \X (1 .. n)
               PROVE  (IF For(x, src[p[2]], "rules") THEN Append(p[1], src[p[2]].arg)
                       ELSE p[1]) \in S
    OBVIOUS
  <2>1. p[1] \in S /\ p[2] \in 1 .. n
    OBVIOUS
  <2>2. For(x, src[p[2]], "rules") => src[p[2]].arg \in STRING
    BY <2>1, <1>3
  <2>3. For(x, src[p[2]], "rules") => Append(p[1], src[p[2]].arg) \in S
    BY <2>1, <2>2, AppendType
  <2>4. QED
    BY <2>1, <2>3
<1>5. \A s \in S, k \in 1 .. n :
        g[<<s, k>>] = IF For(x, src[k], "rules") THEN Append(s, src[k].arg) ELSE s
  OBVIOUS
<1>6. <<>> \in S
  OBVIOUS
<1> HIDE DEF S, g
<1>7. PICK h \in [0 .. n -> S] :
        h[0] = <<>> /\ \A k \in 1 .. n : h[k] = g[<<h[k - 1], k>>]
  <2>1. n \in Nat
    BY <1>1
  <2> DEFINE b == <<>>
  <2>2. b \in S
    BY <1>6
  <2> HIDE DEF b
  <2>3. \E h \in [0 .. n -> S] :
          h[0] = b /\ \A k \in 1 .. n : h[k] = g[<<h[k - 1], k>>]
    BY <2>1, <2>2, <1>4, LoopExists, ZenonT(60), SMTT(60)
  <2>4. QED
    BY <2>3 DEF b
<1>8. h = Rec(h)
  <2>1. ASSUME NEW k \in 0 .. n
        PROVE  h[k] = IF k = 0 THEN <<>>
                      ELSE IF For(x, src[k], "rules") THEN Append(h[k - 1], src[k].arg)
                      ELSE h[k - 1]
    <3>1. CASE k = 0
      BY <3>1, <1>7
    <3>2. CASE k # 0
      <4>1. k \in 1 .. n /\ k - 1 \in 0 .. n
        BY <3>2, <1>1
      <4>2. h[k - 1] \in S
        BY <4>1, <1>7
      <4>3. QED
        BY <3>2, <4>1, <4>2, <1>5, <1>7
    <3>3. QED
      BY <3>1, <3>2
  <2>2. QED
    BY <2>1, <1>7
<1>9. F = Rec(F)
  BY <1>8
<1> HIDE DEF F
<1>10. /\ F[0] = <<>>
       /\ \A k \in 1 .. n : F[k] = IF For(x, src[k], "rules")
                                   THEN Append(F[k - 1], src[k].arg) ELSE F[k - 1]
       /\ F = [k \in 0 .. n |-> F[k]]
  <2>1. \A k \in 0 .. n : F[k] = Rec(F)[k]
    BY <1>9
  <2>2. 0 \in 0 .. n /\ \A k \in 1 .. n : k \in 0 .. n /\ k # 0
    BY <1>1
  <2>3. F[0] = <<>>
    BY <2>1, <2>2
  <2>4. \A k \in 1 .. n : F[k] = IF For(x, src[k], "rules")
                                 THEN Append(F[k - 1], src[k].arg) ELSE F[k - 1]
    BY <2>1, <2>2
  <2>5. DOMAIN F = 0 .. n /\ F = [k \in DOMAIN F |-> F[k]]
    BY <1>9, Zenon
  <2>6. QED
    BY <2>3, <2>4, <2>5
<1>11. \A k \in 0 .. n : F[k] \in S
  <2> DEFINE T == {k \in Nat : k <= n => F[k] \in S}
  <2>1. 0 \in T
    BY <1>10, <1>6
  <2>2. ASSUME NEW k \in Nat, k \in T PROVE k + 1 \in T
    <3> SUFFICES ASSUME k + 1 <= n PROVE F[k + 1] \in S
      OBVIOUS
    <3>1. k + 1 \in 1 .. n /\ (k + 1) - 1 = k /\ F[k] \in S
      BY <2>2, <1>1
    <3>2. F[k + 1] = IF For(x, src[k + 1], "rules")
                     THEN Append(F[k], src[k + 1].arg) ELSE F[k]
      BY <1>10, <3>1
    <3>3. For(x, src[k + 1], "rules") => src[k + 1].arg \in STRING
      BY <3>1, <1>3
    <3>4. For(x, src[k + 1], "rules") => Append(F[k], src[k + 1].arg) \in S
      BY <3>1, <3>3, AppendType DEF S
    <3>5. QED
      BY <3>1, <3>2, <3>4
  <2>3. Nat \subseteq T
    BY <2>1, <2>2, NatInd
  <2>4. QED
    BY <2>3, <1>1
<1>12. QED
  BY <1>2, <1>10, <1>11 DEF S, src, n

(* The rules of a scope are a sequence of rules.                           *)
LEMMA RulesOfType ==
    ASSUME NEW ds \in Texts, NEW x
    PROVE  RulesOf(ds, x) \in Seq(STRING)
<1>1. Len(Source(ds, x)) \in 0 .. Len(Source(ds, x))
  BY SourceFacts
<1>2. QED
  BY <1>1, RulesUpToFacts DEF RulesOf

(* The scopes of a URL: the main server, its own, then its sections.       *)
LEMMA ScopesFacts ==
    ASSUME NEW u \in Urls
    PROVE  /\ u.server \in Servers /\ u.path \in Seq(Sections)
           /\ Scopes(u) \in Seq(Servers \cup Sections)
           /\ Len(Scopes(u)) \in Nat /\ DOMAIN Scopes(u) = 1 .. Len(Scopes(u))
           /\ Len(Scopes(u)) = Len(u.path) + (IF u.server = Main THEN 1 ELSE 2)
           /\ Scopes(u)[1] = Main
           /\ u.server # Main => Scopes(u)[2] = u.server
           /\ \A k \in 1 .. Len(u.path) :
                Scopes(u)[k + (IF u.server = Main THEN 1 ELSE 2)] = u.path[k]
<1> DEFINE q == u.path
           r == u.server
<1>1. r \in Servers /\ q \in Seq(Sections)
  BY StoreAssumption
<1>2. Main \in Servers
  BY NameFacts
<1>3. Scopes(u) = (IF r = Main THEN <<Main>> ELSE <<Main, r>>) \o q
  BY DEF Scopes
<1> HIDE DEF q, r
<1>4. q \in Seq(Servers \cup Sections) /\ Len(q) \in Nat
  BY <1>1
<1>5. CASE r = Main
  <2>1. Scopes(u) = <<Main>> \o q
    BY <1>3, <1>5
  <2>2. Scopes(u) \in Seq(Servers \cup Sections) /\ Len(Scopes(u)) = Len(q) + 1
        /\ Scopes(u)[1] = Main /\ \A k \in 1 .. Len(q) : Scopes(u)[k + 1] = q[k]
    BY <1>2, <1>4, <2>1
  <2>3. DOMAIN Scopes(u) = 1 .. Len(Scopes(u)) /\ Len(Scopes(u)) \in Nat
    BY <2>2
  <2>4. QED
    BY <1>1, <1>5, <2>2, <2>3 DEF q, r
<1>6. CASE r # Main
  <2>1. Scopes(u) = <<Main, r>> \o q
    BY <1>3, <1>6
  <2>2. Scopes(u) \in Seq(Servers \cup Sections) /\ Len(Scopes(u)) = Len(q) + 2
        /\ Scopes(u)[1] = Main /\ Scopes(u)[2] = r
        /\ \A k \in 1 .. Len(q) : Scopes(u)[k + 2] = q[k]
    BY <1>1, <1>2, <1>4, <2>1
  <2>3. DOMAIN Scopes(u) = 1 .. Len(Scopes(u)) /\ Len(Scopes(u)) \in Nat
    BY <2>2
  <2>4. QED
    BY <1>1, <1>6, <2>2, <2>3 DEF q, r
<1>7. QED
  BY <1>5, <1>6

(* The rules of the scopes follow each other, outermost first.             *)
LEMMA RulesAroundFacts ==
    ASSUME NEW ds \in Texts, NEW u \in Urls
    PROVE  /\ \A k \in 0 .. Len(Scopes(u)) : RulesAround(ds, u)[k] \in Seq(STRING)
           /\ RulesAround(ds, u)[0] = <<>>
           /\ \A k \in 1 .. Len(Scopes(u)) :
                RulesAround(ds, u)[k] =
                  RulesAround(ds, u)[k - 1] \o RulesOf(ds, Scopes(u)[k])
<1> DEFINE q == Scopes(u)
           n == Len(q)
           R(k) == RulesOf(ds, q[k])
           S == Seq(STRING)
           g == [p \in S \X (1 .. n) |-> p[1] \o R(p[2])]
           Rec(f) == [k \in 0 .. n |-> IF k = 0 THEN <<>> ELSE f[k - 1] \o R(k)]
           F == CHOOSE f : f = Rec(f)
<1>1. n \in Nat
  BY ScopesFacts
<1>2. RulesAround(ds, u) = F
  BY DEF RulesAround
<1>3. \A k \in 1 .. n : R(k) \in S
  BY RulesOfType
<1> HIDE DEF n, q, R
<1>4. g \in [S \X (1 .. n) -> S]
  <2> SUFFICES ASSUME NEW p \in S \X (1 .. n) PROVE p[1] \o R(p[2]) \in S
    OBVIOUS
  <2>1. p[1] \in S /\ R(p[2]) \in S
    BY <1>3
  <2>2. QED
    BY <2>1
<1>5. \A s \in S, k \in 1 .. n : g[<<s, k>>] = s \o R(k)
  OBVIOUS
<1>6. \A s \in S, k \in 1 .. n : s \o R(k) \in S
  BY <1>3
<1>7. <<>> \in S
  OBVIOUS
<1> HIDE DEF S, g
<1>8. PICK h \in [0 .. n -> S] :
        h[0] = <<>> /\ \A k \in 1 .. n : h[k] = g[<<h[k - 1], k>>]
  <2> DEFINE b == <<>>
  <2>1. n \in Nat
    BY <1>1
  <2>2. b \in S
    BY <1>7
  <2> HIDE DEF b
  <2>3. \E h \in [0 .. n -> S] :
          h[0] = b /\ \A k \in 1 .. n : h[k] = g[<<h[k - 1], k>>]
    BY <2>1, <2>2, <1>4, LoopExists, ZenonT(60), SMTT(60)
  <2>4. QED
    BY <2>3 DEF b
<1>9. h = Rec(h)
  <2>1. ASSUME NEW k \in 0 .. n
        PROVE  h[k] = IF k = 0 THEN <<>> ELSE h[k - 1] \o R(k)
    <3>1. CASE k = 0
      BY <3>1, <1>8
    <3>2. CASE k # 0
      <4>1. k \in 1 .. n /\ k - 1 \in 0 .. n
        BY <3>2, <1>1
      <4>2. h[k - 1] \in S
        BY <4>1, <1>8
      <4>3. QED
        BY <3>2, <4>1, <4>2, <1>5, <1>8
    <3>3. QED
      BY <3>1, <3>2
  <2>2. QED
    BY <2>1, <1>8
<1>10. F = Rec(F)
  BY <1>9
<1> HIDE DEF F
<1>11. F[0] = <<>> /\ \A k \in 1 .. n : F[k] = F[k - 1] \o R(k)
  <2>1. \A k \in 0 .. n : F[k] = Rec(F)[k]
    BY <1>10
  <2>2. 0 \in 0 .. n /\ \A k \in 1 .. n : k \in 0 .. n /\ k # 0
    BY <1>1
  <2>3. QED
    BY <2>1, <2>2
<1>12. \A k \in 0 .. n : F[k] \in S
  <2> DEFINE T == {k \in Nat : k <= n => F[k] \in S}
  <2>1. 0 \in T
    BY <1>11, <1>7
  <2>2. ASSUME NEW k \in Nat, k \in T PROVE k + 1 \in T
    <3> SUFFICES ASSUME k + 1 <= n PROVE F[k + 1] \in S
      OBVIOUS
    <3>1. k + 1 \in 1 .. n /\ (k + 1) - 1 = k /\ F[k] \in S
      BY <2>2, <1>1
    <3>2. F[k + 1] = F[k] \o R(k + 1)
      BY <1>11, <3>1
    <3>3. QED
      BY <3>1, <3>2, <1>6
  <2>3. Nat \subseteq T
    BY <2>1, <2>2, NatInd
  <2>4. QED
    BY <2>3, <1>1
<1>13. QED
  BY <1>2, <1>11, <1>12 DEF S, q, n, R

(* The last setting of a directive among the first n of a scope's text.    *)
LastUpTo(ds, x, cmd, n) ==
    LET given == {k \in Given(ds, x, cmd) : k <= n}
    IN IF given = {} THEN Unset ELSE Source(ds, x)[Max(given)].arg

(* The last argument a command has among the first k directives of a       *)
(* scope, one directive at a time.                                         *)
LEMMA LastUpToFacts ==
    ASSUME NEW ds \in Texts, NEW x, NEW cmd
    PROVE  /\ LastUpTo(ds, x, cmd, 0) = Unset
           /\ \A k \in 1 .. Len(Source(ds, x)) :
                LastUpTo(ds, x, cmd, k) =
                  IF For(x, Source(ds, x)[k], cmd) THEN Source(ds, x)[k].arg
                  ELSE LastUpTo(ds, x, cmd, k - 1)
<1> DEFINE src == Source(ds, x)
           G == Given(ds, x, cmd)
           g(n) == {k \in G : k <= n}
<1>1. Len(src) \in Nat /\ DOMAIN src = 1 .. Len(src)
  BY SourceFacts
<1>2. \A n : LastUpTo(ds, x, cmd, n) = IF g(n) = {} THEN Unset ELSE src[Max(g(n))].arg
  BY DEF LastUpTo
<1>3. /\ G \subseteq 1 .. Len(src)
      /\ \A k \in 1 .. Len(src) : k \in G <=> For(x, src[k], cmd)
  BY <1>1 DEF Given
<1> HIDE DEF src, G
<1>0. \A j \in G : j \in 1 .. Len(src) /\ j \in Nat /\ j > 0
  BY <1>1, <1>3
<1>4. g(0) = {}
  <2>1. \A j \in G : ~(j <= 0)
    BY <1>0
  <2>2. QED
    BY <2>1
<1>5. ASSUME NEW k \in 1 .. Len(src)
      PROVE  LastUpTo(ds, x, cmd, k) = IF For(x, src[k], cmd) THEN src[k].arg
                                       ELSE LastUpTo(ds, x, cmd, k - 1)
  <2>1. k \in Nat
    BY <1>1
  <2>2. CASE For(x, src[k], cmd)
    <3>1. g(k) \in SUBSET (1 .. k) /\ k \in g(k)
      <4>1. \A j \in G : j <= k => j \in 1 .. k
        BY <1>0, <2>1
      <4>2. k \in G /\ k <= k
        BY <1>3, <2>1, <2>2
      <4>3. QED
        BY <4>1, <4>2
    <3> HIDE DEF g
    <3>2. Max(g(k)) = k
      BY <2>1, <3>1, MaxLast
    <3>3. QED
      BY <1>2, <2>2, <3>1, <3>2
  <2>3. CASE ~For(x, src[k], cmd)
    <3>1. g(k) = g(k - 1)
      <4>1. k \notin G
        BY <1>3, <2>3
      <4>2. \A j \in G : j <= k <=> j <= k - 1
        BY <1>0, <2>1, <4>1
      <4>3. QED
        BY <4>2
    <3> HIDE DEF g
    <3>2. QED
      BY <1>2, <2>3, <3>1
  <2>4. QED
    BY <2>2, <2>3
<1>6. LastUpTo(ds, x, cmd, 0) = Unset
  BY <1>2, <1>4
<1>7. QED
  BY <1>5, <1>6 DEF src

(* The configuration c holds what the first n directives give x.           *)
Reads(c, ds, x, n) ==
    /\ c.enable = LastUpTo(ds, x, "enable", n)
    /\ c.transaction_id = LastUpTo(ds, x, "transaction_id", n)
    /\ c.body_mem_limit = LastUpTo(ds, x, "body_mem_limit", n)
    /\ c.rules = RulesUpTo(ds, x)[n]
    /\ c.has_rules <=> c.rules # <<>>

(* A new configuration is what no directive leaves.                        *)
LEMMA ReadsNothing ==
    ASSUME NEW ds \in Texts, NEW x, NEW y
    PROVE  Reads(coraza_create_dir_conf(y), ds, x, 0)
BY LastUpToFacts, RulesUpToFacts DEF Reads, coraza_create_dir_conf

(* One directive more, in the scope or elsewhere.                          *)
LEMMA ReadsStep ==
    ASSUME NEW ds \in Texts, NEW x, NEW k \in 1 .. Len(Source(ds, x)),
           NEW A, NEW W, NEW M, NEW c \in ConfRecs(A, W, M),
           Reads(c, ds, x, k - 1)
    PROVE  /\ Private(x) \/ Source(ds, x)[k].scope = x =>
                Reads(ApplyDirective(c, Source(ds, x)[k]), ds, x, k)
           /\ ~Private(x) /\ Source(ds, x)[k].scope # x => Reads(c, ds, x, k)
<1> DEFINE d == Source(ds, x)[k]
           L(cmd, n) == LastUpTo(ds, x, cmd, n)
           R(n) == RulesUpTo(ds, x)[n]
           mine == Private(x) \/ d.scope = x
<1>1. IsDirective(d)
  BY SourceFacts
<1>2. \A cmd : For(x, d, cmd) <=> mine /\ d.cmd = cmd
  BY DEF For
<1>3. \A cmd : L(cmd, k) = IF mine /\ d.cmd = cmd THEN d.arg ELSE L(cmd, k - 1)
  BY <1>2, LastUpToFacts
<1>4. R(k) = IF mine /\ d.cmd = "rules" THEN Append(R(k - 1), d.arg) ELSE R(k - 1)
  BY <1>2, RulesUpToFacts
<1>5. k \in 1 .. Len(Source(ds, x)) /\ k - 1 \in 0 .. Len(Source(ds, x))
  BY SourceFacts
<1>6. R(k - 1) \in Seq(STRING)
  BY <1>5, RulesUpToFacts
<1>7. /\ c.enable = L("enable", k - 1) /\ c.transaction_id = L("transaction_id", k - 1)
      /\ c.body_mem_limit = L("body_mem_limit", k - 1) /\ c.rules = R(k - 1)
      /\ c.has_rules <=> c.rules # <<>>
  BY DEF Reads
<1>8. \A e : Reads(e, ds, x, k) <=>
        /\ e.enable = L("enable", k) /\ e.transaction_id = L("transaction_id", k)
        /\ e.body_mem_limit = L("body_mem_limit", k) /\ e.rules = R(k)
        /\ e.has_rules <=> e.rules # <<>>
  BY DEF Reads
<1> HIDE DEF d, L, R, mine
<1>9. ASSUME mine PROVE Reads(ApplyDirective(c, d), ds, x, k)
  <2>1. CASE d.cmd = "enable"
    BY <1>3, <1>4, <1>7, <1>8, <1>9, <2>1
       DEF ApplyDirective, cmd_coraza_enable, ConfRecs
  <2>2. CASE d.cmd = "transaction_id"
    BY <1>3, <1>4, <1>7, <1>8, <1>9, <2>2
       DEF ApplyDirective, cmd_coraza_transaction_id, ConfRecs
  <2>3. CASE d.cmd = "body_mem_limit"
    BY <1>3, <1>4, <1>7, <1>8, <1>9, <2>3
       DEF ApplyDirective, cmd_coraza_body_mem_limit, ConfRecs
  <2>4. CASE d.cmd = "rules"
    <3>1. Append(R(k - 1), d.arg) # <<>>
      BY <1>6
    <3>2. ApplyDirective(c, d) = [c EXCEPT !.rules = Append(c.rules, d.arg), !.has_rules = TRUE]
      BY <2>4 DEF ApplyDirective, cmd_coraza_rules
    <3>3. QED
      BY <1>3, <1>4, <1>7, <1>8, <1>9, <2>4, <3>1, <3>2 DEF ConfRecs
  <2>5. QED
    BY <1>1, <2>1, <2>2, <2>3, <2>4 DEF IsDirective
<1>10. ASSUME ~mine PROVE Reads(c, ds, x, k)
  BY <1>3, <1>4, <1>7, <1>8, <1>10
<1>11. QED
  BY <1>9, <1>10 DEF d, mine

(* The configuration c holds what all of its text gives x.                 *)
Whole(c, ds, x) == Reads(c, ds, x, Len(Source(ds, x)))

(* Reading a .htaccess file makes a configuration of all it says.          *)
LEMMA HtConfReads ==
    ASSUME NEW ds \in Texts, NEW x \in Sections, Kind[x] = "htaccess"
    PROVE  Whole(HtConf(x), ds, x)
<1> DEFINE src == HtText[x]
           D == ToSet(src)
           S == HtConfs(x)
           base == coraza_create_dir_conf(x)
           T == [k \in 0 .. Len(src) |-> {c \in S : Reads(c, ds, x, k)}]
<1>1. Private(x) /\ Source(ds, x) = src
  BY DEF Private, Source
<1>2. /\ src \in Seq(D) /\ Len(src) \in Nat
      /\ \A k \in 1 .. Len(src) : IsDirective(src[k]) /\ src[k] \in D
  BY <1>1, SourceFacts DEF ToSet
<1>3. \A d \in D : IsDirective(d)
  BY <1>1, StoreAssumption DEF AreDirectives
<1>4. base \in S
  BY DEF HtConfs, ConfRecs, coraza_create_dir_conf, Unset
<1>5. \A c \in S, d \in D : ApplyDirective(c, d) \in S
  <2> SUFFICES ASSUME NEW c \in S, NEW d \in D PROVE ApplyDirective(c, d) \in S
    OBVIOUS
  <2>1. IsDirective(d)
    BY <1>3
  <2>2. QED
    BY <2>1, ApplyDirectiveType DEF HtConfs
<1>6. Reads(base, ds, x, 0)
  BY ReadsNothing
<1>7. ASSUME NEW k \in 1 .. Len(src), NEW c \in S, Reads(c, ds, x, k - 1)
      PROVE  Reads(ApplyDirective(c, src[k]), ds, x, k)
  <2>1. k \in 1 .. Len(Source(ds, x)) /\ src[k] = Source(ds, x)[k]
    BY <1>1
  <2>2. QED
    BY <1>1, <1>7, <2>1, ReadsStep DEF HtConfs
<1>8. HtConf(x) = FoldLeft(ApplyDirective, base, src)
  BY DEF HtConf
<1> HIDE DEF S, D, base, src
<1>9. base \in T[0]
  BY <1>2, <1>4, <1>6
<1>10. \A k \in 1 .. Len(src), c \in S :
         c \in T[k - 1] => ApplyDirective(c, src[k]) \in T[k]
  <2> SUFFICES ASSUME NEW k \in 1 .. Len(src), NEW c \in S, c \in T[k - 1]
               PROVE  ApplyDirective(c, src[k]) \in T[k]
    OBVIOUS
  <2>1. k \in 0 .. Len(src) /\ k - 1 \in 0 .. Len(src)
    BY <1>2
  <2>2. Reads(c, ds, x, k - 1)
    BY <2>1
  <2>3. QED
    BY <1>2, <1>5, <1>7, <2>1, <2>2
<1>11. Len(src) \in 0 .. Len(src)
  BY <1>2
<1>12. T[Len(src)] = {c \in S : Reads(c, ds, x, Len(src))}
  BY <1>11
<1> HIDE DEF T
<1>13. src \in Seq(D)
  BY <1>2
<1>14. FoldLeft(ApplyDirective, base, src) \in T[Len(src)]
  BY <1>4, <1>5, <1>9, <1>10, <1>13, ApplyDirectiveFold
<1>15. QED
  BY <1>1, <1>8, <1>12, <1>14 DEF Whole

SettingCmds == {"enable", "transaction_id", "body_mem_limit"}

LastOf(ds, x, cmd) == LastUpTo(ds, x, cmd, Len(Source(ds, x)))

(* No handler reported an error for the scope's directives.                *)
Accepted(ds, x) ==
    \A k \in 1 .. Len(Source(ds, x)) : ~DirectiveRefused(Source(ds, x)[k])

(* The value that means "not set" cannot be given.                         *)
LEMMA LastOfFacts ==
    ASSUME NEW ds \in Texts, NEW x, Accepted(ds, x), NEW cmd \in SettingCmds
    PROVE  /\ LastOf(ds, x, cmd) = Unset <=> Given(ds, x, cmd) = {}
           /\ Given(ds, x, cmd) # {} =>
                LastOf(ds, x, cmd) = Source(ds, x)[Max(Given(ds, x, cmd))].arg
<1> DEFINE src == Source(ds, x)
           n == Len(src)
           G == Given(ds, x, cmd)
<1>1. n \in Nat /\ DOMAIN src = 1 .. n /\ \A k \in 1 .. n : IsDirective(src[k])
  BY SourceFacts
<1>2. G \in SUBSET (1 .. n) /\ \A k \in G : src[k].cmd = cmd
  BY <1>1 DEF Given, For
<1>3. {k \in G : k <= n} = G
  <2>1. \A k \in G : k <= n
    BY <1>1, <1>2
  <2>2. QED
    BY <2>1
<1>4. LastOf(ds, x, cmd) = IF G = {} THEN Unset ELSE src[Max(G)].arg
  BY <1>3 DEF LastOf, LastUpTo
<1>5. \A k \in 1 .. n : ~DirectiveRefused(src[k])
  BY DEF Accepted
<1> HIDE DEF src, n, G
<1>6. ASSUME G # {} PROVE src[Max(G)].arg # Unset
  <2>1. Max(G) \in G
    BY <1>1, <1>2, <1>6, MaxIsMax
  <2>2. Max(G) \in 1 .. n /\ src[Max(G)].cmd = cmd
    BY <1>2, <2>1
  <2> DEFINE d == src[Max(G)]
  <2>3. IsDirective(d) /\ ~DirectiveRefused(d) /\ d.cmd = cmd
    BY <1>1, <1>5, <2>2
  <2> HIDE DEF d
  <2>4. d.arg # Unset
    BY <2>3 DEF IsDirective, DirectiveRefused, SettingCmds, Unset
  <2>5. QED
    BY <2>4 DEF d
<1>7. QED
  BY <1>4, <1>6 DEF src, G

(* The innermost setting of the first n scopes of a URL.                   *)
SettingTo(ds, u, cmd, n) ==
    LET inner == {k \in 1 .. n : Given(ds, Scopes(u)[k], cmd) # {}}
    IN IF inner = {} THEN Unset ELSE LastOf(ds, Scopes(u)[Max(inner)], cmd)

(* The setting the first k scopes of a URL ask for, one scope at a time.   *)
LEMMA SettingToFacts ==
    ASSUME NEW ds \in Texts, NEW u, NEW cmd \in SettingCmds
    PROVE  /\ SettingTo(ds, u, cmd, 0) = Unset
           /\ \A k \in Nat \ {0} : Accepted(ds, Scopes(u)[k]) =>
                SettingTo(ds, u, cmd, k) =
                  Override(SettingTo(ds, u, cmd, k - 1), LastOf(ds, Scopes(u)[k], cmd))
<1> DEFINE P(k) == Given(ds, Scopes(u)[k], cmd) # {}
           inner(n) == {k \in 1 .. n : P(k)}
<1>1. \A n : SettingTo(ds, u, cmd, n) =
               IF inner(n) = {} THEN Unset ELSE LastOf(ds, Scopes(u)[Max(inner(n))], cmd)
  BY DEF SettingTo
<1>2. ASSUME NEW k \in Nat, Accepted(ds, Scopes(u)[k])
      PROVE  LastOf(ds, Scopes(u)[k], cmd) # Unset <=> P(k)
  BY <1>2, LastOfFacts
<1> HIDE DEF P
<1>3. inner(0) = {}
  <2>1. \A i : i \notin 1 .. 0
    BY SMT
  <2>2. QED
    BY <2>1
<1>4. ASSUME NEW k \in Nat \ {0}, Accepted(ds, Scopes(u)[k])
      PROVE  SettingTo(ds, u, cmd, k) =
               Override(SettingTo(ds, u, cmd, k - 1), LastOf(ds, Scopes(u)[k], cmd))
  <2>1. CASE P(k)
    <3>1. inner(k) \in SUBSET (1 .. k) /\ k \in inner(k)
      BY <2>1
    <3> HIDE DEF inner
    <3>2. Max(inner(k)) = k
      BY <3>1, MaxLast
    <3>3. SettingTo(ds, u, cmd, k) = LastOf(ds, Scopes(u)[k], cmd)
      BY <1>1, <3>1, <3>2
    <3>4. QED
      BY <1>2, <1>4, <2>1, <3>3 DEF Override
  <2>2. CASE ~P(k)
    <3>1. inner(k) = inner(k - 1)
      <4>1. \A j : j \in 1 .. (k - 1) <=> j \in 1 .. k /\ j # k
        OBVIOUS
      <4>2. QED
        BY <2>2, <4>1
    <3> HIDE DEF inner
    <3>2. SettingTo(ds, u, cmd, k) = SettingTo(ds, u, cmd, k - 1)
      BY <1>1, <3>1
    <3>3. QED
      BY <1>2, <1>4, <2>2, <3>2 DEF Override
  <2>3. QED
    BY <2>1, <2>2
<1>5. SettingTo(ds, u, cmd, 0) = Unset
  BY <1>1, <1>3
<1>6. QED
  BY <1>4, <1>5

(* With all the scopes of the URL it is the reference Setting.             *)
LEMMA SettingEnd ==
    ASSUME NEW ds \in Texts, NEW u \in Urls, NEW cmd \in SettingCmds,
           \A k \in 1 .. Len(Scopes(u)) : Accepted(ds, Scopes(u)[k])
    PROVE  Setting(ds, u, cmd) = SettingTo(ds, u, cmd, Len(Scopes(u)))
<1> DEFINE n == Len(Scopes(u))
           inner == {k \in 1 .. n : Given(ds, Scopes(u)[k], cmd) # {}}
           x == Scopes(u)[Max(inner)]
<1>1. n \in Nat /\ DOMAIN Scopes(u) = 1 .. n
  BY ScopesFacts
<1>2. Setting(ds, u, cmd) =
        IF inner = {} THEN Unset ELSE Source(ds, x)[Max(Given(ds, x, cmd))].arg
  BY <1>1 DEF Setting
<1>3. SettingTo(ds, u, cmd, n) = IF inner = {} THEN Unset ELSE LastOf(ds, x, cmd)
  BY DEF SettingTo
<1>4. ASSUME inner # {} PROVE LastOf(ds, x, cmd) = Source(ds, x)[Max(Given(ds, x, cmd))].arg
  <2>1. inner \in SUBSET (1 .. n)
    OBVIOUS
  <2>2. \A k \in inner : k \in 1 .. n /\ Given(ds, Scopes(u)[k], cmd) # {}
    OBVIOUS
  <2> HIDE DEF inner
  <2>3. Max(inner) \in inner
    BY <1>1, <1>4, <2>1, MaxIsMax
  <2>4. Given(ds, x, cmd) # {} /\ Accepted(ds, x)
    BY <2>2, <2>3
  <2>5. QED
    BY <2>4, LastOfFacts
<1>5. QED
  BY <1>2, <1>3, <1>4

(* The configuration c is that of the first n scopes of u, and all they    *)
(* say was accepted.                                                       *)
Conforms(c, ds, u, n) ==
    /\ c.enable = SettingTo(ds, u, "enable", n)
    /\ c.transaction_id = SettingTo(ds, u, "transaction_id", n)
    /\ c.body_mem_limit = SettingTo(ds, u, "body_mem_limit", n)
    /\ c.rules = RulesAround(ds, u)[n]
    /\ c.has_rules <=> c.rules # <<>>
    /\ \A k \in 1 .. n : Accepted(ds, Scopes(u)[k])

(* Rules joined with none.                                                 *)
LEMMA EmptyConcat ==
    ASSUME NEW S, NEW s \in Seq(S)
    PROVE  s \o <<>> = s /\ <<>> \o s = s
OBVIOUS

(* Joined rules are empty only when both parts are.                        *)
LEMMA ConcatEmpty ==
    ASSUME NEW S, NEW s \in Seq(S), NEW r \in Seq(S)
    PROVE  s \o r = <<>> <=> s = <<>> /\ r = <<>>
OBVIOUS

(* The rules of a merged configuration are those of the parent, then those *)
(* of the child.                                                           *)
LEMMA MergeFacts ==
    ASSUME NEW A, NEW W, NEW M, NEW p \in ConfRecs(A, W, M), NEW c \in ConfRecs(A, W, M),
           NEW childName, NEW name,
           p.has_rules <=> p.rules # <<>>, c.has_rules <=> c.rules # <<>>
    PROVE  LET m == coraza_merge_dir_conf(p, c, childName, name) IN
           /\ m.enable = Override(p.enable, c.enable)
           /\ m.transaction_id = Override(p.transaction_id, c.transaction_id)
           /\ m.body_mem_limit = Override(p.body_mem_limit, c.body_mem_limit)
           /\ m.rules = p.rules \o c.rules
           /\ m.has_rules <=> m.rules # <<>>
<1> DEFINE r == MergeRules(p, c, childName, name)
           m == coraza_merge_dir_conf(p, c, childName, name)
           pr == p.rules
           cr == c.rules
<1>1. pr \in Seq(STRING) /\ cr \in Seq(STRING)
  BY DEF ConfRecs
<1>2. r.rules = pr \o cr /\ (r.has_rules <=> r.rules # <<>>)
  <2>1. CASE pr # <<>> /\ cr # <<>>
    <3>1. r.rules = pr \o cr /\ r.has_rules = TRUE
      BY <2>1 DEF MergeRules, MergeBoth
    <3> HIDE DEF r, pr, cr
    <3>2. pr \o cr # <<>>
      BY <1>1, <2>1, ConcatEmpty
    <3>3. QED
      BY <3>1, <3>2
  <2>2. CASE pr # <<>> /\ cr = <<>>
    <3>1. r.rules = pr /\ r.has_rules = p.has_rules
      BY <2>2 DEF MergeRules, Inherit
    <3>2. p.has_rules <=> pr # <<>>
      OBVIOUS
    <3> HIDE DEF r, pr, cr
    <3>3. pr \o cr = pr
      BY <1>1, <2>2, EmptyConcat
    <3>4. QED
      BY <2>2, <3>1, <3>2, <3>3
  <2>3. CASE pr = <<>> /\ cr # <<>>
    <3>1. r.rules = cr /\ r.has_rules = c.has_rules
      BY <2>3 DEF MergeRules, Inherit
    <3>2. c.has_rules <=> cr # <<>>
      OBVIOUS
    <3> HIDE DEF r, pr, cr
    <3>3. pr \o cr = cr
      BY <1>1, <2>3, EmptyConcat
    <3>4. QED
      BY <2>3, <3>1, <3>2, <3>3
  <2>4. CASE pr = <<>> /\ cr = <<>>
    <3>1. r = Inherit(coraza_create_dir_conf(name))
      BY <2>4 DEF MergeRules
    <3>2. r.rules = <<>> /\ r.has_rules = FALSE
      BY <3>1 DEF Inherit, coraza_create_dir_conf
    <3> HIDE DEF r, pr, cr
    <3>3. pr \o cr = <<>>
      BY <1>1, <2>4, ConcatEmpty
    <3>4. QED
      BY <3>2, <3>3
  <2>5. QED
    BY <2>1, <2>2, <2>3, <2>4
<1>3. /\ m.rules = r.rules /\ m.has_rules = r.has_rules
      /\ m.enable = Override(p.enable, c.enable)
      /\ m.transaction_id = Override(p.transaction_id, c.transaction_id)
      /\ m.body_mem_limit = Override(p.body_mem_limit, c.body_mem_limit)
  BY DEF coraza_merge_dir_conf
<1> HIDE DEF r, m
<1>4. QED
  BY <1>2, <1>3 DEF m

(* What a merge makes of the rules of two configurations of the child.     *)
LEMMA RsMerge ==
    ASSUME NEW p \in Rs, NEW c \in Rs, NEW childName, NEW name,
           p.has_rules <=> p.rules # <<>>, c.has_rules <=> c.rules # <<>>
    PROVE  /\ coraza_merge_dir_conf(p, c, childName, name).rules = p.rules \o c.rules
           /\ coraza_merge_dir_conf(p, c, childName, name).has_rules
                <=> coraza_merge_dir_conf(p, c, childName, name).rules # <<>>
<1> DEFINE A == ConfNames
           W == 0 .. Len(built)
           M == Sections \cup {NoConf}
<1>1. p \in ConfRecs(A, W, M) /\ c \in ConfRecs(A, W, M)
  BY DEF Rs
<1> HIDE DEF A, W, M
<1> DEFINE m == coraza_merge_dir_conf(p, c, childName, name)
<1>2. /\ p.has_rules <=> p.rules # <<>>
      /\ c.has_rules <=> c.rules # <<>>
  OBVIOUS
<1>3. /\ m.enable = Override(p.enable, c.enable)
      /\ m.transaction_id = Override(p.transaction_id, c.transaction_id)
      /\ m.body_mem_limit = Override(p.body_mem_limit, c.body_mem_limit)
      /\ m.rules = p.rules \o c.rules
      /\ m.has_rules <=> m.rules # <<>>
  BY <1>1, <1>2, MergeFacts
<1>4. QED
  BY <1>3

(* A merge makes the configuration of one scope more.                      *)
LEMMA ConformsMerge ==
    ASSUME NEW ds \in Texts, NEW u \in Urls, NEW k \in 1 .. Len(Scopes(u)),
           NEW A, NEW W, NEW M, NEW p \in ConfRecs(A, W, M), NEW c \in ConfRecs(A, W, M),
           Conforms(p, ds, u, k - 1), Whole(c, ds, Scopes(u)[k]),
           Accepted(ds, Scopes(u)[k]), NEW childName, NEW name
    PROVE  Conforms(coraza_merge_dir_conf(p, c, childName, name), ds, u, k)
<1> DEFINE x == Scopes(u)[k]
           m == coraza_merge_dir_conf(p, c, childName, name)
<1>1. k \in Nat \ {0}
  BY ScopesFacts
<1>2. /\ p.has_rules <=> p.rules # <<>>
      /\ c.has_rules <=> c.rules # <<>>
  BY DEF Conforms, Whole, Reads
<1>3. /\ m.enable = Override(p.enable, c.enable)
      /\ m.transaction_id = Override(p.transaction_id, c.transaction_id)
      /\ m.body_mem_limit = Override(p.body_mem_limit, c.body_mem_limit)
      /\ m.rules = p.rules \o c.rules
      /\ m.has_rules <=> m.rules # <<>>
  BY <1>2, MergeFacts
<1> HIDE DEF m
<1>4. /\ c.enable = LastOf(ds, x, "enable")
      /\ c.transaction_id = LastOf(ds, x, "transaction_id")
      /\ c.body_mem_limit = LastOf(ds, x, "body_mem_limit")
      /\ c.rules = RulesOf(ds, x)
  BY DEF Whole, Reads, LastOf, RulesOf
<1>5. \A cmd \in SettingCmds :
        SettingTo(ds, u, cmd, k) = Override(SettingTo(ds, u, cmd, k - 1), LastOf(ds, x, cmd))
  BY <1>1, SettingToFacts
<1>6. RulesAround(ds, u)[k] = RulesAround(ds, u)[k - 1] \o RulesOf(ds, x)
  BY RulesAroundFacts
<1>7. \A j \in 1 .. k : Accepted(ds, Scopes(u)[j])
  <2>1. \A j \in 1 .. k : j \in 1 .. (k - 1) \/ j = k
    BY <1>1
  <2>2. QED
    BY <2>1 DEF Conforms
<1>8. /\ m.enable = SettingTo(ds, u, "enable", k)
      /\ m.transaction_id = SettingTo(ds, u, "transaction_id", k)
      /\ m.body_mem_limit = SettingTo(ds, u, "body_mem_limit", k)
  BY <1>3, <1>4, <1>5 DEF Conforms, SettingCmds
<1>9. m.rules = RulesAround(ds, u)[k]
  BY <1>3, <1>4, <1>6 DEF Conforms
<1>10. QED
  BY <1>3, <1>7, <1>8, <1>9 DEF Conforms, m

(* Nothing stands in the scope x.                                          *)
Bare(ds, x) ==
    RulesOf(ds, x) = <<>> /\ \A cmd \in SettingCmds : LastOf(ds, x, cmd) = Unset

(* A scope whose configuration is still new asks for nothing.              *)
LEMMA BareFacts ==
    ASSUME NEW ds \in Texts, NEW x, NEW y, Whole(coraza_create_dir_conf(y), ds, x)
    PROVE  Bare(ds, x)
BY DEF Whole, Reads, Bare, coraza_create_dir_conf, RulesOf, LastOf, SettingCmds

(* A scope that asks for nothing may be passed over: the merge httpd skips *)
(* loses nothing.                                                          *)
LEMMA ConformsSkip ==
    ASSUME NEW ds \in Texts, NEW u \in Urls, NEW k \in 1 .. Len(Scopes(u)),
           NEW c, Conforms(c, ds, u, k - 1), Bare(ds, Scopes(u)[k]),
           Accepted(ds, Scopes(u)[k])
    PROVE  Conforms(c, ds, u, k)
<1> DEFINE x == Scopes(u)[k]
<1>1. k \in Nat \ {0} /\ k - 1 \in 0 .. Len(Scopes(u))
  BY ScopesFacts
<1>2. \A cmd \in SettingCmds : SettingTo(ds, u, cmd, k) = SettingTo(ds, u, cmd, k - 1)
  BY <1>1, SettingToFacts DEF Bare, Override
<1>3. RulesAround(ds, u)[k] = RulesAround(ds, u)[k - 1]
  <2>1. RulesAround(ds, u)[k] = RulesAround(ds, u)[k - 1] \o <<>>
    BY RulesAroundFacts DEF Bare
  <2>2. RulesAround(ds, u)[k - 1] \in Seq(STRING)
    BY <1>1, RulesAroundFacts
  <2>3. QED
    BY <2>1, <2>2, EmptyConcat
<1>4. \A j \in 1 .. k : Accepted(ds, Scopes(u)[j])
  <2>1. \A j \in 1 .. k : j \in 1 .. (k - 1) \/ j = k
    BY <1>1
  <2>2. QED
    BY <2>1 DEF Conforms
<1>5. QED
  BY <1>2, <1>3, <1>4 DEF Conforms, SettingCmds

(* The main server's configuration is that of the first scope.             *)
LEMMA ConformsMain ==
    ASSUME NEW ds \in Texts, NEW u \in Urls, NEW c, Whole(c, ds, Main), Accepted(ds, Main)
    PROVE  Conforms(c, ds, u, 1)
<1>1. Scopes(u)[1] = Main /\ 1 \in 1 .. Len(Scopes(u))
  <2> DEFINE l == Len(u.path)
  <2>1. u.path \in Seq(Sections) /\ Len(Scopes(u)) = l + (IF u.server = Main THEN 1 ELSE 2)
    BY ScopesFacts
  <2>2. l \in Nat
    BY <2>1
  <2> HIDE DEF l
  <2>3. 1 \in 1 .. Len(Scopes(u))
    BY <2>1, <2>2
  <2>4. QED
    BY <2>3, ScopesFacts
<1>2. \A cmd \in SettingCmds : SettingTo(ds, u, cmd, 1) = LastOf(ds, Main, cmd)
  <2> SUFFICES ASSUME NEW cmd \in SettingCmds
               PROVE  SettingTo(ds, u, cmd, 1) = LastOf(ds, Main, cmd)
    OBVIOUS
  <2>1. SettingTo(ds, u, cmd, 1 - 1) = Unset
    BY SettingToFacts
  <2>2. 1 \in Nat \ {0}
    OBVIOUS
  <2>3. SettingTo(ds, u, cmd, 1) = Override(SettingTo(ds, u, cmd, 1 - 1), LastOf(ds, Main, cmd))
    BY <1>1, <2>2, SettingToFacts
  <2>4. QED
    BY <2>1, <2>3 DEF Override
<1>3. RulesAround(ds, u)[1] = RulesOf(ds, Main)
  <2>1. RulesAround(ds, u)[1] = RulesAround(ds, u)[1 - 1] \o RulesOf(ds, Main)
    BY <1>1, RulesAroundFacts
  <2>2. RulesAround(ds, u)[1 - 1] = <<>>
    <3>1. 1 - 1 = 0
      OBVIOUS
    <3>2. QED
      BY <3>1, RulesAroundFacts
  <2>3. RulesOf(ds, Main) \in Seq(STRING)
    BY RulesOfType
  <2>4. QED
    BY <2>1, <2>2, <2>3, EmptyConcat
<1>4. \A j \in 1 .. 1 : Accepted(ds, Scopes(u)[j])
  BY <1>1
<1>5. QED
  BY <1>2, <1>3, <1>4 DEF Conforms, Whole, Reads, RulesOf, LastOf, SettingCmds

---------------------------------------------------------------------------
(* The configurations hold what the text says: the second invariant.       *)

(* The scopes that come before the sections of a URL.                      *)
Base(u) == IF u.server = Main THEN 1 ELSE 2

(* While the configuration is read, each scope has what was given so far.  *)
ReadInv ==
    phase = "reading" =>
      /\ \A x \in Servers \cup Sections :
           /\ ~Private(x) => Reads(confs[x], text, x, pos - 1)
           /\ x \notin made => confs[x] = coraza_create_dir_conf(x)
           /\ confs[x].array = x
      /\ \A s \in Servers : scfs[s].rules = RulesUpTo(text, s)[pos - 1]
      /\ \A k \in 1 .. (pos - 1) : ~DirectiveRefused(text[k])
      /\ made \cap Servers \subseteq own
      /\ tracked = <<>>

(* A merged virtual host shares its rules array with no other one, unless  *)
(* they have the main server's.                                            *)
ServerPart(s) ==
    /\ scfs[s].rules = RulesOf(text, s)
    /\ s \in made =>
         /\ s \in own
         /\ confs[s].rules = IF s = Main THEN RulesOf(text, Main)
                             ELSE RulesOf(text, Main) \o RulesOf(text, s)
         /\ confs[s].has_rules <=> confs[s].rules # <<>>
         /\ \/ confs[s].array = s
            \/ confs[s].array = Main /\ confs[s].rules = confs[Main].rules

SectionPart(x) ==
    ~Private(x) => Whole(confs[x], text, x) /\ (x \notin made => Bare(text, x))

(* Afterwards the sections and the servers have all of it.                 *)
ReadyInv ==
    phase \notin {"reading", "refused"} =>
      /\ \A k \in 1 .. Len(text) : ~DirectiveRefused(text[k])
      /\ \A x \in Sections : SectionPart(x)
      /\ \A s \in Servers : ServerPart(s)
      /\ \A u \in Urls : Conforms(confs[Defaults(u.server)], text, u, Base(u))

(* The merged virtual hosts are tracked.                                   *)
TrackedInv ==
    phase \in {"checking", "loading", "servers", "dirs", "ready"} =>
      ToSet(tracked) = (Servers \ {Main}) \cap made

(* How many scopes of its URL a request has merged.                        *)
Done(t) == Len(Scopes(threads[t].url)) - Len(threads[t].todo)

(* A request is on its way through the sections of its URL, and has the    *)
(* configuration of the scopes it has merged.                              *)
OnItsWay(t) ==
    /\ threads[t].url \in Urls
    /\ Len(threads[t].todo) <= Len(threads[t].url.path)
    /\ \A k \in 1 .. Len(threads[t].todo) :
         threads[t].todo[k] = Scopes(threads[t].url)[Done(t) + k]
    /\ threads[t].pc # "merging" => threads[t].todo = <<>>
    /\ threads[t].dcf \in {t, Defaults(threads[t].url.server)}
    /\ Conforms(Conf(t), text, threads[t].url, Done(t))

ThreadInv == \A t \in Threads : threads[t].pc # "idle" => OnItsWay(t)

ConfInv == ReadInv /\ ReadyInv /\ TrackedInv /\ ThreadInv

LEMMA ConfInit ==
    ASSUME Init
    PROVE  ConfInv
<1> USE DEF Init, ConfigInit
<1>1. TypeInv
  BY TypeInit
<1>2. text \in Texts
  OBVIOUS
<1>3. ASSUME NEW x \in Servers \cup Sections
      PROVE  Reads(confs[x], text, x, pos - 1) /\ confs[x] = coraza_create_dir_conf(x)
  <2>1. confs[x] = coraza_create_dir_conf(x) /\ pos - 1 = 0
    OBVIOUS
  <2>2. QED
    BY <1>2, <2>1, ReadsNothing
<1>4. ASSUME NEW s \in Servers PROVE scfs[s].rules = RulesUpTo(text, s)[pos - 1]
  <2>1. scfs[s].rules = <<>> /\ pos - 1 = 0
    BY DEF coraza_create_server_conf
  <2>2. QED
    BY <1>2, <2>1, RulesUpToFacts
<1>5. \A x \in Servers \cup Sections : confs[x].array = x
  BY <1>3 DEF coraza_create_dir_conf
<1>6. \A k \in 1 .. (pos - 1) : ~DirectiveRefused(text[k])
  <2>1. pos - 1 = 0 /\ \A i : i \notin 1 .. 0
    BY SMT
  <2>2. QED
    BY <2>1
<1>7. ReadInv
  BY <1>3, <1>4, <1>5, <1>6 DEF ReadInv
<1>8. ThreadInv
  BY DEF ThreadInv, Idle
<1>9. ReadyInv /\ TrackedInv
  BY DEF ReadyInv, TrackedInv
<1>10. QED
  BY <1>7, <1>8, <1>9 DEF ConfInv

(* A scope of the main text takes its directives from there,               *)
LEMMA NotPrivate ==
    ASSUME NEW ds, NEW x, ~Private(x)
    PROVE  Source(ds, x) = ds
BY DEF Source

(* and every server is one.                                                *)
LEMMA ServerNotPrivate ==
    ASSUME NEW s \in Servers
    PROVE  ~Private(s)
BY NameFacts DEF Private

LEMMA ReadDirectiveConf ==
    ASSUME Inv, ConfInv, ReadDirective, UNCHANGED <<childVars, storeVars>>
    PROVE  ConfInv'
<1> DEFINE d == text[pos]
<1>1. TypeInv /\ text \in Texts
  BY DEF Inv, TypeInv, ConfigTypes
<1>2. /\ phase = "reading" /\ pos <= Len(text) /\ pos' = pos + 1 /\ text' = text
      /\ made' = made \cup {d.scope} /\ own' = own \cup {d.server}
      /\ tracked' = IF d.server \in own THEN tracked ELSE <<>>
      /\ IF DirectiveRefused(d)
         THEN phase' = "refused" /\ UNCHANGED <<confs, scfs>>
         ELSE /\ phase' = phase
              /\ confs' = [confs EXCEPT ![d.scope] = ApplyDirective(@, d)]
              /\ scfs' = [scfs EXCEPT ![d.server] = CountRule(@, d)]
  BY DEF ReadDirective
<1>3. /\ pos \in 1 .. Len(text) /\ pos \in Nat /\ Len(text) \in Nat
      /\ IsDirective(d)
  BY <1>1, <1>2, TextFacts DEF TypeInv, ConfigTypes
<1>4. /\ confs \in [ConfNames -> Rs] /\ scfs \in [Servers -> ServerConfs]
  BY <1>1, StateFacts DEF TypeInv, ConfigTypes
<1> HIDE DEF d
<1>5. /\ d.scope \in Sections \cup {d.server} /\ d.server \in Servers
      /\ d.scope \in Servers \cup Sections
  BY <1>3 DEF IsDirective
<1>6. ThreadInv'
  <2>1. \A t \in Threads : threads[t].pc = "idle"
    BY <1>2 DEF Inv, LifeInv
  <2>2. QED
    BY <2>1 DEF ThreadInv, storeVars
<1>7. CASE DirectiveRefused(d)
  BY <1>2, <1>6, <1>7 DEF ConfInv, ReadInv, ReadyInv, TrackedInv
<1>8. CASE ~DirectiveRefused(d)
  <2>1. /\ phase' = "reading" /\ pos' - 1 = pos
        /\ confs' = [confs EXCEPT ![d.scope] = ApplyDirective(@, d)]
        /\ scfs' = [scfs EXCEPT ![d.server] = CountRule(@, d)]
    BY <1>2, <1>3, <1>8
  <2>2. ASSUME NEW x \in Servers \cup Sections
        PROVE  /\ ~Private(x) => Reads(confs[x], text, x, pos - 1)
               /\ x \notin made => confs[x] = coraza_create_dir_conf(x)
               /\ confs[x].array = x
    BY <1>2 DEF ConfInv, ReadInv
  <2>3. ASSUME NEW x \in Servers \cup Sections
        PROVE  /\ confs'[x] = IF x = d.scope THEN ApplyDirective(confs[x], d) ELSE confs[x]
               /\ confs[x] \in Rs
    BY <1>4, <1>5, <2>1 DEF ConfNames
  <2>4. ASSUME NEW x \in Servers \cup Sections, ~Private(x)
        PROVE  Reads(confs'[x], text, x, pos)
    <3>1. Source(text, x) = text /\ Reads(confs[x], text, x, pos - 1) /\ confs[x] \in Rs
      BY <2>2, <2>3, <2>4, NotPrivate
    <3>2. pos \in 1 .. Len(Source(text, x)) /\ Source(text, x)[pos] = d
      BY <1>3, <3>1 DEF d
    <3>3. /\ d.scope = x => Reads(ApplyDirective(confs[x], d), text, x, pos)
          /\ d.scope # x => Reads(confs[x], text, x, pos)
      BY <1>1, <2>4, <3>1, <3>2, ReadsStep DEF Rs
    <3>4. QED
      BY <2>3, <3>3
  <2>5. ASSUME NEW x \in Servers \cup Sections
        PROVE  (x \notin made' => confs'[x] = coraza_create_dir_conf(x)) /\ confs'[x].array = x
    <3>1. ApplyDirective(confs[x], d).array = confs[x].array
      BY <1>3, <2>3, ApplyDirectiveType DEF Rs
    <3>2. QED
      BY <1>2, <2>2, <2>3, <3>1
  <2>6. ASSUME NEW s \in Servers PROVE scfs'[s].rules = RulesUpTo(text, s)[pos]
    <3>1. Source(text, s) = text /\ ~Private(s)
      BY ServerNotPrivate, NotPrivate
    <3>2. scfs[s].rules = RulesUpTo(text, s)[pos - 1]
      BY <1>2 DEF ConfInv, ReadInv
    <3>3. RulesUpTo(text, s)[pos] =
            IF d.cmd = "rules" /\ d.scope = s
            THEN Append(RulesUpTo(text, s)[pos - 1], d.arg)
            ELSE RulesUpTo(text, s)[pos - 1]
      BY <1>1, <1>3, <3>1, RulesUpToFacts DEF For, d
    <3>4. d.scope = s => d.server = s
      BY <1>5, NameFacts
    <3>5. scfs'[s] = IF s = d.server THEN CountRule(scfs[s], d) ELSE scfs[s]
      BY <1>4, <1>5, <2>1
    <3>6. scfs[s] \in ServerConfs
      BY <1>4
    <3>7. CountRule(scfs[s], d).rules =
            IF d.cmd = "rules" /\ d.scope = d.server
            THEN Append(scfs[s].rules, d.arg) ELSE scfs[s].rules
      BY <3>6 DEF CountRule, ServerConfs
    <3>8. QED
      BY <3>2, <3>3, <3>4, <3>5, <3>7
  <2>7. \A k \in 1 .. pos : ~DirectiveRefused(text[k])
    <3>1. \A k \in 1 .. pos : k \in 1 .. (pos - 1) \/ k = pos
      BY <1>3
    <3>2. QED
      BY <1>2, <1>8, <3>1 DEF ConfInv, ReadInv, d
  <2>8. made' \cap Servers \subseteq own' /\ tracked' = <<>>
    BY <1>2, <1>5, NameFacts DEF ConfInv, ReadInv
  <2>9. ReadInv'
    BY <1>2, <2>1, <2>4, <2>5, <2>6, <2>7, <2>8 DEF ReadInv
  <2>10. QED
    BY <1>6, <2>1, <2>9 DEF ConfInv, ReadyInv, TrackedInv
<1>9. QED
  BY <1>7, <1>8

(* The virtual hosts are the servers after the first.                      *)
LEMMA TailFacts ==
    ToSet(Tail(ServerList)) = Servers \ {Main}
<1> DEFINE q == ServerList
           r == Tail(q)
<1>1. q \in Seq(Servers) /\ q # <<>> /\ \A n, m \in DOMAIN q : q[n] = q[m] => n = m
  BY NamesAssumption
<1>2. Servers = {q[n] : n \in DOMAIN q} /\ Main = q[1]
  BY DEF Servers, ToSet, Main
<1> HIDE DEF q
<1>3. /\ DOMAIN q = 1 .. Len(q) /\ Len(q) \in Nat \ {0}
      /\ DOMAIN r = 1 .. (Len(q) - 1) /\ \A n \in 1 .. (Len(q) - 1) : r[n] = q[n + 1]
  BY <1>1
<1> HIDE DEF r
<1>4. ASSUME NEW n \in DOMAIN r PROVE r[n] \in Servers \ {Main}
  <2>1. n + 1 \in DOMAIN q /\ 1 \in DOMAIN q /\ n + 1 # 1 /\ r[n] = q[n + 1]
    BY <1>3
  <2>2. QED
    BY <1>1, <1>2, <2>1
<1>5. ASSUME NEW s \in Servers \ {Main} PROVE \E n \in DOMAIN r : r[n] = s
  <2>1. PICK m \in DOMAIN q : q[m] = s
    BY <1>2
  <2>2. m # 1
    BY <1>2, <2>1
  <2>3. m - 1 \in DOMAIN r /\ r[m - 1] = q[m]
    BY <1>3, <2>2
  <2>4. QED
    BY <2>1, <2>3
<1>6. ToSet(r) = Servers \ {Main}
  BY <1>4, <1>5 DEF ToSet
<1>7. QED
  BY <1>6 DEF r, q

(* A server added to the tracked configurations.                           *)
LEMMA TrackStep ==
    ASSUME NEW S, NEW c \in Seq(S), NEW s \in S
    PROVE  /\ Append(c, s) \in Seq(S)
           /\ ToSet(Append(c, s)) = ToSet(c) \cup {s}
<1>1. /\ Append(c, s) \in Seq(S) /\ DOMAIN c = 1 .. Len(c) /\ Len(c) \in Nat
      /\ DOMAIN Append(c, s) = 1 .. (Len(c) + 1)
      /\ Append(c, s)[Len(c) + 1] = s /\ \A n \in 1 .. Len(c) : Append(c, s)[n] = c[n]
  OBVIOUS
<1>2. ToSet(Append(c, s)) \subseteq ToSet(c) \cup {s}
  <2>1. \A n \in 1 .. (Len(c) + 1) : n \in 1 .. Len(c) \/ n = Len(c) + 1
    BY <1>1
  <2>2. QED
    BY <1>1, <2>1 DEF ToSet
<1>3. ToSet(c) \cup {s} \subseteq ToSet(Append(c, s))
  <2>1. Len(c) + 1 \in 1 .. (Len(c) + 1) /\ \A n \in 1 .. Len(c) : n \in 1 .. (Len(c) + 1)
    BY <1>1
  <2>2. QED
    BY <1>1, <2>1 DEF ToSet
<1>4. QED
  BY <1>1, <1>2, <1>3

(* ap_fixup_virtual_hosts tracks the virtual hosts it merges.              *)
LEMMA TrackedFold ==
    ToSet(FoldLeft(TrackMade, <<>>, Tail(ServerList))) = (Servers \ {Main}) \cap made
<1> DEFINE q == Tail(ServerList)
           S == Seq(Servers)
           upto(k) == {s \in made : \E j \in 1 .. k : q[j] = s}
           T == [k \in 0 .. Len(q) |-> {c \in S : ToSet(c) = upto(k)}]
<1>1. q \in Seq(Servers) /\ ToSet(q) = Servers \ {Main}
  BY NameFacts, TailFacts
<1>2. \A c \in S, s \in Servers : TrackMade(c, s) \in S
  BY TrackStep DEF TrackMade
<1> DEFINE b == <<>>
<1>3. b \in S /\ ToSet(b) = {}
  BY DEF ToSet
<1>4. ASSUME NEW k \in 1 .. Len(q), NEW c \in S, ToSet(c) = upto(k - 1)
      PROVE  ToSet(TrackMade(c, q[k])) = upto(k)
  <2>1. q[k] \in Servers /\ Len(q) \in Nat
    BY <1>1
  <2>2. \A j : j \in 1 .. k <=> j \in 1 .. (k - 1) \/ j = k
    BY <2>1
  <2>3. upto(k) = upto(k - 1) \cup (made \cap {q[k]})
    BY <2>2
  <2>4. ToSet(TrackMade(c, q[k])) = ToSet(c) \cup (made \cap {q[k]})
    <3>1. ToSet(Append(c, q[k])) = ToSet(c) \cup {q[k]}
      BY <2>1, TrackStep
    <3>2. QED
      BY <3>1 DEF TrackMade
  <2>5. QED
    BY <1>4, <2>3, <2>4
<1>5. upto(0) = {}
  <2>1. \A i : i \notin 1 .. 0
    BY SMT
  <2>2. QED
    BY <2>1
<1>6. upto(Len(q)) = ToSet(q) \cap made
  <2>1. DOMAIN q = 1 .. Len(q)
    BY <1>1
  <2> HIDE DEF q
  <2>2. QED
    BY <2>1 DEF ToSet
<1>7. Len(q) \in Nat
  BY <1>1
<1> HIDE DEF q, S, upto, b
<1>8. b \in T[0]
  BY <1>3, <1>5, <1>7
<1>9. \A k \in 1 .. Len(q), c \in S : c \in T[k - 1] => TrackMade(c, q[k]) \in T[k]
  <2> SUFFICES ASSUME NEW k \in 1 .. Len(q), NEW c \in S, c \in T[k - 1]
               PROVE  TrackMade(c, q[k]) \in T[k]
    OBVIOUS
  <2>1. k \in 0 .. Len(q) /\ k - 1 \in 0 .. Len(q)
    BY <1>7
  <2>2. ToSet(c) = upto(k - 1) /\ q[k] \in Servers
    BY <1>1, <2>1
  <2>3. QED
    BY <1>2, <1>4, <2>1, <2>2
<1>10. Len(q) \in 0 .. Len(q)
  BY <1>7
<1>11. T[Len(q)] = {c \in S : ToSet(c) = upto(Len(q))}
  BY <1>10
<1> HIDE DEF T
<1>12. q \in Seq(Servers)
  BY <1>1
<1>13. b \in S
  BY <1>3
<1>14. FoldLeft(TrackMade, b, q) \in T[Len(q)]
  BY <1>2, <1>8, <1>9, <1>12, <1>13, TrackMadeFold
<1>15. QED
  BY <1>1, <1>6, <1>11, <1>14 DEF b, q

(* Whose rules array a merged configuration has.                           *)
LEMMA MergeArray ==
    ASSUME NEW p, NEW c, NEW childName, NEW name
    PROVE  LET m == coraza_merge_dir_conf(p, c, childName, name) IN
           m.array \in {name, c.array} \/ (m.array = p.array /\ m.rules = p.rules)
<1> DEFINE r == MergeRules(p, c, childName, name)
           m == coraza_merge_dir_conf(p, c, childName, name)
<1>1. r.array \in {name, c.array} \/ (r.array = p.array /\ r.rules = p.rules)
  <2>1. CASE p.rules # <<>> /\ c.rules # <<>>
    BY <2>1 DEF MergeRules, MergeBoth
  <2>2. CASE p.rules # <<>> /\ c.rules = <<>>
    BY <2>2 DEF MergeRules, Inherit
  <2>3. CASE p.rules = <<>> /\ c.rules # <<>>
    BY <2>3 DEF MergeRules, Inherit
  <2>4. CASE p.rules = <<>> /\ c.rules = <<>>
    <3>1. r = Inherit(coraza_create_dir_conf(name))
      BY <2>4 DEF MergeRules
    <3>2. r.array = name
      BY <3>1 DEF Inherit, coraza_create_dir_conf
    <3>3. QED
      BY <3>2
  <2>5. QED
    BY <2>1, <2>2, <2>3, <2>4
<1>2. m.array = r.array /\ m.rules = r.rules
  BY DEF coraza_merge_dir_conf
<1> HIDE DEF r, m
<1>3. QED
  BY <1>1, <1>2 DEF m

(* The scopes of a URL: its servers, then its path.                        *)
LEMMA ScopesBase ==
    ASSUME NEW u \in Urls
    PROVE  /\ Base(u) \in 1 .. Len(Scopes(u)) /\ Base(u) \in {1, 2}
           /\ Len(Scopes(u)) = Len(u.path) + Base(u)
           /\ Len(u.path) \in Nat
           /\ \A k \in 1 .. Len(u.path) : Scopes(u)[Base(u) + k] = u.path[k]
<1> DEFINE l == Len(u.path)
<1>1. /\ u.path \in Seq(Sections) /\ Len(Scopes(u)) = l + Base(u)
      /\ \A k \in 1 .. l : Scopes(u)[k + Base(u)] = u.path[k]
  BY ScopesFacts DEF Base
<1>2. l \in Nat /\ Base(u) \in {1, 2}
  BY <1>1 DEF Base
<1> HIDE DEF l
<1>3. Base(u) \in 1 .. Len(Scopes(u)) /\ \A k \in 1 .. l : Base(u) + k = k + Base(u)
  BY <1>1, <1>2
<1>4. QED
  BY <1>1, <1>2, <1>3 DEF l

LEMMA FixupConf ==
    ASSUME Inv, ConfInv, FixupVirtualHosts, UNCHANGED <<childVars, storeVars>>
    PROVE  ConfInv'
<1> DEFINE merged(s) == coraza_merge_dir_conf(confs[Main], confs[s], NoConf, s)
<1>1. TypeInv /\ text \in Texts /\ Len(text) \in Nat
  BY TextFacts DEF Inv, TypeInv, ConfigTypes
<1>2. /\ phase = "reading" /\ phase' = "checking" /\ pos - 1 = Len(text)
      /\ UNCHANGED <<text, pos, made, own, scfs>>
  BY <1>1 DEF FixupVirtualHosts, TypeInv, ConfigTypes
<1>3. confs \in [ConfNames -> Rs]
  BY <1>1, StateFacts
<1>4. ASSUME NEW x \in ConfNames
      PROVE  confs'[x] = IF x \in (Servers \ {Main}) \cap made THEN merged(x) ELSE confs[x]
  BY <1>3, TailFacts DEF FixupVirtualHosts
<1> HIDE DEF merged
<1>5. ASSUME NEW x \in Servers \cup Sections
      PROVE  /\ ~Private(x) => Whole(confs[x], text, x) /\ Accepted(text, x)
             /\ x \notin made => confs[x] = coraza_create_dir_conf(x)
             /\ confs[x].array = x
             /\ confs[x] \in Rs /\ x \in ConfNames
  <2>1. /\ ~Private(x) => Reads(confs[x], text, x, pos - 1)
        /\ x \notin made => confs[x] = coraza_create_dir_conf(x)
        /\ confs[x].array = x
        /\ \A k \in 1 .. (pos - 1) : ~DirectiveRefused(text[k])
    BY <1>2 DEF ConfInv, ReadInv
  <2>2. QED
    BY <1>2, <1>3, <2>1, NotPrivate DEF Whole, Accepted, ConfNames
<1>6. ASSUME NEW x \in Sections PROVE SectionPart(x)'
  <2>1. confs'[x] = confs[x]
    BY <1>4, <1>5, NameFacts
  <2>2. x \notin made /\ ~Private(x) => Bare(text, x)
    BY <1>1, <1>5, BareFacts
  <2>3. QED
    BY <1>2, <1>5, <2>1, <2>2 DEF SectionPart
<1>7. /\ confs'[Main] = confs[Main] /\ Main \in Servers /\ Main \in made
      /\ Whole(confs[Main], text, Main) /\ Accepted(text, Main)
      /\ confs[Main] \in Rs
  <2>1. Main \in Servers /\ Main \in made
    BY <1>1, NameFacts DEF TypeInv, ConfigTypes
  <2>2. QED
    BY <1>4, <1>5, <2>1, ServerNotPrivate
<1>8. ASSUME NEW s \in Servers
      PROVE  /\ Whole(confs[s], text, s) /\ Accepted(text, s) /\ confs[s] \in Rs
             /\ confs[s].rules = RulesOf(text, s) /\ (confs[s].has_rules <=> confs[s].rules # <<>>)
             /\ scfs[s].rules = RulesOf(text, s)
  <2>1. Whole(confs[s], text, s) /\ Accepted(text, s) /\ confs[s] \in Rs
    BY <1>5, ServerNotPrivate
  <2>2. Source(text, s) = text
    BY ServerNotPrivate, NotPrivate
  <2>3. scfs[s].rules = RulesUpTo(text, s)[pos - 1]
    BY <1>2 DEF ConfInv, ReadInv
  <2>4. QED
    BY <1>2, <2>1, <2>2, <2>3 DEF Whole, Reads, RulesOf
<1>9. ASSUME NEW s \in Servers PROVE ServerPart(s)'
  <2>1. scfs'[s].rules = RulesOf(text', s)
    BY <1>2, <1>8
  <2>2. CASE s = Main
    <3>1. confs'[s].rules = RulesOf(text', Main) /\ (confs'[s].has_rules <=> confs'[s].rules # <<>>)
          /\ confs'[s].array = s /\ s \in own'
      BY <1>1, <1>2, <1>5, <1>7, <1>8, <2>2 DEF TypeInv, ConfigTypes
    <3>2. QED
      BY <2>1, <2>2, <3>1 DEF ServerPart
  <2>3. CASE s # Main /\ s \in made
    <3>1. confs'[s] = merged(s) /\ s \in own
      BY <1>2, <1>4, <1>5, <2>3 DEF ConfInv, ReadInv
    <3>2. /\ merged(s).rules = confs[Main].rules \o confs[s].rules
          /\ merged(s).has_rules <=> merged(s).rules # <<>>
      <4>1. /\ confs[Main] \in Rs /\ (confs[Main].has_rules <=> confs[Main].rules # <<>>)
            /\ confs[s] \in Rs /\ (confs[s].has_rules <=> confs[s].rules # <<>>)
        BY <1>7, <1>8
      <4>2. QED
        BY <4>1, RsMerge DEF merged
    <3>3. merged(s).array \in {s, confs[s].array}
            \/ (merged(s).array = confs[Main].array /\ merged(s).rules = confs[Main].rules)
      BY MergeArray DEF merged
    <3>4. confs[s].array = s /\ confs[Main].array = Main
      BY <1>5, <1>7
    <3>5. confs'[s].array = s \/ (confs'[s].array = Main /\ confs'[s].rules = confs'[Main].rules)
      BY <1>7, <3>1, <3>3, <3>4
    <3>6. confs'[s].rules = RulesOf(text', Main) \o RulesOf(text', s)
      BY <1>2, <1>7, <1>8, <3>1, <3>2
    <3>7. QED
      BY <1>2, <2>1, <2>3, <3>1, <3>2, <3>5, <3>6 DEF ServerPart
  <2>4. CASE s \notin made
    BY <1>2, <2>1, <2>4 DEF ServerPart
  <2>5. QED
    BY <2>2, <2>3, <2>4
<1>10. ASSUME NEW u \in Urls
       PROVE  Conforms(confs'[Defaults(u.server)'], text, u, Base(u))
  <2> DEFINE s == u.server
  <2>1. s \in Servers /\ Conforms(confs[Main], text, u, 1)
    BY <1>1, <1>7, ScopesFacts, ConformsMain
  <2>2. Defaults(s)' = IF s \in made THEN s ELSE Main
    BY <1>2 DEF Defaults
  <2>3. CASE s = Main
    BY <1>7, <2>1, <2>2, <2>3 DEF Base
  <2>4. CASE s # Main
    <3>1. Base(u) = 2 /\ 2 \in 1 .. Len(Scopes(u)) /\ Scopes(u)[2] = s /\ 2 - 1 = 1
      <4>1. Base(u) = 2
        BY <2>4 DEF Base
      <4>2. Base(u) \in 1 .. Len(Scopes(u))
        BY ScopesBase
      <4>3. Scopes(u)[2] = s
        BY <2>4, ScopesFacts
      <4>4. QED
        BY <4>1, <4>2, <4>3
    <3>2. CASE s \in made
      <4>1. confs'[s] = merged(s)
        BY <1>4, <1>5, <2>1, <2>4, <3>2
      <4>2. Conforms(merged(s), text, u, 2)
        <5>1. Conforms(confs[Main], text, u, 2 - 1)
          BY <2>1, <3>1
        <5>2. Whole(confs[s], text, Scopes(u)[2]) /\ Accepted(text, Scopes(u)[2])
          BY <1>8, <2>1, <3>1
        <5>3. confs[Main] \in Rs /\ confs[s] \in Rs
          BY <1>8, <2>1, <1>7
        <5> HIDE DEF s
        <5>4. QED
          BY <1>1, <3>1, <5>1, <5>2, <5>3, ConformsMerge DEF merged, Rs
      <4>3. QED
        BY <2>2, <3>1, <3>2, <4>1, <4>2
    <3>3. CASE s \notin made
      <4>1. Bare(text, Scopes(u)[2]) /\ Accepted(text, Scopes(u)[2])
        <5>1. Whole(coraza_create_dir_conf(s), text, s)
          BY <1>5, <1>8, <2>1, <3>3
        <5>2. Bare(text, s)
          BY <1>1, <5>1, BareFacts
        <5>3. QED
          BY <1>8, <2>1, <3>1, <5>2
      <4>2. Conforms(confs[Main], text, u, 2 - 1)
        BY <2>1, <3>1
      <4>3. Conforms(confs[Main], text, u, 2)
        BY <1>1, <3>1, <4>1, <4>2, ConformsSkip
      <4>4. QED
        BY <1>7, <2>2, <3>1, <3>3, <4>3
    <3>4. QED
      BY <3>2, <3>3
  <2>5. QED
    BY <2>3, <2>4
<1>11. \A k \in 1 .. Len(text) : ~DirectiveRefused(text[k])
  BY <1>2 DEF ConfInv, ReadInv
<1>12. ReadyInv'
  BY <1>2, <1>6, <1>9, <1>10, <1>11 DEF ReadyInv
<1>13. TrackedInv'
  <2>1. tracked' = FoldLeft(TrackMade, <<>>, Tail(ServerList))
    BY <1>2 DEF FixupVirtualHosts, ConfInv, ReadInv
  <2>2. QED
    BY <1>2, <2>1, TrackedFold DEF TrackedInv
<1>14. ThreadInv'
  <2>1. \A t \in Threads : threads[t].pc = "idle"
    BY <1>2 DEF Inv, LifeInv
  <2>2. QED
    BY <2>1 DEF ThreadInv, storeVars
<1>15. QED
  BY <1>2, <1>12, <1>13, <1>14 DEF ConfInv, ReadInv

(* The two configurations differ in their WAF only.                        *)
SameButWaf(d, c) ==
    /\ d.enable = c.enable /\ d.transaction_id = c.transaction_id
    /\ d.body_mem_limit = c.body_mem_limit /\ d.rules = c.rules
    /\ d.array = c.array /\ d.has_rules = c.has_rules
    /\ d.merge_child = c.merge_child

(* Conforming says nothing of the WAF,                                     *)
LEMMA ConformsSame ==
    ASSUME NEW c, NEW d, SameButWaf(d, c), NEW ds, NEW u, NEW n, Conforms(c, ds, u, n)
    PROVE  Conforms(d, ds, u, n)
BY DEF SameButWaf, Conforms

(* Once the configuration has been read, nothing but the WAFs changes in   *)
(* it.                                                                     *)
LEMMA ConfKept ==
    ASSUME Inv, ConfInv, phase # "reading", phase' # "reading",
           phase = "refused" => phase' = "refused",
           UNCHANGED <<text, made, own>>,
           \A s \in Servers : scfs'[s].rules = scfs[s].rules,
           \A x \in Servers \cup Sections : SameButWaf(confs'[x], confs[x]),
           phase' \in {"checking", "loading", "servers", "dirs", "ready"} =>
             /\ phase \in {"checking", "loading", "servers", "dirs", "ready"}
             /\ tracked' = tracked
    PROVE  ReadInv' /\ ReadyInv' /\ TrackedInv'
<1>1. Main \in Servers /\ \A s \in Servers : Defaults(s) \in Servers /\ Defaults(s)' = Defaults(s)
  BY NameFacts, ServerFacts DEF Inv, Defaults
<1>2. CASE phase = "refused"
  BY <1>2 DEF ReadInv, ReadyInv, TrackedInv
<1>3. CASE phase # "refused"
  <2>1. /\ \A k \in 1 .. Len(text) : ~DirectiveRefused(text[k])
        /\ \A x \in Sections : SectionPart(x)
        /\ \A s \in Servers : ServerPart(s)
        /\ \A u \in Urls : Conforms(confs[Defaults(u.server)], text, u, Base(u))
    BY <1>3 DEF ConfInv, ReadyInv
  <2>2. ASSUME NEW x \in Sections PROVE SectionPart(x)'
    <3>1. SectionPart(x) /\ SameButWaf(confs'[x], confs[x])
      BY <2>1
    <3>2. QED
      BY <3>1 DEF SectionPart, SameButWaf, Whole, Reads
  <2>3. ASSUME NEW s \in Servers PROVE ServerPart(s)'
    <3>1. ServerPart(s) /\ SameButWaf(confs'[s], confs[s]) /\ scfs'[s].rules = scfs[s].rules
          /\ SameButWaf(confs'[Main], confs[Main])
      BY <1>1, <2>1
    <3>2. QED
      BY <3>1 DEF ServerPart, SameButWaf
  <2>4. ASSUME NEW u \in Urls
        PROVE  Conforms(confs'[Defaults(u.server)'], text', u, Base(u))
    <3>1. u.server \in Servers
      BY ScopesFacts
    <3>2. SameButWaf(confs'[Defaults(u.server)'], confs[Defaults(u.server)])
      BY <1>1, <3>1
    <3>3. QED
      BY <2>1, <3>2, ConformsSame
  <2>5. ReadyInv'
    BY <2>1, <2>2, <2>3, <2>4 DEF ReadyInv
  <2>6. TrackedInv'
    BY DEF ConfInv, TrackedInv
  <2>7. QED
    BY <2>5, <2>6 DEF ReadInv
<1>4. QED
  BY <1>2, <1>3

(* and a configuration is itself up to its WAF.                            *)
LEMMA SameIsSame ==
    ASSUME NEW c
    PROVE  SameButWaf(c, c)
BY DEF SameButWaf

(* A request that keeps its place keeps its configuration.                 *)
LEMMA WayKept ==
    ASSUME NEW t \in Threads, OnItsWay(t), UNCHANGED <<text, made>>,
           threads'[t].url = threads[t].url, threads'[t].todo = threads[t].todo,
           threads'[t].dcf = threads[t].dcf,
           threads'[t].pc # "merging" => threads[t].todo = <<>>,
           SameButWaf(Conf(t)', Conf(t))
    PROVE  OnItsWay(t)'
<1>1. Done(t)' = Done(t)
  BY DEF Done
<1>2. Conforms(Conf(t)', text, threads[t].url, Done(t))
  BY ConformsSame DEF OnItsWay
<1>3. Defaults(threads[t].url.server)' = Defaults(threads[t].url.server)
  BY DEF Defaults
<1>4. QED
  BY <1>1, <1>2, <1>3 DEF OnItsWay

(* A step of the request of t, which leaves all other configurations as    *)
(* they are but for WAFs.                                                  *)
LEMMA StepConf ==
    ASSUME Inv, ConfInv, NEW t \in Threads, phase \in {"ready", "disabled"},
           phase' = phase \/ (phase = "disabled" /\ phase' = "crashed"),
           UNCHANGED <<text, made, own, scfs>>,
           phase = "ready" => tracked' = tracked,
           \A v \in Threads \ {t} : threads'[v] = threads[v],
           \A x \in ConfNames \ {t} : SameButWaf(confs'[x], confs[x]),
           threads'[t].pc # "idle" => OnItsWay(t)'
    PROVE  ConfInv'
<1>1. \A x \in Servers \cup Sections : SameButWaf(confs'[x], confs[x])
  BY NameFacts DEF ConfNames
<1>2. ReadInv' /\ ReadyInv' /\ TrackedInv'
  BY <1>1, ConfKept
<1>3. ASSUME NEW v \in Threads \ {t}, threads'[v].pc # "idle" PROVE OnItsWay(v)'
  <2>1. OnItsWay(v) /\ threads'[v] = threads[v]
    BY <1>3 DEF ConfInv, ThreadInv
  <2>2. threads[v].dcf \in Servers \cup {v}
    BY StateFacts DEF Inv
  <2>3. threads[v].dcf \in ConfNames \ {t}
    BY <2>2, NameFacts DEF ConfNames
  <2>4. SameButWaf(Conf(v)', Conf(v))
    BY <2>1, <2>3 DEF Conf
  <2>5. threads[v].pc # "merging" => threads[v].todo = <<>>
    BY <2>1 DEF OnItsWay
  <2>6. QED
    BY <2>1, <2>4, <2>5, WayKept
<1>4. ThreadInv'
  BY <1>3 DEF ThreadInv
<1>5. QED
  BY <1>2, <1>4 DEF ConfInv

(* A step that moves the program counter and sets WAFs.                    *)
LEMMA WafStepConf ==
    ASSUME Inv, ConfInv, NEW t \in Threads, phase \in {"ready", "disabled"},
           phase' = phase, UNCHANGED <<text, made, own, scfs, tracked>>,
           NEW pc \in PCs, pc # "merging", GoesTo(t, pc), OnlyWafs \/ confs' = confs,
           threads[t].pc # "idle", threads[t].todo = <<>>
    PROVE  ConfInv'
<1>1. \A x \in ConfNames : SameButWaf(confs'[x], confs[x])
  BY DEF OnlyWafs, SameButWaf
<1>2. OnItsWay(t)
  BY DEF ConfInv, ThreadInv
<1>3. threads[t].dcf \in ConfNames
  BY ConfFacts DEF Inv
<1>4. SameButWaf(Conf(t)', Conf(t))
  BY <1>1, <1>3 DEF Conf, GoesTo
<1>5. OnItsWay(t)'
  BY <1>2, <1>4, WayKept DEF GoesTo
<1>6. QED
  BY <1>1, <1>5, StepConf DEF GoesTo

LEMMA StartConf ==
    ASSUME Inv, ConfInv, NEW t \in Threads, Start(t)
    PROVE  ConfInv'
<1>1. /\ UNCHANGED <<configVars, childVars, mutex, cache>>
      /\ phase \in {"ready", "disabled"}
  BY StartFacts DEF Inv
<1>2. PICK u \in Urls : Moves(t, Started(u))
  BY StartFacts DEF Inv
<1>3. /\ threads'[t].pc = "merging" /\ threads'[t].url = u /\ threads'[t].todo = u.path
      /\ threads'[t].dcf = Defaults(u.server)
      /\ \A v \in Threads \ {t} : threads'[v] = threads[v]
  BY <1>2 DEF Moves, Started
<1>4. UNCHANGED <<phase, text, made, own, scfs, confs, tracked>>
  BY <1>1 DEF configVars
<1>5. Done(t)' = Base(u) /\ Len(u.path) \in Nat
  <2> DEFINE l == Len(u.path)
             b == Base(u)
  <2>1. Len(Scopes(u)) = l + b /\ l \in Nat /\ b \in {1, 2}
    BY ScopesBase
  <2>2. Done(t)' = Len(Scopes(u)) - l
    BY <1>3 DEF Done
  <2> HIDE DEF l, b
  <2>3. Done(t)' = b
    BY <2>1, <2>2
  <2>4. QED
    BY <2>1, <2>3 DEF l, b
<1>6. Conf(t)' = confs[Defaults(u.server)] /\ Defaults(u.server)' = Defaults(u.server)
  BY <1>3, <1>4 DEF Conf, Defaults
<1>7. Conforms(confs[Defaults(u.server)], text, u, Base(u))
  BY <1>1 DEF ConfInv, ReadyInv
<1>8. \A k \in 1 .. Len(u.path) : u.path[k] = Scopes(u)[Base(u) + k]
  BY ScopesBase
<1>9. OnItsWay(t)'
  BY <1>3, <1>4, <1>5, <1>6, <1>7, <1>8 DEF OnItsWay
<1>10. QED
  BY <1>1, <1>3, <1>4, <1>9, SameIsSame, StepConf

(* The configuration that is merged for a section, and the name by which   *)
(* another merge may use it too.                                           *)
Child(x) == IF Kind[x] = "htaccess" THEN HtConf(x) ELSE confs[x]
ChildName(x) == IF Kind[x] = "htaccess" THEN NoConf ELSE x

(* A section is refused, skipped or merged.                                *)
LEMMA MergeSectionCases ==
    ASSUME TypeInv, NEW t \in Threads, MergeSection(t)
    PROVE  /\ threads[t].pc = "merging" /\ threads[t].todo # <<>>
           /\ NextSection(t) \in Sections
           /\ UNCHANGED <<phase, text, pos, made, own, scfs, childVars, mutex, cache>>
           /\ Keeps(t) /\ (phase = "ready" => tracked' = tracked)
           /\ \/ Moves(t, Idle)
              \/ /\ Advances(t, threads[t].dcf) /\ confs' = confs
                 /\ ~Private(NextSection(t)) /\ NextSection(t) \notin made
              \/ /\ Advances(t, t) /\ Child(NextSection(t)) \in Rs
                 /\ confs'[t] = coraza_merge_dir_conf(Conf(t), Child(NextSection(t)),
                                                      ChildName(NextSection(t)), t)
                 /\ Private(NextSection(t)) => ~HtRefused(NextSection(t))
<1> DEFINE x == NextSection(t)
           merged == coraza_merge_dir_conf(Conf(t), Child(x), ChildName(x), t)
<1>1. /\ threads[t].pc = "merging" /\ threads[t].todo # <<>> /\ x \in Sections
      /\ UNCHANGED <<phase, text, pos, made, own, scfs, childVars, mutex, cache>>
      /\ Keeps(t)
  BY MergeSectionFacts
<1>2. phase = "ready" => tracked' = tracked
  BY DEF MergeSection, TrackMerged
<1>3. Private(x) <=> Kind[x] = "htaccess"
  BY <1>1 DEF Private
<1>4. merged = coraza_merge_dir_conf(confs[threads[t].dcf],
                 IF Kind[x] = "htaccess" THEN HtConf(x) ELSE confs[x],
                 IF Kind[x] = "htaccess" THEN NoConf ELSE x, t)
  BY DEF Conf, Child, ChildName
<1>5. \/ EndRequest(t)
      \/ /\ confs' = confs /\ threads' = [threads EXCEPT ![t].todo = Tail(@)]
         /\ Kind[x] # "htaccess" /\ x \notin made
      \/ /\ confs' = [confs EXCEPT ![t] = merged]
         /\ threads' = [threads EXCEPT ![t].todo = Tail(@), ![t].dcf = t]
         /\ Kind[x] = "htaccess" => ~HtRefused(x)
  BY <1>4 DEF MergeSection
<1> HIDE DEF x, merged
<1>6. confs \in [ConfNames -> Rs] /\ t \in ConfNames /\ x \in ConfNames
      /\ threads \in [Threads -> ThreadStates] /\ threads[t].dcf \in Servers \cup {t}
  BY <1>1, StateFacts DEF ConfNames
<1>7. CASE EndRequest(t)
  <2>1. Moves(t, Idle)
    BY <1>7, EndRequestFacts
  <2>2. QED
    BY <1>1, <1>2, <2>1 DEF x
<1>8. CASE /\ confs' = confs /\ threads' = [threads EXCEPT ![t].todo = Tail(@)]
           /\ Kind[x] # "htaccess" /\ x \notin made
  <2>1. threads' = [threads EXCEPT ![t].todo = Tail(@), ![t].dcf = threads[t].dcf]
    BY <1>6, <1>8 DEF ThreadStates
  <2>2. Advances(t, threads[t].dcf)
    BY <1>1, <1>6, <2>1, AdvanceFacts
  <2>3. QED
    BY <1>1, <1>2, <1>3, <1>8, <2>2 DEF x
<1>9. CASE /\ confs' = [confs EXCEPT ![t] = merged]
           /\ threads' = [threads EXCEPT ![t].todo = Tail(@), ![t].dcf = t]
           /\ Kind[x] = "htaccess" => ~HtRefused(x)
  <2>1. Advances(t, t)
    BY <1>1, <1>9, AdvanceFacts
  <2>2. confs'[t] = merged
    BY <1>6, <1>9
  <2>3. Child(x) \in Rs
    <3>1. CASE Kind[x] = "htaccess"
      <4>1. HtConf(x) \in HtConfs(x) /\ NoWaf \in 0 .. Len(built)
        BY <1>1, <3>1, HtConfType, StateFacts
      <4>2. QED
        BY <1>6, <3>1, <4>1 DEF Child, HtConfs, Rs, ConfRecs
    <3>2. CASE Kind[x] # "htaccess"
      BY <1>6, <3>2 DEF Child
    <3>3. QED
      BY <3>1, <3>2
  <2>4. QED
    BY <1>1, <1>2, <1>3, <1>9, <2>1, <2>2, <2>3 DEF x, merged
<1>10. QED
  BY <1>5, <1>7, <1>8, <1>9

(* The section a request merges next is the next scope of its URL.         *)
LEMMA NextScope ==
    ASSUME TypeInv, NEW t \in Threads, OnItsWay(t), threads[t].todo # <<>>,
           NEW dcf, Advances(t, dcf)
    PROVE  /\ Done(t) \in Nat /\ Done(t) >= Base(threads[t].url)
           /\ Done(t) + 1 \in 1 .. Len(Scopes(threads[t].url))
           /\ NextSection(t) = Scopes(threads[t].url)[Done(t) + 1]
           /\ Done(t)' = Done(t) + 1
           /\ Len(threads'[t].todo) <= Len(threads[t].url.path)
           /\ \A k \in 1 .. Len(threads'[t].todo) :
                threads'[t].todo[k] = Scopes(threads[t].url)[Done(t)' + k]
<1> DEFINE u == threads[t].url
           q == threads[t].todo
           l == Len(q)
           m == Len(u.path)
           s == Len(Scopes(u))
           b == Base(u)
<1>1. u \in Urls /\ q \in Seq(Sections) /\ q # <<>>
  BY DEF OnItsWay, TypeInv, StoreTypes, ThreadStates
<1>2. s = m + b /\ m \in Nat /\ b \in {1, 2}
  BY <1>1, ScopesBase
<1>3. /\ l \in Nat /\ l > 0 /\ Head(q) = q[1] /\ Len(Tail(q)) = l - 1
      /\ \A k \in 1 .. (l - 1) : Tail(q)[k] = q[k + 1]
  BY <1>1
<1>4. l <= m /\ \A k \in 1 .. l : q[k] = Scopes(u)[Done(t) + k]
  BY DEF OnItsWay
<1>5. Done(t) = s - l
  BY DEF Done
<1>6. threads'[t].url = u /\ threads'[t].todo = Tail(q)
  BY DEF Advances
<1>7. Done(t)' = s - Len(Tail(q))
  BY <1>6 DEF Done
<1>8. NextSection(t) = q[1]
  BY <1>3 DEF NextSection
<1> HIDE DEF u, q, l, m, s, b
<1>9. Done(t) \in Nat /\ Done(t) >= b /\ Done(t) + 1 \in 1 .. s /\ Done(t)' = Done(t) + 1
  <2>1. s - (l - 1) = (s - l) + 1 /\ s - l >= b /\ s - l \in Nat /\ (s - l) + 1 \in 1 .. s
    BY <1>2, <1>3, <1>4
  <2>2. Done(t)' = s - (l - 1)
    BY <1>3, <1>7
  <2>3. QED
    BY <1>5, <2>1, <2>2
<1>10. NextSection(t) = Scopes(u)[Done(t) + 1]
  BY <1>3, <1>4, <1>8
<1>11. l - 1 <= m
  BY <1>2, <1>3, <1>4
<1>12. ASSUME NEW k \in 1 .. (l - 1) PROVE Tail(q)[k] = Scopes(u)[Done(t)' + k]
  <2>1. k + 1 \in 1 .. l /\ Done(t) + (k + 1) = Done(t)' + k
    BY <1>3, <1>9
  <2>2. QED
    BY <1>3, <1>4, <2>1
<1>13. QED
  BY <1>3, <1>6, <1>9, <1>10, <1>11, <1>12 DEF u, m, s, b

(* The configuration of a section that is merged has all the section says. *)
LEMMA ChildWhole ==
    ASSUME Inv, ConfInv, phase \in {"ready", "disabled"}, NEW x \in Sections,
           Private(x) => ~HtRefused(x)
    PROVE  Whole(Child(x), text, x) /\ Accepted(text, x)
<1>1. text \in Texts
  BY DEF Inv, TypeInv, ConfigTypes
<1>2. /\ \A j \in 1 .. Len(text) : ~DirectiveRefused(text[j])
      /\ SectionPart(x)
  BY DEF ConfInv, ReadyInv
<1>3. CASE Private(x)
  <2>1. /\ Kind[x] = "htaccess" /\ Child(x) = HtConf(x)
        /\ Source(text, x) = HtText[x]
    BY <1>3 DEF Private, Child, Source
  <2>2. Whole(HtConf(x), text, x)
    BY <1>1, <2>1, HtConfReads
  <2>3. DOMAIN HtText[x] = 1 .. Len(HtText[x])
    BY <1>1, <2>1, SourceFacts
  <2>4. Accepted(text, x)
    BY <1>3, <2>1, <2>3 DEF HtRefused, Accepted
  <2>5. QED
    BY <2>1, <2>2, <2>4
<1>4. CASE ~Private(x)
  BY <1>2, <1>4, NotPrivate DEF SectionPart, Accepted, Child, Private
<1>5. QED
  BY <1>3, <1>4

LEMMA MergeSectionConf ==
    ASSUME Inv, ConfInv, NEW t \in Threads, MergeSection(t), phase \in {"ready", "disabled"}
    PROVE  ConfInv'
<1> DEFINE x == NextSection(t)
           u == threads[t].url
           k == Done(t) + 1
<1>1. TypeInv /\ text \in Texts
  BY DEF Inv, TypeInv, ConfigTypes
<1>2. /\ threads[t].pc = "merging" /\ threads[t].todo # <<>> /\ x \in Sections
      /\ UNCHANGED <<phase, text, pos, made, own, scfs, childVars, mutex, cache>>
      /\ Keeps(t) /\ (phase = "ready" => tracked' = tracked)
      /\ \/ Moves(t, Idle)
         \/ /\ Advances(t, threads[t].dcf) /\ confs' = confs
            /\ ~Private(x) /\ x \notin made
         \/ /\ Advances(t, t) /\ Child(x) \in Rs
            /\ confs'[t] = coraza_merge_dir_conf(Conf(t), Child(x), ChildName(x), t)
            /\ Private(x) => ~HtRefused(x)
  BY <1>1, MergeSectionCases
<1>3. OnItsWay(t)
  BY <1>2 DEF ConfInv, ThreadInv
<1>4. /\ \A y \in ConfNames \ {t} : SameButWaf(confs'[y], confs[y])
      /\ UNCHANGED <<text, made, own, scfs, phase>>
  BY <1>2, SameIsSame DEF Keeps
<1>5. u \in Urls /\ Conforms(Conf(t), text, u, Done(t))
      /\ threads[t].dcf \in {t, Defaults(u.server)}
  BY <1>2, <1>3 DEF OnItsWay
<1>6. /\ \A j \in 1 .. Len(text) : ~DirectiveRefused(text[j])
      /\ SectionPart(x)
  BY <1>2 DEF ConfInv, ReadyInv
<1> HIDE DEF x, u, k
<1>7. ASSUME NEW dcf \in {t, threads[t].dcf}, Advances(t, dcf), Conforms(confs'[dcf], text, u, k)
      PROVE  ConfInv'
  <2>1. /\ k \in Nat /\ Done(t)' = k
        /\ Len(threads'[t].todo) <= Len(u.path)
        /\ \A j \in 1 .. Len(threads'[t].todo) :
             threads'[t].todo[j] = Scopes(u)[Done(t)' + j]
    BY <1>1, <1>2, <1>3, <1>7, NextScope DEF u, k
  <2>2. /\ threads'[t].url = u /\ threads'[t].pc = "merging" /\ threads'[t].dcf = dcf
        /\ \A v \in Threads \ {t} : threads'[v] = threads[v]
    BY <1>7 DEF Advances, u
  <2>3. Conf(t)' = confs'[dcf]
    BY <2>2 DEF Conf
  <2>4. OnItsWay(t)'
    <3>0. u' = u
      BY <2>2 DEF u
    <3>1. Defaults(u.server)' = Defaults(u.server)
      BY <1>2, <3>0 DEF Defaults
    <3>2. dcf \in {t, Defaults(u.server)'}
      BY <1>5, <3>1
    <3>3. Conforms(confs'[dcf], text', u, Done(t)')
      BY <1>2, <1>7, <2>1
    <3>4. /\ threads'[t].url \in Urls
          /\ Len(threads'[t].todo) <= Len(threads'[t].url.path)
          /\ \A j \in 1 .. Len(threads'[t].todo) :
               threads'[t].todo[j] = Scopes(threads'[t].url)[Done(t)' + j]
          /\ threads'[t].pc = "merging"
      BY <1>5, <2>1, <2>2
    <3>5. threads'[t].dcf \in {t, Defaults(threads[t].url.server)'}
      BY <2>2, <3>2 DEF u
    <3>6. Conforms(Conf(t)', text', threads'[t].url, Done(t)')
      BY <2>2, <2>3, <3>3
    <3>7. QED
      BY <3>4, <3>5, <3>6 DEF OnItsWay
  <2>5. QED
    BY <1>2, <1>4, <2>2, <2>4, StepConf
<1>8. CASE Moves(t, Idle)
  <2>1. threads'[t].pc = "idle" /\ \A v \in Threads \ {t} : threads'[v] = threads[v]
    BY <1>8 DEF Moves, Idle
  <2>2. QED
    BY <1>2, <1>4, <2>1, StepConf
<1>9. CASE Advances(t, threads[t].dcf) /\ confs' = confs /\ ~Private(x) /\ x \notin made
  <2>1. k \in 1 .. Len(Scopes(u)) /\ x = Scopes(u)[k] /\ k - 1 = Done(t)
    BY <1>1, <1>2, <1>3, <1>9, NextScope DEF u, k, x
  <2>2. Bare(text, x) /\ Accepted(text, x)
    BY <1>6, <1>9, NotPrivate DEF SectionPart, Accepted
  <2>3. Conforms(Conf(t), text, u, k)
    BY <1>1, <1>5, <2>1, <2>2, ConformsSkip
  <2>4. QED
    BY <1>7, <1>9, <2>3 DEF Conf
<1>10. CASE /\ Advances(t, t) /\ Child(x) \in Rs
            /\ confs'[t] = coraza_merge_dir_conf(Conf(t), Child(x), ChildName(x), t)
            /\ Private(x) => ~HtRefused(x)
  <2>1. k \in 1 .. Len(Scopes(u)) /\ x = Scopes(u)[k] /\ k - 1 = Done(t)
    BY <1>1, <1>2, <1>3, <1>10, NextScope DEF u, k, x
  <2>2. Whole(Child(x), text, x) /\ Accepted(text, x)
    BY <1>2, <1>10, ChildWhole
  <2>3. Conf(t) \in Rs
    BY <1>1, ConfFacts DEF Rs
  <2>4. Conforms(confs'[t], text, u, k)
    BY <1>1, <1>5, <1>10, <2>1, <2>2, <2>3, ConformsMerge DEF Rs
  <2>5. QED
    BY <1>7, <1>10, <2>4
<1>11. QED
  BY <1>2, <1>8, <1>9, <1>10

LEMMA StepsConf ==
    ASSUME Inv, ConfInv, NEW t \in Threads, Step(t)
    PROVE  ConfInv'
<1>1. phase \in {"ready", "disabled"} /\ TypeInv
  BY DEF Step, Inv
<1>2. threads[t].pc # "idle" => OnItsWay(t)
  BY DEF ConfInv, ThreadInv
<1>3. threads[t].pc \notin {"idle", "merging"} => threads[t].todo = <<>>
  BY <1>2 DEF OnItsWay
<1>4. {"lock", "use", "merge_child", "cache", "build", "store", "unlock", "serving"} \subseteq PCs
  BY DEF PCs
<1>5. ASSUME Moves(t, Idle), Keeps(t), phase' = phase,
             UNCHANGED <<text, made, own, scfs>>, phase = "ready" => tracked' = tracked
      PROVE  ConfInv'
  <2>1. threads'[t].pc = "idle" /\ \A v \in Threads \ {t} : threads'[v] = threads[v]
    BY <1>5 DEF Moves, Idle
  <2>2. \A y \in ConfNames \ {t} : SameButWaf(confs'[y], confs[y])
    BY <1>5, SameIsSame DEF Keeps
  <2>3. QED
    BY <1>1, <1>5, <2>1, <2>2, StepConf
<1>6. ASSUME \E waf : WafGiven(t, waf) PROVE OnlyWafs
  BY <1>6 DEF WafGiven
<1>7. CASE MergeSection(t)
  BY <1>1, <1>7, MergeSectionConf
<1>8. CASE CheckWaf(t)
  <2>1. /\ threads[t].pc = "merging" /\ Keeps(t)
        /\ UNCHANGED <<phase, text, pos, made, own, scfs, childVars, mutex, cache>>
        /\ \/ Moves(t, Idle) /\ confs'[t] = coraza_create_dir_conf(t)
           \/ (GoesTo(t, "lock") \/ GoesTo(t, "use")) /\ confs' = confs
    BY <1>1, <1>8, CheckWafFacts
  <2>2. threads[t].todo = <<>> /\ tracked' = tracked
    BY <1>8 DEF CheckWaf
  <2>3. CASE Moves(t, Idle)
    BY <1>5, <2>1, <2>2, <2>3
  <2>4. CASE GoesTo(t, "lock") /\ confs' = confs
    BY <1>1, <1>4, <2>1, <2>2, <2>4, WafStepConf
  <2>5. CASE GoesTo(t, "use") /\ confs' = confs
    BY <1>1, <1>4, <2>1, <2>2, <2>5, WafStepConf
  <2>6. QED
    BY <2>1, <2>3, <2>4, <2>5
<1>9. CASE Lock(t)
  <2>1. /\ threads[t].pc = "lock"
        /\ UNCHANGED <<text, pos, made, own, confs, scfs, tracked, childVars, cache>>
        /\ \/ /\ phase = "ready" /\ phase' = phase
              /\ mutex = NoThread /\ mutex' = t /\ GoesTo(t, "merge_child")
           \/ /\ phase = "disabled" /\ phase' = "crashed"
              /\ UNCHANGED <<threads, mutex>>
    BY <1>1, <1>9, LockFacts
  <2>2. CASE phase' = phase /\ GoesTo(t, "merge_child")
    BY <1>1, <1>3, <1>4, <2>1, <2>2, WafStepConf
  <2>3. CASE phase = "disabled" /\ phase' = "crashed" /\ threads' = threads
    <3>1. OnItsWay(t) /\ SameButWaf(Conf(t)', Conf(t))
      BY <1>2, <2>1, <2>3, SameIsSame DEF Conf
    <3>2. OnItsWay(t)'
      BY <1>3, <2>1, <2>3, <3>1, WayKept
    <3>3. \A y \in ConfNames \ {t} : SameButWaf(confs'[y], confs[y])
      BY <2>1, SameIsSame
    <3>4. QED
      BY <1>1, <2>1, <2>3, <3>2, <3>3, StepConf
  <2>4. QED
    BY <2>1, <2>2, <2>3
<1>10. CASE TryMergeChild(t)
  <2>1. /\ threads[t].pc = "merge_child" /\ GoesTo(t, "cache") /\ OnlyWafs
        /\ UNCHANGED <<phase, text, pos, made, own, scfs, tracked>>
    BY <1>1, <1>10, TryMergeChildFacts
  <2>2. QED
    BY <1>1, <1>3, <1>4, <2>1, WafStepConf
<1>11. CASE TryCache(t)
  <2>1. /\ threads[t].pc = "cache" /\ (OnlyWafs \/ confs' = confs)
        /\ GoesTo(t, "unlock") \/ GoesTo(t, "build")
        /\ UNCHANGED <<phase, text, pos, made, own, scfs, tracked>>
    BY <1>1, <1>6, <1>11, TryCacheFacts
  <2>2. CASE GoesTo(t, "unlock")
    BY <1>1, <1>3, <1>4, <2>1, <2>2, WafStepConf
  <2>3. CASE GoesTo(t, "build")
    BY <1>1, <1>3, <1>4, <2>1, <2>3, WafStepConf
  <2>4. QED
    BY <2>1, <2>2, <2>3
<1>12. CASE BuildWaf(t)
  <2>1. /\ threads[t].pc = "build" /\ GoesTo(t, "store") /\ OnlyWafs
        /\ UNCHANGED <<phase, text, pos, made, own, scfs, tracked>>
    BY <1>1, <1>12, BuildWafFacts
  <2>2. QED
    BY <1>1, <1>3, <1>4, <2>1, WafStepConf
<1>13. CASE StoreWaf(t)
  <2>1. /\ threads[t].pc = "store" /\ GoesTo(t, "unlock") /\ OnlyWafs
        /\ UNCHANGED <<phase, text, pos, made, own, scfs, tracked>>
    BY <1>1, <1>6, <1>13, StoreWafFacts
  <2>2. QED
    BY <1>1, <1>3, <1>4, <2>1, WafStepConf
<1>14. CASE Unlock(t)
  <2>1. /\ threads[t].pc = "unlock" /\ GoesTo(t, "use")
        /\ UNCHANGED <<phase, text, pos, made, own, confs, scfs, tracked>>
    BY <1>1, <1>14, UnlockFacts DEF configVars
  <2>2. QED
    BY <1>1, <1>3, <1>4, <2>1, WafStepConf
<1>15. CASE UseWaf(t)
  <2>1. /\ threads[t].pc = "use" /\ GoesTo(t, "serving")
        /\ UNCHANGED <<phase, text, pos, made, own, confs, scfs, tracked>>
    BY <1>1, <1>15, UseWafFacts DEF configVars
  <2>2. QED
    BY <1>1, <1>3, <1>4, <2>1, WafStepConf
<1>16. CASE NoTransaction(t) \/ Finish(t)
  <2>1. /\ Moves(t, Idle) /\ Keeps(t)
        /\ UNCHANGED <<phase, text, pos, made, own, scfs, tracked>>
    BY <1>1, <1>16, EndFacts
  <2>2. QED
    BY <1>5, <2>1
<1>17. QED
  BY <1>7, <1>8, <1>9, <1>10, <1>11, <1>12, <1>13, <1>14, <1>15, <1>16 DEF Step

(* A step of the start-up after the configuration was read, or of the      *)
(* exit: no request is under way, and at most WAFs change.                 *)
LEMMA QuietConf ==
    ASSUME Inv, ConfInv, phase # "reading", phase' # "reading",
           phase = "refused" => phase' = "refused",
           UNCHANGED <<text, made, own>>, threads' = threads,
           \A t \in Threads : threads[t].pc = "idle",
           \A s \in Servers : scfs'[s].rules = scfs[s].rules,
           \A x \in Servers \cup Sections : SameButWaf(confs'[x], confs[x]),
           phase' \in {"checking", "loading", "servers", "dirs", "ready"} =>
             /\ phase \in {"checking", "loading", "servers", "dirs", "ready"}
             /\ tracked' = tracked
    PROVE  ConfInv'
<1>1. ReadInv' /\ ReadyInv' /\ TrackedInv'
  BY ConfKept
<1>2. ThreadInv'
  BY DEF ThreadInv
<1>3. QED
  BY <1>1, <1>2 DEF ConfInv

(* What the child builds for a server: a WAF of its rules, unless a build  *)
(* failed.                                                                 *)
ServerBuilt(s, c, base, waf) ==
    /\ s = ServerList[loop] /\ c = ServerConf(s) /\ base = Defaults(s)
    /\ s \in Servers /\ c \in Servers /\ base \in Servers /\ loop \in 1 .. Len(ServerList)
    /\ OnlyWafs /\ Keeps(base)
    /\ confs'[base].waf = IF confs[base].waf = NoWaf THEN waf ELSE confs[base].waf
    /\ scfs'[c].waf = waf /\ \A r \in Servers \ {c} : scfs'[r] = scfs[r]
    /\ \A r \in Servers : scfs'[r].rules = scfs[r].rules
    /\ \A h \in 1 .. Len(built) : h \in 1 .. Len(built') /\ built'[h] = built[h]
    /\ \/ failures' = failures + 1
       \/ /\ failures' = failures /\ waf # NoWaf /\ waf \in 1 .. Len(built')
          /\ built'[waf].rules = scfs[c].rules

(* A WAF that is new.                                                      *)
LEMMA NewWafFacts ==
    ASSUME TypeInv, NEW rules \in Seq(STRING), NEW by \in {"child_init", "request"},
           coraza_new_waf(rules, by)
    PROVE  /\ failures' = failures /\ NewWaf # NoWaf /\ NewWaf \in 1 .. Len(built')
           /\ built'[NewWaf].rules = rules
           /\ \A h \in 1 .. Len(built) : h \in 1 .. Len(built') /\ built'[h] = built[h]
<1> DEFINE S == [rules : Seq(STRING), by : {"child_init", "request"}]
           e == [rules |-> rules, by |-> by]
           n == Len(built)
<1>1. built \in Seq(S) /\ e \in S
  BY DEF TypeInv, ChildTypes
<1>2. built' = Append(built, e) /\ failures' = failures /\ e.rules = rules
  BY DEF coraza_new_waf
<1> HIDE DEF S, e
<1>3. /\ n \in Nat /\ Len(Append(built, e)) = n + 1 /\ Append(built, e)[n + 1] = e
      /\ \A h \in 1 .. n : Append(built, e)[h] = built[h]
  BY <1>1
<1> HIDE DEF n
<1>4. n + 1 # 0 /\ n + 1 \in 1 .. (n + 1) /\ \A h \in 1 .. n : h \in 1 .. (n + 1)
  BY <1>3
<1>5. QED
  BY <1>2, <1>3, <1>4 DEF NewWaf, NoWaf, n

(* coraza_child_init on a server: the WAF it compiles and who gets it.     *)
LEMMA BuildServerFacts ==
    ASSUME TypeInv, BuildServerWaf, UNCHANGED storeVars
    PROVE  \E s, c, base, waf : ServerBuilt(s, c, base, waf)
<1> DEFINE s == ServerList[loop]
           c == ServerConf(s)
           base == Defaults(s)
<1>1. s \in Servers /\ c \in Servers /\ base \in Servers /\ loop \in 1 .. Len(ServerList)
  <2>1. loop \in 1 .. Len(ServerList)
    BY NameFacts DEF TypeInv, ChildTypes, BuildServerWaf
  <2>2. s \in Servers
    BY <2>1, NameFacts
  <2>3. QED
    BY <2>1, <2>2, ServerFacts
<1>2. PICK waf \in {NoWaf, NewWaf, scfs[c].waf} :
        /\ IF scfs[c].rules # <<>>
           THEN coraza_build_waf(scfs[c].rules, "child_init", waf)
           ELSE EmptyWaf(scfs[c].waf, waf)
        /\ scfs' = [scfs EXCEPT ![c].waf = waf]
        /\ confs' = [confs EXCEPT ![base].waf = IF @ = NoWaf THEN waf ELSE @]
  BY DEF BuildServerWaf
<1> HIDE DEF s, c, base
<1>3. /\ confs \in [ConfNames -> Rs] /\ base \in ConfNames
      /\ scfs \in [Servers -> ServerConfs] /\ scfs[c].rules \in Seq(STRING)
  BY <1>1, StateFacts DEF TypeInv, ConfigTypes, ConfNames, ServerConfs
<1>4. /\ OnlyWafs /\ Keeps(base)
      /\ confs'[base].waf = IF confs[base].waf = NoWaf THEN waf ELSE confs[base].waf
  <2> DEFINE w == IF confs[base].waf = NoWaf THEN waf ELSE confs[base].waf
  <2>1. confs' = [confs EXCEPT ![base].waf = w]
    BY <1>2, <1>3
  <2> HIDE DEF w
  <2>2. OnlyWafs /\ Keeps(base) /\ confs'[base].waf = w
    BY <1>3, <2>1, OneWaf DEF OnlyWafs, Keeps
  <2>3. QED
    BY <2>2 DEF w
<1>5. /\ scfs'[c].waf = waf
      /\ \A r \in Servers \ {c} : scfs'[r] = scfs[r]
      /\ \A r \in Servers : scfs'[r].rules = scfs[r].rules
  BY <1>1, <1>2, <1>3 DEF ServerConfs
<1>6. /\ \A h \in 1 .. Len(built) : h \in 1 .. Len(built') /\ built'[h] = built[h]
      /\ \/ failures' = failures + 1
         \/ /\ failures' = failures /\ waf # NoWaf /\ waf \in 1 .. Len(built')
            /\ built'[waf].rules = scfs[c].rules
  <2>1. CASE BuildFails
    BY <2>1 DEF BuildFails
  <2>2. CASE waf = NewWaf /\ coraza_new_waf(scfs[c].rules, "child_init")
    BY <1>3, <2>2, NewWafFacts
  <2>3. QED
    BY <1>2, <2>1, <2>2 DEF coraza_build_waf, EmptyWaf
<1>7. QED
  BY <1>1, <1>4, <1>5, <1>6 DEF ServerBuilt, s, c, base

(* What the child builds for a tracked virtual host.                       *)
DirBuilt(x) ==
    /\ x = tracked[loop] /\ x \in ConfNames /\ loop \in 1 .. Len(tracked)
    /\ OnlyWafs /\ Keeps(x)
    /\ \A h \in 1 .. Len(built) : h \in 1 .. Len(built') /\ built'[h] = built[h]
    /\ \/ failures' = failures + 1
       \/ failures' = failures /\ confs'[x].waf = confs[x].waf /\ ~HasRules(confs[x])
       \/ /\ failures' = failures
          /\ \E j \in 1 .. (loop - 1) :
               /\ confs[tracked[j]].array = confs[x].array
               /\ confs[tracked[j]].waf # NoWaf
               /\ confs'[x].waf = confs[tracked[j]].waf
       \/ /\ failures' = failures
          /\ confs'[x].waf # NoWaf /\ confs'[x].waf \in 1 .. Len(built')
          /\ built'[confs'[x].waf].rules = confs[x].rules

(* coraza_child_init on a tracked section: the WAF it compiles.            *)
LEMMA BuildDirFacts ==
    ASSUME TypeInv, BuildDirWaf, UNCHANGED storeVars
    PROVE  DirBuilt(tracked[loop])
<1> DEFINE x == tracked[loop]
<1>1. confs \in [ConfNames -> Rs]
  BY StateFacts
<1>2. x \in ConfNames /\ loop \in 1 .. Len(tracked)
  <2>1. tracked \in Seq(ConfNames) /\ loop \in Nat \ {0} /\ loop <= Len(tracked)
    BY StateFacts DEF TypeInv, ChildTypes, BuildDirWaf
  <2>2. QED
    BY <2>1
<1>3. confs[x].rules \in Seq(STRING) /\ loop \in Nat
  BY <1>1, <1>2 DEF ConfRecs, Rs
<1>4. \/ ~HasRules(confs[x]) /\ UNCHANGED <<confs, built, failures>>
      \/ /\ SameArray # {}
         /\ confs' = [confs EXCEPT ![x].waf = confs[tracked[Min(SameArray)]].waf]
         /\ UNCHANGED <<built, failures>>
      \/ \E waf \in {NoWaf, NewWaf} :
           /\ coraza_build_waf(confs[x].rules, "child_init", waf)
           /\ confs' = [confs EXCEPT ![x].waf = waf]
  BY DEF BuildDirWaf
<1>5. ASSUME SameArray # {}
      PROVE  \E j \in 1 .. (loop - 1) :
               /\ j = Min(SameArray) /\ confs[tracked[j]].array = confs[x].array
               /\ confs[tracked[j]].waf # NoWaf
  <2>1. SameArray \in SUBSET Nat /\ SameArray \subseteq 1 .. (loop - 1)
    BY <1>3 DEF SameArray
  <2>2. Min(SameArray) \in SameArray
    BY <1>5, <2>1, MinIsMin
  <2>3. QED
    BY <2>2 DEF SameArray
<1> HIDE DEF x
<1>6. ASSUME NEW w, confs' = [confs EXCEPT ![x].waf = w]
      PROVE  OnlyWafs /\ Keeps(x) /\ confs'[x].waf = w
  BY <1>1, <1>2, <1>6, OneWaf DEF OnlyWafs, Keeps
<1>7. CASE ~HasRules(confs[x]) /\ UNCHANGED <<confs, built, failures>>
  BY <1>2, <1>7 DEF DirBuilt, OnlyWafs, Keeps, x
<1>8. CASE /\ SameArray # {}
           /\ confs' = [confs EXCEPT ![x].waf = confs[tracked[Min(SameArray)]].waf]
           /\ UNCHANGED <<built, failures>>
  <2>1. PICK j \in 1 .. (loop - 1) :
               /\ j = Min(SameArray) /\ confs[tracked[j]].array = confs[x].array
               /\ confs[tracked[j]].waf # NoWaf
    BY <1>5, <1>8
  <2>2. OnlyWafs /\ Keeps(x) /\ confs'[x].waf = confs[tracked[j]].waf
    BY <1>6, <1>8, <2>1
  <2>3. QED
    BY <1>2, <1>8, <2>1, <2>2 DEF DirBuilt, x
<1>9. ASSUME NEW waf \in {NoWaf, NewWaf},
             coraza_build_waf(confs[x].rules, "child_init", waf),
             confs' = [confs EXCEPT ![x].waf = waf]
      PROVE  DirBuilt(x)
  <2>1. OnlyWafs /\ Keeps(x) /\ confs'[x].waf = waf
    BY <1>6, <1>9
  <2>2. CASE BuildFails
    BY <1>2, <2>1, <2>2 DEF BuildFails, DirBuilt, x
  <2>3. CASE waf = NewWaf /\ coraza_new_waf(confs[x].rules, "child_init")
    <3>1. /\ failures' = failures /\ NewWaf # NoWaf /\ NewWaf \in 1 .. Len(built')
          /\ built'[NewWaf].rules = confs[x].rules
          /\ \A h \in 1 .. Len(built) : h \in 1 .. Len(built') /\ built'[h] = built[h]
      BY <1>3, <2>3, NewWafFacts
    <3>2. QED
      BY <1>2, <2>1, <2>3, <3>1 DEF DirBuilt, x
  <2>4. QED
    BY <1>9, <2>2, <2>3 DEF coraza_build_waf
<1>10. QED
  BY <1>4, <1>7, <1>8, <1>9 DEF x

LEMMA ChildConf ==
    ASSUME Inv, ConfInv, UNCHANGED storeVars,
           \/ coraza_check_config /\ UNCHANGED childVars
           \/ coraza_child_init
           \/ coraza_child_exit /\ \A t \in Threads : threads[t].pc = "idle"
           \/ DisabledExit /\ \A t \in Threads : threads[t].pc = "idle"
    PROVE  ConfInv'
<1>1. TypeInv /\ threads' = threads
  BY DEF Inv, storeVars
<1>2. phase \notin {"ready", "disabled", "crashed"} => \A t \in Threads : threads[t].pc = "idle"
  BY DEF Inv, LifeInv
<1>3. CASE coraza_check_config \/ coraza_dl_open \/ ChildReady
  <2>1. /\ phase \in {"checking", "loading", "dirs"}
        /\ phase' \in {"refused", "loading", "servers", "disabled", "ready"}
        /\ UNCHANGED <<text, made, own, confs, scfs, tracked>>
    BY <1>3 DEF coraza_check_config, coraza_dl_open, ChildReady
  <2>2. \A x \in Servers \cup Sections : SameButWaf(confs'[x], confs[x])
    BY <2>1, SameIsSame
  <2>3. \A s \in Servers : scfs'[s].rules = scfs[s].rules
    BY <2>1
  <2>4. QED
    BY <1>1, <1>2, <2>1, <2>2, <2>3, QuietConf
<1>4. CASE DisabledExit /\ \A t \in Threads : threads[t].pc = "idle"
  <2>1. /\ phase = "disabled" /\ phase' = "exited"
        /\ UNCHANGED <<text, made, own, confs, scfs, tracked>>
    BY <1>4 DEF DisabledExit
  <2>2. \A x \in Servers \cup Sections : SameButWaf(confs'[x], confs[x])
    BY <2>1, SameIsSame
  <2>3. \A s \in Servers : scfs'[s].rules = scfs[s].rules
    BY <2>1
  <2>4. QED
    BY <1>1, <1>4, <2>1, <2>2, <2>3, QuietConf
<1>5. ASSUME OnlyWafs PROVE \A x \in Servers \cup Sections : SameButWaf(confs'[x], confs[x])
  BY <1>5 DEF OnlyWafs, SameButWaf, ConfNames
<1>6. CASE BuildServerWaf
  <2>1. OnlyWafs /\ \A s \in Servers : scfs'[s].rules = scfs[s].rules
    BY <1>1, <1>6, BuildServerFacts DEF ServerBuilt
  <2>2. /\ phase = "servers" /\ phase' \in {"servers", "dirs"}
        /\ UNCHANGED <<text, made, own, tracked>>
    BY <1>6 DEF BuildServerWaf
  <2>3. QED
    BY <1>1, <1>2, <1>5, <2>1, <2>2, QuietConf
<1>7. CASE BuildDirWaf
  <2>1. OnlyWafs
    BY <1>1, <1>7, BuildDirFacts DEF DirBuilt
  <2>2. /\ phase = "dirs" /\ phase' = "dirs"
        /\ UNCHANGED <<text, made, own, scfs, tracked>>
    BY <1>7 DEF BuildDirWaf
  <2>3. QED
    BY <1>1, <1>2, <1>5, <2>1, <2>2, QuietConf
<1>8. CASE coraza_child_exit /\ \A t \in Threads : threads[t].pc = "idle"
  <2>1. /\ phase = "ready" /\ phase' = "exited"
        /\ UNCHANGED <<text, made, own, tracked>>
        /\ confs' = [x \in DOMAIN confs |->
             IF x \in ToSet(tracked) THEN [confs[x] EXCEPT !.waf = NoWaf] ELSE confs[x]]
        /\ scfs' = [s \in Servers |-> [scfs[s] EXCEPT !.waf = NoWaf]]
    BY <1>8 DEF coraza_child_exit
  <2>2. confs \in [ConfNames -> Rs] /\ scfs \in [Servers -> ServerConfs]
    BY <1>1, StateFacts DEF TypeInv, ConfigTypes
  <2>3. \A s \in Servers : scfs'[s].rules = scfs[s].rules
    BY <2>1, <2>2 DEF ServerConfs
  <2>4. ASSUME NEW x \in Servers \cup Sections PROVE SameButWaf(confs'[x], confs[x])
    <3>1. x \in ConfNames /\ confs[x] \in Rs
      BY <2>2 DEF ConfNames
    <3>2. confs'[x] = confs[x] \/ confs'[x] = [confs[x] EXCEPT !.waf = NoWaf]
      BY <2>1, <2>2, <3>1
    <3>3. SameButWaf([confs[x] EXCEPT !.waf = NoWaf], confs[x])
      BY <3>1 DEF SameButWaf, Rs, ConfRecs
    <3>4. QED
      BY <3>2, <3>3, SameIsSame
  <2>5. QED
    BY <1>1, <1>8, <2>1, <2>3, <2>4, QuietConf
<1>9. QED
  BY <1>3, <1>4, <1>6, <1>7, <1>8 DEF coraza_child_init

LEMMA StutterConf ==
    ASSUME ConfInv, UNCHANGED vars
    PROVE  ConfInv'
<1> USE DEF vars, configVars, childVars, storeVars
<1>1. ReadInv' /\ TrackedInv'
  BY DEF ConfInv, ReadInv, TrackedInv
<1>2. ReadyInv'
  BY DEF ConfInv, ReadyInv, SectionPart, ServerPart, Defaults
<1>3. ASSUME NEW t \in Threads, threads'[t].pc # "idle" PROVE OnItsWay(t)'
  BY <1>3, SameIsSame, WayKept DEF ConfInv, ThreadInv, OnItsWay, Conf
<1>4. QED
  BY <1>1, <1>2, <1>3 DEF ConfInv, ThreadInv

(* Every step of the child keeps ConfInv.                                  *)
LEMMA ConfStep ==
    ASSUME Inv, ConfInv, [Next]_vars
    PROVE  ConfInv'
<1>1. CASE ReadConfig /\ UNCHANGED <<childVars, storeVars>>
  BY <1>1, ReadDirectiveConf, FixupConf, ChildConf DEF ReadConfig
<1>2. CASE coraza_child_init /\ UNCHANGED storeVars
  BY <1>2, ChildConf
<1>3. ASSUME NEW t \in Threads, Start(t) \/ Step(t) PROVE ConfInv'
  BY <1>3, StartConf, StepsConf
<1>4. CASE Exit
  BY <1>4, ChildConf DEF Exit
<1>5. CASE Gone \/ UNCHANGED vars
  BY <1>5, StutterConf DEF Gone
<1>6. QED
  BY <1>1, <1>2, <1>3, <1>4, <1>5 DEF Next, Startup

(* The configurations hold what the text of the configuration says.        *)
THEOREM ConfInvariance == Spec => []ConfInv
<1>1. Init => ConfInv
  BY ConfInit
<1>2. Inv /\ ConfInv /\ [Next]_vars => ConfInv'
  BY ConfStep
<1>3. QED
  BY <1>1, <1>2, StoreInvariance, PTL DEF Spec

(* A request that has merged all its sections is subject to the innermost  *)
(* setting of every directive and to the rules of all its scopes,          *)
(* outermost first: what coraza_merge_dir_conf, the virtual hosts' merge   *)
(* and the configurations httpd shares give it is what the text of the     *)
(* configuration and of the .htaccess files says.                          *)
THEOREM EffectiveConfigHolds == Spec => []EffectiveConfig
<1>1. ASSUME ConfInv, Inv PROVE EffectiveConfig
  <2>1. ASSUME NEW t \in Threads, threads[t].pc \in {"lock", "use", "serving"}
        PROVE  /\ Conf(t).enable = Setting(text, Requested(t), "enable")
               /\ Conf(t).transaction_id = Setting(text, Requested(t), "transaction_id")
               /\ Conf(t).body_mem_limit = Setting(text, Requested(t), "body_mem_limit")
               /\ Conf(t).rules = RulesAlong(text, Requested(t))
    <3> DEFINE u == threads[t].url
               n == Len(Scopes(u))
    <3>1. OnItsWay(t) /\ threads[t].pc # "merging" /\ text \in Texts
      BY <1>1, <2>1 DEF ConfInv, ThreadInv, Inv, TypeInv, ConfigTypes
    <3>2. u \in Urls /\ threads[t].todo = <<>> /\ Conforms(Conf(t), text, u, Done(t))
      BY <3>1 DEF OnItsWay
    <3>3. n \in Nat
      BY <3>2, ScopesBase
    <3>4. Done(t) = n
      BY <3>2, <3>3 DEF Done
    <3>5. Conforms(Conf(t), text, u, n)
      BY <3>2, <3>4
    <3>6. \A cmd \in SettingCmds : SettingTo(text, u, cmd, n) = Setting(text, u, cmd)
      BY <3>1, <3>2, <3>5, SettingEnd DEF Conforms
    <3>7. QED
      BY <3>5, <3>6 DEF Conforms, SettingCmds, RulesAlong, Requested
  <2>2. QED
    BY <2>1 DEF EffectiveConfig
<1>2. QED
  BY <1>1, ConfInvariance, StoreInvariance, PTL

---------------------------------------------------------------------------
(* The rules of a scope: where a WAF that a request may run on comes from. *)

(* Of the first n scopes of a URL the k-th is the last one with rules, 0   *)
(* when none has any.                                                      *)
Origin(ds, u, n, k) ==
    /\ k \in 0 .. n
    /\ \A j \in (k + 1) .. n : RulesOf(ds, Scopes(u)[j]) = <<>>
    /\ RulesAround(ds, u)[n] = RulesAround(ds, u)[k]
    /\ k # 0 => RulesOf(ds, Scopes(u)[k]) # <<>>

(* The rules of the scope x, with those around it on the way of some URL.  *)
FromScope(ds, rules, x) ==
    \E v \in Urls : \E m \in 1 .. Len(Scopes(v)) :
      Scopes(v)[m] = x /\ rules = RulesAround(ds, v)[m]

(* Rules a request may run on: they end with those of its innermost scope  *)
(* that has any.                                                           *)
Sound(ds, rules, u, n) ==
    \E k \in 0 .. n :
      /\ Origin(ds, u, n, k)
      /\ IF k = 0 THEN rules = <<>> ELSE FromScope(ds, rules, Scopes(u)[k])

(* Of no scope at all none has rules.                                      *)
LEMMA OriginStart ==
    ASSUME NEW ds \in Texts, NEW u \in Urls
    PROVE  Origin(ds, u, 0, 0)
<1>1. \A j \in (0 + 1) .. 0 : FALSE
  BY SMT
<1>2. QED
  BY <1>1 DEF Origin

(* One scope more, without rules and with rules.                           *)
LEMMA OriginSkip ==
    ASSUME NEW ds \in Texts, NEW u \in Urls, NEW n \in 1 .. Len(Scopes(u)), NEW k,
           Origin(ds, u, n - 1, k), RulesOf(ds, Scopes(u)[n]) = <<>>
    PROVE  Origin(ds, u, n, k)
<1>1. n \in Nat \ {0} /\ n - 1 \in 0 .. Len(Scopes(u)) /\ k \in 0 .. (n - 1)
  BY ScopesFacts DEF Origin
<1>2. k \in 0 .. n /\ \A j \in (k + 1) .. n : j \in (k + 1) .. (n - 1) \/ j = n
  BY <1>1
<1>3. RulesAround(ds, u)[n] = RulesAround(ds, u)[n - 1]
  <2>1. RulesAround(ds, u)[n] = RulesAround(ds, u)[n - 1] \o <<>>
    BY RulesAroundFacts
  <2>2. RulesAround(ds, u)[n - 1] \in Seq(STRING)
    BY <1>1, RulesAroundFacts
  <2>3. QED
    BY <2>1, <2>2, EmptyConcat
<1>4. QED
  BY <1>2, <1>3 DEF Origin

(* A scope with rules is the last with rules up to itself.                 *)
LEMMA OriginNew ==
    ASSUME NEW ds \in Texts, NEW u \in Urls, NEW n \in 1 .. Len(Scopes(u)),
           RulesOf(ds, Scopes(u)[n]) # <<>>
    PROVE  Origin(ds, u, n, n)
<1>1. n \in 0 .. n /\ \A j \in (n + 1) .. n : FALSE
  BY ScopesFacts
<1>2. QED
  BY <1>1 DEF Origin

(* A URL's own rules are sound.                                            *)
LEMMA SoundAround ==
    ASSUME NEW ds \in Texts, NEW u \in Urls, NEW n \in 0 .. Len(Scopes(u)), NEW k,
           Origin(ds, u, n, k)
    PROVE  /\ Sound(ds, RulesAround(ds, u)[n], u, n)
           /\ k # 0 => FromScope(ds, RulesAround(ds, u)[n], Scopes(u)[k])
<1>1. k \in 0 .. n /\ RulesAround(ds, u)[n] = RulesAround(ds, u)[k]
  BY DEF Origin
<1>2. CASE k = 0
  BY <1>1, <1>2, RulesAroundFacts DEF Sound
<1>3. CASE k # 0
  <2>1. k \in 1 .. Len(Scopes(u))
    BY <1>1, <1>3, ScopesFacts
  <2>2. FromScope(ds, RulesAround(ds, u)[n], Scopes(u)[k])
    BY <1>1, <2>1 DEF FromScope
  <2>3. QED
    BY <1>1, <1>3, <2>2 DEF Sound
<1>4. QED
  BY <1>2, <1>3

(* A scope without rules changes nothing for the URL.                      *)
LEMMA SoundSkip ==
    ASSUME NEW ds \in Texts, NEW u \in Urls, NEW n \in 1 .. Len(Scopes(u)), NEW rules,
           Sound(ds, rules, u, n - 1), RulesOf(ds, Scopes(u)[n]) = <<>>
    PROVE  Sound(ds, rules, u, n)
<1>1. PICK k \in 0 .. (n - 1) :
        /\ Origin(ds, u, n - 1, k)
        /\ IF k = 0 THEN rules = <<>> ELSE FromScope(ds, rules, Scopes(u)[k])
  BY DEF Sound
<1>2. Origin(ds, u, n, k)
  BY <1>1, OriginSkip
<1>3. k \in 0 .. n
  BY <1>2 DEF Origin
<1>4. QED
  BY <1>1, <1>2, <1>3 DEF Sound

(* Rules that come from the last scope with rules may serve the URL.       *)
LEMMA SoundFrom ==
    ASSUME NEW ds, NEW u, NEW n, NEW k, Origin(ds, u, n, k), k # 0, NEW rules,
           FromScope(ds, rules, Scopes(u)[k])
    PROVE  Sound(ds, rules, u, n)
BY DEF Sound, Origin

(* A sequence ends with what was appended to it.                           *)
LEMMA ConcatSuffix ==
    ASSUME NEW S, NEW p \in Seq(S), NEW q \in Seq(S)
    PROVE  IsSuffix(q, p \o q)
<1> DEFINE a == Len(p)
           b == Len(q)
           pq == p \o q
           x == Reverse(q)
           y == Reverse(pq)
<1>1. /\ a \in Nat /\ b \in Nat /\ Len(pq) = a + b /\ pq \in Seq(S)
      /\ \A i \in 1 .. b : pq[a + i] = q[i]
  OBVIOUS
<1>2. /\ x = [i \in 1 .. b |-> q[(b - i) + 1]]
      /\ y = [i \in 1 .. (a + b) |-> pq[((a + b) - i) + 1]]
  BY <1>1 DEF Reverse
<1>3. \A i \in 1 .. b : q[i] \in S
  OBVIOUS
<1>4. \A i \in 1 .. (a + b) : pq[i] \in S
  BY <1>1
<1> HIDE DEF a, b, pq, x, y
<1>5. \A i \in 1 .. b : (b - i) + 1 \in 1 .. b
  BY <1>1
<1>6. \A i \in 1 .. (a + b) : ((a + b) - i) + 1 \in 1 .. (a + b)
  BY <1>1
<1>7. x \in Seq(S) /\ Len(x) = b
  BY <1>1, <1>2, <1>3, <1>5
<1>8. y \in Seq(S) /\ Len(y) = a + b
  BY <1>1, <1>2, <1>4, <1>6
<1>9. \A i \in 1 .. b : x[i] = y[i]
  <2> SUFFICES ASSUME NEW i \in 1 .. b PROVE x[i] = y[i]
    OBVIOUS
  <2>1. i \in 1 .. (a + b) /\ ((a + b) - i) + 1 = a + ((b - i) + 1) /\ (b - i) + 1 \in 1 .. b
    BY <1>1
  <2>2. y[i] = pq[a + ((b - i) + 1)] /\ x[i] = q[(b - i) + 1]
    BY <1>2, <2>1
  <2>3. QED
    BY <1>1, <2>1, <2>2
<1>10. SubSeq(x, 1, b) = SubSeq(y, 1, b)
  <2>1. SubSeq(x, 1, b) = [i \in 1 .. b |-> x[i]]
    BY <1>1, <1>7
  <2>2. SubSeq(y, 1, b) = [i \in 1 .. b |-> y[i]]
    BY <1>1, <1>8
  <2>3. QED
    BY <1>9, <2>1, <2>2
<1>11. b <= a + b
  BY <1>1
<1>12. QED
  BY <1>7, <1>8, <1>10, <1>11 DEF IsSuffix, IsPrefix, x, y, pq

(* All scopes merged, sound rules end with the URL's own...                *)
LEMMA SoundSuffix ==
    ASSUME NEW ds \in Texts, NEW u \in Urls, NEW rules, Sound(ds, rules, u, Len(Scopes(u)))
    PROVE  IsSuffix(OwnRules(ds, u), rules)
<1> DEFINE n == Len(Scopes(u))
           inner == {j \in 1 .. n : RulesOf(ds, Scopes(u)[j]) # <<>>}
<1>1. n \in Nat /\ DOMAIN Scopes(u) = 1 .. n
  BY ScopesFacts
<1>2. OwnRules(ds, u) = IF inner = {} THEN <<>> ELSE RulesOf(ds, Scopes(u)[Max(inner)])
  BY <1>1 DEF OwnRules
<1>3. PICK k \in 0 .. n :
        /\ Origin(ds, u, n, k)
        /\ IF k = 0 THEN rules = <<>> ELSE FromScope(ds, rules, Scopes(u)[k])
  BY DEF Sound
<1>4. /\ \A j \in (k + 1) .. n : RulesOf(ds, Scopes(u)[j]) = <<>>
      /\ k # 0 => RulesOf(ds, Scopes(u)[k]) # <<>>
  BY <1>3 DEF Origin
<1> HIDE DEF n
<1>5. CASE k = 0
  <2>1. \A j \in 1 .. n : j \in (k + 1) .. n
    BY <1>1, <1>5
  <2>2. inner = {}
    BY <1>4, <2>1
  <2>3. OwnRules(ds, u) = <<>> /\ rules = <<>>
    BY <1>2, <1>3, <1>5, <2>2
  <2>4. <<>> \o <<>> = <<>> /\ <<>> \in Seq(STRING)
    BY EmptySeq, EmptyConcat
  <2>5. IsSuffix(<<>>, <<>> \o <<>>)
    BY <2>4, ConcatSuffix
  <2>6. QED
    BY <2>3, <2>4, <2>5
<1>6. CASE k # 0
  <2>1. k \in inner
    BY <1>1, <1>4, <1>6
  <2>2. \A j \in inner : j <= k
    BY <1>1, <1>4
  <2>3. inner \in SUBSET (1 .. n)
    OBVIOUS
  <2>4. Max(inner) = k
    <3>1. Max(inner) \in inner /\ \A j \in inner : j <= Max(inner)
      BY <1>1, <2>1, <2>3, MaxIsMax
    <3>2. Max(inner) \in 1 .. n /\ k \in 1 .. n /\ k <= Max(inner) /\ Max(inner) <= k
      BY <2>1, <2>2, <3>1
    <3>3. QED
      BY <1>1, <3>2
  <2>5. OwnRules(ds, u) = RulesOf(ds, Scopes(u)[k])
    BY <1>2, <2>1, <2>4
  <2>6. PICK v \in Urls : \E m \in 1 .. Len(Scopes(v)) :
          Scopes(v)[m] = Scopes(u)[k] /\ rules = RulesAround(ds, v)[m]
    BY <1>3, <1>6 DEF FromScope
  <2>7. PICK m \in 1 .. Len(Scopes(v)) :
          Scopes(v)[m] = Scopes(u)[k] /\ rules = RulesAround(ds, v)[m]
    BY <2>6
  <2>8. m - 1 \in 0 .. Len(Scopes(v))
    BY ScopesFacts
  <2>9. rules = RulesAround(ds, v)[m - 1] \o RulesOf(ds, Scopes(u)[k])
    BY <2>7, RulesAroundFacts
  <2>10. RulesAround(ds, v)[m - 1] \in Seq(STRING) /\ RulesOf(ds, Scopes(u)[k]) \in Seq(STRING)
    BY <2>8, RulesAroundFacts, RulesOfType
  <2>11. QED
    BY <2>5, <2>9, <2>10, ConcatSuffix
<1>7. QED
  BY <1>5, <1>6

(* ...and are all its rules where a section is always reached with the     *)
(* same rules around it.                                                   *)
LEMMA SoundAlong ==
    ASSUME NEW ds \in Texts, NEW u \in Urls, NEW rules, Sound(ds, rules, u, Len(Scopes(u))),
           OneContextPerSection(ds)
    PROVE  rules = RulesAlong(ds, u)
<1> DEFINE n == Len(Scopes(u))
<1>1. n \in Nat /\ DOMAIN Scopes(u) = 1 .. n
  BY ScopesFacts
<1>2. PICK k \in 0 .. n :
        /\ Origin(ds, u, n, k)
        /\ IF k = 0 THEN rules = <<>> ELSE FromScope(ds, rules, Scopes(u)[k])
  BY DEF Sound
<1>3. RulesAlong(ds, u) = RulesAround(ds, u)[k]
  BY <1>2 DEF RulesAlong, Origin
<1>4. CASE k = 0
  BY <1>2, <1>3, <1>4, RulesAroundFacts
<1>5. CASE k # 0
  <2>1. k \in 1 .. n /\ RulesOf(ds, Scopes(u)[k]) # <<>>
    BY <1>1, <1>2, <1>5 DEF Origin
  <2>2. PICK v \in Urls : \E m \in 1 .. Len(Scopes(v)) :
          Scopes(v)[m] = Scopes(u)[k] /\ rules = RulesAround(ds, v)[m]
    BY <1>2, <1>5 DEF FromScope
  <2>3. PICK m \in 1 .. Len(Scopes(v)) :
          Scopes(v)[m] = Scopes(u)[k] /\ rules = RulesAround(ds, v)[m]
    BY <2>2
  <2>4. k \in DOMAIN Scopes(u) /\ m \in DOMAIN Scopes(v)
    BY <2>1, ScopesFacts
  <2>5. RulesAround(ds, u)[k - 1] = RulesAround(ds, v)[m - 1]
    BY <2>1, <2>3, <2>4 DEF OneContextPerSection
  <2>6. RulesAround(ds, u)[k] = RulesAround(ds, u)[k - 1] \o RulesOf(ds, Scopes(u)[k])
    BY <2>1, RulesAroundFacts
  <2>7. RulesAround(ds, v)[m] = RulesAround(ds, v)[m - 1] \o RulesOf(ds, Scopes(v)[m])
    BY RulesAroundFacts
  <2>8. QED
    BY <1>3, <2>3, <2>5, <2>6, <2>7
<1>6. QED
  BY <1>4, <1>5

---------------------------------------------------------------------------
(* Every WAF is compiled from rules its users may run on: the third        *)
(* invariant, of a child where every build has succeeded.                  *)

Depth(r) == Len(Scopes(r.url)) - Len(r.todo)

(* What holds of the request r of thread t, with the configuration c: its  *)
(* WAF, and the section that shares it, are of its innermost scope.        *)
Enforcing(ds, bs, c, r, t) ==
    /\ \E k : Origin(ds, r.url, Depth(r), k)
    /\ c.waf # NoWaf => Sound(ds, bs[c.waf].rules, r.url, Depth(r))
    /\ c.merge_child # NoConf =>
         \E k : /\ Origin(ds, r.url, Depth(r), k) /\ k # 0
                /\ Scopes(r.url)[k] = c.merge_child
    /\ r.pc \in {"lock", "merge_child", "cache", "build", "store"} => r.dcf = t
    /\ r.pc = "store" => c.waf # NoWaf /\ bs[c.waf].rules = c.rules
    /\ r.pc = "unlock" => c.waf # NoWaf
    /\ r.pc = "use" => c.waf # NoWaf \/ c.rules = <<>>
    /\ r.pc = "serving" =>
         /\ r.waf \in 1 .. Len(bs) /\ Sound(ds, bs[r.waf].rules, r.url, Depth(r))

Compiled(w) == built[w].rules

ServersBuilt ==
    /\ \A s \in Servers : scfs[s].waf # NoWaf => Compiled(scfs[s].waf) = RulesOf(text, s)
    /\ \A x \in Sections : confs[x].waf = NoWaf

(* While the servers' WAFs are built: the main server's is the first.      *)
ServersInv ==
    phase = "servers" =>
      /\ ServersBuilt
      /\ \A i \in 1 .. (loop - 1) :
           /\ scfs[ServerConf(ServerList[i])].waf # NoWaf
           /\ confs[Defaults(ServerList[i])].waf # NoWaf
      /\ \A s \in Servers \cap made :
           confs[s].waf # NoWaf => Compiled(confs[s].waf) = RulesOf(text, s)

(* While those of the virtual hosts' merged rules are.                     *)
DirsInv ==
    phase = "dirs" =>
      /\ ServersBuilt
      /\ \A s \in Servers : scfs[ServerConf(s)].waf # NoWaf
      /\ \A s \in Servers \cap made :
           /\ confs[s].waf # NoWaf
           /\ Compiled(confs[s].waf) \in {RulesOf(text, s), confs[s].rules}
      /\ \A j \in 1 .. (loop - 1) : j \in 1 .. Len(tracked) =>
           Compiled(confs[tracked[j]].waf) = confs[tracked[j]].rules

ServingInv ==
    phase = "ready" =>
      /\ \A s \in Servers :
           /\ scfs[ServerConf(s)].waf # NoWaf
           /\ scfs[s].waf # NoWaf => Compiled(scfs[s].waf) = RulesOf(text, s)
      /\ \A s \in Servers \cap made :
           confs[s].waf # NoWaf /\ Compiled(confs[s].waf) = confs[s].rules
      /\ \A x \in Sections :
           confs[x].waf # NoWaf => FromScope(text, Compiled(confs[x].waf), x)
      /\ \A t \in Threads :
           threads[t].pc # "idle" => Enforcing(text, built, Conf(t), threads[t], t)

EnforceInv ==
    /\ failures \in Nat
    /\ phase \in {"reading", "checking", "loading"} => loop = 1
    /\ failures = 0 => ServersInv /\ DirsInv /\ ServingInv

LEMMA EnforceInit ==
    ASSUME Init
    PROVE  EnforceInv
BY DEF Init, ConfigInit, ChildInit, EnforceInv, ServersInv, DirsInv, ServingInv

(* No build fails in a step after which none has.                          *)
LEMMA NoFailure ==
    ASSUME failures \in Nat, failures' = failures \/ failures' = failures + 1
    PROVE  failures' \in Nat /\ (failures' = 0 => failures = 0 /\ failures' = failures)
OBVIOUS

(* What a WAF was compiled from does not change.                           *)
Grows == \A h \in 1 .. Len(built) : h \in 1 .. Len(built') /\ built'[h] = built[h]

(* A WAF in use has been built.                                            *)
LEMMA WafFacts ==
    ASSUME TypeInv
    PROVE  /\ \A x \in ConfNames : confs[x].waf # NoWaf => confs[x].waf \in 1 .. Len(built)
           /\ \A s \in Servers : scfs[s].waf # NoWaf => scfs[s].waf \in 1 .. Len(built)
           /\ \A n \in DOMAIN cache : cache[n].waf \in 1 .. Len(built)
           /\ Len(built) \in Nat
<1>1. Len(built) \in Nat /\ confs \in [ConfNames -> Rs] /\ scfs \in [Servers -> ServerConfs]
  BY StateFacts DEF TypeInv, ConfigTypes
<1>2. \A x \in ConfNames : confs[x].waf \in 0 .. Len(built)
  BY <1>1 DEF Rs, ConfRecs
<1>3. \A s \in Servers : scfs[s].waf \in 0 .. Len(built)
  BY <1>1 DEF ServerConfs
<1>4. \A w \in 0 .. Len(built) : w # NoWaf => w \in 1 .. Len(built)
  BY <1>1 DEF NoWaf
<1>5. \A n \in DOMAIN cache : cache[n].waf \in 1 .. Len(built)
  BY DEF TypeInv, StoreTypes
<1>6. QED
  BY <1>1, <1>2, <1>3, <1>4, <1>5

LEMMA BuildServerEnforce ==
    ASSUME Inv, ConfInv, EnforceInv, BuildServerWaf, UNCHANGED storeVars
    PROVE  EnforceInv'
<1>1. TypeInv
  BY DEF Inv
<1>2. PICK sv, c, base, waf : ServerBuilt(sv, c, base, waf)
  BY <1>1, BuildServerFacts
<1>3. /\ phase = "servers" /\ phase' \in {"servers", "dirs"}
      /\ UNCHANGED <<text, made, own, tracked>>
      /\ IF loop < Len(ServerList)
         THEN loop' = loop + 1 /\ phase' = phase
         ELSE loop' = 1 /\ phase' = "dirs"
  BY DEF BuildServerWaf
<1>4. failures' \in Nat /\ (failures' = 0 => failures = 0 /\ failures' = failures)
  BY <1>2, NoFailure DEF ServerBuilt, EnforceInv
<1>5. CASE failures' # 0
  BY <1>3, <1>4, <1>5 DEF EnforceInv
<1>6. CASE failures' = 0
  <2>1. failures = 0 /\ failures' = failures /\ failures + 1 # failures
    BY <1>4, <1>6
  <2>2. /\ ServersBuilt
        /\ \A i \in 1 .. (loop - 1) :
             /\ scfs[ServerConf(ServerList[i])].waf # NoWaf
             /\ confs[Defaults(ServerList[i])].waf # NoWaf
        /\ \A s \in Servers \cap made :
             confs[s].waf # NoWaf => Compiled(confs[s].waf) = RulesOf(text, s)
    BY <1>3, <2>1 DEF EnforceInv, ServersInv
  <2>3. /\ waf # NoWaf /\ waf \in 1 .. Len(built') /\ built'[waf].rules = scfs[c].rules
        /\ c \in Servers /\ base \in Servers /\ sv \in Servers /\ loop \in 1 .. Len(ServerList)
        /\ sv = ServerList[loop] /\ c = ServerConf(sv) /\ base = Defaults(sv)
        /\ scfs'[c].waf = waf /\ (\A r \in Servers \ {c} : scfs'[r] = scfs[r])
        /\ Keeps(base) /\ Grows
        /\ confs'[base].waf = IF confs[base].waf = NoWaf THEN waf ELSE confs[base].waf
    BY <1>2, <2>1 DEF ServerBuilt, Grows
  <2>4. \A s \in Servers : ServerPart(s)
    BY <1>3 DEF ConfInv, ReadyInv
  <2>5. built'[waf].rules = RulesOf(text, c)
    BY <2>3, <2>4 DEF ServerPart
  <2>6. ServersBuilt'
    <3>1. ASSUME NEW s \in Servers, scfs'[s].waf # NoWaf
          PROVE  built'[scfs'[s].waf].rules = RulesOf(text, s)
      <4>1. CASE s = c
        BY <2>3, <2>5, <4>1
      <4>2. CASE s # c
        <5>1. scfs'[s] = scfs[s] /\ scfs[s].waf \in 1 .. Len(built)
          BY <1>1, <2>3, <3>1, <4>2, WafFacts
        <5>2. built[scfs[s].waf].rules = RulesOf(text, s)
          BY <2>2, <3>1, <5>1 DEF ServersBuilt, Compiled
        <5>3. QED
          BY <2>3, <5>1, <5>2 DEF Grows
      <4>3. QED
        BY <4>1, <4>2
    <3>2. \A x \in Sections : confs'[x].waf = NoWaf
      BY <2>2, <2>3, NameFacts DEF ServersBuilt, Keeps, ConfNames
    <3>3. QED
      BY <1>3, <3>1, <3>2 DEF ServersBuilt, Compiled
  <2>7. \A s \in Servers : /\ scfs[s].waf # NoWaf => scfs'[s].waf # NoWaf
                           /\ confs[s].waf # NoWaf => confs'[s].waf # NoWaf
    BY <2>3 DEF Keeps, ConfNames
  <2>8. ASSUME NEW i \in 1 .. loop
        PROVE  /\ scfs'[ServerConf(ServerList[i])].waf # NoWaf
               /\ confs'[Defaults(ServerList[i])].waf # NoWaf
    <3>1. CASE i = loop
      BY <2>3, <3>1
    <3>2. CASE i # loop
      <4>1. i \in 1 .. (loop - 1) /\ i \in 1 .. Len(ServerList)
        BY <2>3, <3>2, NameFacts
      <4>2. ServerList[i] \in Servers
        BY <4>1, NameFacts
      <4>3. ServerConf(ServerList[i]) \in Servers /\ Defaults(ServerList[i]) \in Servers
        BY <1>1, <4>2, ServerFacts
      <4>4. QED
        BY <2>2, <2>7, <4>1, <4>3
    <3>3. QED
      BY <3>1, <3>2
  <2>9. ASSUME NEW s \in Servers \cap made, confs'[s].waf # NoWaf
        PROVE  built'[confs'[s].waf].rules = RulesOf(text, s)
    <3>1. CASE confs'[s].waf = confs[s].waf
      <4>1. confs[s].waf \in 1 .. Len(built)
        BY <1>1, <2>9, <3>1, WafFacts DEF ConfNames
      <4>2. built[confs[s].waf].rules = RulesOf(text, s)
        BY <2>2, <2>9, <3>1 DEF Compiled
      <4>3. QED
        BY <2>3, <3>1, <4>1, <4>2 DEF Grows
    <3>2. CASE confs'[s].waf # confs[s].waf
      <4>1. s = base /\ confs[base].waf = NoWaf /\ confs'[s].waf = waf
        BY <2>3, <3>2 DEF Keeps, ConfNames
      <4>2. sv \in made
        <5> SUFFICES ASSUME sv \notin made PROVE FALSE
          OBVIOUS
        <5>1. base = Main
          BY <2>3 DEF Defaults
        <5>2. ServerList[1] = Main /\ Main \in made /\ Defaults(Main) = Main
          BY <1>1 DEF Main, Defaults, TypeInv, ConfigTypes
        <5>3. loop # 1
          BY <2>3, <5>2
        <5>4. 1 \in 1 .. (loop - 1)
          BY <2>3, <5>3, NameFacts
        <5>5. confs[Main].waf # NoWaf
          BY <2>2, <5>2, <5>4
        <5>6. QED
          BY <4>1, <5>1, <5>5
      <4>3. base = sv /\ c = sv
        BY <2>3, <2>4, <4>2 DEF Defaults, ServerConf, ServerPart
      <4>4. QED
        BY <2>5, <4>1, <4>3
    <3>3. QED
      BY <3>1, <3>2
  <2>10. ServersInv'
    <3>1. CASE phase' = "servers"
      <4>1. loop' = loop + 1 /\ (loop + 1) - 1 = loop
        BY <1>3, <2>3, <3>1, NameFacts
      <4>2. \A i \in 1 .. (loop' - 1) :
              /\ scfs'[ServerConf(ServerList[i])'].waf # NoWaf
              /\ confs'[Defaults(ServerList[i])'].waf # NoWaf
        BY <1>3, <2>8, <4>1 DEF ServerConf, Defaults
      <4>3. QED
        BY <1>3, <2>6, <2>9, <4>2 DEF ServersInv, Compiled
    <3>2. QED
      BY <3>1 DEF ServersInv
  <2>11. DirsInv'
    <3>1. CASE phase' = "dirs"
      <4>1. loop = Len(ServerList) /\ loop' = 1
        BY <1>3, <2>3, <3>1, NameFacts
      <4>2. ASSUME NEW s \in Servers
            PROVE  scfs'[ServerConf(s)].waf # NoWaf /\ confs'[Defaults(s)].waf # NoWaf
        <5>1. PICK i \in 1 .. Len(ServerList) : s = ServerList[i]
          BY NamesAssumption DEF Servers, ToSet
        <5>2. QED
          BY <2>8, <4>1, <5>1
      <4>3. \A s \in Servers : scfs'[ServerConf(s)'].waf # NoWaf
        BY <1>3, <4>2 DEF ServerConf
      <4>4. \A s \in Servers \cap made : confs'[s].waf # NoWaf
        BY <4>2 DEF Defaults
      <4>5. \A j : j \notin 1 .. (1 - 1)
        BY SMT
      <4>6. QED
        BY <1>3, <2>6, <2>9, <4>1, <4>3, <4>4, <4>5 DEF DirsInv, Compiled
    <3>2. QED
      BY <3>1 DEF DirsInv
  <2>12. QED
    BY <1>3, <1>4, <2>10, <2>11 DEF EnforceInv, ServingInv
<1>7. QED
  BY <1>5, <1>6

LEMMA BuildDirEnforce ==
    ASSUME Inv, ConfInv, EnforceInv, BuildDirWaf, UNCHANGED storeVars
    PROVE  EnforceInv'
<1> DEFINE x == tracked[loop]
<1>1. TypeInv
  BY DEF Inv
<1>2. DirBuilt(x)
  BY <1>1, BuildDirFacts
<1>3. /\ phase = "dirs" /\ phase' = "dirs" /\ loop' = loop + 1
      /\ UNCHANGED <<text, made, own, scfs, tracked>>
  BY DEF BuildDirWaf
<1>4. failures' \in Nat /\ (failures' = 0 => failures = 0 /\ failures' = failures)
  BY <1>2, NoFailure DEF DirBuilt, EnforceInv
<1>5. CASE failures' # 0
  BY <1>3, <1>4, <1>5 DEF EnforceInv
<1>6. CASE failures' = 0
  <2>1. failures = 0 /\ failures' = failures /\ failures + 1 # failures
    BY <1>4, <1>6
  <2>2. /\ ServersBuilt
        /\ \A s \in Servers : scfs[ServerConf(s)].waf # NoWaf
        /\ \A s \in Servers \cap made :
             /\ confs[s].waf # NoWaf
             /\ Compiled(confs[s].waf) \in {RulesOf(text, s), confs[s].rules}
        /\ \A j \in 1 .. (loop - 1) : j \in 1 .. Len(tracked) =>
             Compiled(confs[tracked[j]].waf) = confs[tracked[j]].rules
    BY <1>3, <2>1 DEF EnforceInv, DirsInv
  <2>3. /\ x \in ConfNames /\ loop \in 1 .. Len(tracked) /\ OnlyWafs /\ Keeps(x) /\ Grows
        /\ \/ confs'[x].waf = confs[x].waf /\ ~HasRules(confs[x])
           \/ \E j \in 1 .. (loop - 1) :
                /\ confs[tracked[j]].array = confs[x].array
                /\ confs[tracked[j]].waf # NoWaf
                /\ confs'[x].waf = confs[tracked[j]].waf
           \/ /\ confs'[x].waf # NoWaf /\ confs'[x].waf \in 1 .. Len(built')
              /\ built'[confs'[x].waf].rules = confs[x].rules
    BY <1>2, <2>1 DEF DirBuilt, Grows
  <2>4. /\ \A s \in Servers : ServerPart(s)
        /\ ToSet(tracked) = (Servers \ {Main}) \cap made
    BY <1>3 DEF ConfInv, ReadyInv, TrackedInv
  <2>5. tracked \in Seq(ConfNames) /\ Len(tracked) \in Nat
    BY <1>1, StateFacts
  <2>6. \A j \in 1 .. Len(tracked) : tracked[j] \in (Servers \ {Main}) \cap made
    BY <2>4, <2>5 DEF ToSet
  <2> HIDE DEF x
  <2>7. x \in (Servers \ {Main}) \cap made
    BY <2>3, <2>6 DEF x
  <2>8. ServerPart(x)
    BY <2>4, <2>7
  <2>9. confs'[x].waf # NoWaf /\ built'[confs'[x].waf].rules = confs[x].rules
    <3>1. CASE confs'[x].waf = confs[x].waf /\ ~HasRules(confs[x])
      <4>1. confs[x].rules = <<>>
        BY <2>7, <2>8, <3>1 DEF ServerPart, HasRules
      <4>2. confs[x].rules = RulesOf(text, Main) \o RulesOf(text, x)
        BY <2>7, <2>8 DEF ServerPart
      <4>3. /\ RulesOf(text, Main) \in Seq(STRING) /\ RulesOf(text, x) \in Seq(STRING)
        BY <1>1, RulesOfType DEF TypeInv, ConfigTypes
      <4>4. RulesOf(text, x) = <<>>
        BY <4>1, <4>2, <4>3, ConcatEmpty
      <4>5. /\ confs[x].waf # NoWaf /\ confs[x].waf \in 1 .. Len(built)
            /\ built[confs[x].waf].rules = <<>>
        BY <1>1, <2>2, <2>3, <2>7, <4>1, <4>4, WafFacts DEF Compiled
      <4>6. QED
        BY <2>3, <3>1, <4>1, <4>5 DEF Grows
    <3>2. ASSUME NEW j \in 1 .. (loop - 1), confs[tracked[j]].array = confs[x].array,
                 confs[tracked[j]].waf # NoWaf, confs'[x].waf = confs[tracked[j]].waf
          PROVE  confs'[x].waf # NoWaf /\ built'[confs'[x].waf].rules = confs[x].rules
      <4> DEFINE y == tracked[j]
      <4>1. j \in 1 .. Len(tracked)
        BY <2>3, <2>5
      <4>2. y \in (Servers \ {Main}) \cap made
        BY <2>6, <4>1
      <4>3. Compiled(confs[y].waf) = confs[y].rules
        BY <2>2, <4>1
      <4>4. confs[y].array = confs[x].array /\ confs[y].waf # NoWaf /\ confs'[x].waf = confs[y].waf
        BY <3>2
      <4> HIDE DEF y
      <4>5. ServerPart(y)
        BY <2>4, <4>2
      <4>6. confs[y].rules = confs[x].rules
        BY <2>7, <2>8, <4>2, <4>4, <4>5 DEF ServerPart
      <4>7. confs[y].waf \in 1 .. Len(built)
        BY <1>1, <4>2, <4>4, WafFacts DEF ConfNames
      <4>8. QED
        BY <2>3, <4>3, <4>4, <4>6, <4>7 DEF Grows, Compiled
    <3>3. QED
      BY <2>3, <3>1, <3>2
  <2>10. ASSUME NEW s \in Servers, s # x, confs[s].waf # NoWaf
         PROVE  confs'[s] = confs[s] /\ built'[confs'[s].waf].rules = Compiled(confs[s].waf)
    <3>1. confs'[s] = confs[s] /\ confs[s].waf \in 1 .. Len(built)
      BY <1>1, <2>3, <2>10, WafFacts DEF Keeps, ConfNames
    <3>2. QED
      BY <2>3, <3>1 DEF Grows, Compiled
  <2>11. ServersBuilt'
    <3>1. ASSUME NEW s \in Servers, scfs[s].waf # NoWaf
          PROVE  built'[scfs[s].waf].rules = RulesOf(text, s)
      <4>1. scfs[s].waf \in 1 .. Len(built) /\ built[scfs[s].waf].rules = RulesOf(text, s)
        BY <1>1, <2>2, <3>1, WafFacts DEF ServersBuilt, Compiled
      <4>2. QED
        BY <2>3, <4>1 DEF Grows
    <3>2. \A y \in Sections : confs'[y].waf = NoWaf
      BY <2>2, <2>3, <2>7, NameFacts DEF ServersBuilt, Keeps, ConfNames
    <3>3. QED
      BY <1>3, <3>1, <3>2 DEF ServersBuilt, Compiled
  <2>12. confs'[x].rules = confs[x].rules
    BY <2>3 DEF OnlyWafs
  <2>13. ASSUME NEW s \in Servers \cap made
         PROVE  /\ confs'[s].waf # NoWaf
                /\ built'[confs'[s].waf].rules \in {RulesOf(text, s), confs'[s].rules}
    <3>1. CASE s = x
      BY <2>9, <2>12, <3>1
    <3>2. CASE s # x
      BY <2>2, <2>10, <3>2
    <3>3. QED
      BY <3>1, <3>2
  <2>14. ASSUME NEW j \in 1 .. loop, j \in 1 .. Len(tracked)
         PROVE  built'[confs'[tracked[j]].waf].rules = confs'[tracked[j]].rules
    <3>1. CASE tracked[j] = x
      BY <2>9, <2>12, <3>1
    <3>2. CASE tracked[j] # x
      <4>1. j # loop
        BY <3>2 DEF x
      <4>2. j \in 1 .. (loop - 1)
        BY <2>3, <2>5, <4>1
      <4>3. /\ tracked[j] \in Servers /\ confs[tracked[j]].waf # NoWaf
            /\ Compiled(confs[tracked[j]].waf) = confs[tracked[j]].rules
        BY <2>2, <2>6, <2>14, <4>2
      <4>4. QED
        BY <2>10, <3>2, <4>3
    <3>3. QED
      BY <3>1, <3>2
  <2>15. DirsInv'
    <3>1. loop' - 1 = loop
      BY <1>3, <2>3, <2>5
    <3>2. \A s \in Servers : scfs'[ServerConf(s)'].waf # NoWaf
      BY <1>3, <2>2 DEF ServerConf
    <3>3. QED
      BY <1>3, <2>11, <2>13, <2>14, <3>1, <3>2 DEF DirsInv, Compiled
  <2>16. QED
    BY <1>3, <1>4, <2>15 DEF EnforceInv, ServersInv, ServingInv
<1>7. QED
  BY <1>5, <1>6

(* The rest of the start-up, and the exit.                                 *)
LEMMA QuietEnforce ==
    ASSUME Inv, ConfInv, EnforceInv, UNCHANGED storeVars,
           \/ ReadConfig /\ UNCHANGED childVars
           \/ coraza_dl_open
           \/ ChildReady
           \/ coraza_child_exit
           \/ DisabledExit
    PROVE  EnforceInv'
<1>1. TypeInv
  BY DEF Inv
<1>2. CASE ReadConfig /\ UNCHANGED childVars
  <2>1. /\ phase \in {"reading", "checking"} /\ UNCHANGED <<failures, loop>>
        /\ phase' \in {"reading", "checking", "refused", "loading"}
    BY <1>2 DEF ReadConfig, ReadDirective, FixupVirtualHosts, coraza_check_config, childVars
  <2>2. QED
    BY <2>1 DEF EnforceInv, ServersInv, DirsInv, ServingInv
<1>3. CASE coraza_child_exit \/ DisabledExit
  <2>1. phase' = "exited" /\ failures' = failures
    BY <1>3 DEF coraza_child_exit, DisabledExit, childVars
  <2>2. QED
    BY <2>1 DEF EnforceInv, ServersInv, DirsInv, ServingInv
<1>4. CASE coraza_dl_open
  <2>1. /\ phase = "loading" /\ phase' \in {"servers", "disabled"}
        /\ UNCHANGED <<text, made, own, confs, scfs, tracked, built, failures, loop>>
    BY <1>4 DEF coraza_dl_open
  <2>2. NoWafs /\ loop = 1
    BY <2>1 DEF Inv, LifeInv, NoWafPhases, EnforceInv
  <2>3. \A j : j \notin 1 .. (1 - 1)
    BY SMT
  <2>4. ServersInv'
    BY <2>1, <2>2, <2>3 DEF ServersInv, ServersBuilt, NoWafs, ConfNames
  <2>5. QED
    BY <2>1, <2>4 DEF EnforceInv, DirsInv, ServingInv
<1>5. CASE ChildReady
  <2>1. /\ phase = "dirs" /\ phase' = "ready" /\ loop > Len(tracked)
        /\ UNCHANGED <<text, made, own, confs, scfs, tracked, built, failures, loop>>
        /\ UNCHANGED <<threads, cache>>
    BY <1>5 DEF ChildReady, childVars, storeVars
  <2>2. \A t \in Threads : threads[t].pc = "idle"
    BY <2>1 DEF Inv, LifeInv
  <2>3. ASSUME failures = 0 PROVE ServingInv'
    <3>1. DirsInv
      BY <2>3 DEF EnforceInv
    <3>2. /\ \A s \in Servers : ServerPart(s)
          /\ ToSet(tracked) = (Servers \ {Main}) \cap made
      BY <2>1 DEF ConfInv, ReadyInv, TrackedInv
    <3>3. tracked \in Seq(ConfNames) /\ Len(tracked) \in Nat /\ loop \in Nat
      BY <1>1, StateFacts DEF TypeInv, ChildTypes
    <3>4. ASSUME NEW s \in Servers \cap made
          PROVE  confs[s].waf # NoWaf /\ Compiled(confs[s].waf) = confs[s].rules
      <4>1. CASE s = Main
        BY <2>1, <3>1, <3>2, <4>1 DEF DirsInv, ServerPart
      <4>2. CASE s # Main
        <5>1. s \in ToSet(tracked)
          BY <3>2, <4>2
        <5>2. PICK j \in 1 .. Len(tracked) : tracked[j] = s
          BY <3>3, <5>1 DEF ToSet
        <5>3. j \in 1 .. (loop - 1)
          BY <2>1, <3>3
        <5>4. QED
          BY <2>1, <3>1, <5>2, <5>3 DEF DirsInv
      <4>3. QED
        BY <4>1, <4>2
    <3>5. \A s \in Servers : scfs'[ServerConf(s)'].waf # NoWaf
      BY <2>1, <3>1 DEF DirsInv, ServerConf
    <3>6. QED
      BY <2>1, <2>2, <3>1, <3>4, <3>5 DEF ServingInv, DirsInv, ServersBuilt, Compiled
  <2>4. QED
    BY <2>1, <2>3 DEF EnforceInv, ServersInv, DirsInv
<1>6. QED
  BY <1>2, <1>3, <1>4, <1>5

---------------------------------------------------------------------------
(* The requests of a ready child.                                          *)

(* More WAFs change nothing for one in use.                                *)
LEMMA EnforcingGrows ==
    ASSUME NEW ds, NEW bs, NEW c, NEW r, NEW t, Enforcing(ds, bs, c, r, t),
           c.waf # NoWaf => c.waf \in 1 .. Len(bs),
           NEW b2, \A h \in 1 .. Len(bs) : h \in 1 .. Len(b2) /\ b2[h] = bs[h]
    PROVE  Enforcing(ds, b2, c, r, t)
BY DEF Enforcing

(* A step of the request of t leaves the other requests and the servers as *)
(* they are, and gives a section a WAF of that section.                    *)
LEMMA ServingKept ==
    ASSUME Inv, ServingInv, phase = "ready", NEW t \in Threads,
           UNCHANGED <<text, made, own, scfs>>, Grows,
           \A v \in Threads \ {t} : threads'[v] = threads[v],
           \A y \in Servers \cup (Threads \ {t}) : confs'[y] = confs[y],
           \A x \in Sections :
             confs'[x].waf # NoWaf /\ confs'[x].waf # confs[x].waf =>
               FromScope(text, built'[confs'[x].waf].rules, x),
           threads'[t].pc # "idle" => Enforcing(text, built', Conf(t)', threads'[t], t)
    PROVE  ServingInv'
<1>1. TypeInv
  BY DEF Inv
<1>2. \A w \in 1 .. Len(built) : built'[w].rules = Compiled(w)
  BY DEF Grows, Compiled
<1>3. ASSUME NEW s \in Servers
      PROVE  /\ scfs'[ServerConf(s)'].waf # NoWaf
             /\ scfs'[s].waf # NoWaf => built'[scfs'[s].waf].rules = RulesOf(text, s)
  BY <1>1, <1>2, WafFacts DEF ServingInv, ServerConf
<1>4. ASSUME NEW s \in Servers \cap made
      PROVE  confs'[s].waf # NoWaf /\ built'[confs'[s].waf].rules = confs'[s].rules
  <2>1. confs'[s] = confs[s] /\ confs[s].waf # NoWaf /\ Compiled(confs[s].waf) = confs[s].rules
    BY DEF ServingInv
  <2>2. confs[s].waf \in 1 .. Len(built)
    BY <1>1, <2>1, WafFacts DEF ConfNames
  <2>3. QED
    BY <1>2, <2>1, <2>2
<1>5. ASSUME NEW x \in Sections, confs'[x].waf # NoWaf
      PROVE  FromScope(text, built'[confs'[x].waf].rules, x)
  <2>1. CASE confs'[x].waf = confs[x].waf
    <3>1. confs[x].waf \in 1 .. Len(built)
      BY <1>1, <1>5, <2>1, WafFacts DEF ConfNames
    <3>2. FromScope(text, Compiled(confs[x].waf), x)
      BY <1>5, <2>1 DEF ServingInv
    <3>3. QED
      BY <1>2, <2>1, <3>1, <3>2
  <2>2. QED
    BY <1>5, <2>1
<1>6. ASSUME NEW v \in Threads, threads'[v].pc # "idle"
      PROVE  Enforcing(text, built', Conf(v)', threads'[v], v)
  <2>1. CASE v = t
    BY <1>6, <2>1
  <2>2. CASE v # t
    <3>1. threads'[v] = threads[v] /\ threads[v].dcf \in Servers \cup {v}
      BY <1>1, <2>2 DEF TypeInv, StoreTypes
    <3>2. Conf(v)' = Conf(v)
      BY <2>2, <3>1 DEF Conf
    <3>3. Enforcing(text, built, Conf(v), threads[v], v)
      BY <1>6, <3>1 DEF ServingInv
    <3>4. Conf(v).waf # NoWaf => Conf(v).waf \in 1 .. Len(built)
      BY <1>1, ConfFacts, WafFacts DEF Conf
    <3>5. Enforcing(text, built', Conf(v), threads[v], v)
      BY <3>3, <3>4, EnforcingGrows DEF Grows
    <3>6. QED
      BY <3>1, <3>2, <3>5
  <2>3. QED
    BY <2>1, <2>2
<1>7. QED
  BY <1>3, <1>4, <1>5, <1>6 DEF ServingInv, Compiled

(* A request under way.                                                    *)
LEMMA RequestFacts ==
    ASSUME Inv, ConfInv, ServingInv, phase = "ready", NEW t \in Threads,
           threads[t].pc # "idle"
    PROVE  /\ Enforcing(text, built, Conf(t), threads[t], t)
           /\ threads[t].url \in Urls /\ text \in Texts
           /\ threads[t].pc # "merging" => threads[t].todo = <<>>
           /\ Depth(threads[t]) = Done(t)
           /\ Depth(threads[t]) \in 0 .. Len(Scopes(threads[t].url))
           /\ Conforms(Conf(t), text, threads[t].url, Depth(threads[t]))
           /\ threads[t].dcf \in {t} \cup Servers
           /\ threads[t].dcf # t => Conf(t).waf # NoWaf
           /\ Conf(t).waf # NoWaf => Conf(t).waf \in 1 .. Len(built)
           /\ Conf(t).merge_child \in Sections \cup {NoConf}
<1>1. TypeInv /\ OnItsWay(t)
  BY DEF Inv, ConfInv, ThreadInv
<1>2. Enforcing(text, built, Conf(t), threads[t], t)
  BY DEF ServingInv
<1>3. /\ threads[t].url \in Urls /\ text \in Texts
      /\ threads[t].pc # "merging" => threads[t].todo = <<>>
      /\ Depth(threads[t]) = Done(t)
      /\ Conforms(Conf(t), text, threads[t].url, Depth(threads[t]))
  BY <1>1 DEF TypeInv, ConfigTypes, OnItsWay, Depth, Done
<1>4. Depth(threads[t]) \in 0 .. Len(Scopes(threads[t].url))
  <2> DEFINE l == Len(threads[t].todo)
             m == Len(threads[t].url.path)
             s == Len(Scopes(threads[t].url))
  <2>1. l \in Nat /\ l <= m
    BY <1>1 DEF OnItsWay, TypeInv, StoreTypes, ThreadStates
  <2>2. m \in Nat /\ s \in Nat /\ m <= s
    <3>1. s = m + Base(threads[t].url) /\ m \in Nat /\ Base(threads[t].url) \in {1, 2}
      BY <1>3, ScopesBase
    <3> HIDE DEF m, s
    <3>2. QED
      BY <3>1
  <2> HIDE DEF l, m, s
  <2>3. s - l \in 0 .. s
    BY <2>1, <2>2
  <2>4. QED
    BY <2>3 DEF Depth, l, s
<1>5. threads[t].dcf \in {t} \cup Servers /\ (threads[t].dcf # t => Conf(t).waf # NoWaf)
  <2>1. threads[t].dcf \in {t, Defaults(threads[t].url.server)}
    BY <1>1 DEF OnItsWay
  <2>2. Defaults(threads[t].url.server) \in Servers \cap made
    <3>1. threads[t].url.server \in Servers /\ Main \in made
      BY <1>1, <1>3, ScopesFacts DEF TypeInv, ConfigTypes
    <3>2. QED
      BY <3>1, NameFacts DEF Defaults
  <2>3. QED
    BY <2>1, <2>2 DEF ServingInv, Conf
<1>6. /\ Conf(t).waf # NoWaf => Conf(t).waf \in 1 .. Len(built)
      /\ Conf(t).merge_child \in Sections \cup {NoConf}
  BY <1>1, ConfFacts, WafFacts DEF Conf
<1>7. QED
  BY <1>2, <1>3, <1>4, <1>5, <1>6

(* The rules of a request's configuration are rules it may run on, and so  *)
(* may others for which its merge_child is the innermost scope.            *)
LEMMA RulesSound ==
    ASSUME Inv, ConfInv, ServingInv, phase = "ready", NEW t \in Threads,
           threads[t].pc # "idle"
    PROVE  /\ Sound(text, Conf(t).rules, threads[t].url, Depth(threads[t]))
           /\ Conf(t).merge_child # NoConf =>
                FromScope(text, Conf(t).rules, Conf(t).merge_child)
<1> DEFINE u == threads[t].url
           n == Depth(threads[t])
<1>1. /\ Enforcing(text, built, Conf(t), threads[t], t)
      /\ u \in Urls /\ text \in Texts /\ n \in 0 .. Len(Scopes(u))
      /\ Conf(t).rules = RulesAround(text, u)[n]
  BY RequestFacts DEF Conforms
<1>2. PICK k : Origin(text, u, n, k)
  BY <1>1 DEF Enforcing
<1>3. Sound(text, RulesAround(text, u)[n], u, n)
  BY <1>1, <1>2, SoundAround
<1>4. ASSUME Conf(t).merge_child # NoConf
      PROVE  FromScope(text, Conf(t).rules, Conf(t).merge_child)
  <2>1. PICK j : Origin(text, u, n, j) /\ j # 0 /\ Scopes(u)[j] = Conf(t).merge_child
    BY <1>1, <1>4 DEF Enforcing
  <2>2. QED
    BY <1>1, <2>1, SoundAround
<1>5. QED
  BY <1>1, <1>3, <1>4

(* A request goes on, and gets at most a WAF it may run on.                *)
LEMMA MoveEnforce ==
    ASSUME Inv, ConfInv, ServingInv, phase = "ready", NEW t \in Threads,
           threads[t].pc # "idle", UNCHANGED <<text, made, own, scfs>>, Grows,
           \A y \in Servers \cup (Threads \ {t}) : confs'[y] = confs[y],
           \A x \in Sections :
             confs'[x].waf # NoWaf /\ confs'[x].waf # confs[x].waf =>
               FromScope(text, built'[confs'[x].waf].rules, x),
           NEW pc, pc \notin {"idle", "serving"}, GoesTo(t, pc),
           NEW waf, Conf(t)'.waf = waf,
           Conf(t)'.merge_child = Conf(t).merge_child, Conf(t)'.rules = Conf(t).rules,
           waf # NoWaf => Sound(text, built'[waf].rules, threads[t].url, Depth(threads[t])),
           pc \in {"lock", "merge_child", "cache", "build", "store"} => threads[t].dcf = t,
           pc = "store" => waf # NoWaf /\ built'[waf].rules = Conf(t).rules,
           pc = "unlock" => waf # NoWaf,
           pc = "use" => waf # NoWaf \/ Conf(t).rules = <<>>
    PROVE  ServingInv'
<1> DEFINE r == threads[t]
           q == threads'[t]
<1>1. /\ q.pc = pc /\ q.url = r.url /\ q.todo = r.todo /\ q.dcf = r.dcf
      /\ \A v \in Threads \ {t} : threads'[v] = threads[v]
  BY DEF GoesTo
<1>2. Enforcing(text, built, Conf(t), r, t)
  BY RequestFacts
<1> HIDE DEF r, q
<1>3. Depth(q) = Depth(r)
  BY <1>1 DEF Depth
<1>4. /\ \E k : Origin(text, r.url, Depth(r), k)
      /\ Conf(t).merge_child # NoConf =>
           \E k : /\ Origin(text, r.url, Depth(r), k) /\ k # 0
                  /\ Scopes(r.url)[k] = Conf(t).merge_child
  BY <1>2 DEF Enforcing
<1>5. /\ \E k : Origin(text, q.url, Depth(q), k)
      /\ Conf(t)'.waf # NoWaf => Sound(text, built'[Conf(t)'.waf].rules, q.url, Depth(q))
      /\ Conf(t)'.merge_child # NoConf =>
           \E k : /\ Origin(text, q.url, Depth(q), k) /\ k # 0
                  /\ Scopes(q.url)[k] = Conf(t)'.merge_child
  BY <1>1, <1>3, <1>4 DEF r
<1>6. Enforcing(text, built', Conf(t)', q, t)
  BY <1>1, <1>5 DEF Enforcing, r
<1>7. QED
  BY <1>1, <1>6, ServingKept DEF q

(* The steps that change no configuration.                                 *)
LEMMA SteadyEnforce ==
    ASSUME Inv, ConfInv, ServingInv, phase = "ready", NEW t \in Threads,
           threads[t].pc # "idle", UNCHANGED <<text, made, own, scfs, confs, built>>,
           NEW pc, pc \notin {"idle", "serving", "store"}, GoesTo(t, pc),
           pc \in {"lock", "merge_child", "cache", "build"} =>
             \/ Conf(t).waf = NoWaf
             \/ threads[t].pc \in {"lock", "merge_child", "cache", "build"},
           pc = "unlock" => Conf(t).waf # NoWaf,
           pc = "use" => Conf(t).waf # NoWaf \/ Conf(t).rules = <<>>
    PROVE  ServingInv'
<1>1. /\ Enforcing(text, built, Conf(t), threads[t], t)
      /\ threads[t].dcf # t => Conf(t).waf # NoWaf
  BY RequestFacts
<1>2. Conf(t)' = Conf(t)
  BY DEF Conf, GoesTo
<1>3. Conf(t).waf # NoWaf =>
        Sound(text, built'[Conf(t).waf].rules, threads[t].url, Depth(threads[t]))
  BY <1>1 DEF Enforcing
<1>4. pc \in {"lock", "merge_child", "cache", "build", "store"} => threads[t].dcf = t
  BY <1>1 DEF Enforcing
<1>5. Grows
  BY DEF Grows
<1>6. QED
  BY <1>2, <1>3, <1>4, <1>5, MoveEnforce

(* The request and its merge_child get a WAF of the request's rules.       *)
LEMMA GivenEnforce ==
    ASSUME Inv, ConfInv, ServingInv, phase = "ready", NEW t \in Threads,
           threads[t].pc \in {"cache", "store"},
           UNCHANGED <<text, made, own, scfs, built>>,
           NEW waf, waf # NoWaf, Compiled(waf) = Conf(t).rules,
           GoesTo(t, "unlock"), WafGiven(t, waf)
    PROVE  ServingInv'
<1>1. /\ Enforcing(text, built, Conf(t), threads[t], t)
      /\ Conf(t).merge_child \in Sections \cup {NoConf}
  BY RequestFacts
<1>2. threads[t].dcf = t
  BY <1>1 DEF Enforcing
<1>3. /\ OnlyWafs /\ confs'[t].waf = waf
      /\ Conf(t).merge_child # NoConf => confs'[Conf(t).merge_child].waf = waf
      /\ \A y \in ConfNames \ {t, Conf(t).merge_child} : confs'[y] = confs[y]
  BY <1>2 DEF WafGiven
<1>4. \A y \in Servers \cup (Threads \ {t}) : confs'[y] = confs[y]
  BY <1>1, <1>3, NameFacts DEF ConfNames
<1>5. /\ Sound(text, Conf(t).rules, threads[t].url, Depth(threads[t]))
      /\ Conf(t).merge_child # NoConf =>
           FromScope(text, Conf(t).rules, Conf(t).merge_child)
  BY RulesSound
<1>6. ASSUME NEW x \in Sections, confs'[x].waf # NoWaf, confs'[x].waf # confs[x].waf
      PROVE  FromScope(text, built'[confs'[x].waf].rules, x)
  <2>1. x \in ConfNames \ {t}
    BY NameFacts DEF ConfNames
  <2>2. x = Conf(t).merge_child /\ x # NoConf
    BY <1>3, <1>6, <2>1, NameFacts
  <2>3. QED
    BY <1>3, <1>5, <2>2 DEF Compiled
<1>7. /\ Conf(t)' = confs'[t] /\ Conf(t) = confs[t]
      /\ confs'[t].merge_child = confs[t].merge_child /\ confs'[t].rules = confs[t].rules
  BY <1>2, <1>3 DEF Conf, GoesTo, OnlyWafs, ConfNames
<1>8. Grows /\ Sound(text, built'[waf].rules, threads[t].url, Depth(threads[t]))
  BY <1>5 DEF Grows, Compiled
<1>9. QED
  BY <1>2, <1>3, <1>4, <1>6, <1>7, <1>8, MoveEnforce

LEMMA TryMergeChildEnforce ==
    ASSUME Inv, ConfInv, ServingInv, phase = "ready", NEW t \in Threads, TryMergeChild(t)
    PROVE  ServingInv'
<1>1. /\ threads[t].pc = "merge_child" /\ GoesTo(t, "cache")
      /\ UNCHANGED <<text, made, own, scfs, built>>
      /\ Keeps(threads[t].dcf) /\ OnlyWafs
      /\ confs'[threads[t].dcf].waf =
           IF Conf(t).waf = NoWaf /\ Conf(t).merge_child # NoConf
           THEN confs[Conf(t).merge_child].waf ELSE Conf(t).waf
  BY TryMergeChildFacts DEF Inv, childVars
<1>2. /\ Enforcing(text, built, Conf(t), threads[t], t)
      /\ Conf(t).merge_child \in Sections \cup {NoConf}
  BY <1>1, RequestFacts
<1>3. threads[t].dcf = t
  BY <1>1, <1>2 DEF Enforcing
<1>4. \A y \in Servers \cup (Threads \ {t}) : confs'[y] = confs[y]
  BY <1>1, <1>3, NameFacts DEF Keeps, ConfNames
<1>5. \A x \in Sections : confs'[x] = confs[x]
  BY <1>1, <1>3, NameFacts DEF Keeps, ConfNames
<1>6. /\ Conf(t)' = confs'[t] /\ Conf(t) = confs[t]
      /\ confs'[t].merge_child = confs[t].merge_child /\ confs'[t].rules = confs[t].rules
  BY <1>1, <1>3 DEF Conf, GoesTo, OnlyWafs, ConfNames
<1>7. ASSUME confs'[t].waf # NoWaf
      PROVE  Sound(text, built'[confs'[t].waf].rules, threads[t].url, Depth(threads[t]))
  <2>1. CASE Conf(t).waf = NoWaf /\ Conf(t).merge_child # NoConf
    <3> DEFINE x == Conf(t).merge_child
    <3>1. confs'[t].waf = confs[x].waf /\ x \in Sections
      BY <1>1, <1>2, <1>3, <2>1
    <3>2. FromScope(text, Compiled(confs[x].waf), x)
      BY <1>7, <3>1 DEF ServingInv
    <3>3. PICK k : Origin(text, threads[t].url, Depth(threads[t]), k) /\ k # 0
                   /\ Scopes(threads[t].url)[k] = x
      BY <1>2, <2>1 DEF Enforcing
    <3>4. Sound(text, Compiled(confs[x].waf), threads[t].url, Depth(threads[t]))
      BY <3>2, <3>3, SoundFrom
    <3>5. QED
      BY <1>1, <3>1, <3>4 DEF Compiled
  <2>2. CASE ~(Conf(t).waf = NoWaf /\ Conf(t).merge_child # NoConf)
    BY <1>1, <1>2, <1>3, <1>7, <2>2 DEF Enforcing
  <2>3. QED
    BY <2>1, <2>2
<1>8. Grows
  BY <1>1 DEF Grows
<1>9. QED
  BY <1>1, <1>3, <1>4, <1>5, <1>6, <1>7, <1>8, MoveEnforce

LEMMA BuildWafEnforce ==
    ASSUME Inv, ConfInv, ServingInv, phase = "ready", NEW t \in Threads, BuildWaf(t),
           failures \in Nat, failures' = 0
    PROVE  ServingInv'
<1>0. failures' # failures + 1
  OBVIOUS
<1>1. /\ threads[t].pc = "build" /\ GoesTo(t, "store")
      /\ UNCHANGED <<text, made, own, scfs>>
      /\ Keeps(threads[t].dcf) /\ OnlyWafs
      /\ DOMAIN built = 1 .. Len(built) /\ DOMAIN built' = 1 .. Len(built')
      /\ \A h \in DOMAIN built : built'[h] = built[h]
      /\ confs'[threads[t].dcf].waf = Len(built') /\ Len(built') = Len(built) + 1
      /\ built'[Len(built')] = [rules |-> Conf(t).rules, by |-> "request"]
  BY <1>0, BuildWafFacts DEF Inv
<1>2. /\ Enforcing(text, built, Conf(t), threads[t], t)
      /\ Conf(t).merge_child \in Sections \cup {NoConf}
  BY <1>1, RequestFacts
<1>3. threads[t].dcf = t
  BY <1>1, <1>2 DEF Enforcing
<1>4. /\ \A y \in Servers \cup (Threads \ {t}) : confs'[y] = confs[y]
      /\ \A x \in Sections : confs'[x] = confs[x]
  BY <1>1, <1>3, NameFacts DEF Keeps, ConfNames
<1>5. /\ Conf(t)' = confs'[t] /\ Conf(t) = confs[t]
      /\ confs'[t].merge_child = confs[t].merge_child /\ confs'[t].rules = confs[t].rules
  BY <1>1, <1>3 DEF Conf, GoesTo, OnlyWafs, ConfNames
<1>6. Len(built) \in Nat
  BY WafFacts DEF Inv
<1>7. Grows /\ Len(built') # NoWaf
  BY <1>1, <1>6 DEF Grows, NoWaf
<1>8. built'[Len(built')].rules = Conf(t).rules
  BY <1>1
<1>9. Sound(text, built'[Len(built')].rules, threads[t].url, Depth(threads[t]))
  BY <1>1, <1>8, RulesSound
<1>10. QED
  BY <1>1, <1>3, <1>4, <1>5, <1>7, <1>8, <1>9, MoveEnforce

(* A URL without rules has none in any of its scopes.                      *)
LEMMA NoRules ==
    ASSUME NEW ds \in Texts, NEW u \in Urls, NEW k, Origin(ds, u, Len(Scopes(u)), k),
           RulesAround(ds, u)[Len(Scopes(u))] = <<>>
    PROVE  k = 0 /\ \A j \in 1 .. Len(Scopes(u)) : RulesOf(ds, Scopes(u)[j]) = <<>>
<1> DEFINE n == Len(Scopes(u))
<1>1. /\ n \in Nat /\ k \in 0 .. n /\ RulesAround(ds, u)[k] = <<>>
      /\ \A j \in (k + 1) .. n : RulesOf(ds, Scopes(u)[j]) = <<>>
      /\ k # 0 => RulesOf(ds, Scopes(u)[k]) # <<>>
  BY ScopesFacts DEF Origin
<1> HIDE DEF n
<1>2. k = 0
  <2> SUFFICES ASSUME k # 0 PROVE FALSE
    OBVIOUS
  <2>1. k \in 1 .. n /\ k - 1 \in 0 .. n
    BY <1>1
  <2>2. RulesAround(ds, u)[k] = RulesAround(ds, u)[k - 1] \o RulesOf(ds, Scopes(u)[k])
    BY <2>1, RulesAroundFacts DEF n
  <2>3. RulesAround(ds, u)[k - 1] \in Seq(STRING) /\ RulesOf(ds, Scopes(u)[k]) \in Seq(STRING)
    BY <2>1, RulesAroundFacts, RulesOfType DEF n
  <2>4. RulesAround(ds, u)[k - 1] \o RulesOf(ds, Scopes(u)[k]) = <<>>
    BY <1>1, <2>2
  <2>5. RulesOf(ds, Scopes(u)[k]) = <<>>
    BY <2>3, <2>4, ConcatEmpty
  <2>6. QED
    BY <1>1, <2>1, <2>5
<1>3. \A j \in 1 .. n : j \in (k + 1) .. n
  BY <1>2
<1>4. QED
  BY <1>1, <1>2, <1>3 DEF n

LEMMA UseWafEnforce ==
    ASSUME Inv, ConfInv, ServingInv, phase = "ready", NEW t \in Threads, UseWaf(t)
    PROVE  ServingInv'
<1> DEFINE u == threads[t].url
           n == Depth(threads[t])
           w == EffectiveWaf(t)
<1>1. /\ threads[t].pc = "use" /\ GoesTo(t, "serving") /\ w # NoWaf /\ threads'[t].waf = w
      /\ UNCHANGED <<text, made, own, scfs, confs, built>>
  BY UseWafFacts DEF Inv, configVars, childVars
<1>2. /\ Enforcing(text, built, Conf(t), threads[t], t) /\ threads[t].todo = <<>>
      /\ u \in Urls /\ text \in Texts
      /\ Conf(t).rules = RulesAround(text, u)[n]
      /\ Conf(t).waf # NoWaf => Conf(t).waf \in 1 .. Len(built)
  BY <1>1, RequestFacts DEF Conforms
<1>3. n = Len(Scopes(u))
  <2>1. Len(Scopes(u)) \in Nat
    BY <1>2, ScopesFacts
  <2>2. QED
    BY <1>2, <2>1 DEF Depth
<1>4. w \in 1 .. Len(built) /\ Sound(text, built[w].rules, u, n)
  <2>1. CASE Conf(t).waf # NoWaf
    BY <1>2, <2>1 DEF EffectiveWaf, Enforcing
  <2>2. CASE Conf(t).waf = NoWaf
    <3> DEFINE c == ServerConf(u.server)
    <3>1. w = scfs[c].waf
      BY <2>2 DEF EffectiveWaf
    <3>2. RulesAround(text, u)[n] = <<>>
      BY <1>1, <1>2, <2>2 DEF Enforcing
    <3>3. PICK k : Origin(text, u, n, k)
      BY <1>2 DEF Enforcing
    <3>4. k = 0 /\ \A j \in 1 .. n : RulesOf(text, Scopes(u)[j]) = <<>>
      BY <1>2, <1>3, <3>2, <3>3, NoRules
    <3>5. c \in Servers /\ c \in {Main, u.server}
      <4>1. u.server \in Servers
        BY <1>2, ScopesFacts
      <4>2. QED
        BY <4>1, NameFacts DEF ServerConf
    <3>6. RulesOf(text, c) = <<>>
      <4>1. Scopes(u)[1] = Main /\ (u.server # Main => Scopes(u)[2] = u.server)
        BY <1>2, ScopesFacts
      <4>2. 1 \in 1 .. n /\ (u.server # Main => 2 \in 1 .. n)
        <5>1. Base(u) \in 1 .. n /\ Len(Scopes(u)) \in Nat
          BY <1>2, <1>3, ScopesBase, ScopesFacts
        <5>2. Base(u) = IF u.server = Main THEN 1 ELSE 2
          BY DEF Base
        <5> HIDE DEF n
        <5>3. QED
          BY <1>3, <5>1, <5>2
      <4>3. QED
        BY <3>4, <3>5, <4>1, <4>2
    <3>7. w \in 1 .. Len(built) /\ Compiled(w) = <<>>
      BY <1>1, <3>1, <3>5, <3>6, WafFacts DEF ServingInv, Inv
    <3>8. QED
      BY <3>3, <3>4, <3>7 DEF Sound, Compiled, Origin
  <2>3. QED
    BY <2>1, <2>2
<1>5. Enforcing(text, built', Conf(t)', threads'[t], t)
  <2> DEFINE q == threads'[t]
             r == threads[t]
  <2>1. q.pc = "serving" /\ q.url = r.url /\ q.todo = r.todo /\ q.waf = w
    BY <1>1 DEF GoesTo
  <2>2. Conf(t)' = Conf(t)
    BY <1>1 DEF Conf, GoesTo
  <2>3. Enforcing(text, built, Conf(t), r, t) /\ Sound(text, built[w].rules, r.url, Depth(r))
    BY <1>2, <1>4
  <2> HIDE DEF q, r, w
  <2>4. Depth(q) = Depth(r)
    BY <2>1 DEF Depth
  <2>5. Enforcing(text, built, Conf(t), q, t)
    BY <1>4, <2>1, <2>3, <2>4 DEF Enforcing
  <2>6. QED
    BY <1>1, <2>2, <2>5 DEF q
<1>6. Grows /\ \A v \in Threads \ {t} : threads'[v] = threads[v]
  BY <1>1 DEF Grows, GoesTo
<1>7. QED
  BY <1>1, <1>5, <1>6, ServingKept

LEMMA CheckWafEnforce ==
    ASSUME Inv, ConfInv, ServingInv, phase = "ready", NEW t \in Threads, CheckWaf(t),
           ~Moves(t, Idle)
    PROVE  ServingInv'
<1> DEFINE pc == IF Conf(t).waf = NoWaf /\ HasRules(Conf(t)) THEN "lock" ELSE "use"
<1>1. threads[t].pc = "merging" /\ UNCHANGED <<text, made, own, scfs, built>>
  BY DEF CheckWaf, childVars
<1>2. Goto(t, pc) /\ confs' = confs
  <2>1. CASE EndRequest(t)
    BY <2>1, EndRequestFacts DEF Inv
  <2>2. QED
    BY <2>1 DEF CheckWaf
<1>3. GoesTo(t, pc)
  BY <1>2, GotoFacts DEF PCs, Inv
<1>4. Conforms(Conf(t), text, threads[t].url, Depth(threads[t]))
  BY <1>1, RequestFacts
<1>5. /\ pc \in {"lock", "use"} /\ (pc = "lock" => Conf(t).waf = NoWaf)
      /\ pc = "use" => Conf(t).waf # NoWaf \/ Conf(t).rules = <<>>
  BY <1>4 DEF HasRules, Conforms
<1> HIDE DEF pc
<1>6. QED
  BY <1>1, <1>2, <1>3, <1>5, SteadyEnforce

(* A request ends.                                                         *)
LEMMA IdleEnforce ==
    ASSUME Inv, ServingInv, phase = "ready", NEW t \in Threads, Moves(t, Idle), Keeps(t),
           UNCHANGED <<text, made, own, scfs, built>>
    PROVE  ServingInv'
<1>1. threads'[t].pc = "idle" /\ \A v \in Threads \ {t} : threads'[v] = threads[v]
  BY DEF Moves, Idle
<1>2. \A y \in Servers \cup Sections \cup (Threads \ {t}) : confs'[y] = confs[y]
  BY NameFacts DEF Keeps, ConfNames
<1>3. Grows
  BY DEF Grows
<1>4. QED
  BY <1>1, <1>2, <1>3, ServingKept

(* The WAF of a merge: the child's where it has rules, else the parent's.  *)
LEMMA MergeWaf ==
    ASSUME NEW p, NEW c, NEW childName, NEW name
    PROVE  LET m == coraza_merge_dir_conf(p, c, childName, name) IN
           /\ c.rules # <<>> => m.waf = c.waf /\ m.merge_child \in {NoConf, childName}
           /\ c.rules = <<>> => m.waf \in {NoWaf, p.waf} /\ m.merge_child = NoConf
<1> DEFINE r == MergeRules(p, c, childName, name)
           m == coraza_merge_dir_conf(p, c, childName, name)
<1>1. /\ c.rules # <<>> => r.waf = c.waf /\ r.merge_child \in {NoConf, childName}
      /\ c.rules = <<>> => r.waf \in {NoWaf, p.waf} /\ r.merge_child = NoConf
  <2>1. CASE p.rules # <<>> /\ c.rules # <<>>
    BY <2>1 DEF MergeRules, MergeBoth
  <2>2. CASE p.rules # <<>> /\ c.rules = <<>>
    BY <2>2 DEF MergeRules, Inherit
  <2>3. CASE p.rules = <<>> /\ c.rules # <<>>
    BY <2>3 DEF MergeRules, Inherit
  <2>4. CASE p.rules = <<>> /\ c.rules = <<>>
    <3>1. r = Inherit(coraza_create_dir_conf(name))
      BY <2>4 DEF MergeRules
    <3>2. r.waf = NoWaf /\ r.merge_child = NoConf
      BY <3>1 DEF Inherit, coraza_create_dir_conf
    <3>3. QED
      BY <2>4, <3>2
  <2>5. QED
    BY <2>1, <2>2, <2>3, <2>4
<1>2. m.waf = r.waf /\ m.merge_child = r.merge_child
  BY DEF coraza_merge_dir_conf
<1> HIDE DEF r
<1>3. QED
  BY <1>1, <1>2

LEMMA MergeSectionEnforce ==
    ASSUME Inv, ConfInv, ServingInv, phase = "ready", NEW t \in Threads, MergeSection(t)
    PROVE  ServingInv'
<1> DEFINE x == NextSection(t)
           u == threads[t].url
           n == Done(t) + 1
<1>1. TypeInv /\ text \in Texts
  BY DEF Inv, TypeInv, ConfigTypes
<1>2. /\ threads[t].pc = "merging" /\ threads[t].todo # <<>> /\ x \in Sections
      /\ UNCHANGED <<text, made, own, scfs, built>>
      /\ Keeps(t)
      /\ \/ Moves(t, Idle)
         \/ /\ Advances(t, threads[t].dcf) /\ confs' = confs
            /\ ~Private(x) /\ x \notin made
         \/ /\ Advances(t, t) /\ Child(x) \in Rs
            /\ confs'[t] = coraza_merge_dir_conf(Conf(t), Child(x), ChildName(x), t)
            /\ Private(x) => ~HtRefused(x)
  BY <1>1, MergeSectionCases DEF childVars
<1>3. /\ Enforcing(text, built, Conf(t), threads[t], t) /\ Depth(threads[t]) = Done(t)
      /\ u \in Urls
  BY <1>2, RequestFacts
<1>4. OnItsWay(t) /\ SectionPart(x)
  BY <1>2 DEF ConfInv, ThreadInv, ReadyInv
<1>5. /\ \A y \in Servers \cup Sections \cup (Threads \ {t}) : confs'[y] = confs[y]
      /\ Grows
  BY <1>2, NameFacts DEF Keeps, ConfNames, Grows
<1> HIDE DEF x
<1>6. ASSUME NEW dcf \in {t, threads[t].dcf}, Advances(t, dcf)
      PROVE  /\ n \in 1 .. Len(Scopes(u)) /\ x = Scopes(u)[n] /\ n - 1 = Depth(threads[t])
             /\ threads'[t].url = u /\ threads'[t].pc = "merging" /\ threads'[t].dcf = dcf
             /\ Depth(threads'[t]) = n
             /\ \A v \in Threads \ {t} : threads'[v] = threads[v]
  <2>1. /\ Done(t) \in Nat /\ Done(t) + 1 \in 1 .. Len(Scopes(u))
        /\ x = Scopes(u)[Done(t) + 1] /\ Done(t)' = Done(t) + 1
    BY <1>1, <1>2, <1>4, <1>6, NextScope DEF x
  <2>2. /\ threads'[t].url = u /\ threads'[t].pc = "merging" /\ threads'[t].dcf = dcf
        /\ \A v \in Threads \ {t} : threads'[v] = threads[v]
    BY <1>6 DEF Advances
  <2>3. Depth(threads'[t]) = Done(t)'
    BY DEF Depth, Done
  <2>4. QED
    BY <1>3, <2>1, <2>2, <2>3
<1>7. ASSUME NEW dcf \in {t, threads[t].dcf}, Advances(t, dcf),
             \E k : Origin(text, u, n, k),
             confs'[dcf].waf # NoWaf => Sound(text, built[confs'[dcf].waf].rules, u, n),
             confs'[dcf].merge_child # NoConf =>
               \E k : /\ Origin(text, u, n, k) /\ k # 0
                      /\ Scopes(u)[k] = confs'[dcf].merge_child
      PROVE  ServingInv'
  <2> DEFINE q == threads'[t]
  <2>1. /\ q.url = u /\ q.pc = "merging" /\ q.dcf = dcf /\ Depth(q) = n
        /\ \A v \in Threads \ {t} : threads'[v] = threads[v]
    BY <1>6, <1>7
  <2>2. Conf(t)' = confs'[dcf]
    BY <2>1 DEF Conf
  <2> HIDE DEF q, u, n
  <2>3. Enforcing(text, built, confs'[dcf], q, t)
    BY <1>7, <2>1 DEF Enforcing
  <2>4. Enforcing(text, built', Conf(t)', threads'[t], t)
    BY <1>2, <2>2, <2>3 DEF q
  <2>5. QED
    BY <1>2, <1>5, <2>1, <2>4, ServingKept
<1>8. CASE Moves(t, Idle)
  BY <1>2, <1>8, IdleEnforce
<1>9. PICK k : Origin(text, u, Depth(threads[t]), k)
  BY <1>3 DEF Enforcing
<1>10. CASE Advances(t, threads[t].dcf) /\ confs' = confs /\ ~Private(x) /\ x \notin made
  <2> DEFINE c == Conf(t)
  <2>1. n \in 1 .. Len(Scopes(u)) /\ x = Scopes(u)[n] /\ n - 1 = Depth(threads[t])
    BY <1>6, <1>10
  <2>2. RulesOf(text, Scopes(u)[n]) = <<>>
    BY <1>4, <1>10, <2>1 DEF SectionPart, Bare
  <2> HIDE DEF n
  <2>3. \A j : Origin(text, u, n - 1, j) => Origin(text, u, n, j)
    BY <1>1, <1>3, <2>1, <2>2, OriginSkip
  <2>4. c.waf # NoWaf => Sound(text, built[c.waf].rules, u, n)
    <3>1. ASSUME c.waf # NoWaf PROVE Sound(text, built[c.waf].rules, u, n)
      <4>1. Sound(text, built[c.waf].rules, u, n - 1)
        BY <1>3, <2>1, <3>1 DEF Enforcing
      <4>2. QED
        BY <1>1, <1>3, <2>1, <2>2, <4>1, SoundSkip
    <3>2. QED
      BY <3>1
  <2>5. c.merge_child # NoConf =>
          \E j : Origin(text, u, n, j) /\ j # 0 /\ Scopes(u)[j] = c.merge_child
    BY <1>3, <2>1, <2>3 DEF Enforcing
  <2>6. c = confs'[threads[t].dcf]
    BY <1>10 DEF Conf
  <2>7. \E j : Origin(text, u, n, j)
    BY <1>9, <2>1, <2>3
  <2>8. QED
    BY <1>7, <1>10, <2>4, <2>5, <2>6, <2>7 DEF n
<1>11. CASE /\ Advances(t, t) /\ Child(x) \in Rs
            /\ confs'[t] = coraza_merge_dir_conf(Conf(t), Child(x), ChildName(x), t)
            /\ Private(x) => ~HtRefused(x)
  <2> DEFINE p == Conf(t)
             c == Child(x)
             m == confs'[t]
  <2>1. n \in 1 .. Len(Scopes(u)) /\ x = Scopes(u)[n] /\ n - 1 = Depth(threads[t])
    BY <1>6, <1>11
  <2>2. c.rules = RulesOf(text, Scopes(u)[n])
    BY <1>2, <1>11, <2>1, ChildWhole DEF Whole, Reads, RulesOf
  <2>3. /\ c.rules # <<>> => m.waf = c.waf /\ m.merge_child \in {NoConf, ChildName(x)}
        /\ c.rules = <<>> => m.waf \in {NoWaf, p.waf} /\ m.merge_child = NoConf
    BY <1>11, MergeWaf
  <2>4. p.waf # NoWaf => Sound(text, built[p.waf].rules, u, n - 1)
    BY <1>3, <2>1 DEF Enforcing
  <2>5. /\ c.waf # NoWaf => c.waf = confs[x].waf /\ FromScope(text, Compiled(c.waf), x)
        /\ ChildName(x) \in {NoConf, x}
    <3>1. CASE Kind[x] = "htaccess"
      <4>1. c = HtConf(x) /\ ChildName(x) = NoConf
        BY <3>1 DEF Child, ChildName
      <4>2. HtConf(x).waf = NoWaf
        BY <1>1, <1>2, <3>1, HtConfType, StateFacts DEF HtConfs, ConfRecs
      <4>3. QED
        BY <4>1, <4>2
    <3>2. CASE Kind[x] # "htaccess"
      <4>1. c = confs[x] /\ ChildName(x) = x
        BY <3>2 DEF Child, ChildName
      <4>2. QED
        BY <1>2, <4>1 DEF ServingInv
    <3>3. QED
      BY <3>1, <3>2
  <2> HIDE DEF n, c, m, p
  <2>6. CASE c.rules # <<>>
    <3>1. Origin(text, u, n, n) /\ n # 0
      <4>1. RulesOf(text, Scopes(u)[n]) # <<>>
        BY <2>2, <2>6
      <4>2. n # 0
        BY <1>3, <2>1, ScopesFacts
      <4>3. QED
        BY <1>1, <1>3, <2>1, <4>1, <4>2, OriginNew
    <3>2. m.waf # NoWaf => Sound(text, built[m.waf].rules, u, n)
      BY <2>1, <2>3, <2>5, <2>6, <3>1, SoundFrom DEF Compiled
    <3>3. m.merge_child # NoConf =>
            \E j : Origin(text, u, n, j) /\ j # 0 /\ Scopes(u)[j] = m.merge_child
      BY <2>1, <2>3, <2>5, <2>6, <3>1
    <3>4. QED
      BY <1>7, <1>11, <3>1, <3>2, <3>3 DEF n, m
  <2>7. CASE c.rules = <<>>
    <3>1. Origin(text, u, n, k)
      BY <1>1, <1>3, <1>9, <2>1, <2>2, <2>7, OriginSkip
    <3>2. m.waf # NoWaf => Sound(text, built[m.waf].rules, u, n)
      <4>1. ASSUME m.waf # NoWaf PROVE Sound(text, built[m.waf].rules, u, n)
        <5>1. Sound(text, built[m.waf].rules, u, n - 1)
          BY <2>3, <2>4, <2>7, <4>1
        <5>2. QED
          BY <1>1, <1>3, <2>1, <2>2, <2>7, <5>1, SoundSkip
      <4>2. QED
        BY <4>1
    <3>3. QED
      BY <1>7, <1>11, <2>3, <2>7, <3>1, <3>2 DEF n, m
  <2>8. QED
    BY <2>6, <2>7
<1>12. QED
  BY <1>2, <1>8, <1>10, <1>11

(* One more scope still has a last one with rules before it.               *)
LEMMA OriginNext ==
    ASSUME NEW ds \in Texts, NEW u \in Urls, NEW n \in 1 .. Len(Scopes(u)),
           \E k : Origin(ds, u, n - 1, k)
    PROVE  \E k : Origin(ds, u, n, k)
<1>1. CASE RulesOf(ds, Scopes(u)[n]) = <<>>
  BY <1>1, OriginSkip
<1>2. CASE RulesOf(ds, Scopes(u)[n]) # <<>>
  BY <1>2, OriginNew
<1>3. QED
  BY <1>1, <1>2

(* So have the servers of a URL.                                           *)
LEMMA OriginBase ==
    ASSUME NEW ds \in Texts, NEW u \in Urls
    PROVE  \E k : Origin(ds, u, Base(u), k)
<1>1. Base(u) \in 1 .. Len(Scopes(u)) /\ Base(u) \in {1, 2} /\ Len(Scopes(u)) \in Nat
  BY ScopesBase, ScopesFacts
<1>2. 1 \in 1 .. Len(Scopes(u)) /\ 1 - 1 = 0 /\ 2 - 1 = 1
  BY <1>1
<1>3. \E k : Origin(ds, u, 1 - 1, k)
  BY <1>2, OriginStart
<1>4. \E k : Origin(ds, u, 1, k)
  BY <1>2, <1>3, OriginNext
<1>5. CASE Base(u) = 1
  BY <1>4, <1>5
<1>6. CASE Base(u) = 2
  <2>1. 2 \in 1 .. Len(Scopes(u)) /\ \E k : Origin(ds, u, 2 - 1, k)
    BY <1>1, <1>2, <1>4, <1>6
  <2>2. \E k : Origin(ds, u, 2, k)
    BY <2>1, OriginNext
  <2>3. QED
    BY <1>6, <2>2
<1>7. QED
  BY <1>1, <1>5, <1>6

LEMMA StartEnforce ==
    ASSUME Inv, ConfInv, ServingInv, phase = "ready", NEW t \in Threads, Start(t)
    PROVE  ServingInv'
<1>1. TypeInv /\ text \in Texts
  BY DEF Inv, TypeInv, ConfigTypes
<1>2. UNCHANGED <<text, made, own, scfs, confs, built>>
  BY <1>1, StartFacts DEF configVars, childVars
<1>3. PICK u \in Urls : Moves(t, Started(u))
  BY <1>1, StartFacts
<1> DEFINE d == Defaults(u.server)
           q == threads'[t]
<1>4. /\ q.pc = "merging" /\ q.url = u /\ q.todo = u.path /\ q.dcf = d
      /\ \A v \in Threads \ {t} : threads'[v] = threads[v]
  BY <1>3 DEF Moves, Started
<1>5. Conf(t)' = confs[d]
  BY <1>2, <1>4 DEF Conf
<1>6. d \in Servers \cap made
  <2>1. u.server \in Servers /\ Main \in made
    BY <1>1, ScopesFacts DEF TypeInv, ConfigTypes
  <2>2. QED
    BY <2>1, NameFacts DEF Defaults
<1>7. /\ confs[d].waf # NoWaf /\ built[confs[d].waf].rules = RulesAround(text, u)[Base(u)]
      /\ confs[d].merge_child = NoConf
  <2>1. Conforms(confs[d], text, u, Base(u))
    BY DEF ConfInv, ReadyInv
  <2>2. confs[d].waf # NoWaf /\ Compiled(confs[d].waf) = confs[d].rules
    BY <1>6 DEF ServingInv
  <2>3. confs[d].merge_child = NoConf
    BY <1>6 DEF Inv, BuildInv
  <2>4. QED
    BY <2>1, <2>2, <2>3 DEF Conforms, Compiled
<1> HIDE DEF d, q
<1>8. Depth(q) = Base(u) /\ Base(u) \in 0 .. Len(Scopes(u))
  <2> DEFINE l == Len(u.path)
             s == Len(Scopes(u))
             b == Base(u)
  <2>1. s = l + b /\ l \in Nat /\ b \in {1, 2}
    BY ScopesBase
  <2>2. Depth(q) = s - l
    BY <1>4 DEF Depth
  <2> HIDE DEF l, s, b
  <2>3. Depth(q) = b /\ b \in 0 .. s
    BY <2>1, <2>2
  <2>4. QED
    BY <2>3 DEF b, s
<1>9. PICK k : Origin(text, u, Base(u), k)
  BY <1>1, OriginBase
<1>10. Sound(text, RulesAround(text, u)[Base(u)], u, Base(u))
  BY <1>1, <1>8, <1>9, SoundAround
<1>11. Enforcing(text, built, confs[d], q, t)
  BY <1>4, <1>7, <1>8, <1>9, <1>10 DEF Enforcing
<1>12. Enforcing(text, built', Conf(t)', threads'[t], t) /\ Grows
  BY <1>2, <1>5, <1>11 DEF Grows, q
<1>13. QED
  BY <1>2, <1>4, <1>12, ServingKept

(* The WAF of a cache entry was compiled from the rules of the entry.      *)
LEMMA CachedRules ==
    ASSUME Inv, NEW n \in DOMAIN cache
    PROVE  Compiled(cache[n].waf) = cache[n].rules /\ cache[n].waf # NoWaf
<1>1. RequestBuilds(cache[n].rules) = {cache[n].waf}
  BY DEF Inv, OneBuildPerRuleSet
<1>2. cache[n].waf \in 1 .. Len(built) /\ Len(built) \in Nat
  BY WafFacts DEF Inv
<1>3. QED
  BY <1>1, <1>2 DEF RequestBuilds, Compiled, NoWaf

LEMMA StepsEnforce ==
    ASSUME Inv, ConfInv, EnforceInv, NEW t \in Threads, Start(t) \/ Step(t)
    PROVE  EnforceInv'
<1>1. /\ phase \in {"ready", "disabled"} /\ TypeInv
      /\ failures \in Nat /\ (failures = 0 => ServingInv)
  BY DEF Start, Step, Inv, EnforceInv
<1>2. /\ phase' = phase \/ phase' = "crashed"
      /\ failures' = failures \/ failures' = failures + 1
  BY DEF Start, Step, MergeSection, CheckWaf, Lock, TryMergeChild, TryCache, BuildWaf,
         StoreWaf, Unlock, UseWaf, NoTransaction, Finish, configVars, childVars,
         coraza_build_waf, coraza_new_waf, BuildFails
<1>3. failures' \in Nat /\ (failures' = 0 => failures = 0 /\ failures' = failures)
  BY <1>1, <1>2, NoFailure
<1>4. ASSUME failures' = 0, phase = "ready", phase' = "ready" PROVE ServingInv'
  <2>1. ServingInv
    BY <1>1, <1>3, <1>4
  <2>2. CASE Start(t)
    BY <1>4, <2>1, <2>2, StartEnforce
  <2>3. CASE MergeSection(t)
    BY <1>4, <2>1, <2>3, MergeSectionEnforce
  <2>4. CASE CheckWaf(t)
    <3>1. UNCHANGED <<text, made, own, scfs, built>> /\ Keeps(t)
      BY <1>1, <2>4, CheckWafFacts DEF childVars
    <3>2. CASE Moves(t, Idle)
      BY <1>4, <2>1, <3>1, <3>2, IdleEnforce
    <3>3. QED
      BY <1>4, <2>1, <2>4, <3>2, CheckWafEnforce
  <2>5. CASE Lock(t)
    <3>1. /\ threads[t].pc = "lock" /\ GoesTo(t, "merge_child")
          /\ UNCHANGED <<text, made, own, confs, scfs, built>>
      BY <1>1, <1>4, <2>5, LockFacts DEF childVars
    <3>2. QED
      BY <1>4, <2>1, <3>1, SteadyEnforce
  <2>6. CASE TryMergeChild(t)
    BY <1>4, <2>1, <2>6, TryMergeChildEnforce
  <2>7. CASE TryCache(t)
    <3>1. /\ threads[t].pc = "cache" /\ UNCHANGED <<text, made, own, scfs, built>>
          /\ \/ GoesTo(t, "unlock") /\ Conf(t).waf # NoWaf /\ confs' = confs
             \/ /\ GoesTo(t, "unlock")
                /\ \E waf : /\ WafGiven(t, waf)
                            /\ \E n \in DOMAIN cache :
                                 cache[n].rules = Conf(t).rules /\ cache[n].waf = waf
             \/ GoesTo(t, "build") /\ Conf(t).waf = NoWaf /\ confs' = confs
      BY <1>1, <2>7, TryCacheFacts DEF childVars
    <3>2. CASE GoesTo(t, "unlock") /\ Conf(t).waf # NoWaf /\ confs' = confs
      BY <1>4, <2>1, <3>1, <3>2, SteadyEnforce
    <3>3. ASSUME GoesTo(t, "unlock"), NEW waf, WafGiven(t, waf),
                 NEW n \in DOMAIN cache, cache[n].rules = Conf(t).rules, cache[n].waf = waf
          PROVE  ServingInv'
      <4>1. waf # NoWaf /\ Compiled(waf) = Conf(t).rules
        BY <3>3, CachedRules
      <4>2. QED
        BY <1>4, <2>1, <3>1, <3>3, <4>1, GivenEnforce
    <3>4. CASE GoesTo(t, "build") /\ Conf(t).waf = NoWaf /\ confs' = confs
      BY <1>4, <2>1, <3>1, <3>4, SteadyEnforce
    <3>5. QED
      BY <3>1, <3>2, <3>3, <3>4
  <2>8. CASE BuildWaf(t)
    BY <1>1, <1>4, <2>1, <2>8, BuildWafEnforce
  <2>9. CASE StoreWaf(t)
    <3>1. /\ threads[t].pc = "store" /\ GoesTo(t, "unlock")
          /\ UNCHANGED <<text, made, own, scfs, built>>
          /\ WafGiven(t, Conf(t).waf)
      BY <1>1, <2>9, StoreWafFacts DEF childVars
    <3>2. Enforcing(text, built, Conf(t), threads[t], t)
      BY <1>4, <2>1, <3>1, RequestFacts
    <3>3. Conf(t).waf # NoWaf /\ Compiled(Conf(t).waf) = Conf(t).rules
      BY <3>1, <3>2 DEF Enforcing, Compiled
    <3>4. QED
      BY <1>4, <2>1, <3>1, <3>3, GivenEnforce
  <2>10. CASE Unlock(t)
    <3>1. /\ threads[t].pc = "unlock" /\ GoesTo(t, "use")
          /\ UNCHANGED <<text, made, own, scfs, confs, built>>
      BY <1>1, <2>10, UnlockFacts DEF configVars, childVars
    <3>2. Enforcing(text, built, Conf(t), threads[t], t)
      BY <1>4, <2>1, <3>1, RequestFacts
    <3>3. Conf(t).waf # NoWaf
      BY <3>1, <3>2 DEF Enforcing
    <3>4. QED
      BY <1>4, <2>1, <3>1, <3>3, SteadyEnforce
  <2>11. CASE UseWaf(t)
    BY <1>4, <2>1, <2>11, UseWafEnforce
  <2>12. CASE NoTransaction(t) \/ Finish(t)
    <3>1. Moves(t, Idle) /\ Keeps(t) /\ UNCHANGED <<text, made, own, scfs, built>>
      BY <1>1, <2>12, EndFacts DEF childVars
    <3>2. QED
      BY <1>4, <2>1, <3>1, IdleEnforce
  <2>13. QED
    BY <2>2, <2>3, <2>4, <2>5, <2>6, <2>7, <2>8, <2>9, <2>10, <2>11, <2>12 DEF Step
<1>5. QED
  BY <1>1, <1>2, <1>3, <1>4 DEF EnforceInv, ServersInv, DirsInv, ServingInv

(* Every step of the child keeps EnforceInv.                               *)
LEMMA EnforceStep ==
    ASSUME Inv, ConfInv, EnforceInv, [Next]_vars
    PROVE  EnforceInv'
<1>1. CASE ReadConfig /\ UNCHANGED <<childVars, storeVars>>
  BY <1>1, QuietEnforce
<1>2. CASE coraza_child_init /\ UNCHANGED storeVars
  BY <1>2, QuietEnforce, BuildServerEnforce, BuildDirEnforce DEF coraza_child_init
<1>3. ASSUME NEW t \in Threads, Start(t) \/ Step(t) PROVE EnforceInv'
  BY <1>3, StepsEnforce
<1>4. CASE Exit
  BY <1>4, QuietEnforce DEF Exit
<1>5. CASE Gone \/ UNCHANGED vars
  <2>1. UNCHANGED vars
    BY <1>5 DEF Gone
  <2>2. QED
    BY <2>1 DEF vars, configVars, childVars, storeVars, EnforceInv, ServersInv, DirsInv,
                ServingInv, ServersBuilt, Compiled, Conf, ServerConf, Defaults
<1>6. QED
  BY <1>1, <1>2, <1>3, <1>4, <1>5 DEF Next, Startup

(* As long as no build has failed, every WAF was compiled from rules that  *)
(* all its users may run on.                                               *)
THEOREM EnforceInvariance == Spec => []EnforceInv
<1>1. Init => EnforceInv
  BY EnforceInit
<1>2. Inv /\ ConfInv /\ EnforceInv /\ [Next]_vars => EnforceInv'
  BY EnforceStep
<1>3. QED
  BY <1>1, <1>2, StoreInvariance, ConfInvariance, PTL DEF Spec

(* What a request that is served runs on.                                  *)
LEMMA ServedSound ==
    ASSUME Inv, ConfInv, EnforceInv, failures = 0, NEW t \in Threads, Serving(t)
    PROVE  /\ Requested(t) \in Urls /\ text \in Texts
           /\ Sound(text, EnforcedRules(t), Requested(t), Len(Scopes(Requested(t))))
<1>1. phase = "ready" /\ threads[t].pc = "serving"
  BY DEF Serving, Inv, LifeInv, NoWafPhases, NoWafs
<1>2. ServingInv
  BY DEF EnforceInv
<1>3. /\ Enforcing(text, built, Conf(t), threads[t], t) /\ threads[t].todo = <<>>
      /\ threads[t].url \in Urls /\ text \in Texts
  BY <1>1, <1>2, RequestFacts
<1>4. Sound(text, built[threads[t].waf].rules, threads[t].url, Depth(threads[t]))
  BY <1>1, <1>3 DEF Enforcing
<1>5. Depth(threads[t]) = Len(Scopes(threads[t].url))
  <2>1. Len(Scopes(threads[t].url)) \in Nat
    BY <1>3, ScopesFacts
  <2>2. QED
    BY <1>3, <2>1 DEF Depth
<1>6. QED
  BY <1>3, <1>4, <1>5 DEF EnforcedRules, Requested

(* As long as every build has succeeded, neither g_waf_cache, nor a        *)
(* merge_child, nor the WAF another thread builds hands a request the WAF  *)
(* of another scope: the rules it runs on end with those of its innermost  *)
(* scope, for every configuration, every set of URLs and of threads.       *)
THEOREM OwnRulesEnforcedHolds == Spec => []OwnRulesEnforced
<1>1. ASSUME Inv, ConfInv, EnforceInv PROVE OwnRulesEnforced
  <2>1. ASSUME NEW t \in Threads, Serving(t), failures = 0
        PROVE  IsSuffix(OwnRules(text, Requested(t)), EnforcedRules(t))
    BY <1>1, <2>1, ServedSound, SoundSuffix
  <2>2. QED
    BY <2>1 DEF OwnRulesEnforced
<1>2. QED
  BY <1>1, StoreInvariance, ConfInvariance, EnforceInvariance, PTL

(* Where every section with rules is reached with the same rules around    *)
(* it, sharing a WAF loses nothing: a request runs on the rules of all its *)
(* scopes.                                                                 *)
THEOREM InheritedUnlessSharedHolds == Spec => []InheritedUnlessShared
<1>1. ASSUME Inv, ConfInv, EnforceInv PROVE InheritedUnlessShared
  <2>1. ASSUME OneContextPerSection(text), NEW t \in Threads, Serving(t), failures = 0
        PROVE  EnforcedRules(t) = RulesAlong(text, Requested(t))
    BY <1>1, <2>1, ServedSound, SoundAlong
  <2>2. QED
    BY <2>1 DEF InheritedUnlessShared, InheritedRulesEnforced
<1>2. QED
  BY <1>1, StoreInvariance, ConfInvariance, EnforceInvariance, PTL

=============================================================================
