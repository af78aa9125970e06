-------------------------- MODULE CosignRound_proof --------------------------
(***************************************************************************)
(* Proofs about CosignRound for any signers, transactions, 45' addresses   *)
(* and quorum, on the straight path (Detours = {}).                        *)
(***************************************************************************)
EXTENDS CosignRound, FiniteSetTheorems, NaturalsInduction, WellFoundedInduction,
        SequenceTheorems, TLAPS

-----------------------------------------------------------------------------
(* Order and recursion.                                                    *)

LEMMA Least ==
  ASSUME NEW T, T \subseteq Nat, T # {}
  PROVE  \E x \in T : \A y \in T : x <= y
<1>1. IsWellFoundedOn({ss \in Nat \X Nat : ss[1] < ss[2]}, Nat)
  BY Zenon, NatLessThanWellFounded DEF OpToRel
<1>2. PICK x \in T : \A y \in T : ~ (<<y, x>> \in {ss \in Nat \X Nat : ss[1] < ss[2]})
  BY <1>1, WFMin, Zenon
<1>3. ASSUME NEW y \in T PROVE x <= y
  <2>1. x \in Nat /\ y \in Nat /\ <<y, x>> \in Nat \X Nat
    OBVIOUS
  <2>2. ~(y < x)
    BY <1>2, <2>1, Zenon
  <2>3. QED BY <2>1, <2>2
<1>4. QED BY <1>3

(* What holds of 0 and passes from each number to the next holds of all,   *)
(* said of the set of the numbers it holds of.                             *)
LEMMA Reaches ==
  ASSUME NEW T, 0 \in T, \A m \in Nat : m \in T => m + 1 \in T
  PROVE  Nat \subseteq T
<1>1. SUFFICES ASSUME Nat \ T # {} PROVE FALSE
  OBVIOUS
<1>2. PICK x \in Nat \ T : \A y \in Nat \ T : x <= y
  BY <1>1, Least
<1>3. x # 0 /\ x - 1 \in Nat /\ x - 1 \in T
  <2>1. x # 0 /\ x - 1 \in Nat
    BY <1>2
  <2>2. QED BY <1>2, <2>1
<1>4. (x - 1) + 1 \in T
  BY <1>3
<1>5. QED BY <1>2, <1>4

(* InOrder lists a finite set by increasing rank.                          *)
LEMMA InOrderSorts ==
  ASSUME NEW S, IsFiniteSet(S), NEW rank \in [S -> Nat],
         \A e, f \in S : rank[e] = rank[f] => e = f
  PROVE  LET s == InOrder(S, rank) IN
         /\ s \in Seq(S) /\ Len(s) = Cardinality(S) /\ DOMAIN s = 1 .. Cardinality(S)
         /\ \A e \in S : \E j \in DOMAIN s : s[j] = e
         /\ \A j, k \in DOMAIN s : j < k => rank[s[j]] < rank[s[k]]
<1> DEFINE n == Cardinality(S)
           Before(e) == {f \in S : rank[f] < rank[e]}
           place == [e \in S |-> Cardinality(Before(e)) + 1]
           s == InOrder(S, rank)
<1>1. n \in Nat
  BY FS_CardinalityType
<1>2. \A e \in S : /\ IsFiniteSet(Before(e)) /\ Cardinality(Before(e)) \in Nat
                   /\ Cardinality(Before(e)) + 1 <= n
  <2>1. SUFFICES ASSUME NEW e \in S
                 PROVE  /\ IsFiniteSet(Before(e)) /\ Cardinality(Before(e)) \in Nat
                        /\ Cardinality(Before(e)) + 1 <= n
    OBVIOUS
  <2>2. Before(e) \in SUBSET S /\ Before(e) # S
    OBVIOUS
  <2>3. /\ IsFiniteSet(Before(e)) /\ Cardinality(Before(e)) <= n
        /\ Cardinality(Before(e)) # n
    BY <2>2, FS_Subset, Zenon
  <2>4. Cardinality(Before(e)) \in Nat
    BY <2>3, FS_CardinalityType
  <2>5. QED BY <1>1, <2>3, <2>4
<1>3. \A e, f \in S : rank[e] < rank[f] => Cardinality(Before(e)) < Cardinality(Before(f))
  <2>1. SUFFICES ASSUME NEW e \in S, NEW f \in S, rank[e] < rank[f]
                 PROVE  Cardinality(Before(e)) < Cardinality(Before(f))
    OBVIOUS
  <2>2. rank[e] \in Nat /\ rank[f] \in Nat /\ \A g \in S : rank[g] \in Nat
    OBVIOUS
  <2>3. Before(e) \cup {e} \in SUBSET Before(f) /\ e \notin Before(e)
    BY <2>1, <2>2
  <2>4. IsFiniteSet(Before(e)) /\ IsFiniteSet(Before(f)) /\ Cardinality(Before(f)) \in Nat
        /\ Cardinality(Before(e)) \in Nat
    BY <1>2
  <2> HIDE DEF Before
  <2>5. Cardinality(Before(e) \cup {e}) = Cardinality(Before(e)) + 1
    BY <2>3, <2>4, FS_AddElement
  <2>6. Cardinality(Before(e) \cup {e}) <= Cardinality(Before(f))
    BY <2>3, <2>4, FS_Subset
  <2>7. QED BY <2>4, <2>5, <2>6
<1>4. place \in Injection(S, 1 .. n)
  <2>1. place \in [S -> 1 .. n]
    <3> HIDE DEF Before
    <3> QED BY <1>1, <1>2
  <2>2. ASSUME NEW e \in S, NEW f \in S, place[e] = place[f] PROVE e = f
    <3>1. Cardinality(Before(e)) = Cardinality(Before(f))
      <4> HIDE DEF Before
      <4> QED BY <1>2, <2>2
    <3>2. ~(rank[e] < rank[f]) /\ ~(rank[f] < rank[e])
      <4> HIDE DEF Before
      <4> QED BY <1>2, <1>3, <3>1
    <3>3. rank[e] \in Nat /\ rank[f] \in Nat
      OBVIOUS
    <3>4. QED BY <3>2, <3>3
  <2> HIDE DEF place
  <2>3. QED BY <2>1, <2>2 DEF Injection, IsInjective
<1>5. place \in Surjection(S, 1 .. n)
  <2>1. IsFiniteSet(1 .. n) /\ Cardinality(1 .. n) = n
    BY <1>1, FS_Interval
  <2> HIDE DEF place, n
  <2>2. QED BY <1>4, <2>1, FS_Injection DEF n
<1>6. \A j \in 1 .. n : \E e \in S : Cardinality(Before(e)) = j - 1
  <2>1. \A j \in 1 .. n : \E e \in S : place[e] = j
    <3> HIDE DEF place
    <3> QED BY <1>5 DEF Surjection
  <2>2. QED
    <3> HIDE DEF Before
    <3> QED BY <1>1, <1>2, <2>1
<1>7. /\ DOMAIN s = 1 .. n
      /\ \A j \in 1 .. n : s[j] = CHOOSE e \in S : Cardinality(Before(e)) = j - 1
  BY DEF InOrder
<1>71. s = [j \in 1 .. n |-> s[j]]
  <2> DEFINE P(j) == CHOOSE e \in S : Cardinality(Before(e)) = j - 1
  <2>1. s = [j \in 1 .. n |-> P(j)]
    BY Zenon DEF InOrder
  <2> HIDE DEF s, P, n
  <2>2. QED BY <2>1
<1> HIDE DEF s, Before
<1>8. \A j \in 1 .. n : s[j] \in S /\ Cardinality(Before(s[j])) = j - 1
  BY <1>6, <1>7, Zenon
<1>9. s \in Seq(S) /\ Len(s) = n
  <2>1. s \in [1 .. n -> S]
    <3> HIDE DEF n
    <3> QED BY <1>71, <1>8
  <2>2. QED BY <1>1, <2>1, SeqDef, LenProperties
<1>10. ASSUME NEW e \in S PROVE \E j \in 1 .. n : s[j] = e
  <2> DEFINE j == Cardinality(Before(e)) + 1
  <2>1. j \in 1 .. n /\ Cardinality(Before(e)) \in Nat
    BY <1>1, <1>2
  <2>2. Cardinality(Before(s[j])) = Cardinality(Before(e)) /\ s[j] \in S
    BY <1>8, <2>1
  <2>3. ~(rank[e] < rank[s[j]]) /\ ~(rank[s[j]] < rank[e])
    BY <1>3, <2>1, <2>2
  <2>4. rank[e] = rank[s[j]]
    BY <2>2, <2>3
  <2>5. QED BY <2>1, <2>2, <2>4
<1>11. ASSUME NEW j \in 1 .. n, NEW k \in 1 .. n, j < k PROVE rank[s[j]] < rank[s[k]]
  <2>1. /\ s[j] \in S /\ s[k] \in S /\ rank[s[j]] \in Nat /\ rank[s[k]] \in Nat
        /\ Cardinality(Before(s[j])) = j - 1 /\ Cardinality(Before(s[k])) = k - 1
    BY <1>8
  <2>2. ~(rank[s[k]] < rank[s[j]])
    BY <1>3, <1>11, <2>1
  <2>3. s[j] # s[k]
    BY <1>11, <2>1
  <2>4. QED BY <2>1, <2>2, <2>3
<1>12. QED BY <1>7, <1>9, <1>10, <1>11 DEF s

-----------------------------------------------------------------------------
(* The signer's key search.                                                *)

(* The kept key is none, the one of the hint it is filed under, or the     *)
(* device's own in the ring of the last search, if it has one there.       *)
OwnPaths(d, ring) == {<<d, p>> : p \in Paths} \cap Range(ring)
CacheOK(d, c) ==
  \/ c.under = None /\ c.key = None
  \/ c.under \in Paths /\ c.key = <<d, c.under>>
  \/ /\ c.under = "search"
     /\ IF OwnPaths(d, c.for) = {} THEN c.key = None ELSE c.key \in OwnPaths(d, c.for)

LEMMA InputFacts ==
  ASSUME NEW in \in Inputs
  PROVE  /\ in.ring \in Seq(Keys) /\ DOMAIN in.ring = 1 .. Len(in.ring)
         /\ Len(in.ring) \in Nat /\ Len(in.ring) <= MaxSigs
         /\ Range(in.ring) \subseteq Keys
         /\ \A k, l \in Range(in.ring) : k[1] = l[1] => k = l
         /\ \A p, q \in 1 .. Len(in.ring) : in.ring[p][1] = in.ring[q][1] => p = q
         /\ in.hint = None \/ (in.hint \in Paths /\ Range(in.ring) \subseteq Devices \X Paths)
<1>1. in.ring \in Seq(Keys) /\ in.hint \in Paths \cup {None}
  BY DEF Inputs
<1>2. DOMAIN in.ring = 1 .. Len(in.ring) /\ Len(in.ring) \in Nat
  BY <1>1, LenProperties
<1>3. \A p \in 1 .. Len(in.ring) : in.ring[p] \in Keys
  BY <1>1, ElementOfSeq
<1>4. QED BY <1>1, <1>2, <1>3 DEF Inputs, Range

(* One input: whatever the inputs before left, its own key is found.       *)
LEMMA SignOneFinds ==
  ASSUME NEW d \in Devices, NEW in \in Inputs, NEW c, NEW have,
         c = [under |-> c.under, for |-> c.for, key |-> c.key], CacheOK(d, c)
  PROVE  /\ SignOne(d, c, in, have).new = Owns(d, in) \ have
         /\ LET a == SignOne(d, c, in, have).cache IN
            a = [under |-> a.under, for |-> a.for, key |-> a.key] /\ CacheOK(d, a)
<1> DEFINE R == Range(in.ring)
           hinted == Hinted(d, c, in)
           first == FirstMatch(d, hinted, in) \ have
           searched == Searched(d, hinted, in)
           own == OwnPaths(d, in.ring)
<1>0. /\ R \subseteq Keys /\ \A k, l \in R : k[1] = l[1] => k = l
      /\ in.hint = None \/ (in.hint \in Paths /\ R \subseteq Devices \X Paths)
  BY InputFacts
<1>1. /\ SignOne(d, c, in, have).new
           = IF first # {} THEN first ELSE FirstMatch(d, searched, in) \ have
      /\ SignOne(d, c, in, have).cache = IF first # {} THEN hinted ELSE searched
  BY DEF SignOne
<1>2. CASE in.hint # None
  <2>0. in.hint \in Paths /\ R \subseteq Devices \X Paths
    BY <1>0, <1>2
  <2>1. /\ hinted = [under |-> hinted.under, for |-> hinted.for, key |-> hinted.key]
        /\ hinted.under = in.hint /\ hinted.key = <<d, in.hint>>
    BY <1>2, <2>0, PathsAssumption, NoneAssumption DEF Hinted, CacheOK
  <2>2. searched = hinted
    BY <1>2 DEF Searched
  <2>3. <<d, "account">> \notin R
    BY <2>0, PathsAssumption
  <2>4. FirstMatch(d, hinted, in) = {<<d, in.hint>>} \cap R
    BY <1>2, <2>1, <2>3 DEF FirstMatch
  <2>5. Owns(d, in) = {<<d, in.hint>>} \cap R
    BY <1>2, <2>0 DEF Owns
  <2>6. CacheOK(d, hinted)
    BY <2>0, <2>1 DEF CacheOK
  <2> HIDE DEF hinted, searched, R
  <2>7. QED BY <1>1, <2>1, <2>2, <2>4, <2>5, <2>6
<1>3. CASE in.hint = None
  <2>1. hinted = c
    BY <1>3 DEF Hinted
  <2>2. Owns(d, in) = {k \in R : k[1] = d}
    BY <1>3 DEF Owns
  <2>3. \A k \in Owns(d, in) : Owns(d, in) = {k}
    BY <1>0, <2>2
  <2>4. own \subseteq Owns(d, in)
    BY <2>2 DEF OwnPaths
  <2>5. /\ searched = [under |-> searched.under, for |-> searched.for, key |-> searched.key]
        /\ CacheOK(d, searched) /\ searched.under = "search"
        /\ IF own = {} THEN searched.key = None ELSE searched.key \in own
    <3>1. CASE c.under = "search" /\ c.for = in.ring
      <4>1. searched = c
        BY <1>3, <2>1, <3>1 DEF Searched
      <4>2. c.under \notin Paths /\ c.under # None
        BY <3>1, PathsAssumption, NoneAssumption
      <4>3. QED BY <3>1, <4>1, <4>2 DEF CacheOK
    <3>2. CASE ~(c.under = "search" /\ c.for = in.ring)
      <4>1. searched = [under |-> "search", for |-> in.ring,
                        key |-> IF own = {} THEN None ELSE CHOOSE k \in own : TRUE]
        BY <1>3, <2>1, <3>2 DEF Searched, OwnPaths
      <4> HIDE DEF searched
      <4>2. own # {} => (CHOOSE k \in own : TRUE) \in own
        OBVIOUS
      <4> HIDE DEF own
      <4>3. /\ searched.under = "search" /\ searched.for = in.ring
            /\ IF own = {} THEN searched.key = None ELSE searched.key \in own
        BY <4>1, <4>2
      <4>4. QED BY <4>1, <4>3 DEF CacheOK, own
    <3>3. QED BY <3>1, <3>2
  <2>6. CASE <<d, "account">> \in R
    <3>1. FirstMatch(d, hinted, in) = {<<d, "account">>}
          /\ FirstMatch(d, searched, in) = {<<d, "account">>}
      BY <2>6 DEF FirstMatch
    <3>2. Owns(d, in) = {<<d, "account">>}
      BY <2>2, <2>3, <2>6
    <3> HIDE DEF hinted, searched, R
    <3>3. QED BY <1>1, <2>1, <2>5, <3>1, <3>2
  <2>7. CASE <<d, "account">> \notin R
    <3>1. Owns(d, in) = own \cup ({<<d, "address">>} \cap R)
      BY <1>0, <2>2, <2>7 DEF OwnPaths, Keys
    <3>2. None \notin R /\ \A k \in own : k # None
      BY <1>0, NoneAssumption DEF OwnPaths
    <3>3. FirstMatch(d, searched, in) = Owns(d, in)
      <4>1. CASE own = {}
        BY <1>3, <2>5, <2>7, <3>1, <4>1 DEF FirstMatch
      <4>2. CASE own # {}
        <5>1. searched.key \in own /\ searched.key # None
          BY <2>5, <3>2, <4>2
        <5>2. FirstMatch(d, searched, in) = {searched.key} \cap R
          BY <2>7, <5>1 DEF FirstMatch
        <5>3. searched.key \in R /\ Owns(d, in) = {searched.key}
          BY <2>3, <2>4, <5>1 DEF OwnPaths
        <5>4. QED BY <5>2, <5>3
      <4>3. QED BY <4>1, <4>2
    <3>4. FirstMatch(d, c, in) \subseteq Owns(d, in)
      <4>1. CASE c.key = None
        BY <1>3, <2>7, <3>1, <4>1 DEF FirstMatch
      <4>2. CASE c.key # None
        <5>1. FirstMatch(d, c, in) = {c.key} \cap R
          BY <2>7, <4>2 DEF FirstMatch
        <5>2. c.key[1] = d
          BY <4>2 DEF CacheOK, OwnPaths
        <5>3. QED BY <2>2, <5>1, <5>2
      <4>3. QED BY <4>1, <4>2
    <3>5. first # {} => first = Owns(d, in) \ have
      <4>1. ASSUME first # {} PROVE first = Owns(d, in) \ have
        <5>1. PICK k : k \in FirstMatch(d, c, in) /\ k \notin have
          BY <2>1, <4>1
        <5>2. Owns(d, in) = {k}
          BY <2>3, <3>4, <5>1
        <5>3. QED BY <2>1, <3>4, <5>1, <5>2
      <4>2. QED BY <4>1
    <3> HIDE DEF hinted, searched, R, first
    <3>6. QED BY <1>1, <2>1, <2>5, <3>3, <3>5
  <2>8. QED BY <2>6, <2>7
<1>4. QED BY <1>2, <1>3

(* The loop over the inputs, as the function NewKeys defines.              *)
After(d, ins, have, g, n) ==
  g = [i \in 0 .. n |-> IF i = 0 THEN [new |-> {}, cache |-> NoCache]
                        ELSE SignOne(d, g[i - 1].cache, ins[i], have[i])]

LEMMA AfterExists ==
  ASSUME NEW d, NEW ins, NEW have, NEW n \in Nat
  PROVE  \E g : After(d, ins, have, g, n)
<1> DEFINE T == {m \in Nat : \E g : After(d, ins, have, g, m)}
<1>1. 0 \in T
  <2> DEFINE g == [i \in 0 .. 0 |-> [new |-> {}, cache |-> NoCache]]
  <2>1. After(d, ins, have, g, 0)
    BY DEF After
  <2>2. QED BY <2>1
<1>2. ASSUME NEW m \in Nat, m \in T PROVE m + 1 \in T
  <2>1. PICK g : After(d, ins, have, g, m)
    BY <1>2
  <2> DEFINE h == [i \in 0 .. (m + 1) |->
                    IF i <= m THEN g[i] ELSE SignOne(d, g[m].cache, ins[m + 1], have[m + 1])]
  <2>2. \A i \in 0 .. m : h[i] = g[i]
    OBVIOUS
  <2>3. h[m + 1] = SignOne(d, h[m].cache, ins[m + 1], have[m + 1])
    OBVIOUS
  <2>4. \A i \in 0 .. m : g[i] = IF i = 0 THEN [new |-> {}, cache |-> NoCache]
                                 ELSE SignOne(d, g[i - 1].cache, ins[i], have[i])
    BY <2>1 DEF After
  <2>5. \A i \in 0 .. (m + 1) : h[i] = IF i = 0 THEN [new |-> {}, cache |-> NoCache]
                                       ELSE SignOne(d, h[i - 1].cache, ins[i], have[i])
    <3>1. ASSUME NEW i \in 0 .. m
          PROVE  h[i] = IF i = 0 THEN [new |-> {}, cache |-> NoCache]
                        ELSE SignOne(d, h[i - 1].cache, ins[i], have[i])
      <4>1. i # 0 => i - 1 \in 0 .. m
        OBVIOUS
      <4> HIDE DEF h
      <4>2. QED BY <2>2, <2>4, <4>1
    <3>2. \A i \in 0 .. (m + 1) : i \in 0 .. m \/ i = m + 1
      OBVIOUS
    <3>3. (m + 1) - 1 = m /\ m + 1 # 0
      OBVIOUS
    <3> HIDE DEF h
    <3>4. QED BY <2>3, <3>1, <3>2, <3>3
  <2>6. After(d, ins, have, h, m + 1)
    <3>1. h = [i \in 0 .. (m + 1) |-> h[i]]
      OBVIOUS
    <3> HIDE DEF h
    <3>2. QED BY <2>5, <3>1 DEF After
  <2>7. QED BY <2>6
<1> HIDE DEF T
<1>3. Nat \subseteq T
  BY <1>1, <1>2, Reaches
<1>4. QED BY <1>3 DEF T

(* Every input is signed with exactly the device's keys not there yet.     *)
LEMMA NewKeysAre ==
  ASSUME NEW d \in Devices, NEW ins \in Seq(Inputs), NEW have
  PROVE  /\ DOMAIN NewKeys(d, ins, have) = 1 .. Len(ins)
         /\ \A i \in 1 .. Len(ins) : NewKeys(d, ins, have)[i] = Owns(d, ins[i]) \ have[i]
<1> DEFINE n == Len(ins)
           after == CHOOSE g : After(d, ins, have, g, n)
<1>0. n \in Nat /\ \A i \in 1 .. n : ins[i] \in Inputs
  BY LenProperties, ElementOfSeq
<1>1. After(d, ins, have, after, n)
  <2> HIDE DEF n
  <2> QED BY <1>0, AfterExists, Zenon
<1>2. NewKeys(d, ins, have) = [i \in 1 .. n |-> after[i].new]
  BY Zenon DEF NewKeys, After
<1> HIDE DEF after, n
<1>3. /\ after[0].cache = NoCache
      /\ \A i \in 1 .. n : after[i] = SignOne(d, after[i - 1].cache, ins[i], have[i])
  BY <1>0, <1>1 DEF After
<1> DEFINE Good(i) == LET c == after[i].cache IN
                        c = [under |-> c.under, for |-> c.for, key |-> c.key] /\ CacheOK(d, c)
           T == {i \in Nat : i <= n => Good(i)}
<1>4. Good(0)
  BY <1>3 DEF NoCache, CacheOK
<1>5. ASSUME NEW m \in Nat, m \in T PROVE m + 1 \in T
  <2>1. SUFFICES ASSUME m + 1 <= n PROVE Good(m + 1)
    OBVIOUS
  <2>2. Good(m) /\ m + 1 \in 1 .. n /\ (m + 1) - 1 = m
    BY <1>0, <1>5, <2>1
  <2>3. after[m + 1] = SignOne(d, after[m].cache, ins[m + 1], have[m + 1])
    BY <1>3, <2>2
  <2>4. ins[m + 1] \in Inputs
    BY <1>0, <2>2
  <2> DEFINE c == after[m].cache
  <2>5. c = [under |-> c.under, for |-> c.for, key |-> c.key] /\ CacheOK(d, c)
    BY <2>2
  <2>6. after[m + 1].cache = SignOne(d, c, ins[m + 1], have[m + 1]).cache
    BY <2>3
  <2> HIDE DEF c
  <2>7. LET a == SignOne(d, c, ins[m + 1], have[m + 1]).cache IN
        a = [under |-> a.under, for |-> a.for, key |-> a.key] /\ CacheOK(d, a)
    BY <2>4, <2>5, SignOneFinds
  <2>8. QED BY <2>6, <2>7
<1>6. Nat \subseteq T
  <2>1. 0 \in T
    BY <1>4
  <2> HIDE DEF T
  <2>2. QED BY <1>5, <2>1, Reaches
<1>7. \A i \in 0 .. n : Good(i)
  BY <1>0, <1>6
<1>8. ASSUME NEW i \in 1 .. n PROVE after[i].new = Owns(d, ins[i]) \ have[i]
  <2>1. Good(i - 1) /\ ins[i] \in Inputs
    BY <1>0, <1>7
  <2>2. after[i] = SignOne(d, after[i - 1].cache, ins[i], have[i])
    BY <1>3
  <2> DEFINE c == after[i - 1].cache
             in == ins[i]
             hv == have[i]
  <2>3. c = [under |-> c.under, for |-> c.for, key |-> c.key] /\ CacheOK(d, c)
        /\ in \in Inputs
    BY <2>1
  <2> HIDE DEF c, in, hv
  <2>4. /\ SignOne(d, c, in, hv).new = Owns(d, in) \ hv
        /\ LET a == SignOne(d, c, in, hv).cache IN
           a = [under |-> a.under, for |-> a.for, key |-> a.key] /\ CacheOK(d, a)
    BY <2>3, SignOneFinds, Zenon
  <2>5. QED BY <2>2, <2>4 DEF c, in, hv
<1>9. QED BY <1>2, <1>8 DEF n


-----------------------------------------------------------------------------
(* What a signature entry of a bundle, and a record of a KSPT, may be: for *)
(* an approved key of the input's ring, and for this transaction.          *)

Entry(format, k, t) ==
  [key |-> k, prefix |-> IF format = "pskb" THEN Prefix(k) ELSE 2, of |-> t]
Allowed(in, t, app) == {k \in Range(in.ring) : <<k[1], t>> \in app}
Entries(in, t, format, app) == {Entry(format, k, t) : k \in Allowed(in, t, app)}
KeysOf(E) == {e.key : e \in E}

RecordsOK(in, t, app, s) ==
  /\ s \in Seq([pos : 1 .. Len(in.ring), of : {t}])
  /\ \A j, k \in 1 .. Len(s) : s[j].pos = s[k].pos => j = k
  /\ \A j \in 1 .. Len(s) : <<in.ring[s[j].pos][1], t>> \in app

LEMMA RingFacts ==
  ASSUME NEW in \in Inputs
  PROVE  /\ IsFiniteSet(Range(in.ring)) /\ Cardinality(Range(in.ring)) <= Len(in.ring)
         /\ Cardinality(Range(in.ring)) \in Nat
         /\ \A n \in 1 .. Len(in.ring) :
              in.ring[n] \in Range(in.ring) /\ Position(in, in.ring[n]) = n
         /\ \A k \in Range(in.ring) :
              Position(in, k) \in 1 .. Len(in.ring) /\ in.ring[Position(in, k)] = k
<1> DEFINE N == 1 .. Len(in.ring)
<1>1. /\ in.ring \in Seq(Keys) /\ DOMAIN in.ring = N /\ Len(in.ring) \in Nat
      /\ in.ring \in [N -> Keys]
      /\ \A p, q \in N : in.ring[p][1] = in.ring[q][1] => p = q
  BY InputFacts, LenProperties
<1>2. in.ring \in Surjection(N, Range(in.ring))
  BY <1>1 DEF Surjection, Range
<1>3. IsFiniteSet(N) /\ Cardinality(N) = Len(in.ring)
  BY <1>1, FS_Interval
<1>4. /\ IsFiniteSet(Range(in.ring)) /\ Cardinality(Range(in.ring)) <= Len(in.ring)
  BY <1>2, <1>3, FS_Surjection
<1>5. \A k \in Range(in.ring) : \E n \in N : in.ring[n] = k
  BY <1>1 DEF Range
<1>6. \A k \in Range(in.ring) : Position(in, k) \in N /\ in.ring[Position(in, k)] = k
  BY <1>5, Zenon DEF Position
<1>7. \A n \in N : in.ring[n] \in Range(in.ring)
  BY <1>1 DEF Range
<1>8. ASSUME NEW n \in N PROVE Position(in, in.ring[n]) = n
  <2>1. /\ Position(in, in.ring[n]) \in N
        /\ in.ring[Position(in, in.ring[n])] = in.ring[n]
    BY <1>6, <1>7
  <2>2. QED BY <1>1, <2>1
<1>9. Cardinality(Range(in.ring)) \in Nat
  BY <1>4, FS_CardinalityType
<1>10. QED BY <1>4, <1>6, <1>7, <1>8, <1>9

EntriesAre(in, t, format, app, E) ==
  /\ IsFiniteSet(E) /\ Cardinality(E) \in Nat
  /\ Cardinality(E) = Cardinality(KeysOf(E))
  /\ KeysOf(E) \subseteq Range(in.ring) /\ Cardinality(E) <= Len(in.ring)
  /\ \A e \in E : /\ e = Entry(format, e.key, t) /\ e.key \in Range(in.ring)
                  /\ <<e.key[1], t>> \in app /\ e.prefix \in {2, 3} /\ e.of = t

LEMMA EntriesFacts ==
  ASSUME NEW in \in Inputs, NEW t, NEW format, NEW app,
         NEW E \in SUBSET Entries(in, t, format, app)
  PROVE  EntriesAre(in, t, format, app, E)
<1>1. \A e \in E : /\ e = Entry(format, e.key, t) /\ e.key \in Range(in.ring)
                   /\ <<e.key[1], t>> \in app
  <2>1. SUFFICES ASSUME NEW e \in E
                 PROVE  /\ e = Entry(format, e.key, t) /\ e.key \in Range(in.ring)
                        /\ <<e.key[1], t>> \in app
    OBVIOUS
  <2>2. PICK k \in Allowed(in, t, app) : e = Entry(format, k, t)
    BY DEF Entries
  <2>3. e.key = k
    BY <2>2 DEF Entry
  <2>4. QED BY <2>2, <2>3 DEF Allowed
<1>2. \A e \in E : e.prefix \in {2, 3} /\ e.of = t
  BY DEF Entries, Entry, Prefix
<1>3. KeysOf(E) \subseteq Range(in.ring)
  BY <1>1 DEF KeysOf
<1>4. IsFiniteSet(KeysOf(E)) /\ Cardinality(KeysOf(E)) <= Len(in.ring)
      /\ Cardinality(KeysOf(E)) \in Nat
  <2>1. /\ IsFiniteSet(Range(in.ring)) /\ Cardinality(Range(in.ring)) <= Len(in.ring)
        /\ Cardinality(Range(in.ring)) \in Nat /\ Len(in.ring) \in Nat
    BY RingFacts, InputFacts
  <2>2. IsFiniteSet(KeysOf(E)) /\ Cardinality(KeysOf(E)) <= Cardinality(Range(in.ring))
    BY <1>3, <2>1, FS_Subset
  <2>3. Cardinality(KeysOf(E)) \in Nat
    BY <2>2, FS_CardinalityType
  <2>4. QED BY <2>1, <2>2, <2>3
<1>5. ExistsBijection(KeysOf(E), E)
  <2> DEFINE f == [k \in KeysOf(E) |-> Entry(format, k, t)]
  <2>1. f \in [KeysOf(E) -> E]
    BY <1>1 DEF KeysOf
  <2>2. \A k, l \in KeysOf(E) : f[k] = f[l] => k = l
    BY DEF Entry
  <2>3. \A e \in E : \E k \in KeysOf(E) : f[k] = e
    BY <1>1 DEF KeysOf
  <2> HIDE DEF f
  <2>4. f \in Bijection(KeysOf(E), E)
    BY <2>1, <2>2, <2>3 DEF Bijection, Injection, Surjection, IsInjective
  <2>5. QED BY <2>4 DEF ExistsBijection
<1>6. IsFiniteSet(E) /\ Cardinality(E) = Cardinality(KeysOf(E))
  BY <1>4, <1>5, FS_Bijection
<1>7. QED BY <1>1, <1>2, <1>3, <1>4, <1>6 DEF EntriesAre

(* What is written for an input: one record per entry, by position.        *)
RecordsAre(in, t, app, E, R) ==
  /\ Len(R) = Cardinality(E) /\ Len(R) <= MaxSigs
  /\ RecordsOK(in, t, app, R)
  /\ \A j, k \in 1 .. Len(R) : j < k => R[j].pos < R[k].pos
  /\ {in.ring[n] : n \in PositionsIn(R)} = KeysOf(E)

LEMMA RecordsFacts ==
  ASSUME NEW in \in Inputs, NEW t, NEW format, NEW app,
         NEW E \in SUBSET Entries(in, t, format, app)
  PROVE  RecordsAre(in, t, app, E, Records(in, E))
<1> DEFINE rank == [e \in E |-> 2 * Position(in, e.key) + e.prefix]
           s == InOrder(E, rank)
           R == Records(in, E)
           c == Cardinality(E)
<1>1. /\ IsFiniteSet(E) /\ Cardinality(E) \in Nat /\ Cardinality(E) <= Len(in.ring)
      /\ \A e \in E : /\ e = Entry(format, e.key, t) /\ e.key \in Range(in.ring)
                      /\ <<e.key[1], t>> \in app /\ e.prefix \in {2, 3} /\ e.of = t
  <2>1. EntriesAre(in, t, format, app, E)
    BY EntriesFacts
  <2>2. QED BY <2>1 DEF EntriesAre
<1>2. /\ Len(in.ring) \in Nat /\ Len(in.ring) <= MaxSigs
      /\ \A k \in Range(in.ring) :
           Position(in, k) \in 1 .. Len(in.ring) /\ in.ring[Position(in, k)] = k
  BY InputFacts, RingFacts
<1>3. \A e \in E : /\ Position(in, e.key) \in Nat /\ e.prefix \in Nat
                   /\ Position(in, e.key) \in 1 .. Len(in.ring)
                   /\ in.ring[Position(in, e.key)] = e.key
  <2>1. \A e \in E : e.key \in Range(in.ring) /\ e.prefix \in {2, 3}
    BY <1>1
  <2>2. QED BY <1>2, <2>1
<1>4. rank \in [E -> Nat]
  BY <1>3
<1>5. ASSUME NEW e \in E, NEW f \in E, rank[e] <= rank[f]
      PROVE  e = f \/ Position(in, e.key) < Position(in, f.key)
  <2>1. Position(in, e.key) <= Position(in, f.key)
    <3>1. 2 * Position(in, e.key) + e.prefix <= 2 * Position(in, f.key) + f.prefix
      BY <1>5
    <3>2. /\ Position(in, e.key) \in Nat /\ Position(in, f.key) \in Nat
          /\ e.prefix \in {2, 3} /\ f.prefix \in {2, 3}
      BY <1>1, <1>3
    <3>3. QED BY <3>1, <3>2
  <2>2. Position(in, e.key) = Position(in, f.key) => e.key = f.key
    BY <1>3
  <2>3. e.key = f.key => e = f
    BY <1>1
  <2>4. QED BY <1>3, <2>1, <2>2, <2>3
<1>6. \A e, f \in E : rank[e] = rank[f] => e = f
  <2>1. SUFFICES ASSUME NEW e \in E, NEW f \in E, rank[e] = rank[f] PROVE e = f
    OBVIOUS
  <2>2. rank[e] \in Nat /\ rank[f] \in Nat
    BY <1>4
  <2> HIDE DEF rank
  <2>3. rank[e] <= rank[f] /\ rank[f] <= rank[e]
    BY <2>1, <2>2
  <2>4. QED BY <1>3, <1>5, <2>3
<1>7. /\ s \in Seq(E) /\ Len(s) = c /\ DOMAIN s = 1 .. c
      /\ \A e \in E : \E j \in DOMAIN s : s[j] = e
      /\ \A j, k \in DOMAIN s : j < k => rank[s[j]] < rank[s[k]]
  <2> HIDE DEF rank
  <2> QED BY <1>1, <1>4, <1>6, InOrderSorts
<1>8. R = [j \in 1 .. c |-> [pos |-> Position(in, s[j].key), of |-> s[j].of]]
  <2>1. R = [j \in 1 .. Len(s) |-> [pos |-> Position(in, s[j].key), of |-> s[j].of]]
    BY Zenon DEF Records
  <2> HIDE DEF R, s
  <2>2. QED BY <1>7, <2>1
<1>81. c \in Nat
  BY <1>1
<1> HIDE DEF R, s, c
<1>82. \A j \in 1 .. c : s[j] \in E
  BY <1>7, ElementOfSeq
<1>83. \A j \in 1 .. c : R[j] = [pos |-> Position(in, s[j].key), of |-> s[j].of]
  BY <1>8
<1>84. \A j \in 1 .. c : R[j].pos = Position(in, s[j].key) /\ R[j].of = s[j].of
  <2>1. SUFFICES ASSUME NEW j \in 1 .. c
                 PROVE  R[j].pos = Position(in, s[j].key) /\ R[j].of = s[j].of
    OBVIOUS
  <2> DEFINE r == R[j]
  <2>2. r = [pos |-> Position(in, s[j].key), of |-> s[j].of]
    BY <1>83
  <2> HIDE DEF r
  <2>3. r.pos = Position(in, s[j].key) /\ r.of = s[j].of
    BY <2>2
  <2>4. QED BY <2>3 DEF r
<1>9. \A j \in 1 .. c :
        /\ R[j] \in [pos : 1 .. Len(in.ring), of : {t}]
        /\ R[j].pos \in 1 .. Len(in.ring) /\ R[j].pos \in Nat
        /\ in.ring[R[j].pos] = s[j].key /\ <<s[j].key[1], t>> \in app
  <2>1. SUFFICES ASSUME NEW j \in 1 .. c
                 PROVE  /\ R[j] \in [pos : 1 .. Len(in.ring), of : {t}]
                        /\ R[j].pos \in 1 .. Len(in.ring) /\ R[j].pos \in Nat
                        /\ in.ring[R[j].pos] = s[j].key /\ <<s[j].key[1], t>> \in app
    OBVIOUS
  <2> DEFINE e == s[j]
  <2>2. e \in E
    BY <1>82
  <2>3. /\ Position(in, e.key) \in 1 .. Len(in.ring) /\ Position(in, e.key) \in Nat
        /\ in.ring[Position(in, e.key)] = e.key /\ e.of = t /\ <<e.key[1], t>> \in app
    <3> HIDE DEF e
    <3> QED BY <1>1, <1>3, <2>2
  <2>4. R[j] = [pos |-> Position(in, e.key), of |-> e.of] /\ R[j].pos = Position(in, e.key)
    BY <1>83, <1>84
  <2> HIDE DEF e
  <2>5. R[j] \in [pos : 1 .. Len(in.ring), of : {t}]
    BY <2>3, <2>4
  <2>6. QED BY <2>3, <2>4, <2>5 DEF e
<1>10. /\ R \in Seq([pos : 1 .. Len(in.ring), of : {t}]) /\ Len(R) = c
  <2>1. R \in [1 .. c -> [pos : 1 .. Len(in.ring), of : {t}]]
    <3>1. \A j \in 1 .. c : R[j] \in [pos : 1 .. Len(in.ring), of : {t}]
      BY <1>9
    <3>2. R = [j \in 1 .. c |-> R[j]]
      BY <1>8
    <3>3. QED BY <3>1, <3>2
  <2> DEFINE A == [pos : 1 .. Len(in.ring), of : {t}]
  <2> HIDE DEF A
  <2>2. R \in [1 .. c -> A]
    BY <2>1 DEF A
  <2>3. R \in Seq(A) /\ Len(R) = c
    BY <1>81, <2>2, SeqDef, LenProperties
  <2>4. QED BY <2>3 DEF A
<1>11. ASSUME NEW j \in 1 .. c, NEW k \in 1 .. c, j < k PROVE R[j].pos < R[k].pos
  <2>1. rank[s[j]] < rank[s[k]] /\ s[j] \in E /\ s[k] \in E
    BY <1>7, <1>82, <1>11
  <2>2. rank[s[j]] \in Nat /\ rank[s[k]] \in Nat
    BY <1>4, <2>1
  <2>3. s[j] # s[k] /\ rank[s[j]] <= rank[s[k]]
    <3> HIDE DEF rank
    <3> QED BY <2>1, <2>2
  <2>4. Position(in, s[j].key) < Position(in, s[k].key)
    BY <1>5, <2>1, <2>3
  <2>5. QED BY <1>84, <2>4
<1>12. \A j, k \in 1 .. c : R[j].pos = R[k].pos => j = k
  <2>1. SUFFICES ASSUME NEW j \in 1 .. c, NEW k \in 1 .. c, R[j].pos = R[k].pos PROVE j = k
    OBVIOUS
  <2>2. R[j].pos \in Nat /\ R[k].pos \in Nat
    BY <1>9
  <2>3. ~(j < k) /\ ~(k < j)
    BY <1>11, <2>1, <2>2
  <2>4. QED BY <2>3
<1>13. \A j \in 1 .. c : <<in.ring[R[j].pos][1], t>> \in app
  BY <1>9
<1>14. {in.ring[n] : n \in PositionsIn(R)} = KeysOf(E)
  <2>1. {in.ring[n] : n \in PositionsIn(R)} \subseteq KeysOf(E)
    <3>1. SUFFICES ASSUME NEW j \in 1 .. c PROVE in.ring[R[j].pos] \in KeysOf(E)
      BY <1>10 DEF PositionsIn
    <3>2. in.ring[R[j].pos] = s[j].key /\ s[j] \in E
      BY <1>82, <1>9
    <3>3. QED BY <3>2 DEF KeysOf
  <2>2. ASSUME NEW e \in E PROVE e.key \in {in.ring[n] : n \in PositionsIn(R)}
    <3>1. PICK j \in 1 .. c : s[j] = e
      BY <1>7
    <3>2. R[j].pos \in PositionsIn(R) /\ in.ring[R[j].pos] = e.key
      BY <1>9, <1>10, <3>1 DEF PositionsIn
    <3>3. QED BY <3>2
  <2>3. QED BY <2>1, <2>2 DEF KeysOf
<1>15. RecordsOK(in, t, app, R)
  BY <1>10, <1>12, <1>13 DEF RecordsOK
<1>16. c <= MaxSigs
  BY <1>1, <1>2, QuorumAssumption DEF c
<1> DEFINE P == {in.ring[n] : n \in PositionsIn(R)}
<1> HIDE DEF P
<1>17. P = KeysOf(E)
  BY <1>14 DEF P
<1>18. QED BY <1>10, <1>11, <1>15, <1>16, <1>17, Zenon DEF P, c, R, RecordsAre

-----------------------------------------------------------------------------
(* One input of an answer.                                                 *)

HeldKeys(in, s) == {in.ring[n] : n \in PositionsIn(s)}

LEMMA FirstWhole ==
  ASSUME NEW A, NEW s \in Seq(A), NEW n \in Int, Len(s) <= n
  PROVE  First(s, n) = s
<1>1. Len(s) \in Nat
  BY LenProperties
<1>2. SubSeq(s, 1, Len(s)) = s
  BY SubSeqFull
<1>3. First(s, n) = SubSeq(s, 1, IF n < Len(s) THEN n ELSE Len(s))
  BY DEF First
<1>4. (IF n < Len(s) THEN n ELSE Len(s)) = Len(s)
  BY <1>1
<1>5. QED BY <1>2, <1>3, <1>4, Zenon

LEMMA KeysInOrder ==
  ASSUME NEW in \in Inputs, NEW S, S \subseteq Range(in.ring)
  PROVE  LET ks == ByPosition(in, S) IN
         /\ IsFiniteSet(S) /\ Cardinality(S) \in Nat
         /\ ks \in Seq(S) /\ Len(ks) = Cardinality(S) /\ Range(ks) = S
         /\ \A j, k \in 1 .. Len(ks) : ks[j] = ks[k] => j = k
<1> DEFINE rank == [k \in S |-> Position(in, k)]
           ks == ByPosition(in, S)
<1>1. IsFiniteSet(S) /\ Cardinality(S) \in Nat
  <2>1. IsFiniteSet(Range(in.ring))
    BY RingFacts
  <2>2. IsFiniteSet(S)
    BY <2>1, FS_Subset
  <2>3. QED BY <2>2, FS_CardinalityType
<1>2. rank \in [S -> Nat]
  <2>1. \A k \in S : Position(in, k) \in 1 .. Len(in.ring)
    BY RingFacts
  <2>2. Len(in.ring) \in Nat
    BY InputFacts
  <2>3. QED BY <2>1, <2>2
<1>3. \A k, l \in S : rank[k] = rank[l] => k = l
  <2>1. \A k \in S : in.ring[Position(in, k)] = k
    BY RingFacts
  <2>2. QED BY <2>1
<1>4. ks = InOrder(S, rank)
  BY DEF ByPosition
<1> HIDE DEF ks, rank
<1>5. /\ ks \in Seq(S) /\ Len(ks) = Cardinality(S) /\ DOMAIN ks = 1 .. Cardinality(S)
      /\ \A e \in S : \E j \in DOMAIN ks : ks[j] = e
      /\ \A j, k \in DOMAIN ks : j < k => rank[ks[j]] < rank[ks[k]]
  BY <1>1, <1>2, <1>3, <1>4, InOrderSorts
<1>6. \A j \in 1 .. Len(ks) : ks[j] \in S
  BY <1>5, ElementOfSeq
<1>7. Range(ks) = S
  BY <1>5, <1>6 DEF Range
<1>8. ASSUME NEW j \in 1 .. Len(ks), NEW k \in 1 .. Len(ks), ks[j] = ks[k] PROVE j = k
  <2>1. rank[ks[j]] \in Nat /\ rank[ks[k]] = rank[ks[j]]
    BY <1>2, <1>6, <1>8
  <2>2. ~(j < k) /\ ~(k < j)
    BY <1>5, <2>1
  <2>3. j \in Nat /\ k \in Nat
    BY <1>1, <1>5
  <2>4. QED BY <2>2, <2>3
<1>9. QED BY <1>1, <1>5, <1>7, <1>8 DEF ks

(* Keys of one ring, some held and some new, are never too many.           *)
LEMMA RoomLeft ==
  ASSUME NEW in \in Inputs, NEW H, NEW K, H \subseteq Range(in.ring),
         K \subseteq Range(in.ring) \ H
  PROVE  /\ Cardinality(H) \in Nat /\ Cardinality(K) \in Nat
         /\ Cardinality(H) + Cardinality(K) <= MaxSigs
<1>1. /\ IsFiniteSet(Range(in.ring)) /\ Cardinality(Range(in.ring)) \in Nat
      /\ Cardinality(Range(in.ring)) <= MaxSigs
  BY RingFacts, InputFacts, QuorumAssumption
<1>2. IsFiniteSet(H) /\ IsFiniteSet(K)
  BY <1>1, FS_Subset
<1>3. Cardinality(H) \in Nat /\ Cardinality(K) \in Nat
  BY <1>2, FS_CardinalityType
<1>4. H \cap K = {} /\ H \cup K \in SUBSET Range(in.ring)
  OBVIOUS
<1>5. Cardinality(H \cup K) = Cardinality(H) + Cardinality(K) - Cardinality({})
  BY <1>2, <1>4, FS_Union
<1>6. Cardinality({}) = 0
  BY FS_EmptySet
<1>7. Cardinality(H \cup K) <= Cardinality(Range(in.ring))
  BY <1>1, <1>4, FS_Subset
<1>8. QED BY <1>1, <1>3, <1>5, <1>6, <1>7, QuorumAssumption

(* move_ksp_sigs_to_pskt: every new key of the device that is not there.   *)
LEMMA MovedAll ==
  ASSUME NEW in \in Inputs, NEW t, NEW app, NEW E \in SUBSET Entries(in, t, "pskb", app),
         NEW K, K \subseteq Range(in.ring)
  PROVE  LET unnamed == {k \in K : ~Named(E, k, Prefix(k))} IN
         Range(First(ByPosition(in, unnamed), MaxSigs - Cardinality(E))) = K \ KeysOf(E)
<1> DEFINE U == K \ KeysOf(E)
           ks == ByPosition(in, U)
<1>0. EntriesAre(in, t, "pskb", app, E)
  BY EntriesFacts
<1>1. /\ Cardinality(E) \in Nat /\ Cardinality(E) = Cardinality(KeysOf(E))
      /\ KeysOf(E) \subseteq Range(in.ring)
      /\ \A e \in E : e = Entry("pskb", e.key, t)
  BY <1>0 DEF EntriesAre
<1>2. \A e \in E : e.prefix = Prefix(e.key)
  BY <1>1 DEF Entry
<1>3. {k \in K : ~Named(E, k, Prefix(k))} = U
  <2>1. ASSUME NEW k \in K PROVE Named(E, k, Prefix(k)) <=> k \in KeysOf(E)
    BY <1>2 DEF Named, KeysOf
  <2>2. QED BY <2>1
<1>4. Cardinality(KeysOf(E)) + Cardinality(U) <= MaxSigs /\ Cardinality(U) \in Nat
  BY <1>1, RoomLeft
<1> HIDE DEF U
<1>5. ks \in Seq(U) /\ Len(ks) = Cardinality(U) /\ Range(ks) = U
  <2>1. U \subseteq Range(in.ring)
    BY DEF U
  <2>2. QED BY <2>1, KeysInOrder
<1> HIDE DEF ks
<1>6. MaxSigs - Cardinality(E) \in Int /\ Len(ks) <= MaxSigs - Cardinality(E)
  BY <1>1, <1>4, <1>5, QuorumAssumption
<1>7. First(ks, MaxSigs - Cardinality(E)) = ks
  BY <1>5, <1>6, FirstWhole
<1>8. QED BY <1>3, <1>5, <1>7 DEF ks, U

HeldAre(in, t, app, s) ==
  /\ Len(s) \in Nat /\ HeldKeys(in, s) \subseteq Range(in.ring)
  /\ Cardinality(HeldKeys(in, s)) = Len(s)
  /\ \A k \in HeldKeys(in, s) : <<k[1], t>> \in app
  /\ \A j \in 1 .. Len(s) : /\ s[j].pos \in 1 .. Len(in.ring) /\ s[j].of = t
                            /\ s[j] = [pos |-> s[j].pos, of |-> t]

LEMMA HeldFacts ==
  ASSUME NEW in \in Inputs, NEW t, NEW app, NEW s, RecordsOK(in, t, app, s)
  PROVE  HeldAre(in, t, app, s)
<1>1. /\ Len(s) \in Nat
      /\ \A j \in 1 .. Len(s) : s[j] \in [pos : 1 .. Len(in.ring), of : {t}]
  BY LenProperties, ElementOfSeq DEF RecordsOK
<1>2. \A j \in 1 .. Len(s) : /\ s[j].pos \in 1 .. Len(in.ring) /\ s[j].of = t
                             /\ s[j] = [pos |-> s[j].pos, of |-> t]
  <2>1. SUFFICES ASSUME NEW j \in 1 .. Len(s)
                 PROVE  /\ s[j].pos \in 1 .. Len(in.ring) /\ s[j].of = t
                        /\ s[j] = [pos |-> s[j].pos, of |-> t]
    OBVIOUS
  <2> DEFINE r == s[j]
  <2>2. r \in [pos : 1 .. Len(in.ring), of : {t}]
    BY <1>1
  <2> HIDE DEF r
  <2>3. QED BY <2>2 DEF r
<1>3. \A n \in 1 .. Len(in.ring) : in.ring[n] \in Range(in.ring)
                                   /\ Position(in, in.ring[n]) = n
  BY RingFacts
<1>4. HeldKeys(in, s) \subseteq Range(in.ring)
  <2>1. ASSUME NEW j \in 1 .. Len(s) PROVE in.ring[s[j].pos] \in Range(in.ring)
    BY <1>2, <1>3
  <2>2. QED BY <2>1 DEF HeldKeys, PositionsIn
<1>5. \A k \in HeldKeys(in, s) : <<k[1], t>> \in app
  BY DEF HeldKeys, PositionsIn, RecordsOK
<1>6. Cardinality(HeldKeys(in, s)) = Len(s)
  <2> DEFINE f == [j \in 1 .. Len(s) |-> in.ring[s[j].pos]]
             H == HeldKeys(in, s)
  <2>1. f \in [1 .. Len(s) -> H]
    BY DEF HeldKeys, PositionsIn
  <2>2. \A j, k \in 1 .. Len(s) : f[j] = f[k] => j = k
    <3>1. SUFFICES ASSUME NEW j \in 1 .. Len(s), NEW k \in 1 .. Len(s), f[j] = f[k]
                   PROVE  j = k
      OBVIOUS
    <3>2. in.ring[s[j].pos] = in.ring[s[k].pos]
      BY <3>1
    <3>3. s[j].pos = s[k].pos
      BY <1>2, <1>3, <3>2
    <3>4. QED BY <3>3 DEF RecordsOK
  <2>3. \A k \in H : \E j \in 1 .. Len(s) : f[j] = k
    BY DEF HeldKeys, PositionsIn
  <2> HIDE DEF f, H
  <2>4. f \in Bijection(1 .. Len(s), H)
    BY <2>1, <2>2, <2>3 DEF Bijection, Injection, Surjection, IsInjective
  <2>5. ExistsBijection(1 .. Len(s), H)
    BY <2>4 DEF ExistsBijection
  <2>6. Cardinality(H) = Len(s)
    BY <1>1, <2>5, FS_CountingElements
  <2>7. QED BY <2>6 DEF H
<1>7. QED BY <1>1, <1>2, <1>4, <1>5, <1>6 DEF HeldAre

(* The signer appends its records to those it was given.                   *)
Appended(in, t, K, s) ==
  LET ks == ByPosition(in, K)
      added == [j \in 1..Len(ks) |-> [pos |-> Position(in, ks[j]), of |-> t]]
  IN First(s \o added, MaxSigs)

FreshKeys(in, t, app, s, K) ==
  K \subseteq Range(in.ring) \ HeldKeys(in, s) /\ \A k \in K : <<k[1], t>> \in app

LEMMA SignedFacts ==
  ASSUME NEW in \in Inputs, NEW t, NEW app, NEW s, RecordsOK(in, t, app, s),
         NEW K, FreshKeys(in, t, app, s, K)
  PROVE  /\ RecordsOK(in, t, app, Appended(in, t, K, s))
         /\ HeldKeys(in, Appended(in, t, K, s)) = HeldKeys(in, s) \cup K
<1> DEFINE ks == ByPosition(in, K)
           added == [j \in 1..Len(ks) |-> [pos |-> Position(in, ks[j]), of |-> t]]
           A == [pos : 1 .. Len(in.ring), of : {t}]
           u == s \o added
           n == Len(s)
           m == Cardinality(K)
<1>1. /\ n \in Nat /\ HeldKeys(in, s) \subseteq Range(in.ring)
      /\ Cardinality(HeldKeys(in, s)) = n
      /\ \A k \in HeldKeys(in, s) : <<k[1], t>> \in app
      /\ \A j \in 1 .. n : /\ s[j].pos \in 1 .. Len(in.ring) /\ s[j].of = t
                           /\ s[j] = [pos |-> s[j].pos, of |-> t]
  <2>1. HeldAre(in, t, app, s)
    BY HeldFacts
  <2>2. QED BY <2>1 DEF HeldAre
<1>01. K \subseteq Range(in.ring) \ HeldKeys(in, s) /\ \A k \in K : <<k[1], t>> \in app
  BY DEF FreshKeys
<1>2. m \in Nat /\ n + m <= MaxSigs
  BY <1>01, <1>1, RoomLeft
<1>3. ks \in Seq(K) /\ Len(ks) = m /\ Range(ks) = K
      /\ \A j, k \in 1 .. m : ks[j] = ks[k] => j = k
  <2>1. K \subseteq Range(in.ring)
    BY <1>01
  <2>2. QED BY <2>1, KeysInOrder
<1> HIDE DEF ks, n, m
<1>4. \A j \in 1 .. m : ks[j] \in K
  BY <1>3, ElementOfSeq
<1>5. \A k \in Range(in.ring) : Position(in, k) \in 1 .. Len(in.ring)
                                /\ in.ring[Position(in, k)] = k
  BY RingFacts
<1>6. added = [j \in 1 .. m |-> [pos |-> Position(in, ks[j]), of |-> t]]
  BY <1>3
<1> HIDE DEF added
<1>7. \A j \in 1 .. m : /\ Position(in, ks[j]) \in 1 .. Len(in.ring)
                        /\ in.ring[Position(in, ks[j])] = ks[j]
  BY <1>01, <1>4, <1>5
<1>8. \A j \in 1 .. m : added[j] \in A /\ added[j].pos = Position(in, ks[j])
  <2>1. SUFFICES ASSUME NEW j \in 1 .. m
                 PROVE  added[j] \in A /\ added[j].pos = Position(in, ks[j])
    OBVIOUS
  <2> DEFINE q == Position(in, ks[j])
             r == added[j]
  <2>2. q \in 1 .. Len(in.ring) /\ r = [pos |-> q, of |-> t]
    BY <1>6, <1>7
  <2> HIDE DEF q, r
  <2>3. r \in A /\ r.pos = q
    BY <2>2
  <2>4. QED BY <2>3 DEF q, r
<1> HIDE DEF A
<1>9. added \in Seq(A) /\ Len(added) = m
  <2>1. added = [j \in 1 .. m |-> added[j]]
    BY <1>6
  <2>2. added \in [1 .. m -> A]
    BY <1>8, <2>1
  <2>3. QED BY <1>2, <2>2, SeqDef, LenProperties
<1>10. s \in Seq(A)
  BY DEF RecordsOK, A
<1>11. /\ u \in Seq(A) /\ Len(u) = n + m
       /\ \A i \in 1 .. n + m : u[i] = IF i <= n THEN s[i] ELSE added[i - n]
  BY <1>9, <1>10, ConcatProperties DEF n
<1> HIDE DEF u
<1>12. First(u, MaxSigs) = u
  BY <1>2, <1>11, FirstWhole, QuorumAssumption
<1> DEFINE key(i) == in.ring[u[i].pos]
<1>13. \A i \in 1 .. n + m : IF i <= n THEN key(i) = in.ring[s[i].pos] /\ key(i) \in HeldKeys(in, s)
                             ELSE i - n \in 1 .. m /\ key(i) = ks[i - n] /\ key(i) \in K
  <2>1. SUFFICES ASSUME NEW i \in 1 .. n + m
                 PROVE  IF i <= n THEN key(i) = in.ring[s[i].pos] /\ key(i) \in HeldKeys(in, s)
                        ELSE i - n \in 1 .. m /\ key(i) = ks[i - n] /\ key(i) \in K
    OBVIOUS
  <2>2. CASE i <= n
    <3>1. u[i] = s[i] /\ i \in 1 .. n
      BY <1>1, <1>2, <1>11, <2>2
    <3>2. in.ring[s[i].pos] \in HeldKeys(in, s)
      BY <3>1 DEF HeldKeys, PositionsIn, n
    <3>3. QED BY <2>2, <3>1, <3>2
  <2>3. CASE ~(i <= n)
    <3>1. u[i] = added[i - n] /\ i - n \in 1 .. m
      BY <1>1, <1>2, <1>11, <2>3
    <3>2. key(i) = ks[i - n] /\ ks[i - n] \in K
      BY <1>4, <1>7, <1>8, <3>1
    <3>3. QED BY <2>3, <3>1, <3>2
  <2>4. QED BY <2>2, <2>3
<1>14. \A i \in 1 .. n + m : /\ <<key(i)[1], t>> \in app /\ key(i) \in HeldKeys(in, s) \cup K
  BY <1>01, <1>1, <1>13
<1>15. ASSUME NEW i \in 1 .. n + m, NEW j \in 1 .. n + m, u[i].pos = u[j].pos PROVE i = j
  <2>1. key(i) = key(j)
    BY <1>15
  <2>2. CASE i <= n /\ j <= n
    <3>1. i \in 1 .. n /\ j \in 1 .. n /\ u[i] = s[i] /\ u[j] = s[j]
      BY <1>1, <1>2, <1>11, <2>2
    <3>2. QED BY <1>15, <3>1 DEF RecordsOK, n
  <2>3. CASE ~(i <= n) /\ ~(j <= n)
    <3>1. i - n \in 1 .. m /\ j - n \in 1 .. m /\ ks[i - n] = ks[j - n]
      BY <1>13, <2>1, <2>3
    <3>2. i - n = j - n
      BY <1>3, <3>1
    <3>3. QED BY <1>1, <1>2, <3>2
  <2>4. CASE (i <= n /\ ~(j <= n)) \/ (~(i <= n) /\ j <= n)
    BY <1>01, <1>13, <2>1, <2>4
  <2>5. QED BY <2>2, <2>3, <2>4
<1>16. RecordsOK(in, t, app, u)
  BY <1>11, <1>14, <1>15 DEF RecordsOK, A
<1>17. HeldKeys(in, u) = HeldKeys(in, s) \cup K
  <2>1. \A k : k \in HeldKeys(in, u) <=> \E i \in 1 .. n + m : k = key(i)
    BY <1>11 DEF HeldKeys, PositionsIn
  <2>2. ASSUME NEW k \in HeldKeys(in, s) PROVE \E i \in 1 .. n + m : k = key(i)
    <3>1. PICK i \in 1 .. n : k = in.ring[s[i].pos]
      BY DEF HeldKeys, PositionsIn, n
    <3>2. i \in 1 .. n + m /\ i <= n
      BY <1>1, <1>2
    <3>3. QED BY <1>13, <3>1, <3>2
  <2>3. ASSUME NEW k \in K PROVE \E i \in 1 .. n + m : k = key(i)
    <3>1. PICK j \in 1 .. m : k = ks[j]
      BY <1>3, LenProperties DEF Range
    <3>2. j + n \in 1 .. n + m /\ ~(j + n <= n) /\ (j + n) - n = j
      BY <1>1, <1>2
    <3>3. QED BY <1>13, <3>1, <3>2
  <2>4. \A i \in 1 .. n + m : key(i) \in HeldKeys(in, s) \cup K
    BY <1>14
  <2> HIDE DEF key
  <2>5. HeldKeys(in, u) \subseteq HeldKeys(in, s) \cup K
    BY <2>1, <2>4
  <2>6. HeldKeys(in, s) \subseteq HeldKeys(in, u) /\ K \subseteq HeldKeys(in, u)
    BY <2>1, <2>2, <2>3
  <2>7. QED BY <2>5, <2>6
<1>18. Appended(in, t, K, s) = First(u, MaxSigs)
  BY Zenon DEF Appended, u, added, ks
<1>19. QED BY <1>12, <1>16, <1>17, <1>18

(* The page files the records of an answer it lacks under 02.              *)
MergedInput(in, E, s) ==
  E \cup {[key |-> KeyAt(in, s[j].pos), prefix |-> 2, of |-> s[j].of] :
            j \in {j \in 1..Len(s) :
                     /\ ~Named(E, KeyAt(in, s[j].pos), 2)
                     /\ \A h \in 1..(j - 1) : KeyAt(in, s[h].pos) # KeyAt(in, s[j].pos)}}

MergedAre(in, t, app, E, s) ==
  /\ MergedInput(in, E, s) \in SUBSET Entries(in, t, "kspt", app)
  /\ E \subseteq MergedInput(in, E, s)
  /\ KeysOf(MergedInput(in, E, s)) = KeysOf(E) \cup HeldKeys(in, s)

LEMMA MergedFacts ==
  ASSUME NEW in \in Inputs, NEW t, NEW app, NEW E \in SUBSET Entries(in, t, "kspt", app),
         NEW s, RecordsOK(in, t, app, s)
  PROVE  MergedAre(in, t, app, E, s)
<1> DEFINE G == MergedInput(in, E, s)
           n == Len(s)
<1>1. /\ n \in Nat /\ HeldKeys(in, s) \subseteq Range(in.ring)
      /\ Cardinality(HeldKeys(in, s)) = n
      /\ \A k \in HeldKeys(in, s) : <<k[1], t>> \in app
      /\ \A j \in 1 .. n : /\ s[j].pos \in 1 .. Len(in.ring) /\ s[j].of = t
                           /\ s[j] = [pos |-> s[j].pos, of |-> t]
  <2>1. HeldAre(in, t, app, s)
    BY HeldFacts
  <2>2. QED BY <2>1 DEF HeldAre
<1>2. \A e \in E : e.prefix = 2 /\ e.key \in KeysOf(E)
  BY DEF Entries, Entry, KeysOf
<1>3. \A k : Named(E, k, 2) <=> k \in KeysOf(E)
  BY <1>2 DEF Named, KeysOf
<1>4. \A j \in 1 .. n : in.ring[s[j].pos] \in HeldKeys(in, s)
  BY DEF HeldKeys, PositionsIn
<1>5. \A k \in HeldKeys(in, s) : \E j \in 1 .. n : k = in.ring[s[j].pos]
  BY DEF HeldKeys, PositionsIn
<1>6. \A j, h \in 1 .. n : in.ring[s[h].pos] = in.ring[s[j].pos] => h = j
  <2>1. SUFFICES ASSUME NEW j \in 1 .. n, NEW h \in 1 .. n, in.ring[s[h].pos] = in.ring[s[j].pos]
                 PROVE  h = j
    OBVIOUS
  <2>2. \A q \in 1 .. Len(in.ring) : Position(in, in.ring[q]) = q
    BY RingFacts
  <2>3. s[h].pos = s[j].pos
    BY <1>1, <2>1, <2>2
  <2>4. QED BY <2>3 DEF RecordsOK
<1>7. ASSUME NEW j \in 1 .. n
      PROVE  \A h \in 1 .. (j - 1) : KeyAt(in, s[h].pos) # KeyAt(in, s[j].pos)
  <2>1. \A h \in 1 .. (j - 1) : h \in 1 .. n /\ h # j
    BY <1>1
  <2>2. QED BY <1>6, <2>1 DEF KeyAt
<1>8. G = E \cup {[key |-> in.ring[s[j].pos], prefix |-> 2, of |-> s[j].of] :
                    j \in {j \in 1..n : in.ring[s[j].pos] \notin KeysOf(E)}}
  <2> DEFINE J == {j \in 1..n :
                     /\ ~Named(E, KeyAt(in, s[j].pos), 2)
                     /\ \A h \in 1..(j - 1) : KeyAt(in, s[h].pos) # KeyAt(in, s[j].pos)}
             L == {j \in 1..n : in.ring[s[j].pos] \notin KeysOf(E)}
  <2>1. G = E \cup {[key |-> KeyAt(in, s[j].pos), prefix |-> 2, of |-> s[j].of] : j \in J}
    BY Zenon DEF MergedInput
  <2>2. J = L
    BY <1>3, <1>7 DEF KeyAt
  <2>3. QED BY <2>1, <2>2 DEF KeyAt
<1> HIDE DEF G, n
<1>9. \A j \in 1 .. n : [key |-> in.ring[s[j].pos], prefix |-> 2, of |-> s[j].of]
                        = Entry("kspt", in.ring[s[j].pos], t)
  BY <1>1 DEF Entry
<1>10. G = E \cup {Entry("kspt", k, t) : k \in HeldKeys(in, s) \ KeysOf(E)}
  <2> DEFINE en(k) == Entry("kspt", k, t)
             key(j) == in.ring[s[j].pos]
             rec(j) == [key |-> key(j), prefix |-> 2, of |-> s[j].of]
  <2>1. \A j \in 1 .. n : rec(j) = en(key(j))
    BY <1>9
  <2>2. \A j \in 1 .. n : key(j) \in HeldKeys(in, s)
    BY <1>4
  <2>3. \A k \in HeldKeys(in, s) : \E j \in 1 .. n : k = key(j)
    BY <1>5
  <2>4. G = E \cup {rec(j) : j \in {j \in 1..n : key(j) \notin KeysOf(E)}}
    BY <1>8
  <2> HIDE DEF en, key, rec
  <2>5. {rec(j) : j \in {j \in 1..n : key(j) \notin KeysOf(E)}}
          = {en(k) : k \in HeldKeys(in, s) \ KeysOf(E)}
    BY <2>1, <2>2, <2>3
  <2>6. G = E \cup {en(k) : k \in HeldKeys(in, s) \ KeysOf(E)}
    BY <2>4, <2>5
  <2>7. QED BY <2>6 DEF en
<1>11. \A k \in HeldKeys(in, s) : Entry("kspt", k, t) \in Entries(in, t, "kspt", app)
  BY <1>1 DEF Entries, Allowed
<1>12. \A k : Entry("kspt", k, t).key = k
  BY DEF Entry
<1>13. KeysOf(G) = KeysOf(E) \cup HeldKeys(in, s)
  <2>1. \A g \in G : g \in E \/ \E k \in HeldKeys(in, s) : g = Entry("kspt", k, t)
    BY <1>10
  <2>2. KeysOf(G) \subseteq KeysOf(E) \cup HeldKeys(in, s)
    BY <1>12, <2>1 DEF KeysOf
  <2>3. ASSUME NEW k \in HeldKeys(in, s) \ KeysOf(E) PROVE k \in KeysOf(G)
    <3>1. Entry("kspt", k, t) \in G
      BY <1>10
    <3>2. QED BY <1>12, <3>1 DEF KeysOf
  <2>4. KeysOf(E) \subseteq KeysOf(G)
    BY <1>10 DEF KeysOf
  <2>5. QED BY <2>2, <2>3, <2>4
<1>14. G \in SUBSET Entries(in, t, "kspt", app) /\ E \subseteq G
  BY <1>10, <1>11
<1>15. QED BY <1>13, <1>14 DEF G, MergedAre

-----------------------------------------------------------------------------
(* Whole payloads.                                                         *)

BundleOK(b, format, ins, app) ==
  /\ b.of \in DOMAIN ins
  /\ b = [kind |-> "pskb", of |-> b.of, sigs |-> b.sigs]
  /\ b.sigs = [i \in 1 .. Len(ins[b.of]) |-> b.sigs[i]]
  /\ \A i \in 1 .. Len(ins[b.of]) :
       b.sigs[i] \in SUBSET Entries(ins[b.of][i], b.of, format, app)

KsptOK(p, ins, app) ==
  /\ p.of \in DOMAIN ins
  /\ p = [kind |-> "kspt", of |-> p.of, done |-> p.done, sigs |-> p.sigs]
  /\ p.sigs = [i \in 1 .. Len(ins[p.of]) |-> p.sigs[i]]
  /\ \A i \in 1 .. Len(ins[p.of]) : RecordsOK(ins[p.of][i], p.of, app, p.sigs[i])
  /\ p.done => \A i \in 1 .. Len(ins[p.of]) : Len(p.sigs[i]) >= M

LEMMA InputsFacts ==
  ASSUME inputs \in Plans, NEW t \in DOMAIN inputs
  PROVE  /\ inputs[t] \in Seq(Inputs) /\ Len(inputs[t]) \in Nat /\ Len(inputs[t]) >= 1
         /\ 1 \in Indices(t) /\ t \in Names
         /\ \A i \in Indices(t) : inputs[t][i] \in Inputs
<1>1. t \in Names /\ inputs[t] \in Seq(Inputs) \ {<<>>}
  BY PlansAssumption
<1>2. Len(inputs[t]) \in Nat \ {0}
  BY <1>1, EmptySeq
<1>3. \A i \in Indices(t) : inputs[t][i] \in Inputs
  BY <1>1, ElementOfSeq DEF Indices
<1>4. QED BY <1>1, <1>2, <1>3 DEF Indices

LEMMA MoreApproved ==
  ASSUME NEW app, NEW app2, app \subseteq app2
  PROVE  /\ \A in, t, s : RecordsOK(in, t, app, s) => RecordsOK(in, t, app2, s)
         /\ \A in, t, format : Entries(in, t, format, app) \subseteq Entries(in, t, format, app2)
         /\ \A b, format, ins : BundleOK(b, format, ins, app) => BundleOK(b, format, ins, app2)
         /\ \A p, ins : KsptOK(p, ins, app) => KsptOK(p, ins, app2)
<1>1. \A in, t, s : RecordsOK(in, t, app, s) => RecordsOK(in, t, app2, s)
  BY DEF RecordsOK
<1>2. \A in, t, format : Entries(in, t, format, app) \subseteq Entries(in, t, format, app2)
  BY DEF Entries, Allowed
<1>3. ASSUME NEW b, NEW format, NEW ins, BundleOK(b, format, ins, app)
      PROVE  BundleOK(b, format, ins, app2)
  BY <1>2, <1>3 DEF BundleOK
<1>4. ASSUME NEW p, NEW ins, KsptOK(p, ins, app) PROVE KsptOK(p, ins, app2)
  BY <1>1, <1>4 DEF KsptOK
<1>5. QED BY <1>1, <1>2, <1>3, <1>4

Compacted(b, p, app) ==
  /\ KsptOK(p, inputs, app) /\ p.kind = "kspt" /\ p.of = b.of
  /\ \A i \in Indices(b.of) :
       /\ HeldKeys(inputs[b.of][i], p.sigs[i]) = KeysOf(b.sigs[i])
       /\ Len(p.sigs[i]) <= MaxSigs

LEMMA CompactOK ==
  ASSUME inputs \in Plans, NEW b, NEW format, NEW app, BundleOK(b, format, inputs, app)
  PROVE  Compacted(b, Compact(b), app)
<1> DEFINE p == Compact(b)
           t == b.of
           R(i) == Records(inputs[t][i], b.sigs[i])
<1>1. p = [kind |-> "kspt", of |-> t, done |-> FALSE, sigs |-> [i \in Indices(t) |-> R(i)]]
  BY Zenon DEF Compact
<1> HIDE DEF p, R
<1>2. /\ p.kind = "kspt" /\ p.of = t /\ p.done = FALSE
      /\ p.sigs = [i \in Indices(t) |-> R(i)] /\ \A i \in Indices(t) : p.sigs[i] = R(i)
      /\ p = [kind |-> "kspt", of |-> p.of, done |-> p.done, sigs |-> p.sigs]
  BY <1>1
<1>3. t \in DOMAIN inputs /\ \A i \in Indices(t) : inputs[t][i] \in Inputs
  BY InputsFacts DEF BundleOK, Indices
<1>4. ASSUME NEW i \in Indices(t)
      PROVE  /\ RecordsOK(inputs[t][i], t, app, R(i)) /\ Len(R(i)) <= MaxSigs
             /\ HeldKeys(inputs[t][i], R(i)) = KeysOf(b.sigs[i])
  <2> DEFINE in == inputs[t][i]
             E == b.sigs[i]
             r == Records(in, E)
  <2>1. in \in Inputs /\ E \in SUBSET Entries(in, t, format, app)
    BY <1>3 DEF BundleOK, Indices
  <2> HIDE DEF in, E, t
  <2>2. RecordsAre(in, t, app, E, r)
    BY <2>1, RecordsFacts
  <2> HIDE DEF r
  <2>3. HeldKeys(in, r) = KeysOf(E) /\ RecordsOK(in, t, app, r) /\ Len(r) <= MaxSigs
    BY <2>2 DEF HeldKeys, RecordsAre
  <2>4. QED BY <2>3 DEF r, in, E, R, t
<1>5. KsptOK(p, inputs, app)
  <2>1. p.of \in DOMAIN inputs /\ Indices(p.of) = Indices(t)
    BY <1>2, <1>3
  <2>2. p.sigs = [i \in Indices(p.of) |-> p.sigs[i]]
    BY <1>2
  <2>3. \A i \in Indices(p.of) : RecordsOK(inputs[p.of][i], p.of, app, p.sigs[i])
    BY <1>2, <1>4
  <2> HIDE DEF t
  <2>4. QED BY <1>2, <2>1, <2>2, <2>3 DEF KsptOK, Indices
<1>6. QED BY <1>2, <1>4, <1>5 DEF p, Compacted

(* A complete bundle is accepted.                                          *)
LEMMA ReadyAccepted ==
  ASSUME inputs \in Plans, NEW b, NEW format, NEW app, BundleOK(b, format, inputs, app),
         FinalizeReady(b)
  PROVE  NodeAccepts(b)
<1> DEFINE t == b.of
<1>1. t \in DOMAIN inputs /\ \A i \in Indices(t) : inputs[t][i] \in Inputs
  BY InputsFacts DEF BundleOK, Indices
<1>2. SUFFICES ASSUME NEW i \in Indices(t) PROVE ChecksOut(t, ScriptOf(b, i))
  BY DEF NodeAccepts
<1> DEFINE in == inputs[t][i]
           E == b.sigs[i]
           R == Records(in, E)
           f == First(R, M)
<1>3. in \in Inputs /\ E \in SUBSET Entries(in, t, format, app)
  BY <1>1 DEF BundleOK, Indices
<1>4. Cardinality(E) >= M /\ ScriptOf(b, i) = f
  BY DEF FinalizeReady, SigsPresent, ScriptOf
<1> HIDE DEF in, E, t
<1>5. /\ Len(R) = Cardinality(E) /\ Len(R) <= MaxSigs
      /\ RecordsOK(in, t, app, R)
      /\ \A j, k \in 1 .. Len(R) : j < k => R[j].pos < R[k].pos
      /\ {in.ring[n] : n \in PositionsIn(R)} = KeysOf(E)
  <2>1. RecordsAre(in, t, app, E, R)
    BY <1>3, RecordsFacts
  <2> HIDE DEF R
  <2>2. QED BY <2>1 DEF RecordsAre
<1> HIDE DEF R
<1>51. in \in Inputs /\ RecordsOK(in, t, app, R)
  BY <1>3, <1>5
<1>6. /\ Len(R) \in Nat /\ HeldKeys(in, R) \subseteq Range(in.ring)
      /\ Cardinality(HeldKeys(in, R)) = Len(R)
      /\ \A k \in HeldKeys(in, R) : <<k[1], t>> \in app
      /\ \A j \in 1 .. Len(R) : /\ R[j].pos \in 1 .. Len(in.ring) /\ R[j].of = t
                                /\ R[j] = [pos |-> R[j].pos, of |-> t]
  <2>1. HeldAre(in, t, app, R)
    BY <1>51, HeldFacts
  <2>2. QED BY <2>1 DEF HeldAre
<1>7. M \in Nat /\ M >= 1 /\ M <= Len(R)
  BY <1>4, <1>5, QuorumAssumption
<1>8. f = SubSeq(R, 1, M)
  <2>1. (IF M < Len(R) THEN M ELSE Len(R)) = M
    BY <1>6, <1>7
  <2>2. f = SubSeq(R, 1, IF M < Len(R) THEN M ELSE Len(R))
    BY DEF First
  <2>3. QED BY <2>1, <2>2, Zenon
<1>9. Len(f) = M /\ \A j \in 1 .. M : f[j] = R[j]
  <2> DEFINE A == [pos : 1 .. Len(in.ring), of : {t}]
  <2>1. R \in Seq(A)
    BY <1>5 DEF RecordsOK
  <2> HIDE DEF A
  <2>2. \A j \in 1 .. M : R[j] \in A
    <3>1. \A j \in 1 .. M : j \in 1 .. Len(R)
      BY <1>6, <1>7
    <3>2. QED BY <2>1, <3>1, ElementOfSeq
  <2>3. /\ Len(SubSeq(R, 1, M)) = IF 1 <= M THEN M - 1 + 1 ELSE 0
        /\ \A j \in 1 .. M - 1 + 1 : SubSeq(R, 1, M)[j] = R[1 + j - 1]
    BY <1>7, <2>2, SubSeqProperties
  <2>4. QED BY <1>7, <1>8, <2>3
<1> HIDE DEF f
<1>10. \A j \in 1 .. M : f[j].of = t
  <2>1. SUFFICES ASSUME NEW j \in 1 .. M PROVE f[j].of = t
    OBVIOUS
  <2>2. j \in 1 .. Len(R) /\ f[j] = R[j]
    BY <1>6, <1>7, <1>9
  <2>3. QED BY <1>6, <2>2
<1>11. \A j \in 1 .. (M - 1) : f[j].pos < f[j + 1].pos
  <2>1. SUFFICES ASSUME NEW j \in 1 .. (M - 1) PROVE f[j].pos < f[j + 1].pos
    OBVIOUS
  <2>2. /\ j \in 1 .. M /\ j + 1 \in 1 .. M /\ j < j + 1
        /\ j \in 1 .. Len(R) /\ j + 1 \in 1 .. Len(R)
    BY <1>6, <1>7
  <2>3. R[j].pos < R[j + 1].pos
    BY <1>5, <2>2
  <2>4. QED BY <1>9, <2>2, <2>3
<1>12. ChecksOut(t, f)
  BY <1>9, <1>10, <1>11 DEF ChecksOut
<1>13. QED BY <1>4, <1>12 DEF t, in

(* What a device adds to a PSKB: its own key wherever it is missing.       *)
PskbAnswered(d, p, app) ==
  LET a == PskbAnswer(d, p) IN
  /\ ParsesPskb(p)
  /\ BundleOK(a, "pskb", inputs, app) /\ a.kind = "pskb" /\ a.of = p.of
  /\ \A i \in Indices(p.of) :
       /\ p.sigs[i] \subseteq a.sigs[i]
       /\ KeysOf(a.sigs[i]) = KeysOf(p.sigs[i]) \cup Owns(d, inputs[p.of][i])
       /\ PskbKeys(d, p)[i] = Owns(d, inputs[p.of][i])

LEMMA PskbAnswerOK ==
  ASSUME inputs \in Plans, NEW d \in Devices, NEW p, NEW app, NEW app2,
         BundleOK(p, "pskb", inputs, app), app \subseteq app2, <<d, p.of>> \in app2
  PROVE  PskbAnswered(d, p, app2)
<1> DEFINE t == p.of
           a == PskbAnswer(d, p)
           none == [i \in Indices(t) |-> {}]
           K == PskbKeys(d, p)
           G(i) == p.sigs[i] \cup {[key |-> k, prefix |-> Prefix(k), of |-> t] : k \in Moved(d, p, i)}
<1>1. /\ t \in DOMAIN inputs /\ inputs[t] \in Seq(Inputs)
      /\ \A i \in Indices(t) : inputs[t][i] \in Inputs
  BY InputsFacts DEF BundleOK, Indices
<1>2. \A i \in Indices(t) : K[i] = Owns(d, inputs[t][i])
  <2>1. K = NewKeys(d, inputs[t], none)
    BY DEF PskbKeys
  <2> HIDE DEF K, none
  <2>2. /\ DOMAIN NewKeys(d, inputs[t], none) = 1 .. Len(inputs[t])
        /\ \A i \in 1 .. Len(inputs[t]) :
             NewKeys(d, inputs[t], none)[i] = Owns(d, inputs[t][i]) \ none[i]
    BY <1>1, NewKeysAre
  <2>3. \A i \in Indices(t) : none[i] = {}
    BY DEF none
  <2>4. QED BY <2>1, <2>2, <2>3 DEF Indices
<1>3. a = [kind |-> "pskb", of |-> t, sigs |-> [i \in Indices(t) |-> G(i)]]
  BY Zenon DEF PskbAnswer, Bundle
<1> HIDE DEF a
<1>4. ASSUME NEW i \in Indices(t)
      PROVE  /\ Cardinality(p.sigs[i]) <= MaxSigs
             /\ G(i) \in SUBSET Entries(inputs[t][i], t, "pskb", app2)
             /\ p.sigs[i] \subseteq G(i)
             /\ KeysOf(G(i)) = KeysOf(p.sigs[i]) \cup Owns(d, inputs[t][i])
  <2> DEFINE in == inputs[t][i]
             E == p.sigs[i]
             O == Owns(d, in)
             format == "pskb"
             N == Moved(d, p, i)
  <2>1. in \in Inputs /\ E \in SUBSET Entries(in, t, format, app)
    BY <1>1 DEF BundleOK, Indices
  <2>2. O \subseteq Range(in.ring) /\ \A k \in O : k[1] = d
    BY DEF Owns
  <2>3. N = O \ KeysOf(E)
    <3> DEFINE unnamed == {k \in O : ~Named(E, k, Prefix(k))}
    <3>1. {k \in K[i] : ~Named(E, k, Prefix(k))} = unnamed
      BY <1>2
    <3>2. N = Range(First(ByPosition(in, unnamed), MaxSigs - Cardinality(E)))
      BY <3>1 DEF Moved
    <3>3. in \in Inputs /\ E \in SUBSET Entries(in, t, "pskb", app) /\ O \subseteq Range(in.ring)
      BY <2>1, <2>2
    <3> HIDE DEF in, E, O, t, N
    <3>4. Range(First(ByPosition(in, unnamed), MaxSigs - Cardinality(E))) = O \ KeysOf(E)
      BY <3>3, MovedAll
    <3>5. QED BY <3>2, <3>4
  <2>4. Cardinality(E) <= MaxSigs
    <3> HIDE DEF in, E, t, format, N, O
    <3>0. EntriesAre(in, t, format, app, E)
      BY <2>1, EntriesFacts
    <3>1. Cardinality(E) \in Nat /\ Cardinality(E) <= Len(in.ring)
      BY <3>0 DEF EntriesAre
    <3>2. Len(in.ring) \in Nat /\ Len(in.ring) <= MaxSigs
      BY <2>1, InputFacts
    <3>3. QED BY <3>1, <3>2, QuorumAssumption
  <2>5. G(i) = E \cup {Entry(format, k, t) : k \in O \ KeysOf(E)}
    BY <2>3 DEF Entry
  <2>6. \A k \in O : Entry(format, k, t) \in Entries(in, t, format, app2)
    BY <2>2 DEF Entries, Allowed
  <2>7. Entries(in, t, format, app) \subseteq Entries(in, t, format, app2)
    BY MoreApproved
  <2>8. \A k : Entry(format, k, t).key = k
    BY DEF Entry
  <2> HIDE DEF in, E, t, format, O, N
  <2>9. KeysOf(E \cup {Entry(format, k, t) : k \in O \ KeysOf(E)}) = KeysOf(E) \cup O
    <3> DEFINE W == E \cup {Entry(format, k, t) : k \in O \ KeysOf(E)}
    <3>1. \A g \in W : g \in E \/ \E k \in O : g = Entry(format, k, t)
      OBVIOUS
    <3>2. KeysOf(W) \subseteq KeysOf(E) \cup O
      BY <2>8, <3>1 DEF KeysOf
    <3>3. ASSUME NEW k \in O \ KeysOf(E) PROVE k \in KeysOf(W)
      <4>1. Entry(format, k, t) \in W
        OBVIOUS
      <4>2. QED BY <2>8, <4>1 DEF KeysOf
    <3>4. KeysOf(E) \subseteq KeysOf(W)
      BY DEF KeysOf
    <3> HIDE DEF W
    <3>5. KeysOf(W) = KeysOf(E) \cup O
      BY <3>2, <3>3, <3>4
    <3>6. QED BY <3>5 DEF W
  <2>10. /\ E \cup {Entry(format, k, t) : k \in O \ KeysOf(E)}
              \in SUBSET Entries(in, t, format, app2)
    BY <2>1, <2>6, <2>7
  <2> HIDE DEF G
  <2>11. /\ G(i) \in SUBSET Entries(in, t, format, app2) /\ E \subseteq G(i)
         /\ KeysOf(G(i)) = KeysOf(E) \cup O
    BY <2>5, <2>9, <2>10
  <2>12. QED BY <2>4, <2>11 DEF in, E, t, format, O
<1> HIDE DEF G
<1>5. /\ a.kind = "pskb" /\ a.of = t /\ a.sigs = [i \in Indices(t) |-> G(i)]
      /\ a = [kind |-> "pskb", of |-> a.of, sigs |-> a.sigs]
      /\ \A i \in Indices(t) : a.sigs[i] = G(i)
  BY <1>3
<1>6. BundleOK(a, "pskb", inputs, app2)
  <2> HIDE DEF t
  <2> QED BY <1>1, <1>4, <1>5 DEF BundleOK, Indices
<1>7. ParsesPskb(p)
  BY <1>4 DEF ParsesPskb
<1>8. \A i \in Indices(t) :
        /\ p.sigs[i] \subseteq a.sigs[i]
        /\ KeysOf(a.sigs[i]) = KeysOf(p.sigs[i]) \cup Owns(d, inputs[t][i])
  BY <1>4, <1>5
<1>9. QED BY <1>2, <1>5, <1>6, <1>7, <1>8 DEF a, K, t, PskbAnswered

(* What it adds to a KSPT: the same, behind the records it was given.      *)
KsptAnswered(d, p, app) ==
  LET a == KsptAnswer(d, p) IN
  /\ KsptOK(a, inputs, app) /\ a.kind = "kspt" /\ a.of = p.of
  /\ \A i \in Indices(p.of) :
       LET in == inputs[p.of][i] IN
       /\ HeldKeys(in, a.sigs[i]) = HeldKeys(in, p.sigs[i]) \cup Owns(d, in)
       /\ KsptKeys(d, p)[i] = Owns(d, in) \ HeldKeys(in, p.sigs[i])

LEMMA KsptAnswerOK ==
  ASSUME inputs \in Plans, NEW d \in Devices, NEW p, NEW app, NEW app2,
         KsptOK(p, inputs, app), app \subseteq app2, <<d, p.of>> \in app2
  PROVE  KsptAnswered(d, p, app2)
<1> DEFINE t == p.of
           a == KsptAnswer(d, p)
           have == [i \in Indices(t) |-> HeldKeys(inputs[t][i], p.sigs[i])]
           K == KsptKeys(d, p)
           S(i) == KsptSigned(d, p, i)
           sigs == [i \in Indices(t) |-> S(i)]
<1>1. /\ t \in DOMAIN inputs /\ inputs[t] \in Seq(Inputs)
      /\ \A i \in Indices(t) : inputs[t][i] \in Inputs
  BY InputsFacts DEF KsptOK, Indices
<1>2. \A i \in Indices(t) : K[i] = Owns(d, inputs[t][i]) \ HeldKeys(inputs[t][i], p.sigs[i])
  <2>1. K = NewKeys(d, inputs[t], have)
    BY DEF KsptKeys, HeldKeys
  <2> HIDE DEF K, have
  <2>2. /\ DOMAIN NewKeys(d, inputs[t], have) = 1 .. Len(inputs[t])
        /\ \A i \in 1 .. Len(inputs[t]) :
             NewKeys(d, inputs[t], have)[i] = Owns(d, inputs[t][i]) \ have[i]
    BY <1>1, NewKeysAre
  <2>3. \A i \in Indices(t) : have[i] = HeldKeys(inputs[t][i], p.sigs[i])
    BY DEF have
  <2>4. QED BY <2>1, <2>2, <2>3 DEF Indices
<1>3. a = [kind |-> "kspt", of |-> t, sigs |-> sigs, done |-> IsFullySigned(sigs)]
  BY DEF KsptAnswer
<1>4. ASSUME NEW i \in Indices(t)
      PROVE  /\ RecordsOK(inputs[t][i], t, app2, S(i))
             /\ HeldKeys(inputs[t][i], S(i))
                  = HeldKeys(inputs[t][i], p.sigs[i]) \cup Owns(d, inputs[t][i])
  <2> DEFINE in == inputs[t][i]
             s == p.sigs[i]
             N == Owns(d, in) \ HeldKeys(in, s)
             r == Appended(in, t, N, s)
  <2>1. in \in Inputs /\ RecordsOK(in, t, app2, s)
    BY <1>1, MoreApproved DEF KsptOK, Indices
  <2>2. FreshKeys(in, t, app2, s, N)
    BY DEF Owns, FreshKeys
  <2>3. S(i) = r
    <3>1. K[i] = N
      BY <1>2
    <3>2. S(i) = Appended(in, t, K[i], s)
      BY Zenon DEF KsptSigned, Appended
    <3>3. QED BY <3>1, <3>2
  <2> HIDE DEF in, s, N, t
  <2>4. RecordsOK(in, t, app2, r) /\ HeldKeys(in, r) = HeldKeys(in, s) \cup N
    BY <2>1, <2>2, SignedFacts
  <2> HIDE DEF r, S
  <2>5. RecordsOK(in, t, app2, S(i)) /\ HeldKeys(in, S(i)) = HeldKeys(in, s) \cup Owns(d, in)
    BY <2>3, <2>4 DEF N
  <2>6. QED BY <2>5 DEF in, s, t
<1> HIDE DEF a, S
<1>5. /\ a.kind = "kspt" /\ a.of = t /\ a.sigs = sigs /\ a.done = IsFullySigned(sigs)
      /\ a = [kind |-> "kspt", of |-> a.of, done |-> a.done, sigs |-> a.sigs]
      /\ \A i \in Indices(t) : a.sigs[i] = S(i)
  BY <1>3
<1>6. a.done => \A i \in Indices(t) : Len(a.sigs[i]) >= M
  BY <1>5 DEF IsFullySigned
<1>7. KsptOK(a, inputs, app2)
  <2>1. \A i \in Indices(a.of) : RecordsOK(inputs[a.of][i], a.of, app2, a.sigs[i])
    BY <1>4, <1>5
  <2>2. a.sigs = [i \in Indices(a.of) |-> a.sigs[i]]
    BY <1>5
  <2> HIDE DEF t
  <2>3. QED BY <1>1, <1>5, <1>6, <2>1, <2>2 DEF KsptOK, Indices
<1>8. \A i \in Indices(t) : HeldKeys(inputs[t][i], a.sigs[i])
        = HeldKeys(inputs[t][i], p.sigs[i]) \cup Owns(d, inputs[t][i])
  BY <1>4, <1>5
<1>9. QED BY <1>2, <1>5, <1>7, <1>8 DEF a, K, t, KsptAnswered

(* The page's merge of an answer to the transaction it reviews.            *)
MergeAnswered(b, p, app) ==
  LET m == Merge(b, p) IN
  /\ BundleOK(m, "kspt", inputs, app) /\ m.of = b.of
  /\ \A i \in Indices(b.of) :
       /\ b.sigs[i] \subseteq m.sigs[i]
       /\ KeysOf(m.sigs[i]) = KeysOf(b.sigs[i]) \cup HeldKeys(inputs[b.of][i], p.sigs[i])

LEMMA MergeOK ==
  ASSUME inputs \in Plans, NEW b, NEW p, NEW app, BundleOK(b, "kspt", inputs, app),
         KsptOK(p, inputs, app), p.of = b.of
  PROVE  MergeAnswered(b, p, app)
<1> DEFINE t == b.of
           m == Merge(b, p)
           G(i) == MergedInput(inputs[t][i], b.sigs[i], p.sigs[i])
<1>1. t \in DOMAIN inputs /\ \A i \in Indices(t) : inputs[t][i] \in Inputs
  BY InputsFacts DEF BundleOK, Indices
<1>2. DOMAIN p.sigs = Indices(t)
  <2> DEFINE f == p.sigs
  <2>1. f = [i \in Indices(t) |-> f[i]]
    BY DEF KsptOK, Indices
  <2> HIDE DEF f
  <2>2. QED BY <2>1 DEF f
<1>3. m = [b EXCEPT !.sigs = [i \in Indices(t) |->
             IF i \in DOMAIN p.sigs THEN G(i) ELSE b.sigs[i]]]
  BY Zenon DEF Merge, MergedInput
<1>4. ASSUME NEW i \in Indices(t)
      PROVE  /\ G(i) \in SUBSET Entries(inputs[t][i], t, "kspt", app)
             /\ b.sigs[i] \subseteq G(i)
             /\ KeysOf(G(i)) = KeysOf(b.sigs[i]) \cup HeldKeys(inputs[t][i], p.sigs[i])
  <2> DEFINE in == inputs[t][i]
             E == b.sigs[i]
             s == p.sigs[i]
  <2>1. in \in Inputs /\ E \in SUBSET Entries(in, t, "kspt", app)
    BY <1>1 DEF BundleOK, Indices
  <2>11. RecordsOK(in, t, app, s)
    BY DEF KsptOK, Indices
  <2> HIDE DEF in, E, s, t
  <2>2. MergedAre(in, t, app, E, s)
    BY <2>1, <2>11, MergedFacts
  <2>3. QED BY <2>2 DEF in, E, s, t, MergedAre
<1> HIDE DEF m, G
<1>5. m = [kind |-> "pskb", of |-> t, sigs |-> [i \in Indices(t) |-> G(i)]]
  <2>1. m = [b EXCEPT !.sigs = [i \in Indices(t) |-> G(i)]]
    BY <1>2, <1>3
  <2>2. b = [kind |-> "pskb", of |-> t, sigs |-> b.sigs]
    BY DEF BundleOK, Indices
  <2> DEFINE f == [i \in Indices(t) |-> G(i)]
  <2> HIDE DEF f, t
  <2>3. [b EXCEPT !.sigs = f] = [kind |-> "pskb", of |-> t, sigs |-> f]
    BY <2>2
  <2>4. QED BY <2>1, <2>3 DEF f
<1>6. /\ m.kind = "pskb" /\ m.of = t /\ m.sigs = [i \in Indices(t) |-> G(i)]
      /\ m = [kind |-> "pskb", of |-> m.of, sigs |-> m.sigs]
      /\ \A i \in Indices(t) : m.sigs[i] = G(i)
  BY <1>5
<1>7. BundleOK(m, "kspt", inputs, app)
  <2> HIDE DEF t
  <2> QED BY <1>1, <1>4, <1>6 DEF BundleOK, Indices
<1>8. \A i \in Indices(t) :
        /\ b.sigs[i] \subseteq m.sigs[i]
        /\ KeysOf(m.sigs[i]) = KeysOf(b.sigs[i]) \cup HeldKeys(inputs[t][i], p.sigs[i])
  BY <1>4, <1>6
<1>9. QED BY <1>6, <1>7, <1>8 DEF m, t, MergeAnswered

-----------------------------------------------------------------------------
(* The round.  Whatever is under review or on a device's screen holds      *)
(* signatures of approved keys for its own transaction, named the way the  *)
(* round's format names them.                                              *)

ShownOK(p, ins, app) == BundleOK(p, "pskb", ins, app) \/ KsptOK(p, ins, app)

RoundInv ==
  /\ inputs \in Plans
  /\ wire \in {"pskb", "kspt"}
  /\ review # None => BundleOK(review, wire, inputs, approved)
  /\ onPage # None => review # None /\ onPage = wire
  /\ onDevice = [d \in Devices |-> onDevice[d]]
  /\ \A d \in Devices : onDevice[d] # None => ShownOK(onDevice[d], inputs, approved)

LEMMA BlankOK ==
  ASSUME NEW t \in DOMAIN inputs, NEW format, NEW app
  PROVE  BundleOK(Blank(t), format, inputs, app)
<1> DEFINE f == [i \in Indices(t) |-> {}]
           b == Blank(t)
<1>1. b = [kind |-> "pskb", of |-> t, sigs |-> f]
  BY Zenon DEF Blank, Bundle
<1>2. \A i \in Indices(t) : f[i] = {}
  OBVIOUS
<1>3. f = [i \in Indices(t) |-> f[i]]
  OBVIOUS
<1> HIDE DEF b, f
<1>4. b.of = t /\ b.sigs = f /\ b = [kind |-> "pskb", of |-> b.of, sigs |-> b.sigs]
  BY <1>1
<1>5. QED BY <1>2, <1>3, <1>4 DEF b, BundleOK, Indices

LEMMA HexNever ==
  ASSUME NEW p
  PROVE  NodeAcceptsHex(p) = FALSE /\ Broadcast(p) = ledger
<1>1. NodeAcceptsHex(p) = FALSE
  BY DEF NodeAcceptsHex, RedeemLengthRead, RedeemLengthWritten
<1>2. QED BY <1>1 DEF Broadcast

(* What the page shows, and what a device makes of it.                     *)
LEMMA PayloadOK ==
  ASSUME RoundInv, review # None
  PROVE  LET p == Payload(review, wire) IN
         /\ p.of = review.of /\ review.of \in DOMAIN inputs
         /\ \/ wire = "pskb" /\ p = review /\ p.kind = "pskb"
               /\ BundleOK(p, "pskb", inputs, approved)
            \/ wire = "kspt" /\ p = Compact(review) /\ p.kind = "kspt"
               /\ Compacted(review, p, approved) /\ KsptOK(p, inputs, approved)
<1> DEFINE p == Payload(review, wire)
<1>1. BundleOK(review, wire, inputs, approved) /\ inputs \in Plans
      /\ wire \in {"pskb", "kspt"}
  BY DEF RoundInv
<1>2. review.of \in DOMAIN inputs /\ review.kind = "pskb"
  BY <1>1 DEF BundleOK
<1>3. CASE wire = "pskb"
  <2>1. p = review
    BY <1>3 DEF Payload
  <2>2. QED BY <1>1, <1>2, <1>3, <2>1
<1>4. CASE wire = "kspt"
  <2>1. p = Compact(review)
    BY <1>4 DEF Payload
  <2>2. Compacted(review, Compact(review), approved)
    BY <1>1, CompactOK
  <2> HIDE DEF p
  <2>3. /\ Compacted(review, p, approved) /\ KsptOK(p, inputs, approved)
        /\ p.kind = "kspt" /\ p.of = review.of
    BY <2>1, <2>2 DEF Compacted
  <2>4. QED BY <1>2, <1>4, <2>1, <2>3 DEF p
<1>5. QED BY <1>1, <1>3, <1>4

LEMMA AnswerOK ==
  ASSUME RoundInv, review # None, NEW d \in Devices, NEW app, approved \subseteq app,
         <<d, review.of>> \in app
  PROVE  ShownOK(Answer(d, Payload(review, wire)), inputs, app)
<1> DEFINE p == Payload(review, wire)
<1>1. /\ p.of = review.of /\ inputs \in Plans
      /\ \/ p.kind = "pskb" /\ BundleOK(p, "pskb", inputs, approved)
         \/ p.kind = "kspt" /\ KsptOK(p, inputs, approved)
  BY PayloadOK DEF RoundInv
<1>2. <<d, p.of>> \in app
  BY <1>1
<1> HIDE DEF p
<1>3. CASE p.kind = "pskb" /\ BundleOK(p, "pskb", inputs, approved)
  <2>1. PskbAnswered(d, p, app)
    BY <1>1, <1>2, <1>3, PskbAnswerOK
  <2>2. Answer(d, p) = PskbAnswer(d, p)
    BY <1>3 DEF Answer
  <2>3. QED BY <2>1, <2>2 DEF PskbAnswered, ShownOK, p
<1>4. CASE p.kind = "kspt" /\ KsptOK(p, inputs, approved)
  <2>1. KsptAnswered(d, p, app)
    BY <1>1, <1>2, <1>4, KsptAnswerOK
  <2>2. Answer(d, p) = KsptAnswer(d, p)
    BY <1>4 DEF Answer
  <2>3. QED BY <2>1, <2>2 DEF KsptAnswered, ShownOK, p
<1>5. QED BY <1>1, <1>3, <1>4

THEOREM RoundInvariant ==
  ASSUME Detours = {}
  PROVE  Spec => []RoundInv
<1>1. Init => RoundInv
  BY DEF Init, RoundInv
<1>2. RoundInv /\ [Next]_vars => RoundInv'
  <2>0. SUFFICES ASSUME RoundInv, [Next]_vars PROVE RoundInv'
    OBVIOUS
  <2>1. /\ inputs \in Plans /\ wire \in {"pskb", "kspt"}
        /\ review # None => BundleOK(review, wire, inputs, approved)
        /\ onPage # None => review # None /\ onPage = wire
        /\ onDevice = [d \in Devices |-> onDevice[d]]
        /\ \A d \in Devices : onDevice[d] # None => ShownOK(onDevice[d], inputs, approved)
    BY <2>0 DEF RoundInv
  <2>2. ASSUME NEW t \in DOMAIN inputs, NEW format \in {"pskb", "kspt"}, Build(t, format)
        PROVE  RoundInv'
    <3>1. BundleOK(Blank(t), format, inputs, approved)
      BY BlankOK
    <3>2. QED BY <2>1, <2>2, <3>1 DEF Build, RoundInv
  <2>3. CASE Back
    BY <2>1, <2>3 DEF Back, RoundInv
  <2>4. ASSUME NEW format \in {"pskb", "kspt"}, Relay(format) PROVE RoundInv'
    BY <2>1, <2>4 DEF Relay, RoundInv
  <2>5. ASSUME NEW d \in Devices, Sign(d) PROVE RoundInv'
    <3> DEFINE p == Payload(review, wire)
               app == approved \cup {<<d, review.of>>}
    <3>1. review # None /\ onPage = wire
      BY <2>1, <2>5 DEF Sign
    <3>2. p.of = review.of
      BY <2>0, <3>1, PayloadOK
    <3>3. /\ UNCHANGED <<inputs, review, wire, onPage, ledger>>
          /\ approved' = app
          /\ onDevice' = [onDevice EXCEPT ![d] = IF Refuses(d, p) THEN None ELSE Answer(d, p)]
      BY <2>5, <3>1, <3>2 DEF Sign
    <3>4. ShownOK(Answer(d, p), inputs, app)
      BY <2>0, <3>1, AnswerOK
    <3>5. /\ BundleOK(review, wire, inputs, app)
          /\ \A e \in Devices : onDevice[e] # None => ShownOK(onDevice[e], inputs, app)
      BY <2>1, <3>1, MoreApproved DEF ShownOK
    <3> HIDE DEF p, app
    <3>6. /\ onDevice' = [e \in Devices |-> onDevice'[e]]
          /\ \A e \in Devices : onDevice'[e] # None => ShownOK(onDevice'[e], inputs, app)
      BY <2>1, <3>3, <3>4, <3>5
    <3>7. QED BY <2>1, <3>1, <3>3, <3>5, <3>6 DEF RoundInv
  <2>6. ASSUME NEW d \in Devices, Scan(d) PROVE RoundInv'
    <3> DEFINE p == onDevice[d]
    <3>1. /\ p # None /\ Expected(p) /\ onPage' = None
          /\ UNCHANGED <<inputs, onDevice, approved>>
          /\ IF p.kind = "pskb"
             THEN review' = p /\ wire' = p.kind
             ELSE \/ /\ review # None /\ Merges(review, p)
                     /\ review' = Merge(review, p) /\ UNCHANGED wire
                  \/ UNCHANGED <<review, wire>>
      BY <2>6 DEF Scan
    <3>2. ShownOK(p, inputs, approved)
      BY <2>1, <3>1
    <3>3. CASE p.kind = "pskb"
      <4>1. BundleOK(p, "pskb", inputs, approved)
        BY <3>2, <3>3 DEF ShownOK, KsptOK
      <4> HIDE DEF p
      <4>2. BundleOK(review', wire', inputs, approved) /\ wire' = "pskb"
        BY <3>1, <3>3, <4>1
      <4>3. QED BY <2>1, <3>1, <4>2 DEF RoundInv
    <3>4. CASE p.kind # "pskb" /\ UNCHANGED <<review, wire>>
      BY <2>1, <3>1, <3>4 DEF RoundInv
    <3>5. CASE /\ p.kind # "pskb" /\ review # None /\ Merges(review, p)
               /\ review' = Merge(review, p) /\ UNCHANGED wire
      <4>1. KsptOK(p, inputs, approved) /\ p.kind = "kspt"
        BY <3>2, <3>5 DEF ShownOK, KsptOK, BundleOK
      <4>2. wire = "kspt" /\ p.of = review.of
        BY <3>1, <3>5, <4>1 DEF Expected, Merges
      <4> HIDE DEF p
      <4>3. BundleOK(review, "kspt", inputs, approved) /\ inputs \in Plans
        BY <2>1, <3>5, <4>2
      <4>4. MergeAnswered(review, p, approved)
        BY <4>1, <4>2, <4>3, MergeOK
      <4>5. BundleOK(Merge(review, p), "kspt", inputs, approved)
        BY <4>4 DEF MergeAnswered
      <4>6. BundleOK(review', wire', inputs, approved) /\ wire' = "kspt"
        BY <3>5, <4>2, <4>5
      <4>7. QED BY <2>1, <3>1, <4>6 DEF RoundInv
    <3>6. QED BY <3>1, <3>3, <3>4, <3>5
  <2>7. CASE Finalize
    BY <2>1, <2>7 DEF Finalize, RoundInv
  <2>8. CASE UNCHANGED vars
    BY <2>1, <2>8 DEF vars, RoundInv
  <2>9. QED BY <2>0, <2>2, <2>3, <2>4, <2>5, <2>6, <2>7, <2>8 DEF Next
<1>3. QED BY <1>1, <1>2, PTL DEF Spec

-----------------------------------------------------------------------------
(* The properties of the round.                                            *)

LEMMA ReviewedEntries ==
  ASSUME RoundInv, review # None, NEW i \in Indices(review.of)
  PROVE  /\ inputs[review.of][i] \in Inputs
         /\ EntriesAre(inputs[review.of][i], review.of, wire, approved, review.sigs[i])
<1> DEFINE t == review.of
           in == inputs[t][i]
           E == review.sigs[i]
<1>1. BundleOK(review, wire, inputs, approved) /\ inputs \in Plans
  BY DEF RoundInv
<1>2. in \in Inputs /\ E \in SUBSET Entries(in, t, wire, approved)
  BY <1>1, InputsFacts DEF BundleOK, Indices
<1> HIDE DEF in, E, t
<1>3. EntriesAre(in, t, wire, approved, E)
  BY <1>2, EntriesFacts
<1>4. QED BY <1>2, <1>3 DEF in, E, t

(* The badge of an input counts cosigners: every signature under review is *)
(* by a different key, of a device whose owner approved this transaction   *)
(* on its own screen.                                                      *)
THEOREM Counted ==
  ASSUME Detours = {}
  PROVE  Spec => []CountedApproved
<1>1. RoundInv => CountedApproved
  <2>1. SUFFICES ASSUME RoundInv, review # None, NEW i \in Indices(review.of)
                 PROVE  /\ SigsPresent(review, i) = Cardinality({e.key : e \in review.sigs[i]})
                        /\ \A e \in review.sigs[i] : <<e.key[1], review.of>> \in approved
    BY DEF CountedApproved
  <2>2. EntriesAre(inputs[review.of][i], review.of, wire, approved, review.sigs[i])
    BY <2>1, ReviewedEntries
  <2>3. QED BY <2>2 DEF EntriesAre, SigsPresent, KeysOf
<1>2. QED BY <1>1, RoundInvariant, PTL

(* An answer flagged as fully signed makes, alone, an accepted bundle.     *)
LEMMA DoneEnough ==
  ASSUME RoundInv
  PROVE  DoneIsEnough
<1>1. SUFFICES ASSUME NEW d \in Devices, onDevice[d] # None, onDevice[d].kind = "kspt",
                      onDevice[d].done
               PROVE  NodeAccepts(Merge(Blank(onDevice[d].of), onDevice[d]))
  BY DEF DoneIsEnough
<1> DEFINE p == onDevice[d]
           t == p.of
           b == Blank(t)
           m == Merge(b, p)
<1>2. KsptOK(p, inputs, approved) /\ inputs \in Plans
  <2>1. ShownOK(p, inputs, approved) /\ inputs \in Plans /\ p.kind = "kspt"
    BY <1>1 DEF RoundInv
  <2> HIDE DEF p
  <2>2. ~BundleOK(p, "pskb", inputs, approved)
    BY <2>1 DEF BundleOK
  <2>3. QED BY <2>1, <2>2 DEF ShownOK
<1>3. t \in DOMAIN inputs /\ \A i \in Indices(t) : Len(p.sigs[i]) >= M
  BY <1>1, <1>2 DEF KsptOK, Indices
<1>4. BundleOK(b, "kspt", inputs, approved)
  BY <1>3, BlankOK
<1>5. b.of = t /\ \A i \in Indices(t) : b.sigs[i] = {}
  BY DEF Blank, Bundle
<1> HIDE DEF b, p
<1>6. MergeAnswered(b, p, approved)
  BY <1>2, <1>4, <1>5, MergeOK
<1> HIDE DEF m
<1>7. /\ BundleOK(m, "kspt", inputs, approved) /\ m.of = t
      /\ \A i \in Indices(t) : KeysOf(m.sigs[i]) = KeysOf({}) \cup HeldKeys(inputs[t][i], p.sigs[i])
  BY <1>5, <1>6 DEF MergeAnswered, m
<1>8. ASSUME NEW i \in Indices(t) PROVE Cardinality(m.sigs[i]) >= M
  <2> DEFINE in == inputs[t][i]
             E == m.sigs[i]
             s == p.sigs[i]
  <2>1. in \in Inputs /\ E \in SUBSET Entries(in, t, "kspt", approved)
    BY <1>2, <1>3, <1>7, InputsFacts DEF BundleOK, Indices
  <2>2. RecordsOK(in, t, approved, s)
    BY <1>2 DEF KsptOK, Indices
  <2>3. KeysOf(E) = HeldKeys(in, s)
    BY <1>7 DEF KeysOf
  <2>4. Len(s) >= M
    BY <1>3
  <2> HIDE DEF in, E, s, t
  <2>5. EntriesAre(in, t, "kspt", approved, E)
    BY <2>1, EntriesFacts
  <2>6. HeldAre(in, t, approved, s)
    BY <2>1, <2>2, HeldFacts
  <2>7. Cardinality(E) = Len(s)
    BY <2>3, <2>5, <2>6 DEF EntriesAre, HeldAre
  <2>8. QED BY <2>4, <2>7 DEF E
<1>9. FinalizeReady(m)
  BY <1>7, <1>8 DEF FinalizeReady, SigsPresent
<1>10. NodeAccepts(m)
  BY <1>2, <1>7, <1>9, ReadyAccepted
<1>11. QED BY <1>10 DEF m, b, p

(* What is called complete is: the Finalize button is offered only for a   *)
(* transaction the node accepts, and the device's flag is right as well.   *)
THEOREM Ready ==
  ASSUME Detours = {}
  PROVE  Spec => []ReadyIsAccepted
<1>1. RoundInv => ReadyIsAccepted
  <2>1. ASSUME RoundInv, review # None, FinalizeReady(review) PROVE NodeAccepts(review)
    <3>1. BundleOK(review, wire, inputs, approved) /\ inputs \in Plans
      BY <2>1 DEF RoundInv
    <3>2. QED BY <2>1, <3>1, ReadyAccepted
  <2>2. QED BY <2>1, DoneEnough DEF ReadyIsAccepted
<1>2. QED BY <1>1, RoundInvariant, PTL

(* A refusal means the device owes nothing.                                *)
LEMMA Helps ==
  ASSUME RoundInv, review # None
  PROVE  LET p == Payload(review, wire) IN
         /\ Parses(p)
         /\ \A d \in Devices : \A i \in Indices(review.of) :
              /\ review.sigs[i] \subseteq AfterAsking(d, p).sigs[i]
              /\ KeysOf(AfterAsking(d, p).sigs[i])
                   = KeysOf(review.sigs[i]) \cup Owns(d, inputs[review.of][i])
<1> DEFINE p == Payload(review, wire)
           t == review.of
<1>0. inputs \in Plans
  BY DEF RoundInv
<1>1. /\ p.of = t /\ t \in DOMAIN inputs
      /\ \/ wire = "pskb" /\ p = review /\ p.kind = "pskb"
            /\ BundleOK(p, "pskb", inputs, approved)
         \/ wire = "kspt" /\ p = Compact(review) /\ p.kind = "kspt"
            /\ Compacted(review, p, approved) /\ KsptOK(p, inputs, approved)
  BY PayloadOK
<1> HIDE DEF p
<1> DEFINE Good(d) == \A i \in Indices(t) :
             /\ review.sigs[i] \subseteq AfterAsking(d, p).sigs[i]
             /\ KeysOf(AfterAsking(d, p).sigs[i])
                  = KeysOf(review.sigs[i]) \cup Owns(d, inputs[t][i])
<1>2. CASE /\ wire = "pskb" /\ p = review /\ p.kind = "pskb"
           /\ BundleOK(p, "pskb", inputs, approved)
  <2>1. ASSUME NEW d \in Devices PROVE ParsesPskb(p) /\ Good(d)
    <3> DEFINE app == approved \cup {<<d, p.of>>}
               a == PskbAnswer(d, p)
    <3>1. PskbAnswered(d, p, app)
      <4>1. approved \subseteq app /\ <<d, p.of>> \in app
        OBVIOUS
      <4> HIDE DEF app
      <4>2. QED BY <1>0, <1>2, <4>1, PskbAnswerOK
    <3> HIDE DEF a, app
    <3>2. /\ ParsesPskb(p)
          /\ \A i \in Indices(t) :
               /\ review.sigs[i] \subseteq a.sigs[i]
               /\ KeysOf(a.sigs[i]) = KeysOf(review.sigs[i]) \cup Owns(d, inputs[t][i])
               /\ PskbKeys(d, p)[i] = Owns(d, inputs[t][i])
      BY <1>1, <1>2, <3>1 DEF PskbAnswered, a
    <3>3. CASE Refuses(d, p)
      <4>1. AfterAsking(d, p) = review
        BY <3>3 DEF AfterAsking
      <4>2. \A i \in Indices(t) : Owns(d, inputs[t][i]) = {}
        BY <1>1, <1>2, <3>2, <3>3 DEF Refuses
      <4>3. QED BY <3>2, <4>1, <4>2
    <3>4. CASE ~Refuses(d, p)
      <4>1. AfterAsking(d, p) = a
        BY <1>2, <3>4 DEF AfterAsking, Answer, a
      <4>2. QED BY <3>2, <4>1
    <3>5. QED BY <3>3, <3>4
  <2>2. ParsesPskb(p)
    <3>1. Cardinality({}) = 0 /\ \A i \in Indices(t) : Cardinality(review.sigs[i]) <= MaxSigs
      <4>1. SUFFICES ASSUME NEW i \in Indices(t) PROVE Cardinality(review.sigs[i]) <= MaxSigs
        BY FS_EmptySet
      <4>2. /\ inputs[t][i] \in Inputs
            /\ EntriesAre(inputs[t][i], t, wire, approved, review.sigs[i])
        BY ReviewedEntries
      <4>3. Len(inputs[t][i].ring) \in Nat /\ Len(inputs[t][i].ring) <= MaxSigs
        BY <4>2, InputFacts
      <4>4. QED BY <4>2, <4>3, QuorumAssumption DEF EntriesAre
    <3>2. QED BY <1>1, <1>2, <3>1 DEF ParsesPskb
  <2>3. Parses(p)
    BY <1>2, <2>2 DEF Parses
  <2>4. QED BY <2>1, <2>3 DEF p
<1>3. CASE /\ wire = "kspt" /\ p = Compact(review) /\ p.kind = "kspt"
           /\ Compacted(review, p, approved) /\ KsptOK(p, inputs, approved)
  <2>0. BundleOK(review, "kspt", inputs, approved)
    BY <1>3 DEF RoundInv
  <2>1. \A i \in Indices(t) : /\ HeldKeys(inputs[t][i], p.sigs[i]) = KeysOf(review.sigs[i])
                              /\ Len(p.sigs[i]) <= MaxSigs
    BY <1>3 DEF Compacted
  <2>2. Parses(p)
    BY <1>1, <1>3, <2>1 DEF Parses, ParsesKspt
  <2>3. ASSUME NEW d \in Devices PROVE Good(d)
    <3> DEFINE app == approved \cup {<<d, p.of>>}
               a == KsptAnswer(d, p)
               m == Merge(review, a)
    <3>1. KsptAnswered(d, p, app) /\ BundleOK(review, "kspt", inputs, app)
      <4>1. approved \subseteq app /\ <<d, p.of>> \in app
        OBVIOUS
      <4> HIDE DEF app
      <4>2. KsptAnswered(d, p, app)
        BY <1>0, <1>3, <4>1, KsptAnswerOK
      <4>3. BundleOK(review, "kspt", inputs, app)
        BY <2>0, <4>1, MoreApproved
      <4>4. QED BY <4>2, <4>3
    <3> HIDE DEF a, app
    <3>2. /\ KsptOK(a, inputs, app) /\ a.of = t
          /\ \A i \in Indices(t) :
               /\ HeldKeys(inputs[t][i], a.sigs[i])
                    = HeldKeys(inputs[t][i], p.sigs[i]) \cup Owns(d, inputs[t][i])
               /\ KsptKeys(d, p)[i] = Owns(d, inputs[t][i]) \ HeldKeys(inputs[t][i], p.sigs[i])
      BY <1>1, <3>1 DEF KsptAnswered, a
    <3>3. MergeAnswered(review, a, app)
      BY <1>0, <3>1, <3>2, MergeOK
    <3>4. \A i \in Indices(t) :
            /\ review.sigs[i] \subseteq m.sigs[i]
            /\ KeysOf(m.sigs[i]) = KeysOf(review.sigs[i]) \cup Owns(d, inputs[t][i])
      <4>1. \A i \in Indices(t) :
              /\ review.sigs[i] \subseteq m.sigs[i]
              /\ KeysOf(m.sigs[i]) = KeysOf(review.sigs[i]) \cup HeldKeys(inputs[t][i], a.sigs[i])
        BY <3>3 DEF MergeAnswered
      <4> HIDE DEF m, t
      <4>2. QED BY <2>1, <3>2, <4>1
    <3> HIDE DEF m
    <3>5. CASE Refuses(d, p)
      <4>1. AfterAsking(d, p) = review
        BY <3>5 DEF AfterAsking
      <4>2. \A i \in Indices(t) : Owns(d, inputs[t][i]) \ KeysOf(review.sigs[i]) = {}
        BY <1>1, <1>3, <2>1, <3>2, <3>5 DEF Refuses
      <4>3. QED BY <4>1, <4>2
    <3>6. CASE ~Refuses(d, p)
      <4>1. AfterAsking(d, p) = m
        BY <1>3, <3>6 DEF AfterAsking, Answer, m, a
      <4>2. QED BY <3>4, <4>1
    <3>7. QED BY <3>5, <3>6
  <2>4. QED BY <2>2, <2>3 DEF p
<1>4. QED BY <1>1, <1>2, <1>3

(* Wherever the round stands, any signer asked adds exactly the signature  *)
(* it owes each input, and nothing the page held is lost.                  *)
THEOREM NextSigner ==
  ASSUME Detours = {}
  PROVE  Spec => []NextSignerHelps
<1>1. RoundInv => NextSignerHelps
  BY Helps DEF NextSignerHelps, KeysOf
<1>2. QED BY <1>1, RoundInvariant, PTL

-----------------------------------------------------------------------------
(* Refinement of Threshold: an approval on a device's screen is Approve,   *)
(* finalizing is Pay, and nothing else touches either.                     *)

LEMMA EnoughApproved ==
  ASSUME RoundInv, review # None, FinalizeReady(review)
  PROVE  Cardinality({d \in Devices : <<d, review.of>> \in approved}) >= M
<1> DEFINE t == review.of
           in == inputs[t][1]
           E == review.sigs[1]
           A == {d \in Devices : <<d, t>> \in approved}
<1>1. 1 \in Indices(t)
  <2>1. t \in DOMAIN inputs /\ inputs \in Plans
    BY DEF RoundInv, BundleOK
  <2>2. QED BY <2>1, InputsFacts
<1>2. in \in Inputs /\ EntriesAre(in, t, wire, approved, E)
  BY <1>1, ReviewedEntries
<1>3. Cardinality(E) >= M
  BY <1>1 DEF FinalizeReady, SigsPresent
<1> HIDE DEF in, E, t
<1>4. /\ \A k, l \in Range(in.ring) : k[1] = l[1] => k = l
      /\ Range(in.ring) \subseteq Keys
  BY <1>2, InputFacts
<1>5. /\ Cardinality(E) = Cardinality(KeysOf(E)) /\ KeysOf(E) \subseteq Range(in.ring)
      /\ Cardinality(E) \in Nat
      /\ \A e \in E : <<e.key[1], t>> \in approved
  BY <1>2 DEF EntriesAre
<1>6. IsFiniteSet(A) /\ Cardinality(A) \in Nat
  <2>1. IsFiniteSet(A)
    BY DevicesAssumption, FS_Subset
  <2>2. QED BY <2>1, FS_CardinalityType
<1> DEFINE f == [k \in KeysOf(E) |-> k[1]]
<1>7. \A k \in KeysOf(E) : k[1] \in A
  BY <1>4, <1>5 DEF KeysOf, Keys
<1>8. f \in Injection(KeysOf(E), A)
  <2>1. \A k, l \in KeysOf(E) : f[k] = f[l] => k = l
    BY <1>4, <1>5
  <2> HIDE DEF A
  <2>2. f \in [KeysOf(E) -> A]
    BY <1>7
  <2> HIDE DEF f
  <2>3. QED BY <2>1, <2>2 DEF Injection, IsInjective
<1> HIDE DEF A, f
<1>9. Cardinality(KeysOf(E)) <= Cardinality(A)
  BY <1>6, <1>8, FS_Injection
<1>10. Cardinality(A) >= M
  BY <1>3, <1>5, <1>6, <1>9, QuorumAssumption
<1>11. QED BY <1>10 DEF A, t

(* What the round promises: a transaction is paid only after M signers     *)
(* have approved that one, each on its own screen.                         *)
THEOREM PromiseKept ==
  ASSUME Detours = {}
  PROVE  Spec => KeepsPromise
<1>1. Init => Promise!Init
  BY DEF Init, Promise!Init
<1>2. RoundInv /\ [Next]_vars => [Promise!Next]_(Promise!vars)
  <2>0. SUFFICES ASSUME RoundInv, [Next]_vars PROVE [Promise!Next]_(Promise!vars)
    OBVIOUS
  <2>1. ASSUME UNCHANGED <<approved, ledger>> PROVE [Promise!Next]_(Promise!vars)
    BY <2>1 DEF Promise!vars
  <2>2. review # None => review.of \in Names
    <3>1. ASSUME review # None PROVE review.of \in Names
      <4>1. review.of \in DOMAIN inputs /\ inputs \in Plans
        BY <2>0, <3>1 DEF RoundInv, BundleOK
      <4>2. QED BY <4>1, InputsFacts
    <3>2. QED BY <3>1
  <2>3. ASSUME NEW d \in Devices, Sign(d) PROVE [Promise!Next]_(Promise!vars)
    <3>1. review # None /\ onPage = wire
      BY <2>0, <2>3 DEF Sign, RoundInv
    <3>2. Payload(review, wire).of = review.of
      BY <2>0, <3>1, PayloadOK
    <3>3. Promise!Approve(d, review.of)
      BY <2>3, <3>1, <3>2 DEF Sign, Promise!Approve
    <3>4. QED BY <2>2, <3>1, <3>3 DEF Promise!Next
  <2>4. ASSUME NEW d \in Devices, Scan(d) PROVE UNCHANGED <<approved, ledger>>
    BY <2>4, HexNever DEF Scan
  <2>5. ASSUME Finalize PROVE [Promise!Next]_(Promise!vars)
    <3>1. CASE NodeAccepts(review)
      <4>1. /\ review # None /\ FinalizeReady(review)
            /\ ledger' = ledger \cup {review.of} /\ approved' = approved
        BY <2>5, <3>1 DEF Finalize
      <4>2. Promise!Pay(review.of)
        <5>1. \A S : Promise!Cardinality(S) = Cardinality(S)
          BY Zenon DEF Promise!Cardinality, Promise!IsFiniteSet, Cardinality, IsFiniteSet
        <5>2. Cardinality({d \in Devices : <<d, review.of>> \in approved}) >= M
          BY <2>0, <4>1, EnoughApproved
        <5>3. QED BY <4>1, <5>1, <5>2 DEF Promise!Pay
      <4>3. QED BY <2>2, <4>1, <4>2 DEF Promise!Next
    <3>2. CASE ~NodeAccepts(review)
      BY <2>1, <2>5, <3>2 DEF Finalize
    <3>3. QED BY <3>1, <3>2
  <2>6. ASSUME \/ \E t \in DOMAIN inputs, format \in {"pskb", "kspt"} : Build(t, format)
               \/ Back
               \/ \E format \in {"pskb", "kspt"} : Relay(format)
               \/ UNCHANGED vars
        PROVE  UNCHANGED <<approved, ledger>>
    BY <2>6 DEF Build, Back, Relay, vars
  <2>7. QED BY <2>0, <2>1, <2>3, <2>4, <2>5, <2>6 DEF Next
<1>3. QED BY <1>1, <1>2, RoundInvariant, PTL DEF Spec, KeepsPromise, Promise!Spec
=============================================================================
