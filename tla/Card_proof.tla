----------------------------- MODULE Card_proof -----------------------------
(***************************************************************************)
(* The two halves of the card, for every geometry, set of names, cards and *)
(* blocks.  They share no state and no lemma but one about numbers.        *)
(*                                                                         *)
(* Files (Fat32Save).  The inductive invariant FatInv describes the whole  *)
(* of both tables and of the directory, and not only what a reader meets:  *)
(* no link of either copy leads to a cluster that the other could give out *)
(* (LinksOk); the files of the directory, and a set H of clusters that no  *)
(* entry owns because the call under way is freeing or filling them, are   *)
(* closed under the links that lead into them (FilesOk); and for each step *)
(* of a call it says what of H is done (Freeing, Linking, Made).           *)
(* For the refinement of FileStore, DataInv adds what the clusters of the  *)
(* chain being made hold so far; Spared says of a step that it leaves the  *)
(* entries and the clusters of all files alone, which every write but the  *)
(* first of a deletion and the last of a save does.                        *)
(*                                                                         *)
(* Drivers (SdCard).  What a session owes its caller, the card and the     *)
(* display (SessionTrue), when the card and the power chip do what the     *)
(* drivers provide for (Detours = {}). CardInv says, besides the types, at *)
(* which steps the pins are the card's and on which board a step is        *)
(* reached (OnBoard), what the driver knows of a card that holds the       *)
(* address (Known), and what the blocks an operation moved, or the caller  *)
(* was told of, hold (Owed): all on one card, the one that answers if one  *)
(* does, and none of them being programmed.                                *)
(***************************************************************************)
EXTENDS Fat32Save, SdCard, FiniteSetTheorems, WellFoundedInduction, TLAPS

-----------------------------------------------------------------------------
(* Fat32Save. *)

\* A non-empty set of naturals has a least member.
LEMMA LeastNat ==
  ASSUME NEW S, S \subseteq Nat, S # {}
  PROVE  \E x \in S : \A y \in S : x <= y
<1>1. IsWellFoundedOn({ss \in Nat \X Nat : ss[1] < ss[2]}, Nat)
  BY Zenon, NatLessThanWellFounded DEF OpToRel
<1>2. PICK x \in S : \A y \in S : ~ (<<y, x>> \in {ss \in Nat \X Nat : ss[1] < ss[2]})
  BY <1>1, WFMin, Zenon
<1>3. ASSUME NEW y \in S PROVE x <= y
  <2>1. x \in Nat /\ y \in Nat /\ <<y, x>> \in Nat \X Nat
    OBVIOUS
  <2>2. ~(y < x)
    BY <1>2, <2>1, Zenon
  <2> QED
    BY <2>1, <2>2
<1> QED
  BY <1>3

\* The function Walk follows a table with, as an equation for long enough starts.
Starts(n) == {s \in Seq(Clusters) : Len(s) + n >= LastCluster}
Follows(t, g, n) ==
  g = [s \in Starts(n) |-> IF Len(s) >= LastCluster \/ Ended(t, s)
                           THEN s ELSE g[Append(s, NextOf(t, s))]]

\* There is one for every number of links still to follow.
LEMMA FollowsExists ==
  ASSUME GeometryAssumption, NEW t
  PROVE  \A n \in Nat : \E g : Follows(t, g, n)
<1> DEFINE B == {n \in Nat : ~\E g : Follows(t, g, n)}
<1>1. SUFFICES ASSUME B # {} PROVE FALSE
  OBVIOUS
<1>2. PICK n \in B : \A m \in B : n <= m
  <2>1. B \subseteq Nat
    OBVIOUS
  <2> HIDE DEF B
  <2> QED
    BY <1>1, <2>1, LeastNat
<1>n. n \in Nat /\ ~\E g : Follows(t, g, n)
  OBVIOUS
<1>3. CASE n = 0
  <2> DEFINE g == [s \in Starts(0) |-> s]
  <2>1. \A s \in Starts(0) : Len(s) >= LastCluster
    BY DEF Starts, GeometryAssumption
  <2>2. g = [s \in Starts(0) |-> IF Len(s) >= LastCluster \/ Ended(t, s)
                                 THEN s ELSE g[Append(s, NextOf(t, s))]]
    BY <2>1
  <2>3. Follows(t, g, 0)
    BY <2>2 DEF Follows
  <2> QED
    BY <1>n, <1>3, <2>3
<1>4. CASE n # 0
  <2>1. n - 1 \in Nat /\ ~(n <= n - 1)
    BY <1>n, <1>4
  <2>2. PICK h : Follows(t, h, n - 1)
    BY <1>2, <2>1
  <2> DEFINE g == [s \in Starts(n) |-> IF Len(s) >= LastCluster \/ Ended(t, s)
                                       THEN s ELSE h[Append(s, NextOf(t, s))]]
  <2>3. ASSUME NEW s \in Starts(n), ~(Len(s) >= LastCluster \/ Ended(t, s))
        PROVE  g[Append(s, NextOf(t, s))] = h[Append(s, NextOf(t, s))]
    <3>1. NextOf(t, s) \in Clusters
      BY <2>3 DEF Ended, Chained
    <3> DEFINE r == Append(s, NextOf(t, s))
    <3>2. r \in Seq(Clusters) /\ Len(r) = Len(s) + 1
      BY <2>3, <3>1 DEF Starts
    <3>3. r \in Starts(n) /\ r \in Starts(n - 1)
      <4>1. Len(s) + n >= LastCluster /\ Len(s) \in Nat /\ LastCluster \in Nat
        BY <2>3 DEF Starts, GeometryAssumption
      <4> HIDE DEF r
      <4> QED
        BY <1>n, <3>2, <4>1 DEF Starts
    <3> HIDE DEF r
    <3>4. h[r] = IF Len(r) >= LastCluster \/ Ended(t, r) THEN r ELSE h[Append(r, NextOf(t, r))]
      BY <2>2, <3>3 DEF Follows
    <3>5. g[r] = IF Len(r) >= LastCluster \/ Ended(t, r) THEN r ELSE h[Append(r, NextOf(t, r))]
      BY <3>3
    <3> QED
      BY <3>4, <3>5 DEF r
  <2>4. g = [s \in Starts(n) |-> IF Len(s) >= LastCluster \/ Ended(t, s)
                                 THEN s ELSE g[Append(s, NextOf(t, s))]]
    BY <2>3
  <2>5. Follows(t, g, n)
    <3> HIDE DEF g
    <3> QED
      BY <2>4 DEF Follows
  <2> QED
    BY <1>n, <2>5
<1> QED
  BY <1>3, <1>4

\* What Walk evaluates, without the recursive definition.
LEMMA WalkFollows ==
  ASSUME GeometryAssumption, NEW t, NEW c \in Clusters
  PROVE  \E g : /\ g = [s \in Seq(Clusters) |-> IF Len(s) >= LastCluster \/ Ended(t, s)
                                                THEN s ELSE g[Append(s, NextOf(t, s))]]
                /\ Walk(t, c) = g[<<c>>]
<1> DEFINE Eqn(g) == g = [s \in Seq(Clusters) |-> IF Len(s) >= LastCluster \/ Ended(t, s)
                                                  THEN s ELSE g[Append(s, NextOf(t, s))]]
<1>1. PICK h : Follows(t, h, LastCluster)
  BY FollowsExists DEF GeometryAssumption
<1>2. Starts(LastCluster) = Seq(Clusters)
  BY DEF Starts, GeometryAssumption
<1>3. Eqn(h)
  BY <1>1, <1>2 DEF Follows
<1> DEFINE g == CHOOSE g : Eqn(g)
<1>4. Eqn(g)
  BY <1>3, Zenon
<1>5. Walk(t, c) = g[<<c>>]
  BY DEF Walk, Chained
<1> HIDE DEF g
<1> QED
  BY <1>4, <1>5

\* A way through a table from c: along its links, no cluster twice.
IsWay(t, c, s) ==
  /\ s \in Seq(Clusters) /\ s # <<>> /\ s[1] = c
  /\ \A k \in 1..Len(s) - 1 : s[k + 1] = t[s[k]]
  /\ \A i, j \in 1..Len(s) : s[i] = s[j] => i = j
IsWalk(t, c, s) == IsWay(t, c, s) /\ Ended(t, s)

\* It is no longer than there are clusters.
LEMMA WayShort ==
  ASSUME GeometryAssumption, NEW t, NEW c, NEW s, IsWay(t, c, s)
  PROVE  Len(s) \in Nat /\ Len(s) < LastCluster
<1>1. s \in Seq(Clusters) /\ Len(s) \in Nat /\ LastCluster \in Nat /\ LastCluster > 3
  BY DEF IsWay, GeometryAssumption
<1>2. s \in [1..Len(s) -> Clusters]
  BY <1>1
<1>3. IsFiniteSet(Clusters) /\ Cardinality(Clusters) = LastCluster - 1
  <2>1. Clusters = 2..LastCluster
    BY DEF Clusters, Root
  <2> QED
    BY <1>1, <2>1, FS_Interval
<1>4. IsFiniteSet(1..Len(s)) /\ Cardinality(1..Len(s)) = Len(s)
  BY <1>1, FS_Interval
<1>5. ASSUME Len(s) >= LastCluster PROVE FALSE
  <2>1. Cardinality(Clusters) < Cardinality(1..Len(s))
    BY <1>1, <1>3, <1>4, <1>5
  <2>2. \E x, y \in 1..Len(s) : x # y /\ s[x] = s[y]
    BY <1>2, <1>3, <1>4, <2>1, FS_PigeonHole
  <2> QED
    BY <2>2 DEF IsWay
<1> QED
  BY <1>1, <1>5

\* A way that does not end can be continued.
LEMMA WayOn ==
  ASSUME NEW t, NEW c, NEW s, IsWay(t, c, s), ~Ended(t, s)
  PROVE  IsWay(t, c, Append(s, NextOf(t, s)))
<1> DEFINE x == NextOf(t, s)
           r == Append(s, x)
<1>1. s \in Seq(Clusters) /\ Len(s) \in Nat \ {0} /\ x \in Clusters /\ x = t[s[Len(s)]]
  BY DEF IsWay, Ended, Chained, NextOf
<1>2. \A i \in 1..Len(s) : s[i] # x
  BY <1>1 DEF Ended, ToSet
<1> HIDE DEF x
<1>3. r \in Seq(Clusters) /\ Len(r) = Len(s) + 1 /\ r # <<>>
  BY <1>1
<1>4. \A i \in 1..Len(s) : r[i] = s[i]
  BY <1>1
<1>5. r[Len(s) + 1] = x
  BY <1>1
<1> HIDE DEF r
<1>6. r[1] = c
  BY <1>1, <1>4 DEF IsWay
<1>7. ASSUME NEW k \in 1..Len(r) - 1 PROVE r[k + 1] = t[r[k]]
  <2>1. CASE k = Len(s)
    BY <1>1, <1>4, <1>5, <2>1
  <2>2. CASE k # Len(s)
    <3>1. k \in 1..Len(s) - 1 /\ k \in 1..Len(s) /\ k + 1 \in 1..Len(s)
      BY <1>1, <1>3, <2>2
    <3> QED
      BY <1>4, <3>1 DEF IsWay
  <2> QED
    BY <2>1, <2>2
<1>8. ASSUME NEW i \in 1..Len(r), NEW j \in 1..Len(r), r[i] = r[j] PROVE i = j
  <2>1. CASE i \in 1..Len(s) /\ j \in 1..Len(s)
    BY <1>4, <1>8, <2>1 DEF IsWay
  <2>2. CASE i \notin 1..Len(s)
    BY <1>1, <1>2, <1>3, <1>4, <1>5, <1>8, <2>2
  <2>3. CASE j \notin 1..Len(s)
    BY <1>1, <1>2, <1>3, <1>4, <1>5, <1>8, <2>3
  <2> QED
    BY <2>1, <2>2, <2>3
<1>9. IsWay(t, c, r)
  BY <1>3, <1>6, <1>7, <1>8 DEF IsWay
<1> QED
  BY <1>9 DEF r, x

\* Walk gives the whole way.
LEMMA WalkIs ==
  ASSUME GeometryAssumption, NEW t, NEW c \in Clusters
  PROVE  IsWalk(t, c, Walk(t, c))
<1>1. PICK g : /\ g = [s \in Seq(Clusters) |-> IF Len(s) >= LastCluster \/ Ended(t, s)
                                               THEN s ELSE g[Append(s, NextOf(t, s))]]
               /\ Walk(t, c) = g[<<c>>]
  BY WalkFollows
<1>2. \A s \in Seq(Clusters) : g[s] = IF Len(s) >= LastCluster \/ Ended(t, s)
                                      THEN s ELSE g[Append(s, NextOf(t, s))]
  BY <1>1
<1> DEFINE Bad(n) == \E s : IsWay(t, c, s) /\ Len(s) + n = LastCluster /\ ~IsWalk(t, c, g[s])
           B == {n \in Nat : Bad(n)}
<1>3. ASSUME B # {} PROVE FALSE
  <2>1. PICK n \in B : \A m \in B : n <= m
    <3>1. B \subseteq Nat
      OBVIOUS
    <3> HIDE DEF B
    <3> QED
      BY <1>3, <3>1, LeastNat
  <2>2. PICK s : IsWay(t, c, s) /\ Len(s) + n = LastCluster /\ ~IsWalk(t, c, g[s])
    OBVIOUS
  <2>3. s \in Seq(Clusters) /\ Len(s) \in Nat /\ Len(s) < LastCluster /\ n \in Nat /\ LastCluster \in Nat
    BY <2>2, WayShort DEF IsWay, GeometryAssumption
  <2>4. ~Ended(t, s)
    <3> SUFFICES ASSUME Ended(t, s) PROVE FALSE
      OBVIOUS
    <3>1. g[s] = s
      BY <1>2, <2>3
    <3> QED
      BY <2>2, <3>1 DEF IsWalk
  <2> DEFINE r == Append(s, NextOf(t, s))
  <2>5. g[s] = g[r]
    BY <1>2, <2>3, <2>4
  <2>6. IsWay(t, c, r)
    BY <2>2, <2>4, WayOn
  <2>7. Len(r) = Len(s) + 1
    BY <2>3
  <2>8. n - 1 \in Nat /\ Len(r) + (n - 1) = LastCluster
    BY <2>2, <2>3, <2>7
  <2>9. Bad(n - 1)
    <3> HIDE DEF r
    <3> QED
      BY <2>2, <2>5, <2>6, <2>8
  <2>10. n - 1 \in B
    BY <2>8, <2>9
  <2> QED
    BY <2>1, <2>3, <2>10
<1>4. IsWay(t, c, <<c>>)
  BY DEF IsWay
<1>5. LastCluster - 1 \in Nat /\ Len(<<c>>) + (LastCluster - 1) = LastCluster
  BY DEF GeometryAssumption
<1>6. ~Bad(LastCluster - 1)
  BY <1>3, <1>5
<1> QED
  BY <1>1, <1>4, <1>5, <1>6

\* There is only one.
LEMMA WalkOne ==
  ASSUME GeometryAssumption, NEW t, NEW c \in Clusters, NEW s, IsWalk(t, c, s)
  PROVE  Walk(t, c) = s
<1> DEFINE w == Walk(t, c)
<1>1. IsWalk(t, c, w)
  BY WalkIs
<1> HIDE DEF w
<1>2. s \in Seq(Clusters) /\ w \in Seq(Clusters) /\ Len(s) \in Nat \ {0} /\ Len(w) \in Nat \ {0}
  BY <1>1 DEF IsWalk, IsWay
<1> DEFINE B == {k \in Nat : k \in 1..Len(s) /\ k \in 1..Len(w) /\ s[k] # w[k]}
<1>3. B = {}
  <2> SUFFICES ASSUME B # {} PROVE FALSE
    OBVIOUS
  <2>1. PICK k \in B : \A m \in B : k <= m
    <3>1. B \subseteq Nat
      OBVIOUS
    <3> HIDE DEF B
    <3> QED
      BY <3>1, LeastNat
  <2>2. k # 1
    BY <1>1 DEF IsWalk, IsWay
  <2>3. k - 1 \in 1..Len(s) - 1 /\ k - 1 \in 1..Len(w) - 1 /\ k - 1 \in Nat /\ (k - 1) + 1 = k /\ ~(k <= k - 1)
    BY <1>2, <2>2
  <2>4. s[k - 1] = w[k - 1]
    BY <1>2, <2>1, <2>3
  <2>5. s[k] = t[s[k - 1]] /\ w[k] = t[w[k - 1]]
    BY <1>1, <2>3 DEF IsWalk, IsWay
  <2> QED
    BY <2>4, <2>5
<1>4. ASSUME NEW k \in 1..Len(s), k \in 1..Len(w) PROVE s[k] = w[k]
  BY <1>3, <1>4, <1>2
<1> HIDE DEF B
<1>5. ASSUME NEW p, NEW q, IsWalk(t, c, p), IsWalk(t, c, q), Len(p) < Len(q),
             \A k \in 1..Len(p) : k \in 1..Len(q) => p[k] = q[k]
      PROVE  FALSE
  <2>1. p \in Seq(Clusters) /\ q \in Seq(Clusters) /\ Len(p) \in Nat \ {0} /\ Len(q) \in Nat \ {0}
    BY <1>5 DEF IsWalk, IsWay
  <2>2. Len(p) \in 1..Len(q) - 1 /\ Len(p) \in 1..Len(q) /\ Len(p) + 1 \in 1..Len(q)
    BY <1>5, <2>1
  <2>3. NextOf(t, p) = q[Len(p) + 1]
    BY <1>5, <2>1, <2>2 DEF IsWalk, IsWay, NextOf
  <2>4. q[Len(p) + 1] \in Clusters
    BY <2>1, <2>2
  <2>5. NextOf(t, p) \in ToSet(p)
    BY <1>5, <2>3, <2>4 DEF IsWalk, Ended, Chained
  <2>6. PICK i \in 1..Len(p) : p[i] = NextOf(t, p)
    BY <2>1, <2>5 DEF ToSet
  <2>7. i \in 1..Len(q) /\ q[i] = q[Len(p) + 1]
    BY <1>5, <2>1, <2>2, <2>3, <2>6
  <2>8. i = Len(p) + 1
    BY <1>5, <2>2, <2>7 DEF IsWalk, IsWay
  <2> QED
    BY <2>1, <2>6, <2>8
<1>6. Len(s) = Len(w)
  <2>1. ~(Len(s) < Len(w))
    BY <1>1, <1>4, <1>5
  <2>2. ~(Len(w) < Len(s))
    BY <1>1, <1>4, <1>5
  <2> QED
    BY <1>2, <2>1, <2>2
<1>7. s = w
  BY <1>2, <1>4, <1>6
<1> QED
  BY <1>7 DEF w

\* The clusters of a walk, and each one's link.
LEMMA WalkFacts ==
  ASSUME GeometryAssumption, NEW t, NEW c \in Clusters
  PROVE  LET w == Walk(t, c) IN
         /\ w \in Seq(Clusters) /\ Len(w) \in Nat \ {0} /\ w[1] = c
         /\ ToSet(w) = {w[i] : i \in 1..Len(w)} /\ ToSet(w) \subseteq Clusters
         /\ \A k \in 1..Len(w) - 1 : w[k + 1] = t[w[k]]
         /\ \A i, j \in 1..Len(w) : w[i] = w[j] => i = j
         /\ Chained(t[w[Len(w)]]) => t[w[Len(w)]] \in ToSet(w)
<1> DEFINE w == Walk(t, c)
<1>1. IsWalk(t, c, w)
  BY WalkIs
<1> HIDE DEF w
<1>2. w \in Seq(Clusters) /\ Len(w) \in Nat \ {0}
  BY <1>1 DEF IsWalk, IsWay
<1>3. ToSet(w) = {w[i] : i \in 1..Len(w)} /\ ToSet(w) \subseteq Clusters
  BY <1>2 DEF ToSet
<1>4. Chained(t[w[Len(w)]]) => t[w[Len(w)]] \in ToSet(w)
  BY <1>1 DEF IsWalk, Ended, NextOf
<1> QED
  BY <1>1, <1>2, <1>3, <1>4 DEF IsWalk, IsWay, w

\* A change of the table elsewhere leaves a walk alone.
LEMMA WalkSame ==
  ASSUME GeometryAssumption, NEW t, NEW u, NEW c \in Clusters,
         \A b \in ToSet(Walk(t, c)) : u[b] = t[b]
  PROVE  Walk(u, c) = Walk(t, c)
<1> DEFINE w == Walk(t, c)
<1>1. IsWalk(t, c, w)
  BY WalkIs
<1>2. \A b \in ToSet(w) : u[b] = t[b]
  OBVIOUS
<1> HIDE DEF w
<1>3. w \in Seq(Clusters) /\ Len(w) \in Nat \ {0} /\ ToSet(w) = {w[i] : i \in 1..Len(w)}
  BY <1>1 DEF IsWalk, IsWay, ToSet
<1>4. \A k \in 1..Len(w) : u[w[k]] = t[w[k]]
  BY <1>2, <1>3
<1>5. IsWay(u, c, w)
  BY <1>1, <1>3, <1>4 DEF IsWalk, IsWay
<1>6. Ended(u, w)
  BY <1>1, <1>3, <1>4 DEF IsWalk, Ended, NextOf
<1>7. Walk(u, c) = w
  BY <1>5, <1>6, WalkOne DEF IsWalk
<1> QED
  BY <1>7 DEF w

\* A walk whose end is linked to a cluster outside grows by that cluster.
LEMMA WalkGrows ==
  ASSUME GeometryAssumption, NEW t, NEW u, NEW c \in Clusters, NEW x \in Clusters,
         x \notin ToSet(Walk(t, c)), ~Chained(u[x]),
         LET w == Walk(t, c) IN
         /\ ~Chained(t[w[Len(w)]]) /\ u[w[Len(w)]] = x
         /\ \A b \in ToSet(w) : b # w[Len(w)] => u[b] = t[b]
  PROVE  Walk(u, c) = Append(Walk(t, c), x)
<1> DEFINE w == Walk(t, c)
           r == Append(w, x)
<1>1. IsWalk(t, c, w)
  BY WalkIs
<1>2. x \notin ToSet(w) /\ ~Chained(t[w[Len(w)]]) /\ u[w[Len(w)]] = x
      /\ \A b \in ToSet(w) : b # w[Len(w)] => u[b] = t[b]
  OBVIOUS
<1> HIDE DEF w
<1>3. w \in Seq(Clusters) /\ Len(w) \in Nat \ {0} /\ ToSet(w) = {w[i] : i \in 1..Len(w)}
  BY <1>1 DEF IsWalk, IsWay, ToSet
<1>4. r \in Seq(Clusters) /\ Len(r) = Len(w) + 1 /\ r # <<>> /\ r[Len(w) + 1] = x
  BY <1>3
<1>5. \A i \in 1..Len(w) : r[i] = w[i]
  BY <1>3
<1> HIDE DEF r
<1>6. r[1] = c
  BY <1>1, <1>3, <1>5 DEF IsWalk, IsWay
<1>7. ASSUME NEW k \in 1..Len(r) - 1 PROVE r[k + 1] = u[r[k]]
  <2>1. CASE k = Len(w)
    BY <1>2, <1>3, <1>4, <1>5, <2>1
  <2>2. CASE k # Len(w)
    <3>1. k \in 1..Len(w) - 1 /\ k \in 1..Len(w) /\ k + 1 \in 1..Len(w) /\ Len(w) \in 1..Len(w)
      BY <1>3, <1>4, <2>2
    <3>2. w[k] # w[Len(w)] /\ w[k] \in ToSet(w)
      BY <1>1, <1>3, <2>2, <3>1 DEF IsWalk, IsWay
    <3>3. w[k + 1] = t[w[k]] /\ u[w[k]] = t[w[k]]
      BY <1>1, <1>2, <3>1, <3>2 DEF IsWalk, IsWay
    <3> QED
      BY <1>5, <3>1, <3>3
  <2> QED
    BY <2>1, <2>2
<1>8. ASSUME NEW i \in 1..Len(r), NEW j \in 1..Len(r), r[i] = r[j] PROVE i = j
  <2>1. CASE i \in 1..Len(w) /\ j \in 1..Len(w)
    BY <1>1, <1>5, <1>8, <2>1 DEF IsWalk, IsWay
  <2>2. CASE i \notin 1..Len(w)
    BY <1>2, <1>3, <1>4, <1>5, <1>8, <2>2
  <2>3. CASE j \notin 1..Len(w)
    BY <1>2, <1>3, <1>4, <1>5, <1>8, <2>3
  <2> QED
    BY <2>1, <2>2, <2>3
<1>9. IsWay(u, c, r)
  BY <1>4, <1>6, <1>7, <1>8 DEF IsWay
<1>10. Ended(u, r)
  BY <1>4 DEF Ended, NextOf
<1>11. Walk(u, c) = r
  BY <1>9, <1>10, WalkOne DEF IsWalk
<1> QED
  BY <1>11 DEF r, w

\* A walk that starts in a set closed under the links stays there.
LEMMA WalkStays ==
  ASSUME GeometryAssumption, NEW t, NEW c \in Clusters, NEW S, c \in S,
         \A b \in S : Chained(t[b]) => t[b] \in S
  PROVE  ToSet(Walk(t, c)) \subseteq S
<1> DEFINE w == Walk(t, c)
<1>1. /\ w \in Seq(Clusters) /\ Len(w) \in Nat \ {0} /\ w[1] = c
      /\ ToSet(w) = {w[i] : i \in 1..Len(w)}
      /\ \A k \in 1..Len(w) - 1 : w[k + 1] = t[w[k]]
  BY WalkFacts
<1> HIDE DEF w
<1> DEFINE B == {k \in Nat : k \in 1..Len(w) /\ w[k] \notin S}
<1>2. B = {}
  <2> SUFFICES ASSUME B # {} PROVE FALSE
    OBVIOUS
  <2>1. PICK k \in B : \A m \in B : k <= m
    <3>1. B \subseteq Nat
      OBVIOUS
    <3> HIDE DEF B
    <3> QED
      BY <3>1, LeastNat
  <2>2. k # 1
    BY <1>1
  <2>3. k - 1 \in 1..Len(w) - 1 /\ k - 1 \in 1..Len(w) /\ k - 1 \in Nat /\ (k - 1) + 1 = k /\ ~(k <= k - 1)
    BY <1>1, <2>2
  <2>4. w[k - 1] \in S
    BY <2>1, <2>3
  <2>5. w[k] = t[w[k - 1]] /\ w[k] \in Clusters
    BY <1>1, <2>3
  <2>6. w[k] \in S
    BY <2>4, <2>5 DEF Chained
  <2> QED
    BY <2>6
<1>3. \A k \in 1..Len(w) : w[k] \in S
  BY <1>1, <1>2
<1>4. ToSet(w) \subseteq S
  BY <1>1, <1>3
<1> QED
  BY <1>4 DEF w

-----------------------------------------------------------------------------
(* Sectors, ranks and places. *)

\* The table sectors follow the order of the clusters.
LEMMA SectorRises ==
  ASSUME GeometryAssumption, NEW b \in Nat, NEW c \in Nat, b <= c
  PROVE  Sector(b) \in Nat /\ Sector(b) <= Sector(c)
<1>1. PerSector \in Nat /\ PerSector > 0
  BY DEF GeometryAssumption
<1> DEFINE p == PerSector
           q == b \div p
           r == c \div p
<1>2. q \in Nat /\ r \in Nat /\ p * q <= b /\ c < p * (r + 1)
  BY <1>1
<1> HIDE DEF q, r, p
<1>3. ASSUME r < q PROVE FALSE
  <2>1. r + 1 <= q /\ p \in Nat /\ r + 1 \in Nat
    BY <1>1, <1>2, <1>3 DEF p
  <2>2. p * (r + 1) <= p * q
    BY <1>2, <2>1
  <2> QED
    BY <1>2, <2>1, <2>2
<1>4. q <= r
  BY <1>2, <1>3
<1> QED
  BY <1>2, <1>4 DEF Sector, q, r, p

\* What the scan for a free cluster picks.
LEMMA LeastIs ==
  ASSUME NEW S, S \subseteq Nat, S # {}
  PROVE  Least(S) \in S /\ \A j \in S : Least(S) <= j
<1>1. \E k \in S : \A j \in S : k <= j
  BY LeastNat
<1> QED
  BY <1>1 DEF Least

\* A set of places has a first one.
LEMMA FirstIs ==
  ASSUME NEW S, S \subseteq Nat \X Nat, S # {}
  PROVE  First(S) \in S /\ \A q \in S : q = First(S) \/ Before(First(S), q)
<1> DEFINE I == {p[1] : p \in S}
<1>1. I \subseteq Nat /\ I # {}
  OBVIOUS
<1> HIDE DEF I
<1>2. PICK i \in I : \A k \in I : i <= k
  BY <1>1, LeastNat
<1> DEFINE J == {p[2] : p \in {q \in S : q[1] = i}}
<1>3. J \subseteq Nat /\ J # {}
  BY <1>2 DEF I
<1> HIDE DEF J
<1>4. PICK j \in J : \A k \in J : j <= k
  BY <1>3, LeastNat
<1>5. PICK p \in S : p[1] = i /\ p[2] = j
  BY DEF J
<1>6. ASSUME NEW q \in S PROVE q = p \/ Before(p, q)
  <2>1. q \in Nat \X Nat /\ p \in Nat \X Nat
    OBVIOUS
  <2>2. i <= q[1]
    BY <1>2 DEF I
  <2>3. q[1] = i => j <= q[2]
    BY <1>4 DEF J
  <2> QED
    BY <1>5, <2>1, <2>2, <2>3 DEF Before
<1> QED
  BY <1>6 DEF First

\* Two places are ordered one way.
LEMMA OneBefore ==
  ASSUME NEW p \in Nat \X Nat, NEW q \in Nat \X Nat
  PROVE  /\ ~(Before(p, q) /\ Before(q, p))
         /\ p = q \/ Before(p, q) \/ Before(q, p)
BY DEF Before

\* How many members of a set are below one.
Rank(F, c) == Cardinality({d \in F : d < c})

\* A free cluster has its place among the free ones,
LEMMA RankNat ==
  ASSUME GeometryAssumption, NEW F, F \subseteq Clusters, NEW c
  PROVE  IsFiniteSet({d \in F : d < c}) /\ Rank(F, c) \in Nat /\ IsFiniteSet(F)
<1>1. LastCluster \in Nat /\ Clusters = 2..LastCluster
  BY DEF GeometryAssumption, Clusters, Root
<1>2. IsFiniteSet(Clusters)
  BY <1>1, FS_Interval
<1>3. IsFiniteSet(F)
  BY <1>2, FS_Subset
<1>4. {d \in F : d < c} \in SUBSET F
  OBVIOUS
<1>5. IsFiniteSet({d \in F : d < c})
  BY <1>3, <1>4, FS_Subset
<1> QED
  BY <1>3, <1>5, FS_CardinalityType DEF Rank

\* the lower one the lower place,
LEMMA RankRises ==
  ASSUME GeometryAssumption, NEW F, F \subseteq Clusters, NEW b \in F, NEW c \in F, b < c
  PROVE  Rank(F, b) < Rank(F, c)
<1> DEFINE lower == {d \in F : d < b}
           upper == {d \in F : d < c}
<1>1. \A d \in F : d \in Nat
  BY DEF Clusters, Root, GeometryAssumption
<1>2. b \notin lower /\ lower \union {b} \in SUBSET upper
  BY <1>1
<1>3. /\ IsFiniteSet(lower) /\ IsFiniteSet(upper)
      /\ Rank(F, b) = Cardinality(lower) /\ Rank(F, c) = Cardinality(upper)
      /\ Rank(F, b) \in Nat /\ Rank(F, c) \in Nat
  BY RankNat DEF Rank
<1> HIDE DEF lower, upper
<1>4. Cardinality(lower \union {b}) = Cardinality(lower) + 1
  BY <1>2, <1>3, FS_AddElement
<1>5. Cardinality(lower \union {b}) <= Cardinality(upper)
  BY <1>2, <1>3, FS_Subset
<1> QED
  BY <1>3, <1>4, <1>5

\* and there is one at every place: FirstFit takes the lowest.
LEMMA RankReached ==
  ASSUME GeometryAssumption, NEW F, F \subseteq Clusters, NEW k \in 1..Cardinality(F)
  PROVE  \E c \in F : Rank(F, c) = k - 1
<1>1. LastCluster \in Nat /\ \A d \in F : d \in Nat /\ d < LastCluster + 1
  BY DEF Clusters, Root, GeometryAssumption
<1>2. Rank(F, LastCluster + 1) = Cardinality(F)
  <2>1. {d \in F : d < LastCluster + 1} = F
    BY <1>1
  <2> QED
    BY <2>1 DEF Rank
<1>3. k \in Nat /\ k >= 1 /\ k <= Cardinality(F) /\ Cardinality(F) \in Nat
  <2>1. IsFiniteSet(F)
    BY RankNat
  <2>2. Cardinality(F) \in Nat
    BY <2>1, FS_CardinalityType
  <2> QED
    BY <2>2
<1> DEFINE B == {n \in Nat : Rank(F, n) >= k}
<1>4. B \subseteq Nat /\ LastCluster + 1 \in B
  BY <1>1, <1>2, <1>3
<1>5. PICK n \in B : \A m \in B : n <= m
  <2> HIDE DEF B
  <2> QED
    BY <1>4, LeastNat
<1>6. n # 0
  <2> SUFFICES ASSUME n = 0 PROVE FALSE
    OBVIOUS
  <2>1. {d \in F : d < n} = {}
    BY <1>1
  <2>2. Rank(F, n) = 0
    BY <2>1, FS_EmptySet DEF Rank
  <2> QED
    BY <1>3, <2>2
<1> DEFINE m == n - 1
<1>7. m \in Nat /\ n = m + 1 /\ n \in Nat /\ ~(n <= m)
  BY <1>6
<1> HIDE DEF m
<1>8. Rank(F, n) \in Nat /\ Rank(F, m) \in Nat /\ Rank(F, n) >= k /\ ~(Rank(F, m) >= k)
  BY <1>5, <1>7, RankNat
<1>9. CASE m \in F
  <2> DEFINE lower == {d \in F : d < m}
  <2>1. {d \in F : d < n} = lower \union {m} /\ m \notin lower
    <3>1. \A d \in F : d < n <=> d < m \/ d = m
      BY <1>1, <1>7
    <3>2. ~(m < m)
      BY <1>7
    <3> QED
      BY <1>9, <3>1, <3>2
  <2>2. IsFiniteSet(lower) /\ Rank(F, m) = Cardinality(lower)
    BY RankNat DEF Rank
  <2> HIDE DEF lower
  <2>3. Rank(F, n) = Rank(F, m) + 1
    BY <2>1, <2>2, FS_AddElement DEF Rank
  <2> QED
    BY <1>3, <1>8, <1>9, <2>3
<1>10. CASE m \notin F
  <2>1. {d \in F : d < n} = {d \in F : d < m}
    BY <1>1, <1>7, <1>10
  <2> QED
    BY <1>8, <2>1 DEF Rank
<1> QED
  BY <1>9, <1>10

\* The lowest free clusters, in order.
LEMMA FirstFitIs ==
  ASSUME GeometryAssumption, NEW n \in Nat, n <= Cardinality(FreeClusters)
  PROVE  LET s == FirstFit(n) IN
         /\ s \in Seq(Clusters) /\ Len(s) = n
         /\ \A k \in 1..n : s[k] \in FreeClusters
         /\ \A i, j \in 1..n : i < j => s[i] < s[j]
         /\ \A d \in FreeClusters, k \in 1..n : d < s[k] => \E j \in 1..n : s[j] = d
<1> DEFINE F == FreeClusters
           s == FirstFit(n)
<1>1. F \subseteq Clusters
  BY DEF FreeClusters
<1>2. s = [k \in 1..n |-> CHOOSE c \in F : Rank(F, c) = k - 1]
  BY DEF FirstFit, Rank
<1>3. Cardinality(F) \in Nat /\ n <= Cardinality(F)
  BY <1>1, RankNat, FS_CardinalityType
<1>4. \A d \in F : d \in Nat
  BY <1>1 DEF Clusters, Root, GeometryAssumption
<1> HIDE DEF F, s
<1>5. ASSUME NEW k \in 1..n PROVE s[k] \in F /\ Rank(F, s[k]) = k - 1
  <2>1. k \in 1..Cardinality(F)
    BY <1>3
  <2>2. \E c \in F : Rank(F, c) = k - 1
    BY <1>1, <2>1, RankReached
  <2>3. s[k] = CHOOSE c \in F : Rank(F, c) = k - 1
    BY <1>2
  <2> QED
    BY <2>2, <2>3
<1>6. s \in Seq(Clusters) /\ Len(s) = n
  <2>1. s \in [1..n -> Clusters]
    BY <1>1, <1>2, <1>5
  <2> QED
    BY <2>1
<1>7. ASSUME NEW i \in 1..n, NEW j \in 1..n, i < j PROVE s[i] < s[j]
  <2>1. s[i] \in F /\ s[j] \in F /\ Rank(F, s[i]) = i - 1 /\ Rank(F, s[j]) = j - 1
    BY <1>5
  <2>2. s[i] \in Nat /\ s[j] \in Nat
    BY <1>4, <2>1
  <2>3. ~(s[j] < s[i])
    <3> SUFFICES ASSUME s[j] < s[i] PROVE FALSE
      OBVIOUS
    <3>1. Rank(F, s[j]) < Rank(F, s[i])
      BY <1>1, <2>1, RankRises
    <3> QED
      BY <1>7, <2>1, <3>1
  <2>4. s[i] # s[j]
    BY <1>7, <2>1
  <2> QED
    BY <2>2, <2>3, <2>4
<1>8. ASSUME NEW d \in F, NEW k \in 1..n, d < s[k] PROVE \E j \in 1..n : s[j] = d
  <2>1. s[k] \in F /\ Rank(F, s[k]) = k - 1
    BY <1>5
  <2>2. Rank(F, d) < k - 1 /\ Rank(F, d) \in Nat
    BY <1>1, <1>8, <2>1, RankRises, RankNat
  <2> DEFINE j == Rank(F, d) + 1
  <2>3. j \in 1..n /\ Rank(F, d) = j - 1
    BY <2>2
  <2> HIDE DEF j
  <2>4. s[j] \in F /\ Rank(F, s[j]) = j - 1
    BY <1>5, <2>3
  <2>5. s[j] \in Nat /\ d \in Nat
    BY <1>4, <2>4
  <2>6. ~(d < s[j]) /\ ~(s[j] < d)
    <3>1. ASSUME d < s[j] PROVE FALSE
      <4>1. Rank(F, d) < Rank(F, s[j])
        BY <1>1, <2>4, <3>1, RankRises
      <4> QED
        BY <2>2, <2>3, <2>4, <4>1
    <3>2. ASSUME s[j] < d PROVE FALSE
      <4>1. Rank(F, s[j]) < Rank(F, d)
        BY <1>1, <2>4, <3>2, RankRises
      <4> QED
        BY <2>2, <2>3, <2>4, <4>1
    <3> QED
      BY <3>1, <3>2
  <2>7. s[j] = d
    BY <2>5, <2>6
  <2> QED
    BY <2>3, <2>7
<1>9. /\ s \in Seq(Clusters) /\ Len(s) = n
      /\ \A k \in 1..n : s[k] \in F
      /\ \A i, j \in 1..n : i < j => s[i] < s[j]
      /\ \A d \in F, k \in 1..n : d < s[k] => \E j \in 1..n : s[j] = d
  BY <1>5, <1>6, <1>7, <1>8
<1> QED
  BY <1>9 DEF F, s

-----------------------------------------------------------------------------
(* The pieces a call works in. *)

\* The run of a chain patched next is its end.
LEMMA RunIs ==
  ASSUME GeometryAssumption, chain \in Seq(Clusters), left \in 1..Len(chain),
         \A i, j \in DOMAIN chain : i < j => chain[i] < chain[j]
  PROVE  /\ Run \subseteq 1..left /\ left \in Run
         /\ Cardinality(Run) \in 1..left
         /\ \A k \in 1..left : k \in Run <=> k > left - Cardinality(Run)
<1>1. Len(chain) \in Nat /\ left \in Nat /\ DOMAIN chain = 1..Len(chain)
      /\ \A k \in 1..Len(chain) : chain[k] \in Nat
  BY DEF Clusters, Root, GeometryAssumption
<1>2. Run \subseteq 1..left /\ left \in Run
  BY <1>1 DEF Run, TopSector
<1>3. PICK i \in Run : \A j \in Run : i <= j
  <2>1. Run \subseteq Nat /\ Run # {}
    BY <1>2
  <2> QED
    BY <2>1, LeastNat
<1>4. i \in 1..left
  BY <1>2
<1>5. ASSUME NEW j \in i..left PROVE j \in Run
  <2>1. j \in 1..left /\ j \in 1..Len(chain) /\ i \in 1..Len(chain) /\ left \in 1..Len(chain)
    BY <1>1, <1>4
  <2>2. chain[i] <= chain[j] /\ chain[j] <= chain[left]
    BY <1>1, <1>4, <2>1
  <2>3. Sector(chain[i]) <= Sector(chain[j]) /\ Sector(chain[j]) <= Sector(chain[left])
        /\ Sector(chain[i]) \in Nat /\ Sector(chain[j]) \in Nat
    BY <1>1, <2>1, <2>2, SectorRises
  <2>4. Sector(chain[i]) = Sector(chain[left])
    BY DEF Run, TopSector
  <2>5. Sector(chain[j]) = Sector(chain[left])
    BY <2>3, <2>4
  <2> QED
    BY <2>1, <2>5 DEF Run, TopSector
<1>6. Run = i..left
  <2>1. \A j \in Run : j \in Nat /\ j <= left /\ i <= j
    BY <1>1, <1>2, <1>3
  <2>2. Run \subseteq i..left
    BY <1>1, <1>4, <2>1
  <2>3. i..left \subseteq Run
    BY <1>5
  <2> QED
    BY <2>2, <2>3
<1>7. Cardinality(Run) = left - i + 1
  BY <1>1, <1>4, <1>6, FS_Interval
<1> QED
  BY <1>1, <1>2, <1>4, <1>6, <1>7

\* A sector of links changes the run it holds and no other cluster.
LEMMA LinkedIs ==
  ASSUME GeometryAssumption, chain \in Seq(Clusters), left \in 1..Len(chain),
         \A i, j \in DOMAIN chain : i < j => chain[i] < chain[j],
         fat \in [1..2 -> [Clusters -> 0..Eoc]], NEW m \in 1..2
  PROVE  /\ Linked(m) \in [1..2 -> [Clusters -> 0..Eoc]]
         /\ \A i \in 1..2 : i # m => Linked(m)[i] = fat[i]
         /\ \A k \in Run : Linked(m)[m][chain[k]] = LinkOf(k)
         /\ \A c \in Clusters : (\A k \in Run : chain[k] # c) => Linked(m)[m][c] = fat[m][c]
<1>1. /\ Len(chain) \in Nat /\ left \in Nat /\ DOMAIN chain = 1..Len(chain) /\ 1..left \subseteq 1..Len(chain)
      /\ \A k \in 1..Len(chain) : chain[k] \in Clusters /\ chain[k] \in Nat
  <2>1. \A c \in Clusters : c \in Nat
    BY DEF Clusters, Root, GeometryAssumption
  <2>2. Len(chain) \in Nat /\ DOMAIN chain = 1..Len(chain) /\ \A k \in 1..Len(chain) : chain[k] \in Clusters
    OBVIOUS
  <2> HIDE DEF Clusters
  <2> QED
    BY <2>1, <2>2
<1>r. Run \subseteq 1..left /\ \A k \in Run : k \in 1..Len(chain)
  <2>1. Run \subseteq 1..left
    BY DEF Run
  <2> QED
    BY <1>1, <2>1
<1>2. \A j, k \in Run : chain[j] = chain[k] => j = k
  <2> TAKE j, k \in Run
  <2>1. j \in 1..Len(chain) /\ k \in 1..Len(chain) /\ chain[j] \in Nat /\ chain[k] \in Nat
    BY <1>1, <1>r
  <2>2. j < k => chain[j] < chain[k]
    BY <1>1, <2>1
  <2>3. k < j => chain[k] < chain[j]
    BY <1>1, <2>1
  <2> QED
    BY <2>1, <2>2, <2>3
<1> DEFINE row == [c \in Clusters |->
   IF \E k \in Run : chain[k] = c THEN LinkOf(CHOOSE k \in Run : chain[k] = c) ELSE fat[m][c]]
<1>3. Linked(m) = [fat EXCEPT ![m] = row]
  BY DEF Linked
<1>4. \A k \in Run : LinkOf(k) \in 0..Eoc
  <2> TAKE k \in Run
  <2>1. k \in 1..Len(chain) /\ (k < Len(chain) => k + 1 \in 1..Len(chain))
    BY <1>1, <1>r
  <2>2. \A d \in Clusters : d \in 0..Eoc
    BY DEF Eoc, Clusters, Root, GeometryAssumption
  <2>3. Eoc \in 0..Eoc
    BY DEF Eoc, GeometryAssumption
  <2> QED
    BY <1>1, <2>1, <2>2, <2>3 DEF LinkOf
<1>5. ASSUME NEW c \in Clusters, NEW k \in Run, chain[k] = c PROVE row[c] = LinkOf(k)
  <2>1. (CHOOSE j \in Run : chain[j] = c) = k
    BY <1>2, <1>5
  <2> QED
    BY <1>5, <2>1
<1>6. \A c \in Clusters : (\A k \in Run : chain[k] # c) => row[c] = fat[m][c]
  OBVIOUS
<1>7. row \in [Clusters -> 0..Eoc]
  <2>1. \A c \in Clusters : row[c] \in 0..Eoc
    <3> TAKE c \in Clusters
    <3>1. CASE \E k \in Run : chain[k] = c
      BY <1>4, <1>5, <3>1
    <3>2. CASE ~\E k \in Run : chain[k] = c
      BY <1>6, <3>2
    <3> QED
      BY <3>1, <3>2
  <2> QED
    BY <2>1
<1>8. \A k \in Run : row[chain[k]] = LinkOf(k)
  <2> TAKE k \in Run
  <2>1. chain[k] \in Clusters
    BY <1>1, <1>r
  <2> QED
    BY <1>5, <2>1
<1> HIDE DEF row
<1> QED
  BY <1>3, <1>6, <1>7, <1>8

\* The clusters a deletion zeroes at once, in a set closed under the links.
LEMMA VisitedIs ==
  ASSUME GeometryAssumption, fat \in [1..2 -> [Clusters -> 0..Eoc]],
         NEW S, S \subseteq Clusters, NEW c \in S,
         \A b \in S : Chained(fat[1][b]) => fat[1][b] \in S
  PROVE  /\ c \in Visited(c) /\ Visited(c) \subseteq S
         /\ \A v \in Visited(c) : v = c \/ \E u \in Visited(c) : fat[1][u] = v
         /\ Beyond(c) \in 0..Eoc
         /\ Chained(Beyond(c)) => /\ Beyond(c) \in S \ Visited(c)
                                  /\ \E u \in Visited(c) : fat[1][u] = Beyond(c)
<1> DEFINE t == fat[1]
           w == Walk(t, c)
           K == {k \in 1..Len(w) : \A j \in 1..k : Sector(w[j]) = Sector(c)}
           V == Visited(c)
<1>1. /\ w \in Seq(Clusters) /\ Len(w) \in Nat \ {0} /\ w[1] = c
      /\ ToSet(w) = {w[i] : i \in 1..Len(w)}
      /\ \A k \in 1..Len(w) - 1 : w[k + 1] = t[w[k]]
      /\ \A i, j \in 1..Len(w) : w[i] = w[j] => i = j
  BY WalkFacts
<1>2. ToSet(w) \subseteq S
  BY WalkStays
<1>3. t \in [Clusters -> 0..Eoc]
  OBVIOUS
<1>4. V = {w[k] : k \in K}
  BY DEF Visited, PathFrom
<1>5. Beyond(c) = LET n == Cardinality(V) IN IF t[w[n]] \in V THEN 0 ELSE t[w[n]]
  BY DEF Beyond, PathFrom
<1> HIDE DEF t, w, V
<1>6. 1 \in K
  BY <1>1
<1>7. \A k \in K : \A j \in 1..k : j \in K
  BY <1>1
<1>8. PICK m \in 1..Len(w) : K = 1..m
  <2> DEFINE D == {k \in Nat : k >= 1 /\ k \notin K}
  <2>1. Len(w) + 1 \in D /\ D \subseteq Nat
    BY <1>1
  <2> HIDE DEF K
  <2>2. PICK n \in D : \A j \in D : n <= j
    <3> HIDE DEF D
    <3> QED
      BY <2>1, LeastNat
  <2>3. n \in Nat /\ n >= 1 /\ n \notin K /\ n <= Len(w) + 1 /\ n # 1
    BY <1>6, <2>1, <2>2
  <2>4. n - 1 \in 1..Len(w)
    BY <1>1, <2>3
  <2>5. \A j \in 1..n - 1 : j \in K
    <3> TAKE j \in 1..n - 1
    <3>1. j \in Nat /\ j >= 1 /\ ~(n <= j)
      BY <2>3
    <3> QED
      BY <2>2, <3>1
  <2>6. \A j \in K : j \in 1..n - 1
    <3> TAKE j \in K
    <3>1. j \in 1..Len(w)
      BY DEF K
    <3>2. ASSUME n <= j PROVE FALSE
      <4>1. n \in 1..j
        BY <2>3, <3>1, <3>2
      <4> QED
        BY <1>7, <2>3, <4>1
    <3> QED
      BY <2>3, <3>1, <3>2
  <2>7. K = 1..n - 1
    BY <2>5, <2>6
  <2> QED
    BY <2>4, <2>7
<1> HIDE DEF K
<1>9. Cardinality(V) = m
  <2> DEFINE f == [k \in 1..m |-> w[k]]
  <2>1. \A k \in 1..m : k \in 1..Len(w)
    BY <1>1
  <2>2. f \in Surjection(1..m, V)
    BY <1>4, <1>8 DEF Surjection
  <2>3. f \in Injection(1..m, V)
    <3>1. \A i, j \in 1..m : f[i] = f[j] => i = j
      BY <1>1, <2>1
    <3> QED
      BY <2>2, <3>1 DEF Surjection, Injection, IsInjective
  <2> HIDE DEF f
  <2>4. IsFiniteSet(1..m) /\ Cardinality(1..m) = m
    BY <1>1, FS_Interval
  <2> QED
    BY <2>2, <2>3, <2>4, FS_Surjection
<1>10. c \in V /\ V \subseteq S /\ V \subseteq Clusters
  BY <1>1, <1>2, <1>4, <1>6, <1>8
<1>11. \A v \in V : v = c \/ \E u \in V : t[u] = v
  <2> TAKE v \in V
  <2>1. PICK k \in 1..m : w[k] = v
    BY <1>4, <1>8
  <2>2. CASE k = 1
    BY <1>1, <2>1, <2>2
  <2>3. CASE k # 1
    <3>1. k - 1 \in 1..m /\ k - 1 \in 1..Len(w) - 1 /\ (k - 1) + 1 = k
      BY <1>1, <2>3
    <3>2. t[w[k - 1]] = v /\ w[k - 1] \in V
      BY <1>1, <1>4, <1>8, <2>1, <3>1
    <3> QED
      BY <3>2
  <2> QED
    BY <2>2, <2>3
<1>12. w[m] \in V /\ t[w[m]] \in 0..Eoc
  BY <1>3, <1>4, <1>8, <1>10
<1>13. 0 \in 0..Eoc /\ ~Chained(0)
  BY DEF Eoc, Chained, Clusters, Root, GeometryAssumption
<1>14. Beyond(c) \in 0..Eoc
  BY <1>5, <1>9, <1>12, <1>13
<1>15. Chained(Beyond(c)) => /\ Beyond(c) \in S \ V
                             /\ \E u \in V : t[u] = Beyond(c)
  <2> HAVE Chained(Beyond(c))
  <2>1. Beyond(c) = t[w[m]] /\ t[w[m]] \notin V
    BY <1>5, <1>9, <1>13
  <2>2. t[w[m]] \in S
    BY <1>10, <1>12, <2>1 DEF t
  <2> QED
    BY <1>12, <2>1, <2>2
<1> QED
  BY <1>10, <1>11, <1>14, <1>15 DEF t, V

-----------------------------------------------------------------------------
(* The inductive invariant. *)

Tables == [Clusters -> 0..Eoc]
Fat  == fat[1]
Twin == fat[2]
On(t, c) == ToSet(Walk(t, c))
Pages == ToSet(Directory)
EntriesOf(sl) == {p \in DOMAIN sl : sl[p].kind = "entry"}
Owned(t, sl) == UNION {On(t, sl[p].first) : p \in EntriesOf(sl)}

\* The one link that the device has not made.
Back(b, c) == <<b, c>> = LoopBack
Rises(t, b) == Chained(t[b]) => b < t[b] \/ Back(b, t[b])

\* No link of the first copy leads to a free cluster. One that only the second copy
\* has leads to a cluster in use there, and up if the first copy has it free.
LinksOk(t, m) == \A b \in Clusters :
  /\ Chained(t[b]) /\ ~Back(b, t[b]) =>
       /\ t[t[b]] # 0
       /\ m[b] = t[b] => m[t[b]] # 0
  /\ t[b] = 0 /\ Chained(m[b]) /\ ~Back(b, m[b]) =>
       /\ m[m[b]] # 0
       /\ t[m[b]] = 0 => b < m[b]

\* A file is as long as its entry says and the same in both copies, but for the
\* photo that came looped; no two share a cluster.
LoopEntry == [kind |-> "entry", name |-> Photo, first |-> 3, size |-> MaxSize]
Whole(t, s, n) == Len(s) = n /\ t[s[n]] = Eoc
FileOk(t, m, e) ==
  /\ Chained(e.first) /\ e.size \in 1..MaxSize
  /\ \/ Whole(t, Walk(t, e.first), e.size)
     \/ e = LoopEntry /\ t[3] = 4 /\ t[4] = 3
  /\ \A b \in On(t, e.first) : m[b] = t[b] /\ Rises(t, b)
Filed(t, m, sl) ==
  /\ \A p \in EntriesOf(sl) : FileOk(t, m, sl[p])
  /\ \A p, q \in EntriesOf(sl) : p # q => On(t, sl[p].first) \cap On(t, sl[q].first) = {}
\* Nothing outside K leads into it in the first copy; nor, in the second, does a
\* cluster the first has free, unless it is being freed or linked just now (mid).
Fenced(t, m, K, H, mid) ==
  /\ \A b \in Clusters : t[b] \in K => b \in K \/ Back(b, t[b])
  /\ \A b \in Clusters : t[b] = 0 /\ m[b] \in K => Back(b, m[b]) \/ (b \in mid /\ m[b] \in H)

\* The clusters at which the two copies differ while one sector is done twice.
Mid == IF pc = "mirror" THEN batch
       ELSE IF pc \in {"link", "linkmirror"} THEN {chain[k] : k \in 1..left} ELSE {}
\* H: the clusters of the call under way, which no entry owns.
FilesOk(H) ==
  LET own == Owned(Fat, Slots) IN
  /\ Filed(Fat, Twin, Slots)
  /\ H \cap own = {} /\ (own \union H) \cap Pages = {}
  /\ Fenced(Fat, Twin, own \union H, H, Mid)

\* A page is never used past its first unused slot; all pages but the last are
\* full; a name is there once, and not while a save of it is under way.
EndsOk == \A c \in Clusters : \A i, j \in 1..PerPage :
            i < j /\ page[c][i].kind = "end" => page[c][j].kind = "end"
NamesOk ==
  /\ Fat[LastPage] = Eoc
  /\ \A c \in Pages : c # LastPage => \A i \in 1..PerPage : page[c][i].kind # "end"
  /\ \A p, q \in EntriesOf(Slots) : Slots[p].name = Slots[q].name /\ Slots[p].name # TestName => p = q
  /\ call.kind = "save" /\ pc # "remove" => \A p \in EntriesOf(Slots) : Slots[p].name # call.name
NoNoise == "page" \notin scars => \A p \in DOMAIN Slots : Slots[p].kind # "noise"

\* What is left of a deleted file is one chain from at on, closed, rising, and
\* still to be zeroed in the second copy where it was in the first (batch).
Freeing(H) ==
  /\ Chained(at) => at \in H /\ \A b \in H : Fat[b] = at => Back(b, at)
  /\ \A b \in H : Chained(Fat[b]) => Fat[b] \in H
  /\ \A b, c \in H : Fat[b] = Fat[c] /\ Chained(Fat[b]) => b = c
  /\ \A b \in H : Rises(Fat, b) /\ (b \in Mid \/ Twin[b] = Fat[b])
  /\ pc = "free" => Chained(at)
  /\ pc = "mirror" => /\ batch \subseteq H
                      /\ \A b \in batch : Fat[b] = 0
                      /\ \A b \in Clusters : Fat[b] \in batch => Back(b, Fat[b])
\* A new chain is linked from its top sector down: both copies above left, the
\* first copy of the run under way, nothing below.
Linking(H) ==
  /\ H = ToSet(chain) /\ left \in 1..Len(chain)
  /\ \A k \in DOMAIN chain : k > left => Fat[chain[k]] = LinkOf(k) /\ Twin[chain[k]] = LinkOf(k)
  /\ \A k \in 1..left : Fat[chain[k]] = IF pc = "linkmirror" /\ k \in Run THEN LinkOf(k) ELSE 0
\* A linked chain waits for its data and its entry, and a page for being hooked on.
Making == {"data", "entry", "extmirror", "hook", "hookmirror", "clear"}
Made(H) ==
  /\ H = ToSet(chain)
  /\ \A k \in DOMAIN chain : Fat[chain[k]] = LinkOf(k) /\ Twin[chain[k]] = LinkOf(k)
  /\ pc = "data" => left + 1 \in DOMAIN chain
  /\ pc \in {"extmirror", "hook"} => /\ Spare = {} /\ at \in Clusters \ (Pages \union H \union Owned(Fat, Slots))
                                     /\ Fat[at] = Eoc /\ (pc = "hook" => Twin[at] = Eoc)
  /\ Adding => at = LastPage /\ at # Root
  /\ pc = "hookmirror" => Twin[at] = Eoc /\ batch \subseteq Pages \ {at}
Work(H) ==
  /\ pc \in {"idle", "remove", "claim", "done"} => H = {}
  /\ pc \in {"free", "mirror"} => Freeing(H)
  /\ pc \in {"link", "linkmirror"} => Linking(H)
  /\ pc \in Making => Made(H)

Stepping == {"link", "linkmirror"} \union Making
\* The call and the step it is at.
CallOk ==
  /\ call.kind = "none" <=> pc = "idle"
  /\ pc = "idle" => at = 0
  /\ call.kind = "format" <=> pc \in {"format", "root"}
  /\ call.kind \in {"save", "test"} => call.size \in 1..MaxSize /\ call.name \in Names
  /\ call.kind = "test" => call.name = TestName
  /\ call.kind = "save" => call.name # TestName
  /\ pc \in {"claim"} \union Stepping => call.kind \in {"save", "test"}
  /\ pc \in Stepping =>
       /\ Len(chain) = call.size
       /\ \A i, j \in DOMAIN chain : i < j => chain[i] < chain[j]
  /\ pc = "done" => call.kind = "delete"
  /\ pc \notin {"idle", "format", "root"} => scars \cap {"format", "old"} = {}
\* A format has cleared the sectors before at, each in both copies.
FormatOk ==
  /\ pc = "format" => /\ at \in 0..2 * Sectors - 1
                      /\ \A c \in Clusters : /\ 2 * Sector(c) < at => Fat[c] = Fresh(c)
                                             /\ 2 * Sector(c) + 1 < at => Twin[c] = Fresh(c)
  /\ pc = "root" => \A c \in Clusters : Fat[c] = Fresh(c) /\ Twin[c] = Fresh(c)

CardOk == LinksOk(Fat, Twin) /\ NamesOk /\ \E H \in SUBSET Clusters : FilesOk(H) /\ Work(H)
FatInv == /\ TypeOK /\ CallOk /\ FormatOk /\ EndsOk
          /\ Formatted => NoNoise /\ CardOk

\* What a call is for, and what the chain being made holds so far of its version.
Errand == /\ pc # "idle" => call.version \in Versions
          /\ call.kind \in {"save", "delete", "test"} => call.name \in Names
          /\ call.kind = "format" => call.name = Absent
PiecesOk == pc \in Making => \A k \in 1..(IF pc = "data" THEN left ELSE call.size) :
                               body[chain[k]] = [version |-> call.version, part |-> k]
DataInv == Errand /\ PiecesOk

\* A step that leaves every listed file as it is.
Spared == /\ EntriesOf(Slots') = EntriesOf(Slots) /\ \A p \in EntriesOf(Slots) : Slots'[p] = Slots[p]
          /\ \A b \in Owned(Fat, Slots) : Fat'[b] = Fat[b] /\ body'[b] = body[b]

-----------------------------------------------------------------------------
(* Files, for any two tables. *)

\* The numbers that are clusters, and those that end a chain.
LEMMA Numbers ==
  ASSUME GeometryAssumption
  PROVE  /\ LastCluster \in Nat /\ Eoc \in Nat /\ Eoc # 0 /\ Root \in Clusters /\ Root # 0
         /\ 3 \in Clusters /\ 4 \in Clusters
         /\ \A c \in Clusters : c \in Nat /\ c # 0 /\ c # Eoc /\ c \in 0..Eoc
         /\ ~Chained(0) /\ ~Chained(Eoc) /\ 0 \in 0..Eoc /\ Eoc \in 0..Eoc
         /\ \A x \in 0..Eoc : Chained(x) \/ x = 0 \/ x = Eoc \/ x = 1
<1>1. LastCluster \in Nat /\ LastCluster > 3 /\ Eoc = LastCluster + 1
  BY DEF GeometryAssumption, Eoc
<1>2. Root = 2 /\ Clusters = 2..LastCluster /\ \A c : Chained(c) <=> c \in 2..LastCluster
  BY DEF Root, Clusters, Chained
<1>3. \A c \in Clusters : c \in Nat /\ c # 0 /\ c # Eoc /\ c \in 0..Eoc
  BY <1>1, <1>2
<1>4. \A x \in 0..Eoc : Chained(x) \/ x = 0 \/ x = Eoc \/ x = 1
  BY <1>1, <1>2
<1> QED
  BY <1>1, <1>2, <1>3, <1>4

\* The clusters of a chain are the ones its walk meets.
LEMMA OnIs ==
  ASSUME GeometryAssumption, NEW t, NEW c \in Clusters
  PROVE  /\ c \in On(t, c) /\ On(t, c) \subseteq Clusters
         /\ On(t, c) = {Walk(t, c)[i] : i \in 1..Len(Walk(t, c))}
<1>1. LET w == Walk(t, c) IN
         /\ w \in Seq(Clusters) /\ Len(w) \in Nat \ {0} /\ w[1] = c
         /\ ToSet(w) = {w[i] : i \in 1..Len(w)} /\ ToSet(w) \subseteq Clusters
  BY WalkFacts
<1> DEFINE w == Walk(t, c)
<1>2. 1 \in 1..Len(w)
  BY <1>1
<1> QED
  BY <1>1, <1>2 DEF On

\* The clusters of a file: ended or closed into the one loop, none free.
LEMMA FileWay ==
  ASSUME GeometryAssumption, NEW t \in Tables, NEW m, NEW e, FileOk(t, m, e)
  PROVE  LET S == On(t, e.first) IN
         /\ e.first \in S /\ S \subseteq Clusters
         /\ \A b \in S : t[b] # 0 /\ (Chained(t[b]) => t[b] \in S)
         /\ \A b, c \in S : t[b] = t[c] /\ Chained(t[b]) => b = c
         /\ \A b \in S : t[b] = e.first => Back(b, e.first)
<1> DEFINE f == e.first
           w == Walk(t, f)
           S == On(t, f)
<1>1. f \in Clusters
  BY DEF FileOk, Chained
<1>2. /\ w \in Seq(Clusters) /\ Len(w) \in Nat \ {0} /\ w[1] = f
      /\ S = {w[i] : i \in 1..Len(w)} /\ S \subseteq Clusters
      /\ \A k \in 1..Len(w) - 1 : w[k + 1] = t[w[k]]
      /\ \A i, j \in 1..Len(w) : w[i] = w[j] => i = j
  <2>1. S = ToSet(w)
    BY DEF On
  <2>2. /\ w \in Seq(Clusters) /\ Len(w) \in Nat \ {0} /\ w[1] = f
        /\ ToSet(w) = {w[i] : i \in 1..Len(w)} /\ ToSet(w) \subseteq Clusters
        /\ \A k \in 1..Len(w) - 1 : w[k + 1] = t[w[k]]
        /\ \A i, j \in 1..Len(w) : w[i] = w[j] => i = j
    BY <1>1, WalkFacts
  <2> HIDE DEF w, S
  <2> QED
    BY <2>1, <2>2
<1>3. f \in S
  BY <1>1, OnIs
<1>4. CASE Whole(t, w, e.size)
  <2>1. t[w[Len(w)]] = Eoc
    BY <1>4 DEF Whole
  <2> HIDE DEF w, S, f
  <2>2. ASSUME NEW k \in 1..Len(w) - 1
        PROVE  k + 1 \in 1..Len(w) /\ t[w[k]] = w[k + 1] /\ w[k + 1] \in S /\ w[k + 1] \in Clusters
    BY <1>2
  <2>3. \A k \in 1..Len(w) : k \in 1..Len(w) - 1 \/ t[w[k]] = Eoc
    BY <1>2, <2>1
  <2>4. ASSUME NEW b \in S PROVE t[b] # 0 /\ (Chained(t[b]) => t[b] \in S) /\ (t[b] = f => Back(b, f))
    <3>1. PICK k \in 1..Len(w) : w[k] = b
      BY <1>2
    <3>2. CASE k \in 1..Len(w) - 1
      <4>1. w[k + 1] # w[1]
        <5>1. k + 1 \in 1..Len(w) /\ 1 \in 1..Len(w) /\ k + 1 # 1
          BY <1>2, <3>2
        <5> QED
          BY <1>2, <5>1
      <4> QED
        BY <1>2, <2>2, <3>1, <3>2, <4>1, Numbers
    <3>3. CASE t[w[k]] = Eoc
      BY <1>1, <3>1, <3>3, Numbers DEF f
    <3> QED
      BY <2>3, <3>2, <3>3
  <2>5. ASSUME NEW b \in S, NEW c \in S, t[b] = t[c], Chained(t[b]) PROVE b = c
    <3>1. PICK k \in 1..Len(w) : w[k] = b
      BY <1>2
    <3>2. PICK j \in 1..Len(w) : w[j] = c
      BY <1>2
    <3>3. k \in 1..Len(w) - 1 /\ j \in 1..Len(w) - 1
      BY <2>3, <2>5, <3>1, <3>2, Numbers
    <3>4. k + 1 = j + 1
      BY <1>2, <2>2, <2>5, <3>1, <3>2, <3>3
    <3> QED
      BY <1>2, <3>1, <3>2, <3>4
  <2> QED
    BY <1>2, <1>3, <2>4, <2>5 DEF f, S
<1>5. CASE e = LoopEntry /\ t[3] = 4 /\ t[4] = 3
  <2>1. f = 3 /\ 3 \in Clusters /\ 4 \in Clusters
    BY <1>5, Numbers DEF LoopEntry
  <2>2. S \subseteq {3, 4}
    <3>1. \A b \in {3, 4} : Chained(t[b]) => t[b] \in {3, 4}
      BY <1>5
    <3> DEFINE R == {3, 4}
    <3>2. 3 \in R /\ \A b \in R : Chained(t[b]) => t[b] \in R
      BY <3>1
    <3> HIDE DEF R
    <3>3. ToSet(Walk(t, 3)) \subseteq R
      BY <2>1, <3>2, WalkStays
    <3> QED
      BY <2>1, <3>3 DEF On, R
  <2>3. S = {3, 4}
    <3>1. ASSUME Len(w) = 1 PROVE 4 \in S
      <4>1. t[w[Len(w)]] = 4
        BY <1>2, <1>5, <2>1, <3>1
      <4>2. Chained(t[w[Len(w)]]) => t[w[Len(w)]] \in ToSet(w)
        BY <1>1, WalkFacts
      <4> HIDE DEF w
      <4> QED
        BY <2>1, <4>1, <4>2 DEF Chained, On, S, w
    <3>2. ASSUME Len(w) # 1 PROVE 4 \in S
      <4>1. 1 \in 1..Len(w) - 1 /\ 2 \in 1..Len(w)
        <5> DEFINE n == Len(w)
        <5>1. n \in Nat \ {0} /\ n # 1
          BY <1>2, <3>2
        <5> HIDE DEF n
        <5>2. 1 \in 1..n - 1 /\ 2 \in 1..n
          BY <5>1
        <5> QED
          BY <5>2 DEF n
      <4>2. w[2] = 4
        BY <1>2, <1>5, <2>1, <4>1
      <4> QED
        BY <1>2, <4>1, <4>2
    <3> QED
      BY <1>3, <2>1, <2>2, <3>1, <3>2
  <2>4. Back(4, 3) /\ \A b \in S : t[b] = 3 => b = 4
    BY <1>5, <2>3 DEF Back, LoopBack
  <2> HIDE DEF w, S, f
  <2>5. \A b \in S : t[b] # 0 /\ (Chained(t[b]) => t[b] \in S)
    BY <1>5, <2>3
  <2>6. \A b, c \in S : t[b] = t[c] /\ Chained(t[b]) => b = c
    BY <1>5, <2>3
  <2>7. \A b \in S : t[b] = f => Back(b, f)
    BY <2>1, <2>4
  <2> QED
    BY <1>2, <1>3, <2>5, <2>6, <2>7 DEF f, S
<1> QED
  BY <1>4, <1>5 DEF FileOk

\* What the files own is closed under their links and the same in both copies.
LEMMA OwnedIs ==
  ASSUME GeometryAssumption, NEW t \in Tables, NEW m, NEW sl, Filed(t, m, sl)
  PROVE  /\ Owned(t, sl) \subseteq Clusters
         /\ \A b \in Owned(t, sl) : /\ t[b] # 0 /\ (Chained(t[b]) => t[b] \in Owned(t, sl))
                                    /\ m[b] = t[b]
         /\ \A p \in EntriesOf(sl) : On(t, sl[p].first) \subseteq Owned(t, sl)
         /\ \A b \in Owned(t, sl) : \E p \in EntriesOf(sl) : b \in On(t, sl[p].first)
<1>1. \A p \in EntriesOf(sl) : On(t, sl[p].first) \subseteq Owned(t, sl)
  BY DEF Owned
<1>2. \A b \in Owned(t, sl) : \E p \in EntriesOf(sl) : b \in On(t, sl[p].first)
  BY DEF Owned
<1>3. ASSUME NEW b \in Owned(t, sl)
      PROVE  b \in Clusters /\ t[b] # 0 /\ (Chained(t[b]) => t[b] \in Owned(t, sl)) /\ m[b] = t[b]
  <2>1. PICK p \in EntriesOf(sl) : b \in On(t, sl[p].first)
    BY <1>2
  <2>2. FileOk(t, m, sl[p])
    BY DEF Filed
  <2>3. b \in Clusters /\ t[b] # 0 /\ (Chained(t[b]) => t[b] \in On(t, sl[p].first))
    BY <2>1, <2>2, FileWay
  <2>4. m[b] = t[b]
    BY <2>1, <2>2 DEF FileOk
  <2> QED
    BY <1>1, <2>3, <2>4
<1> QED
  BY <1>1, <1>2, <1>3

\* Tables that agree on the files, and a directory that lists some of them.
LEMMA FiledSub ==
  ASSUME GeometryAssumption, NEW t \in Tables, NEW m, NEW u \in Tables, NEW n, NEW sl, NEW sm,
         Filed(t, m, sl),
         EntriesOf(sm) \subseteq EntriesOf(sl), \A p \in EntriesOf(sm) : sm[p] = sl[p],
         \A b \in Owned(t, sl) : u[b] = t[b] /\ n[b] = m[b]
  PROVE  /\ Filed(u, n, sm)
         /\ \A p \in EntriesOf(sm) : Walk(u, sm[p].first) = Walk(t, sl[p].first)
         /\ \A p \in EntriesOf(sm) : On(u, sm[p].first) = On(t, sl[p].first)
         /\ Owned(u, sm) \subseteq Owned(t, sl)
         /\ EntriesOf(sm) = EntriesOf(sl) => Owned(u, sm) = Owned(t, sl)
<1>1. ASSUME NEW p \in EntriesOf(sm)
      PROVE  /\ Walk(u, sm[p].first) = Walk(t, sl[p].first)
             /\ On(u, sm[p].first) = On(t, sl[p].first)
             /\ FileOk(u, n, sm[p])
  <2> DEFINE e == sl[p]
             S == On(t, e.first)
  <2>1. p \in EntriesOf(sl) /\ sm[p] = e
    OBVIOUS
  <2>2. FileOk(t, m, e)
    BY <2>1 DEF Filed
  <2>3. e.first \in Clusters
    BY <2>2 DEF FileOk, Chained
  <2>4. S \subseteq Owned(t, sl)
    BY <2>1 DEF Owned
  <2>5. \A b \in S : u[b] = t[b] /\ n[b] = m[b]
    BY <2>4
  <2>6. Walk(u, e.first) = Walk(t, e.first)
    BY <2>3, <2>5, WalkSame DEF On
  <2>7. On(u, e.first) = S
    BY <2>6 DEF On
  <2> HIDE DEF e
  <2>8. \A b \in S : n[b] = u[b] /\ Rises(u, b)
    BY <2>2, <2>5 DEF FileOk, Rises
  <2>9. CASE Whole(t, Walk(t, e.first), e.size)
    <3> DEFINE w == Walk(t, e.first)
    <3>1. Len(w) \in Nat \ {0} /\ ToSet(w) = {w[i] : i \in 1..Len(w)}
      BY <2>3, WalkFacts
    <3>2. Len(w) = e.size /\ t[w[e.size]] = Eoc
      BY <2>9 DEF Whole
    <3>3. w[e.size] \in S
      BY <3>1, <3>2 DEF On
    <3>4. Whole(u, Walk(u, e.first), e.size)
      BY <2>5, <2>6, <3>2, <3>3 DEF Whole
    <3> QED
      BY <2>1, <2>2, <2>6, <2>7, <2>8, <3>4 DEF FileOk, e
  <2>10. CASE e = LoopEntry /\ t[3] = 4 /\ t[4] = 3
    <3>1. e.first = 3 /\ 3 \in S
      BY <2>2, <2>10, FileWay DEF LoopEntry
    <3>2. 4 \in S
      BY <2>2, <2>10, <3>1, FileWay, Numbers DEF Chained
    <3>3. u[3] = 4 /\ u[4] = 3
      BY <2>5, <2>10, <3>1, <3>2
    <3> QED
      BY <2>1, <2>2, <2>6, <2>7, <2>8, <2>10, <3>3 DEF FileOk, e
  <2> QED
    BY <2>2, <2>9, <2>10 DEF FileOk
<1>2. Filed(u, n, sm)
  BY <1>1 DEF Filed
<1>3. Owned(u, sm) \subseteq Owned(t, sl)
  BY <1>1 DEF Owned
<1>4. EntriesOf(sm) = EntriesOf(sl) => Owned(u, sm) = Owned(t, sl)
  BY <1>1 DEF Owned
<1> QED
  BY <1>1, <1>2, <1>3, <1>4

-----------------------------------------------------------------------------
(* The directory. *)

SlotsIn(d, pg, n) == [p \in (1..n) \X (1..PerPage) |-> pg[d[p[1]]][p[2]]]
Used(d, step) == IF step \in {"hookmirror", "clear"} THEN Len(d) - 1 ELSE Len(d)

\* The derived views of the card, in this state and the next, as functions of it.
LEMMA Shape ==
  /\ Directory = Walk(Fat, Root) /\ Directory' = Walk(Fat', Root)
  /\ Slots = SlotsIn(Directory, page, Used(Directory, pc))
  /\ Slots' = SlotsIn(Directory', page', Used(Directory', pc'))
  /\ LastPage = Directory[Len(Directory)] /\ LastPage' = Directory'[Len(Directory')]
  /\ Pages = ToSet(Directory) /\ Pages' = ToSet(Directory')
<1>1. Directory = Walk(Fat, Root) /\ Directory' = Walk(Fat', Root)
  BY DEF Directory, PathFrom, Fat
<1>2. InUse(Directory) = 1..Used(Directory, pc)
  BY DEF InUse, Used, Adding
<1>3. InUse(Directory)' = 1..Used(Directory', pc')
  BY DEF InUse, Used, Adding
<1>4. Slots = SlotsIn(Directory, page, Used(Directory, pc))
  BY <1>2 DEF Slots, SlotsIn
<1>5. Slots' = SlotsIn(Directory', page', Used(Directory', pc'))
  BY <1>3 DEF Slots, SlotsIn
<1> QED
  BY <1>1, <1>4, <1>5 DEF LastPage, Pages

\* The directory is a chain without a repetition, the root first.
LEMMA DirectoryIs ==
  ASSUME GeometryAssumption, NEW t
  PROVE  LET d == Walk(t, Root) IN
         /\ d \in Seq(Clusters) /\ Len(d) \in Nat \ {0} /\ d[1] = Root
         /\ ToSet(d) = {d[i] : i \in 1..Len(d)} /\ ToSet(d) \subseteq Clusters /\ Root \in ToSet(d)
         /\ \A i, j \in 1..Len(d) : d[i] = d[j] => i = j
         /\ Len(d) \in 1..Len(d) /\ d[Len(d)] \in ToSet(d)
         /\ \A k \in 1..Len(d) - 1 : d[k + 1] = t[d[k]]
<1> DEFINE d == Walk(t, Root)
<1>1. Root \in Clusters
  BY Numbers
<1>2. /\ d \in Seq(Clusters) /\ Len(d) \in Nat \ {0} /\ d[1] = Root
      /\ ToSet(d) = {d[i] : i \in 1..Len(d)} /\ ToSet(d) \subseteq Clusters
      /\ \A k \in 1..Len(d) - 1 : d[k + 1] = t[d[k]]
      /\ \A i, j \in 1..Len(d) : d[i] = d[j] => i = j
  BY <1>1, WalkFacts
<1> HIDE DEF d
<1>3. 1 \in 1..Len(d) /\ Len(d) \in 1..Len(d)
  BY <1>2
<1>4. Root \in ToSet(d) /\ d[Len(d)] \in ToSet(d)
  BY <1>2, <1>3
<1> QED
  BY <1>2, <1>3, <1>4 DEF d

PagesTyped == page \in [Clusters -> [1..PerPage -> Slot]]

\* Its slots, one for each of its pages in use and each place in the page.
LEMMA SlotsAre ==
  ASSUME GeometryAssumption, NEW t, NEW pg \in [Clusters -> [1..PerPage -> Slot]],
         NEW n \in 0..Len(Walk(t, Root))
  PROVE  LET d == Walk(t, Root)
             sl == SlotsIn(d, pg, n)
         IN /\ DOMAIN sl = (1..n) \X (1..PerPage) /\ DOMAIN sl \subseteq Nat \X Nat
            /\ IsFiniteSet(DOMAIN sl)
            /\ \A p \in DOMAIN sl : /\ p[1] \in 1..Len(d) /\ p[2] \in 1..PerPage /\ d[p[1]] \in ToSet(d)
                                    /\ sl[p] = pg[d[p[1]]][p[2]] /\ sl[p] \in Slot
            /\ \A p, q \in DOMAIN sl : d[p[1]] = d[q[1]] /\ p[2] = q[2] => p = q
<1> DEFINE d == Walk(t, Root)
           sl == SlotsIn(d, pg, n)
<1>1. /\ d \in Seq(Clusters) /\ Len(d) \in Nat \ {0}
      /\ ToSet(d) = {d[i] : i \in 1..Len(d)} /\ ToSet(d) \subseteq Clusters
      /\ \A i, j \in 1..Len(d) : d[i] = d[j] => i = j
  BY DirectoryIs
<1>2. PerPage \in Nat /\ n \in Nat /\ n <= Len(d)
  BY <1>1 DEF GeometryAssumption
<1> HIDE DEF d
<1>3. DOMAIN sl = (1..n) \X (1..PerPage) /\ DOMAIN sl \subseteq Nat \X Nat
  BY <1>2 DEF SlotsIn
<1>4. IsFiniteSet(DOMAIN sl)
  <2>1. IsFiniteSet(1..n) /\ IsFiniteSet(1..PerPage)
    BY <1>2, FS_Interval
  <2> QED
    BY <1>3, <2>1, FS_Product
<1>5. ASSUME NEW p \in DOMAIN sl
      PROVE  /\ p[1] \in 1..Len(d) /\ p[2] \in 1..PerPage /\ d[p[1]] \in ToSet(d)
             /\ sl[p] = pg[d[p[1]]][p[2]] /\ sl[p] \in Slot /\ p = <<p[1], p[2]>>
  <2>1. p[1] \in 1..n /\ p[2] \in 1..PerPage /\ p = <<p[1], p[2]>>
    BY <1>3
  <2>2. p[1] \in 1..Len(d)
    BY <1>1, <1>2, <2>1
  <2>3. d[p[1]] \in ToSet(d) /\ d[p[1]] \in Clusters
    BY <1>1, <2>2
  <2>4. sl[p] = pg[d[p[1]]][p[2]]
    BY <1>3 DEF SlotsIn
  <2> QED
    BY <2>1, <2>2, <2>3, <2>4
<1>6. ASSUME NEW p \in DOMAIN sl, NEW q \in DOMAIN sl, d[p[1]] = d[q[1]], p[2] = q[2] PROVE p = q
  <2>1. p[1] = q[1]
    BY <1>1, <1>5, <1>6
  <2> QED
    BY <1>5, <1>6, <2>1
<1> QED
  BY <1>3, <1>4, <1>5, <1>6 DEF d

\* The same for the state.
LEMMA SlotsHere ==
  ASSUME GeometryAssumption, PagesTyped
  PROVE  /\ Directory \in Seq(Clusters) /\ Len(Directory) \in Nat \ {0} /\ Directory[1] = Root
         /\ Pages = {Directory[i] : i \in 1..Len(Directory)} /\ Pages \subseteq Clusters /\ Root \in Pages
         /\ \A i, j \in 1..Len(Directory) : Directory[i] = Directory[j] => i = j
         /\ LastPage = Directory[Len(Directory)] /\ LastPage \in Pages /\ LastPage \in Clusters
         /\ DOMAIN Slots = (1..Used(Directory, pc)) \X (1..PerPage) /\ DOMAIN Slots \subseteq Nat \X Nat
         /\ IsFiniteSet(DOMAIN Slots)
         /\ \A p \in DOMAIN Slots : /\ p[1] \in 1..Len(Directory) /\ p[2] \in 1..PerPage
                                    /\ Directory[p[1]] \in Pages
                                    /\ Slots[p] = page[Directory[p[1]]][p[2]] /\ Slots[p] \in Slot
         /\ \A p, q \in DOMAIN Slots : Directory[p[1]] = Directory[q[1]] /\ p[2] = q[2] => p = q
<1> DEFINE d == Walk(Fat, Root)
<1>1. d = Directory /\ Pages = ToSet(d) /\ LastPage = d[Len(d)] /\ Slots = SlotsIn(d, page, Used(d, pc))
  BY Shape
<1>2. /\ d \in Seq(Clusters) /\ Len(d) \in Nat \ {0} /\ d[1] = Root
      /\ ToSet(d) = {d[i] : i \in 1..Len(d)} /\ ToSet(d) \subseteq Clusters /\ Root \in ToSet(d)
      /\ \A i, j \in 1..Len(d) : d[i] = d[j] => i = j
      /\ d[Len(d)] \in ToSet(d)
  BY DirectoryIs
<1>3. Used(d, pc) \in 0..Len(d)
  BY <1>2 DEF Used
<1>4. LET sl == SlotsIn(d, page, Used(d, pc))
      IN /\ DOMAIN sl = (1..Used(d, pc)) \X (1..PerPage) /\ DOMAIN sl \subseteq Nat \X Nat
         /\ IsFiniteSet(DOMAIN sl)
         /\ \A p \in DOMAIN sl : /\ p[1] \in 1..Len(d) /\ p[2] \in 1..PerPage /\ d[p[1]] \in ToSet(d)
                                 /\ sl[p] = page[d[p[1]]][p[2]] /\ sl[p] \in Slot
         /\ \A p, q \in DOMAIN sl : d[p[1]] = d[q[1]] /\ p[2] = q[2] => p = q
  BY <1>3, SlotsAre DEF PagesTyped
<1> HIDE DEF d
<1> QED
  BY <1>1, <1>2, <1>4

\* A step that touches neither the directory's links nor its pages.
LEMMA SameDirectory ==
  ASSUME GeometryAssumption, \A b \in Pages : Fat'[b] = Fat[b]
  PROVE  /\ Directory' = Directory /\ Pages' = Pages /\ LastPage' = LastPage
         /\ \A b \in Pages : b \in Clusters
<1>1. Root \in Clusters
  BY Numbers
<1>2. \A b \in ToSet(Walk(Fat, Root)) : Fat'[b] = Fat[b]
  BY Shape
<1>3. Walk(Fat', Root) = Walk(Fat, Root)
  BY <1>1, <1>2, WalkSame
<1>4. Pages \subseteq Clusters
  BY Shape, DirectoryIs
<1> QED
  BY <1>3, <1>4, Shape

\* A step that leaves the pages of the directory alone leaves its slots,
LEMMA SameSlots ==
  ASSUME GeometryAssumption, Directory' = Directory, Used(Directory, pc') = Used(Directory, pc),
         \A b \in Pages : page'[b] = page[b]
  PROVE  Slots' = Slots
<1>1. LET d == Walk(Fat, Root) IN
      Len(d) \in Nat \ {0} /\ ToSet(d) = {d[i] : i \in 1..Len(d)}
  BY DirectoryIs
<1>2. Len(Directory) \in Nat /\ \A i \in 1..Len(Directory) : page'[Directory[i]] = page[Directory[i]]
  BY <1>1, Shape
<1>3. Used(Directory, pc) \in Nat /\ Used(Directory, pc) <= Len(Directory)
  BY <1>1, Shape DEF Used
<1>4. \A i \in 1..Used(Directory, pc) : i \in 1..Len(Directory)
  BY <1>2, <1>3
<1>5. SlotsIn(Directory, page', Used(Directory, pc)) = SlotsIn(Directory, page, Used(Directory, pc))
  BY <1>2, <1>4 DEF SlotsIn
<1> QED
  BY <1>5, Shape

\* The names stay as they are; a save has none to fear that it had not before.
LEMMA SameNames ==
  ASSUME GeometryAssumption, NamesOk,
         Directory' = Directory, Slots' = Slots, \A b \in Pages : Fat'[b] = Fat[b],
         \A b \in Pages : page'[b] = page[b],
         call'.kind = "save" /\ pc' # "remove" =>
           \A p \in EntriesOf(Slots) : Slots[p].name # call'.name
  PROVE  NamesOk'
<1>1. Pages' = Pages /\ LastPage' = LastPage
  BY SameDirectory
<1>2. LastPage \in Pages
  BY Shape, DirectoryIs
<1>3. Fat'[LastPage'] = Eoc
  BY <1>1, <1>2 DEF NamesOk
<1>4. \A c \in Pages' : c # LastPage' => \A i \in 1..PerPage : page'[c][i].kind # "end"
  BY <1>1 DEF NamesOk
<1>5. \A p, q \in EntriesOf(Slots') : Slots'[p].name = Slots'[q].name /\ Slots'[p].name # TestName => p = q
  BY DEF NamesOk
<1> QED
  BY <1>3, <1>4, <1>5 DEF NamesOk

\* and what is noise among them.
LEMMA SameNoise ==
  ASSUME NoNoise, Slots' = Slots, scars \subseteq scars'
  PROVE  NoNoise'
BY DEF NoNoise

TablesTyped == fat \in [1..2 -> Tables]

\* So do the files, when a step changes no cluster of theirs.
LEMMA SameFiles ==
  ASSUME GeometryAssumption, TablesTyped, TablesTyped', Filed(Fat, Twin, Slots), Slots' = Slots,
         \A b \in Owned(Fat, Slots) : Fat'[b] = Fat[b] /\ Twin'[b] = Twin[b]
  PROVE  Filed(Fat', Twin', Slots') /\ Owned(Fat', Slots') = Owned(Fat, Slots)
<1>1. Fat \in Tables /\ Fat' \in Tables
  BY DEF TablesTyped, Fat
<1> DEFINE u == Fat'
           n == Twin'
           sl == Slots
<1>2. Filed(u, n, sl) /\ Owned(u, sl) = Owned(Fat, sl)
  <2>1. EntriesOf(sl) \subseteq EntriesOf(sl) /\ \A p \in EntriesOf(sl) : sl[p] = sl[p]
    OBVIOUS
  <2>2. \A b \in Owned(Fat, sl) : u[b] = Fat[b] /\ n[b] = Twin[b]
    OBVIOUS
  <2>3. u \in Tables
    BY <1>1
  <2> HIDE DEF u, n, sl
  <2>4. Filed(Fat, Twin, sl)
    BY DEF sl
  <2> QED
    BY <1>1, <2>1, <2>2, <2>3, <2>4, FiledSub
<1> QED
  BY <1>2

\* A step that leaves the slots, and what the files in them own.
LEMMA SparedBy ==
  ASSUME Slots' = Slots, \A b \in Owned(Fat, Slots) : Fat'[b] = Fat[b] /\ body'[b] = body[b]
  PROVE  Spared
BY DEF Spared

\* and so does one that writes nothing.
LEMMA Untouched ==
  ASSUME GeometryAssumption, UNCHANGED disk, ~Adding, pc' \notin {"hookmirror", "clear"}
  PROVE  Spared
<1>1. fat' = fat /\ page' = page /\ body' = body /\ Fat' = Fat
  BY DEF disk, Fat
<1>2. Directory' = Directory
  BY <1>1, SameDirectory
<1>3. Slots' = Slots
  BY <1>1, <1>2, SameSlots DEF Used, Adding
<1> QED
  BY <1>1, <1>3, SparedBy

-----------------------------------------------------------------------------
(* Deleting. *)

\* While a call is under way the card is formatted, so the invariant speaks of it.
LEMMA InCall ==
  ASSUME FatInv, pc \notin {"idle", "format", "root"}
  PROVE  /\ Formatted /\ NoNoise /\ LinksOk(Fat, Twin) /\ NamesOk
         /\ \E H \in SUBSET Clusters : FilesOk(H) /\ Work(H)
         /\ TablesTyped /\ PagesTyped /\ Fat \in Tables /\ Twin \in Tables
<1>1. Formatted
  BY DEF FatInv, CallOk, Formatted
<1>2. TablesTyped /\ PagesTyped /\ Fat \in Tables /\ Twin \in Tables
  BY DEF FatInv, TypeOK, TablesTyped, PagesTyped, Tables, Fat, Twin
<1> QED
  BY <1>1, <1>2 DEF FatInv, CardOk

\* A step within a call keeps what says nothing of the card.
LEMMA Collect ==
  ASSUME FatInv, pc' \notin {"format", "root"}, TypeOK', CallOk', EndsOk',
         Formatted' => NoNoise' /\ CardOk'
  PROVE  FatInv'
BY DEF FatInv, FormatOk

\* What freeing a set of clusters does to one copy.
LEMMA ZeroedIs ==
  ASSUME GeometryAssumption, TablesTyped, NEW i \in 1..2, NEW S
  PROVE  /\ Zeroed(i, S) \in [1..2 -> Tables]
         /\ \A c \in Clusters : Zeroed(i, S)[i][c] = IF c \in S THEN 0 ELSE fat[i][c]
         /\ \A j \in 1..2 : j # i => Zeroed(i, S)[j] = fat[j]
<1> DEFINE row == [c \in Clusters |-> IF c \in S THEN 0 ELSE fat[i][c]]
<1>1. Zeroed(i, S) = [fat EXCEPT ![i] = row]
  BY DEF Zeroed
<1>2. row \in Tables
  <2>1. \A c \in Clusters : row[c] \in 0..Eoc
    <3> TAKE c \in Clusters
    <3>1. fat[i][c] \in 0..Eoc
      BY DEF TablesTyped, Tables
    <3>2. 0 \in 0..Eoc
      BY Numbers
    <3> QED
      BY <3>1, <3>2
  <2> QED
    BY <2>1 DEF Tables
<1>3. \A c \in Clusters : row[c] = IF c \in S THEN 0 ELSE fat[i][c]
  OBVIOUS
<1> HIDE DEF row
<1> QED
  BY <1>1, <1>2, <1>3 DEF TablesTyped

\* The steps of a call, one lemma each, in the order of the code. A deletion frees.
LEMMA FreeChainKeeps ==
  ASSUME GeometryAssumption, FatInv, FreeChain
  PROVE  FatInv' /\ Spared
<1> DEFINE V == Visited(at)
           own == Owned(Fat, Slots)
<1>1. pc = "free" /\ pc' = "mirror" /\ batch' = V /\ fat' = Zeroed(1, V) /\ at' = Beyond(at)
      /\ page' = page /\ body' = body /\ call' = call /\ chain' = chain /\ left' = left
      /\ calls' = calls /\ scars' = scars
  BY DEF FreeChain
<1>2. /\ NoNoise /\ LinksOk(Fat, Twin) /\ NamesOk
      /\ TablesTyped /\ PagesTyped /\ Fat \in Tables /\ Twin \in Tables
  BY <1>1, InCall
<1>3. PICK H \in SUBSET Clusters : FilesOk(H) /\ Work(H)
  BY <1>1, InCall
<1>4. Freeing(H) /\ Mid = {} /\ Chained(at) /\ at \in H
  BY <1>1, <1>3 DEF Work, Freeing, Mid
<1>5. /\ Filed(Fat, Twin, Slots) /\ H \cap own = {} /\ (own \union H) \cap Pages = {}
      /\ Fenced(Fat, Twin, own \union H, H, {})
  BY <1>3, <1>4 DEF FilesOk
<1>6. own \subseteq Clusters /\ 0 \notin own \union H
  BY <1>2, <1>3, <1>5, OwnedIs, Numbers
<1>7. /\ at \in V /\ V \subseteq H
      /\ \A v \in V : v = at \/ \E u \in V : Fat[u] = v
      /\ Beyond(at) \in 0..Eoc
      /\ Chained(Beyond(at)) => /\ Beyond(at) \in H \ V
                                /\ \E u \in V : Fat[u] = Beyond(at)
  <2>1. \A b \in H : Chained(fat[1][b]) => fat[1][b] \in H
    BY <1>4 DEF Freeing, Fat
  <2>2. fat \in [1..2 -> [Clusters -> 0..Eoc]]
    BY <1>2 DEF TablesTyped, Tables
  <2> QED
    BY <1>4, <2>1, <2>2, VisitedIs DEF Fat
<1>8. /\ TablesTyped' /\ Twin' = Twin
      /\ \A c \in Clusters : Fat'[c] = IF c \in V THEN 0 ELSE Fat[c]
  BY <1>1, <1>2, ZeroedIs DEF TablesTyped, Fat, Twin
<1> HIDE DEF V, own
\* Nothing leads to a cluster that was zeroed, but the loop of the damaged card.
<1>9. ASSUME NEW b \in Clusters, Fat'[b] \in V PROVE Back(b, Fat'[b])
  <2>1. b \notin V /\ Fat'[b] = Fat[b]
    BY <1>6, <1>7, <1>8, <1>9
  <2>2. b \in H \/ Back(b, Fat[b])
    <3>1. Fat[b] \in own \union H /\ Fat[b] \notin own
      BY <1>5, <1>7, <1>9, <2>1
    <3>2. b \in own \union H \/ Back(b, Fat[b])
      BY <1>5, <3>1 DEF Fenced
    <3>3. b \in own => Fat[b] \in own
      <4>1. Chained(Fat[b])
        BY <1>7, <1>9, <2>1 DEF Chained
      <4> QED
        BY <1>2, <1>5, <4>1, OwnedIs DEF own
    <3> QED
      BY <3>1, <3>2, <3>3
  <2>3. CASE Fat[b] = at
    BY <1>4, <2>1, <2>2, <2>3 DEF Freeing
  <2>4. CASE Fat[b] # at
    <3>1. PICK u \in V : Fat[u] = Fat[b]
      BY <1>7, <1>9, <2>1, <2>4
    <3>2. Chained(Fat[b])
      BY <1>7, <1>9, <2>1 DEF Chained
    <3>3. b \in H => b = u
      BY <1>4, <1>7, <3>1, <3>2 DEF Freeing
    <3> QED
      BY <2>1, <2>2, <3>3
  <2> QED
    BY <2>3, <2>4
<1>10. LinksOk(Fat', Twin')
  <2> SUFFICES ASSUME NEW b \in Clusters
               PROVE  /\ Chained(Fat'[b]) /\ ~Back(b, Fat'[b]) =>
                           /\ Fat'[Fat'[b]] # 0
                           /\ Twin'[b] = Fat'[b] => Twin'[Fat'[b]] # 0
                      /\ Fat'[b] = 0 /\ Chained(Twin'[b]) /\ ~Back(b, Twin'[b]) =>
                           /\ Twin'[Twin'[b]] # 0
                           /\ Fat'[Twin'[b]] = 0 => b < Twin'[b]
    BY DEF LinksOk
  <2>1. ASSUME Chained(Fat'[b]), ~Back(b, Fat'[b])
        PROVE  Fat'[Fat'[b]] # 0 /\ (Twin'[b] = Fat'[b] => Twin'[Fat'[b]] # 0)
    <3>1. Fat'[b] = Fat[b] /\ Fat[b] \in Clusters /\ Fat[b] \notin V
      BY <1>8, <1>9, <2>1, Numbers DEF Chained
    <3>2. Fat[Fat[b]] # 0 /\ (Twin[b] = Fat[b] => Twin[Fat[b]] # 0)
      BY <1>2, <2>1, <3>1 DEF LinksOk
    <3> QED
      BY <1>8, <3>1, <3>2
  <2>2. ASSUME Fat'[b] = 0, Chained(Twin[b]), ~Back(b, Twin[b])
        PROVE  Twin[Twin[b]] # 0 /\ (Fat'[Twin[b]] = 0 => b < Twin[b])
    <3>1. CASE b \in V
      <4>1. Twin[b] = Fat[b] /\ (b < Fat[b])
        BY <1>4, <1>7, <2>2, <3>1 DEF Freeing, Rises
      <4> QED
        BY <1>2, <2>2, <4>1 DEF LinksOk
    <3>2. CASE b \notin V
      <4>1. Fat[b] = 0
        BY <1>8, <2>2, <3>2
      <4>2. Twin[Twin[b]] # 0 /\ (Fat[Twin[b]] = 0 => b < Twin[b])
        BY <1>2, <2>2, <4>1 DEF LinksOk
      <4>3. Twin[b] \notin V
        BY <1>5, <1>7, <2>2, <4>1 DEF Fenced
      <4> QED
        BY <1>8, <2>2, <4>2, <4>3 DEF Chained
    <3> QED
      BY <3>1, <3>2
  <2> QED
    BY <1>8, <2>1, <2>2
<1>11. Directory' = Directory /\ Pages' = Pages /\ LastPage' = LastPage
       /\ \A b \in Pages : Fat'[b] = Fat[b] /\ b \in Clusters
  <2>1. Pages \subseteq Clusters
    BY <1>2, SlotsHere
  <2>2. \A b \in Pages : Fat'[b] = Fat[b]
    BY <1>5, <1>7, <1>8, <2>1
  <2> QED
    BY <2>1, <2>2, SameDirectory
<1>12. Slots' = Slots
  BY <1>1, <1>11, SameSlots DEF Used
<1>13. NamesOk'
  <2>1. call.kind = "save" => \A p \in EntriesOf(Slots) : Slots[p].name # call.name
    BY <1>1, <1>2 DEF NamesOk
  <2> QED
    BY <1>1, <1>2, <1>11, <1>12, <2>1, SameNames
<1>14. Filed(Fat', Twin', Slots') /\ Owned(Fat', Slots') = own
  <2>1. \A b \in own : Fat'[b] = Fat[b] /\ Twin'[b] = Twin[b]
    BY <1>5, <1>6, <1>7, <1>8
  <2> QED
    BY <1>2, <1>5, <1>8, <1>12, <2>1, SameFiles DEF own
<1>15. Fenced(Fat', Twin', own \union H, H, V)
  <2>1. ASSUME NEW b \in Clusters, Fat'[b] \in own \union H PROVE b \in own \union H \/ Back(b, Fat'[b])
    <3>1. Fat'[b] = Fat[b]
      BY <1>6, <1>8, <2>1
    <3> QED
      BY <1>5, <2>1, <3>1 DEF Fenced
  <2>2. ASSUME NEW b \in Clusters, Fat'[b] = 0, Twin[b] \in own \union H
        PROVE  Back(b, Twin[b]) \/ (b \in V /\ Twin[b] \in H)
    <3>1. CASE b \in V
      <4>1. Twin[b] = Fat[b]
        BY <1>4, <1>7, <3>1 DEF Freeing
      <4>2. Chained(Fat[b])
        BY <1>6, <2>2, <4>1 DEF Chained
      <4> QED
        BY <1>4, <1>7, <3>1, <4>1, <4>2 DEF Freeing
    <3>2. CASE b \notin V
      <4>1. Fat[b] = 0
        BY <1>8, <2>2, <3>2
      <4> QED
        BY <1>5, <2>2, <4>1 DEF Fenced
    <3> QED
      BY <3>1, <3>2
  <2> QED
    BY <1>8, <2>1, <2>2 DEF Fenced
<1>16. FilesOk(H)'
  BY <1>1, <1>5, <1>11, <1>14, <1>15 DEF FilesOk, Mid
<1>17. Freeing(H)'
  <2>1. ASSUME Chained(at') PROVE at' \in H /\ \A b \in H : Fat'[b] = at' => Back(b, at')
    <3>1. at' \in H \ V /\ \E u \in V : Fat[u] = at'
      BY <1>1, <1>7, <2>1
    <3>2. ASSUME NEW b \in H, Fat'[b] = at' PROVE Back(b, at')
      <4>1. b \notin V /\ Fat[b] = at'
        BY <1>6, <1>8, <3>1, <3>2
      <4> QED
        BY <1>4, <1>7, <2>1, <3>1, <4>1 DEF Freeing
    <3> QED
      BY <3>1, <3>2
  <2>2. \A b \in H : Chained(Fat'[b]) => Fat'[b] = Fat[b]
    BY <1>8, Numbers
  <2>3. \A b \in H : Chained(Fat'[b]) => Fat'[b] \in H
    BY <1>4, <2>2 DEF Freeing
  <2>4. \A b, c \in H : Fat'[b] = Fat'[c] /\ Chained(Fat'[b]) => b = c
    BY <1>4, <2>2 DEF Freeing
  <2>5. \A b \in H : Rises(Fat', b) /\ (b \in V \/ Twin'[b] = Fat'[b])
    BY <1>4, <1>8, <2>2 DEF Freeing, Rises
  <2>6. batch' \subseteq H /\ (\A b \in batch' : Fat'[b] = 0) /\ \A b \in Clusters : Fat'[b] \in batch' => Back(b, Fat'[b])
    BY <1>1, <1>7, <1>8, <1>9 DEF V
  <2>7. Mid' = V
    BY <1>1 DEF Mid
  <2> QED
    BY <1>1, <2>1, <2>3, <2>4, <2>5, <2>6, <2>7 DEF Freeing
<1>18. CardOk'
  <2>1. Work(H)'
    BY <1>1, <1>17 DEF Work, Making
  <2> QED
    BY <1>10, <1>13, <1>16, <2>1 DEF CardOk
<1>19. NoNoise'
  BY <1>1, <1>2, <1>12, SameNoise
<1>20. TypeOK'
  <2>1. fat' \in [1..2 -> [Clusters -> 0..Eoc]]
    BY <1>8 DEF TablesTyped, Tables
  <2>2. at' \in Nat /\ batch' \subseteq Clusters
    <3>1. \A x \in 0..Eoc : x \in Nat
      BY Numbers
    <3> QED
      BY <1>1, <1>7, <3>1
  <2> QED
    BY <1>1, <2>1, <2>2 DEF FatInv, TypeOK
<1>21. CallOk' /\ EndsOk'
  BY <1>1 DEF FatInv, CallOk, EndsOk, Stepping, Making
<1>22. Spared
  <2>1. \A b \in own : Fat'[b] = Fat[b] /\ body'[b] = body[b]
    BY <1>1, <1>5, <1>6, <1>7, <1>8
  <2> QED
    BY <1>12, <2>1, SparedBy DEF own
<1> QED
  BY <1>1, <1>18, <1>19, <1>20, <1>21, <1>22, Collect

LEMMA FreeMirrorKeeps ==
  ASSUME GeometryAssumption, FatInv, FreeMirror
  PROVE  FatInv' /\ Spared
<1> DEFINE own == Owned(Fat, Slots)
<1>1. /\ pc = "mirror" /\ batch' = {} /\ fat' = Zeroed(2, batch)
      /\ pc' = IF Chained(at) THEN "free" ELSE AfterFree
      /\ page' = page /\ body' = body /\ call' = call /\ at' = at /\ chain' = chain /\ left' = left
      /\ calls' = calls /\ scars' = scars
  BY DEF FreeMirror
<1>2. /\ NoNoise /\ LinksOk(Fat, Twin) /\ NamesOk
      /\ TablesTyped /\ PagesTyped /\ Fat \in Tables /\ Twin \in Tables
  BY <1>1, InCall
<1>3. PICK H \in SUBSET Clusters : FilesOk(H) /\ Work(H)
  BY <1>1, InCall
<1>4. Freeing(H) /\ Mid = batch
  BY <1>1, <1>3 DEF Work, Mid
<1>5. /\ Filed(Fat, Twin, Slots) /\ H \cap own = {} /\ (own \union H) \cap Pages = {}
      /\ Fenced(Fat, Twin, own \union H, H, batch)
  BY <1>3, <1>4 DEF FilesOk
<1>6. own \subseteq Clusters /\ 0 \notin own \union H
  BY <1>2, <1>3, <1>5, OwnedIs, Numbers
<1>7. /\ batch \subseteq H /\ \A b \in batch : Fat[b] = 0
      /\ \A b \in Clusters : Fat[b] \in batch => Back(b, Fat[b])
  BY <1>1, <1>4 DEF Freeing
<1>8. /\ TablesTyped' /\ Fat' = Fat
      /\ \A c \in Clusters : Twin'[c] = IF c \in batch THEN 0 ELSE Twin[c]
  BY <1>1, <1>2, ZeroedIs DEF TablesTyped, Fat, Twin
<1> HIDE DEF own
<1>9. pc' \in {"free", "done", "claim"} /\ (pc' = "free" <=> Chained(at))
      /\ (pc' = "done" => call.kind = "delete") /\ (pc' = "claim" => call.kind # "delete")
  BY <1>1 DEF AfterFree
<1>10. LinksOk(Fat', Twin')
  <2> SUFFICES ASSUME NEW b \in Clusters
               PROVE  /\ Chained(Fat[b]) /\ ~Back(b, Fat[b]) =>
                           /\ Fat[Fat[b]] # 0
                           /\ Twin'[b] = Fat[b] => Twin'[Fat[b]] # 0
                      /\ Fat[b] = 0 /\ Chained(Twin'[b]) /\ ~Back(b, Twin'[b]) =>
                           /\ Twin'[Twin'[b]] # 0
                           /\ Fat[Twin'[b]] = 0 => b < Twin'[b]
    BY <1>8 DEF LinksOk
  <2>1. ASSUME Chained(Fat[b]), ~Back(b, Fat[b])
        PROVE  Fat[Fat[b]] # 0 /\ (Twin'[b] = Fat[b] => Twin'[Fat[b]] # 0)
    <3>1. Fat[b] \notin batch /\ Fat[b] \in Clusters /\ Fat[b] # 0
      BY <1>7, <2>1, Numbers DEF Chained
    <3>2. Fat[Fat[b]] # 0 /\ (Twin[b] = Fat[b] => Twin[Fat[b]] # 0)
      BY <1>2, <2>1 DEF LinksOk
    <3> QED
      BY <1>8, <3>1, <3>2
  <2>2. ASSUME Fat[b] = 0, Chained(Twin'[b]), ~Back(b, Twin'[b])
        PROVE  Twin'[Twin'[b]] # 0 /\ (Fat[Twin'[b]] = 0 => b < Twin'[b])
    <3>1. b \notin batch /\ Twin'[b] = Twin[b] /\ Twin[b] \in Clusters
      BY <1>8, <2>2, Numbers DEF Chained
    <3>2. Twin[b] \notin batch
      BY <1>5, <1>7, <2>2, <3>1 DEF Fenced
    <3> QED
      BY <1>2, <1>8, <2>2, <3>1, <3>2 DEF LinksOk
  <2> QED
    BY <2>1, <2>2
<1>11. Directory' = Directory /\ Pages' = Pages /\ LastPage' = LastPage
       /\ \A b \in Pages : Fat'[b] = Fat[b] /\ b \in Clusters
  BY <1>8, SameDirectory
<1>12. Slots' = Slots
  BY <1>1, <1>9, <1>11, SameSlots DEF Used
<1>13. NamesOk'
  <2>1. call.kind = "save" => \A p \in EntriesOf(Slots) : Slots[p].name # call.name
    BY <1>1, <1>2 DEF NamesOk
  <2> QED
    BY <1>1, <1>2, <1>11, <1>12, <2>1, SameNames
<1>14. Filed(Fat', Twin', Slots') /\ Owned(Fat', Slots') = own
  <2>1. \A b \in own : Fat'[b] = Fat[b] /\ Twin'[b] = Twin[b]
    BY <1>5, <1>6, <1>7, <1>8
  <2> QED
    BY <1>2, <1>5, <1>8, <1>12, <2>1, SameFiles DEF own
<1>15. Fenced(Fat', Twin', own \union H, H, {})
  <2>1. ASSUME NEW b \in Clusters, Fat[b] = 0, Twin'[b] \in own \union H PROVE Back(b, Twin'[b])
    <3>1. b \notin batch /\ Twin'[b] = Twin[b]
      BY <1>6, <1>8, <2>1
    <3> QED
      BY <1>5, <2>1, <3>1 DEF Fenced
  <2> QED
    BY <1>5, <1>8, <2>1 DEF Fenced
<1>16. ASSUME pc' = "free" PROVE CardOk'
  <2>1. FilesOk(H)'
    BY <1>5, <1>11, <1>14, <1>15, <1>16 DEF FilesOk, Mid
  <2>2. Freeing(H)'
    <3>1. \A b \in H : Twin'[b] = Fat[b]
      BY <1>4, <1>7, <1>8 DEF Freeing
    <3> QED
      BY <1>1, <1>4, <1>8, <1>9, <1>16, <3>1 DEF Freeing, Mid
  <2>3. Work(H)'
    BY <1>16, <2>2 DEF Work, Making
  <2> QED
    BY <1>10, <1>13, <2>1, <2>3 DEF CardOk
<1>17. ASSUME pc' # "free" PROVE CardOk'
  <2>1. Fenced(Fat', Twin', own \union {}, {}, {})
    <3>1. ASSUME NEW b \in Clusters, Fat[b] \in own PROVE b \in own \/ Back(b, Fat[b])
      <4>1. b \in own \union H \/ Back(b, Fat[b])
        BY <1>5, <3>1 DEF Fenced
      <4>2. b \in H => Fat[b] \in H
        BY <1>4, <1>6, <3>1 DEF Freeing, Chained
      <4> QED
        BY <1>5, <3>1, <4>1, <4>2
    <3> QED
      BY <1>8, <1>15, <3>1 DEF Fenced
  <2>2. FilesOk({})'
    BY <1>5, <1>9, <1>11, <1>14, <1>17, <2>1 DEF FilesOk, Mid
  <2>3. Work({})'
    BY <1>9, <1>17 DEF Work, Making
  <2> QED
    BY <1>10, <1>13, <2>2, <2>3 DEF CardOk
<1>18. NoNoise'
  BY <1>1, <1>2, <1>12, SameNoise
<1>19. TypeOK'
  <2>1. fat' \in [1..2 -> [Clusters -> 0..Eoc]]
    BY <1>8 DEF TablesTyped, Tables
  <2> QED
    BY <1>1, <1>9, <2>1 DEF FatInv, TypeOK
<1>20. CallOk' /\ EndsOk'
  <2>1. call.kind \in {"none", "save", "delete", "test", "format"}
    BY DEF FatInv, TypeOK, Calls
  <2> QED
    BY <1>1, <1>9, <2>1 DEF FatInv, CallOk, EndsOk, Stepping, Making
<1>21. Spared
  BY <1>1, <1>8, <1>12, SparedBy
<1> QED
  BY <1>9, <1>16, <1>17, <1>18, <1>19, <1>20, <1>21, Collect

-----------------------------------------------------------------------------
(* Steps that leave the card alone. *)

\* What a call holds is linked to nothing else.
LEMMA HeldClosed ==
  ASSUME GeometryAssumption, FatInv, Formatted, NEW H \in SUBSET Clusters, FilesOk(H), Work(H)
  PROVE  \A b \in H : Chained(Fat[b]) => Fat[b] \in H
<1>1. pc \in {"idle", "remove", "claim", "done"} \/ pc \in {"free", "mirror"} \/ pc \in Stepping
  BY DEF FatInv, TypeOK, Formatted, Stepping, Making
<1>2. CASE pc \in {"idle", "remove", "claim", "done"}
  BY <1>2 DEF Work
<1>3. CASE pc \in {"free", "mirror"}
  BY <1>3 DEF Work, Freeing
<1>4. CASE pc \in Stepping
  <2>1. chain \in Seq(Clusters) /\ Len(chain) \in Nat /\ DOMAIN chain = 1..Len(chain)
    BY DEF FatInv, TypeOK
  <2>2. H = ToSet(chain) /\ \A k \in 1..Len(chain) : Fat[chain[k]] \in {0, LinkOf(k)}
    <3>1. CASE pc \in {"link", "linkmirror"}
      <4>1. Linking(H)
        BY <3>1 DEF Work
      <4>2. left \in Nat
        BY <2>1, <4>1 DEF Linking
      <4>3. \A k \in 1..Len(chain) : k \in 1..left \/ k > left
        BY <2>1, <4>2
      <4> QED
        BY <2>1, <4>1, <4>3 DEF Linking
    <3>2. CASE pc \in Making
      <4>1. Made(H)
        BY <3>2 DEF Work
      <4> QED
        BY <2>1, <4>1 DEF Made
    <3> QED
      BY <1>4, <3>1, <3>2 DEF Stepping
  <2>3. H = {chain[k] : k \in 1..Len(chain)}
    BY <2>1, <2>2 DEF ToSet
  <2>4. ASSUME NEW k \in 1..Len(chain), Chained(Fat[chain[k]]) PROVE Fat[chain[k]] \in H
    <3>1. Fat[chain[k]] = LinkOf(k) /\ LinkOf(k) # Eoc
      BY <2>2, <2>4, Numbers
    <3>2. k + 1 \in 1..Len(chain) /\ LinkOf(k) = chain[k + 1]
      BY <2>1, <3>1 DEF LinkOf
    <3> QED
      BY <2>3, <3>1, <3>2
  <2> QED
    BY <2>3, <2>4
<1> QED
  BY <1>1, <1>2, <1>3, <1>4

\* A call that ends, or goes on without what it held, leaves the files fenced.
LEMMA Dropped ==
  ASSUME GeometryAssumption, FatInv, Formatted, NEW H \in SUBSET Clusters, FilesOk(H), Work(H)
  PROVE  LET own == Owned(Fat, Slots) IN
         own \cap Pages = {} /\ Fenced(Fat, Twin, own, {}, {})
<1> DEFINE own == Owned(Fat, Slots)
<1>1. /\ Filed(Fat, Twin, Slots) /\ H \cap own = {} /\ (own \union H) \cap Pages = {}
      /\ Fenced(Fat, Twin, own \union H, H, Mid)
  BY DEF FilesOk
<1>2. own \subseteq Clusters
  <2>1. Fat \in Tables
    BY DEF FatInv, TypeOK, Tables, Fat
  <2> QED
    BY <1>1, <2>1, OwnedIs
<1>3. \A b \in H : Chained(Fat[b]) => Fat[b] \in H
  BY HeldClosed
<1> HIDE DEF own
<1>4. ASSUME NEW b \in Clusters, Fat[b] \in own PROVE b \in own \/ Back(b, Fat[b])
  BY <1>1, <1>2, <1>3, <1>4 DEF Fenced, Chained
<1>5. ASSUME NEW b \in Clusters, Fat[b] = 0, Twin[b] \in own PROVE Back(b, Twin[b])
  BY <1>1, <1>5 DEF Fenced
<1> QED
  BY <1>1, <1>4, <1>5 DEF Fenced, own

\* A step that writes nothing and holds no cluster any more keeps the invariant.
LEMMA Rested ==
  ASSUME GeometryAssumption, FatInv, Formatted, UNCHANGED disk,
         pc' \in {"idle", "remove", "claim", "done"}, ~Adding, scars \subseteq scars',
         call'.kind = "save" /\ pc' # "remove" =>
           \A p \in EntriesOf(Slots) : Slots[p].name # call'.name
  PROVE  NoNoise' /\ CardOk'
<1>1. PICK H \in SUBSET Clusters : FilesOk(H) /\ Work(H)
  BY DEF FatInv, CardOk
<1>2. fat' = fat /\ page' = page /\ Fat' = Fat /\ Twin' = Twin
  BY DEF disk, Fat, Twin
<1>3. Owned(Fat, Slots) \cap Pages = {} /\ Fenced(Fat, Twin, Owned(Fat, Slots), {}, {})
  BY <1>1, Dropped
<1>4. Directory' = Directory /\ Pages' = Pages /\ LastPage' = LastPage
  BY <1>2, SameDirectory
<1>5. Slots' = Slots
  BY <1>2, <1>4, SameSlots DEF Used, Adding
<1>6. LinksOk(Fat', Twin')
  BY <1>2 DEF FatInv, CardOk
<1>7. NamesOk'
  BY <1>2, <1>4, <1>5, SameNames DEF FatInv, CardOk
<1>8. NoNoise'
  BY <1>5, SameNoise DEF FatInv
<1>9. Filed(Fat', Twin', Slots')
  BY <1>1, <1>2, <1>5 DEF FilesOk
<1>10. FilesOk({})'
  BY <1>2, <1>3, <1>4, <1>5, <1>9 DEF FilesOk, Mid
<1>11. Work({})'
  BY DEF Work, Making
<1> QED
  BY <1>6, <1>7, <1>8, <1>10, <1>11 DEF CardOk

\* No entry is behind the end of the directory.
LEMMA AllListed ==
  ASSUME GeometryAssumption, PagesTyped, NamesOk, EndsOk
  PROVE  Listed(Slots) = EntriesOf(Slots)
<1>1. /\ Len(Directory) \in Nat \ {0} /\ LastPage = Directory[Len(Directory)]
      /\ \A i, j \in 1..Len(Directory) : Directory[i] = Directory[j] => i = j
      /\ DOMAIN Slots \subseteq Nat \X Nat /\ Pages \subseteq Clusters
      /\ \A p \in DOMAIN Slots : /\ p[1] \in 1..Len(Directory) /\ p[2] \in 1..PerPage
                                 /\ Directory[p[1]] \in Pages
                                 /\ Slots[p] = page[Directory[p[1]]][p[2]]
  BY SlotsHere
<1>2. ASSUME NEW p \in DOMAIN Slots, NEW q \in DOMAIN Slots,
             Slots[p].kind = "entry", Slots[q].kind = "end", Before(q, p)
      PROVE  FALSE
  <2> DEFINE a == Directory[q[1]]
  <2>1. a \in Pages /\ a \in Clusters /\ page[a][q[2]].kind = "end" /\ q[2] \in 1..PerPage /\ p[2] \in 1..PerPage
    BY <1>1, <1>2
  <2>2. p[1] \in 1..Len(Directory) /\ q[1] \in 1..Len(Directory) /\ Len(Directory) \in 1..Len(Directory)
    BY <1>1
  <2>3. CASE q[1] = p[1]
    <3>1. q[2] < p[2]
      BY <1>2, <2>2, <2>3 DEF Before
    <3>2. page[a][p[2]].kind = "end"
      BY <2>1, <3>1 DEF EndsOk
    <3>3. Slots[p] = page[a][p[2]]
      BY <1>1, <2>3
    <3> QED
      BY <1>2, <3>2, <3>3
  <2>4. CASE q[1] # p[1]
    <3>1. q[1] < p[1]
      BY <1>2, <2>4 DEF Before
    <3>2. q[1] # Len(Directory)
      BY <2>2, <3>1
    <3>3. a # LastPage
      BY <1>1, <2>2, <3>2
    <3> QED
      BY <2>1, <3>3 DEF NamesOk
  <2> QED
    BY <2>3, <2>4
<1> QED
  BY <1>2 DEF Listed, EntriesOf

LEMMA NothingToDeleteKeeps ==
  ASSUME GeometryAssumption, FatInv, NothingToDelete
  PROVE  FatInv'
<1>1. /\ pc = "remove" /\ ~Found(call.name) /\ pc' = AfterFree /\ UNCHANGED disk
      /\ call' = call /\ calls' = calls /\ scars' = scars
      /\ at' = at /\ batch' = batch /\ chain' = chain /\ left' = left
      /\ page' = page /\ fat' = fat /\ body' = body
  BY DEF NothingToDelete, locals, disk
<1>2. Formatted /\ NamesOk /\ PagesTyped
  BY <1>1, InCall
<1>3. Listed(Slots) = EntriesOf(Slots)
  BY <1>2, AllListed DEF FatInv
<1>4. \A p \in EntriesOf(Slots) : Slots[p].name # call.name
  BY <1>1, <1>3 DEF Found, Hits, HitsIn
<1>5. pc' \in {"done", "claim"} /\ (pc' = "done" => call.kind = "delete") /\ (pc' = "claim" => call.kind # "delete")
  BY <1>1 DEF AfterFree
<1>6. NoNoise' /\ CardOk'
  BY <1>1, <1>2, <1>4, <1>5, Rested DEF Adding
<1>7. TypeOK'
  BY <1>1, <1>5 DEF FatInv, TypeOK
<1>8. CallOk' /\ EndsOk'
  <2>1. call.kind \in {"none", "save", "delete", "test", "format"}
    BY DEF FatInv, TypeOK, Calls
  <2> QED
    BY <1>1, <1>5, <2>1 DEF FatInv, CallOk, EndsOk, Stepping, Making
<1> QED
  BY <1>5, <1>6, <1>7, <1>8, Collect

LEMMA DoneKeeps ==
  ASSUME GeometryAssumption, FatInv, Done
  PROVE  FatInv'
<1>1. /\ pc = "done" /\ pc' = "idle" /\ UNCHANGED disk /\ call' = NoCall /\ calls' = calls /\ scars' = scars
      /\ at' = 0 /\ batch' = {} /\ chain' = <<>> /\ left' = 0
      /\ page' = page /\ fat' = fat /\ body' = body
  BY DEF Done, Finish, disk
<1>2. Formatted
  BY <1>1, InCall
<1>3. NoNoise' /\ CardOk'
  BY <1>1, <1>2, Rested DEF Adding, NoCall
<1>4. TypeOK'
  BY <1>1 DEF FatInv, TypeOK, NoCall, Calls
<1>5. CallOk' /\ EndsOk'
  BY <1>1 DEF FatInv, CallOk, EndsOk, Stepping, Making, NoCall
<1> QED
  BY <1>1, <1>3, <1>4, <1>5, Collect

LEMMA TestGoesOnKeeps ==
  ASSUME GeometryAssumption, FatInv, TestGoesOn
  PROVE  FatInv'
<1>1. /\ call.kind = "test" /\ pc \in {"remove", "free", "mirror"} /\ pc' = "claim" /\ UNCHANGED disk
      /\ call' = call /\ calls' = calls /\ scars' = scars
      /\ at' = 0 /\ batch' = {} /\ chain' = chain /\ left' = left
      /\ page' = page /\ fat' = fat /\ body' = body
  BY DEF TestGoesOn, disk
<1>2. Formatted
  BY <1>1, InCall
<1>3. NoNoise' /\ CardOk'
  BY <1>1, <1>2, Rested DEF Adding
<1>4. TypeOK'
  BY <1>1 DEF FatInv, TypeOK
<1>5. CallOk' /\ EndsOk'
  BY <1>1 DEF FatInv, CallOk, EndsOk, Stepping, Making
<1> QED
  BY <1>1, <1>3, <1>4, <1>5, Collect

\* Writing one entry of the directory.
LEMMA SlotChanged ==
  ASSUME GeometryAssumption, PagesTyped, NEW p \in DOMAIN Slots, NEW entry \in Slot,
         page' = WithSlot(p, entry), fat' = fat, Used(Directory, pc') = Used(Directory, pc)
  PROVE  /\ PagesTyped' /\ Directory' = Directory /\ Pages' = Pages /\ LastPage' = LastPage
         /\ DOMAIN Slots' = DOMAIN Slots /\ Slots'[p] = entry
         /\ \A q \in DOMAIN Slots : q # p => Slots'[q] = Slots[q]
         /\ \A c \in Clusters : c # Directory[p[1]] => page'[c] = page[c]
         /\ \A i \in 1..PerPage : page'[Directory[p[1]]][i] =
                                     IF i = p[2] THEN entry ELSE page[Directory[p[1]]][i]
<1> DEFINE a == Directory[p[1]]
           row == [page[a] EXCEPT ![p[2]] = entry]
<1>1. /\ Pages \subseteq Clusters /\ a \in Pages /\ p[2] \in 1..PerPage
      /\ \A q, r \in DOMAIN Slots : Directory[q[1]] = Directory[r[1]] /\ q[2] = r[2] => q = r
      /\ \A q \in DOMAIN Slots : /\ Directory[q[1]] \in Pages /\ q[2] \in 1..PerPage
                                 /\ Slots[q] = page[Directory[q[1]]][q[2]]
  BY SlotsHere
<1>2. page' = [page EXCEPT ![a] = row]
  BY DEF WithSlot
<1>3. a \in Clusters /\ row \in [1..PerPage -> Slot]
      /\ \A i \in 1..PerPage : row[i] = IF i = p[2] THEN entry ELSE page[a][i]
  BY <1>1 DEF PagesTyped
<1> HIDE DEF row
<1>4. /\ PagesTyped' /\ page'[a] = row
      /\ \A c \in Clusters : c # a => page'[c] = page[c]
  <2> HIDE DEF a
  <2> QED
    BY <1>2, <1>3 DEF PagesTyped
<1>5. Fat' = Fat
  BY DEF Fat
<1>6. Directory' = Directory /\ Pages' = Pages /\ LastPage' = LastPage
  BY <1>5, SameDirectory
<1>7. DOMAIN Slots' = DOMAIN Slots /\ \A q \in DOMAIN Slots : Slots'[q] = page'[Directory[q[1]]][q[2]]
  <2>1. /\ Slots = SlotsIn(Directory, page, Used(Directory, pc))
        /\ Slots' = SlotsIn(Directory, page', Used(Directory, pc))
    BY <1>6, Shape
  <2> QED
    BY <2>1 DEF SlotsIn
<1>8. Slots'[p] = entry
  BY <1>1, <1>3, <1>4, <1>7
<1>9. ASSUME NEW q \in DOMAIN Slots, q # p PROVE Slots'[q] = Slots[q]
  <2>1. CASE Directory[q[1]] = a
    <3>1. q[2] # p[2]
      BY <1>1, <1>9, <2>1
    <3> QED
      BY <1>1, <1>3, <1>4, <1>7, <2>1, <3>1
  <2>2. CASE Directory[q[1]] # a
    BY <1>1, <1>4, <1>7, <2>2
  <2> QED
    BY <2>1, <2>2
<1> QED
  BY <1>3, <1>4, <1>6, <1>7, <1>8, <1>9

\* The entry goes first; its clusters are then the ones the call holds.
LEMMA MarkDeletedKeeps ==
  ASSUME GeometryAssumption, FatInv, MarkDeleted
  PROVE  FatInv' /\ \E p \in EntriesOf(Slots) :
           /\ Slots[p].name = call.name /\ EntriesOf(Slots') = EntriesOf(Slots) \ {p}
           /\ \A q \in EntriesOf(Slots') : Slots'[q] = Slots[q]
<1> DEFINE p == First(Hits(call.name))
           e == Slots[p]
           gone == [e EXCEPT !.kind = "deleted"]
           own == Owned(Fat, Slots)
           S == On(Fat, e.first)
<1>1. /\ pc = "remove" /\ Found(call.name) /\ page' = WithSlot(p, gone) /\ at' = e.first
      /\ pc' = IF Chained(e.first) THEN "free" ELSE AfterFree
      /\ fat' = fat /\ body' = body /\ call' = call /\ batch' = batch /\ chain' = chain
      /\ left' = left /\ calls' = calls /\ scars' = scars
  BY DEF MarkDeleted
<1>2. /\ Formatted /\ NoNoise /\ LinksOk(Fat, Twin) /\ NamesOk /\ EndsOk
      /\ TablesTyped /\ PagesTyped /\ Fat \in Tables /\ Twin \in Tables
  BY <1>1, InCall DEF FatInv
<1>3. PICK H \in SUBSET Clusters : FilesOk(H) /\ Work(H)
  BY <1>1, InCall
<1>4. H = {} /\ Mid = {}
  BY <1>1, <1>3 DEF Work, Mid
<1>5. Filed(Fat, Twin, Slots) /\ own \cap Pages = {} /\ Fenced(Fat, Twin, own, {}, {})
  <2>1. own \union H = own
    BY <1>4
  <2> QED
    BY <1>3, <1>4, <2>1 DEF FilesOk
<1>6. p \in EntriesOf(Slots) /\ p \in DOMAIN Slots /\ e.name = call.name /\ e \in Slot /\ e.kind = "entry"
  <2>1. Hits(call.name) \subseteq EntriesOf(Slots) /\ Hits(call.name) # {}
    BY <1>1 DEF Found, Hits, HitsIn, Listed, EntriesOf
  <2>2. EntriesOf(Slots) \subseteq DOMAIN Slots /\ DOMAIN Slots \subseteq Nat \X Nat
    BY <1>2, SlotsHere DEF EntriesOf
  <2>3. p \in Hits(call.name)
    BY <2>1, <2>2, FirstIs
  <2>4. p \in DOMAIN Slots
    BY <2>1, <2>2, <2>3
  <2>5. e \in Slot
    BY <1>2, <2>4, SlotsHere
  <2>6. e.name = call.name /\ e.kind = "entry"
    BY <2>1, <2>3 DEF Hits, HitsIn, EntriesOf
  <2> HIDE DEF p, e
  <2> QED
    BY <2>1, <2>3, <2>4, <2>5, <2>6
<1> HIDE DEF p
<1>7. FileOk(Fat, Twin, e) /\ Chained(e.first)
  BY <1>5, <1>6 DEF Filed, FileOk
<1>8. pc' = "free"
  BY <1>1, <1>7
<1>9. gone \in Slot /\ gone.kind = "deleted"
  BY <1>6 DEF Slot, SlotKinds
<1> HIDE DEF gone
<1>10. /\ PagesTyped' /\ Directory' = Directory /\ Pages' = Pages /\ LastPage' = LastPage
       /\ DOMAIN Slots' = DOMAIN Slots /\ Slots'[p] = gone
       /\ \A q \in DOMAIN Slots : q # p => Slots'[q] = Slots[q]
       /\ \A c \in Clusters : c # Directory[p[1]] => page'[c] = page[c]
       /\ \A i \in 1..PerPage : page'[Directory[p[1]]][i] =
                                   IF i = p[2] THEN gone ELSE page[Directory[p[1]]][i]
  BY <1>1, <1>2, <1>6, <1>8, <1>9, SlotChanged DEF Used
<1>11. Fat' = Fat /\ Twin' = Twin
  BY <1>1 DEF Fat, Twin
<1>12. EntriesOf(Slots') = EntriesOf(Slots) \ {p} /\ \A q \in EntriesOf(Slots') : Slots'[q] = Slots[q]
  BY <1>9, <1>10 DEF EntriesOf
<1>13. Directory[p[1]] \in Clusters /\ p[2] \in 1..PerPage /\ page[Directory[p[1]]][p[2]].kind = "entry"
  BY <1>2, <1>6, SlotsHere
\* The old kind was not an end, the new one is none.
<1>14. ASSUME NEW c \in Clusters, NEW i \in 1..PerPage
       PROVE  page'[c][i].kind = "end" <=> page[c][i].kind = "end"
  BY <1>9, <1>10, <1>13
<1>15. EndsOk'
  BY <1>2, <1>14 DEF EndsOk
<1>16. NoNoise'
  BY <1>1, <1>2, <1>9, <1>10 DEF NoNoise
<1>17. NamesOk'
  <2>1. Pages \subseteq Clusters
    BY <1>2, SlotsHere
  <2>2. Fat'[LastPage'] = Eoc
    BY <1>2, <1>10, <1>11 DEF NamesOk
  <2>3. \A c \in Pages' : c # LastPage' => \A i \in 1..PerPage : page'[c][i].kind # "end"
    BY <1>2, <1>10, <1>14, <2>1 DEF NamesOk
  <2>4. \A r, q \in EntriesOf(Slots') : Slots'[r].name = Slots'[q].name /\ Slots'[r].name # TestName => r = q
    BY <1>2, <1>12 DEF NamesOk
  <2>5. call'.kind = "save" => \A q \in EntriesOf(Slots') : Slots'[q].name # call'.name
    <3>1. call.kind = "save" => call.name # TestName
      BY DEF FatInv, CallOk
    <3> QED
      BY <1>1, <1>2, <1>6, <1>12, <3>1 DEF NamesOk
  <2> QED
    BY <2>2, <2>3, <2>4, <2>5 DEF NamesOk
<1>18. /\ e.first \in S /\ S \subseteq Clusters
       /\ \A b \in S : Fat[b] # 0 /\ (Chained(Fat[b]) => Fat[b] \in S)
       /\ \A b, c \in S : Fat[b] = Fat[c] /\ Chained(Fat[b]) => b = c
       /\ \A b \in S : Fat[b] = e.first => Back(b, e.first)
  BY <1>2, <1>7, FileWay
<1>19. \A b \in S : Twin[b] = Fat[b] /\ Rises(Fat, b)
  BY <1>7 DEF FileOk
<1>20. /\ Filed(Fat', Twin', Slots')
       /\ \A q \in EntriesOf(Slots') : On(Fat, Slots'[q].first) = On(Fat, Slots[q].first)
  <2>1. EntriesOf(Slots') \subseteq EntriesOf(Slots)
    BY <1>12
  <2> DEFINE sm == Slots'
             sl == Slots
             t == Fat
             m == Twin
  <2>2. Filed(t, m, sl) /\ EntriesOf(sm) \subseteq EntriesOf(sl) /\ t \in Tables
        /\ \A q \in EntriesOf(sm) : sm[q] = sl[q]
    BY <1>2, <1>5, <1>12, <2>1
  <2> HIDE DEF sm, sl, t, m
  <2>3. /\ Filed(t, m, sm) /\ \A q \in EntriesOf(sm) : On(t, sm[q].first) = On(t, sl[q].first)
    BY <2>2, FiledSub
  <2> QED
    BY <1>11, <2>3 DEF sm, sl, t, m
<1>21. Owned(Fat', Slots') \union S = own /\ S \cap Owned(Fat', Slots') = {}
  <2>1. Owned(Fat', Slots') = UNION {On(Fat, Slots[q].first) : q \in EntriesOf(Slots) \ {p}}
    BY <1>11, <1>12 DEF Owned
  <2>2. \A q \in EntriesOf(Slots) \ {p} : On(Fat, Slots[q].first) \cap S = {}
    BY <1>5, <1>6 DEF Filed
  <2>3. own = UNION {On(Fat, Slots[q].first) : q \in EntriesOf(Slots)}
    BY DEF Owned
  <2> HIDE DEF own
  <2> QED
    BY <1>6, <2>1, <2>2, <2>3
<1> HIDE DEF S, own, e
<1>31. PICK G \in SUBSET Clusters : G = S
  BY <1>18
<1>22. FilesOk(G)'
  <2>1. Fenced(Fat', Twin', own, G, {})
    BY <1>5, <1>11 DEF Fenced
  <2>2. Mid' = {}
    BY <1>8 DEF Mid
  <2> QED
    BY <1>5, <1>10, <1>20, <1>21, <1>31, <2>1, <2>2 DEF FilesOk
<1>23. Freeing(G)'
  BY <1>1, <1>7, <1>8, <1>11, <1>18, <1>19, <1>31 DEF Freeing
<1>24. CardOk'
  <2>1. Work(G)'
    BY <1>8, <1>23 DEF Work, Making
  <2>2. LinksOk(Fat', Twin')
    BY <1>2, <1>11
  <2> QED
    BY <1>17, <1>22, <2>1, <2>2 DEF CardOk
<1>25. TypeOK'
  <2>1. at' \in Nat
    BY <1>1, <1>7, Numbers DEF Chained
  <2> QED
    BY <1>1, <1>8, <1>10, <2>1 DEF FatInv, TypeOK, PagesTyped
<1>26. CallOk'
  BY <1>1, <1>8 DEF FatInv, CallOk, Stepping, Making
<1>27. FatInv'
  BY <1>8, <1>15, <1>16, <1>24, <1>25, <1>26, Collect
<1> HIDE DEF own, S
<1>28. /\ p \in EntriesOf(Slots) /\ Slots[p].name = call.name
       /\ EntriesOf(Slots') = EntriesOf(Slots) \ {p}
       /\ \A q \in EntriesOf(Slots') : Slots'[q] = Slots[q]
  BY <1>6, <1>12 DEF e
<1> QED
  BY <1>27, <1>28

-----------------------------------------------------------------------------
(* Creating. *)

\* No page of the directory is free.
LEMMA PagesTaken ==
  ASSUME GeometryAssumption, PagesTyped, NamesOk
  PROVE  \A b \in Pages : b \in Clusters /\ Fat[b] # 0
<1>1. /\ Len(Directory) \in Nat \ {0} /\ LastPage = Directory[Len(Directory)]
      /\ Pages = {Directory[i] : i \in 1..Len(Directory)} /\ Pages \subseteq Clusters
  BY SlotsHere
<1>2. \A k \in 1..Len(Directory) - 1 : Directory[k + 1] = Fat[Directory[k]]
  BY Shape, DirectoryIs
<1>3. ASSUME NEW k \in 1..Len(Directory) PROVE Fat[Directory[k]] # 0
  <2>1. CASE k = Len(Directory)
    BY <1>1, <2>1, Numbers DEF NamesOk
  <2>2. CASE k # Len(Directory)
    <3> DEFINE n == Len(Directory)
    <3>1. n \in Nat \ {0} /\ k \in 1..n /\ k # n
      BY <1>1, <2>2
    <3> HIDE DEF n
    <3>2. k \in 1..n - 1 /\ k + 1 \in 1..n
      BY <3>1
    <3>3. Directory[k + 1] = Fat[Directory[k]] /\ Directory[k + 1] \in Clusters
      BY <1>1, <1>2, <3>2 DEF n
    <3> QED
      BY <3>3, Numbers
  <2> QED
    BY <2>1, <2>2
<1> QED
  BY <1>1, <1>3

\* The clusters found are free in both copies or lead up only.
LEMMA ClaimKeeps ==
  ASSUME GeometryAssumption, FatInv, Claim
  PROVE  FatInv'
<1> DEFINE own == Owned(Fat, Slots)
           s == FirstFit(call.size)
<1>1. pc = "claim" /\ UNCHANGED disk /\ fat' = fat /\ page' = page /\ body' = body /\ calls' = calls
  BY DEF Claim, disk
<1>2. /\ Formatted /\ NoNoise /\ LinksOk(Fat, Twin) /\ NamesOk
      /\ TablesTyped /\ PagesTyped /\ Fat \in Tables /\ Twin \in Tables
  BY <1>1, InCall
<1>3. call.kind \in {"save", "test"} /\ call.size \in 1..MaxSize /\ call.size \in Nat
  BY <1>1 DEF FatInv, CallOk, GeometryAssumption
<1>4. ASSUME Cardinality(FreeClusters) < call.size PROVE FatInv'
  <2>1. /\ pc' = "idle" /\ call' = NoCall /\ scars' = scars
        /\ at' = 0 /\ batch' = {} /\ chain' = <<>> /\ left' = 0
    BY <1>4 DEF Claim, Finish
  <2>2. NoNoise' /\ CardOk'
    BY <1>1, <1>2, <2>1, Rested DEF Adding, NoCall
  <2>3. TypeOK'
    <3>1. 0 \in 0..MaxSize
      BY DEF GeometryAssumption
    <3> QED
      BY <1>1, <2>1, <3>1 DEF FatInv, TypeOK, NoCall, Calls
  <2>4. CallOk' /\ EndsOk'
    BY <1>1, <2>1 DEF FatInv, CallOk, EndsOk, Stepping, Making, NoCall
  <2> QED
    BY <2>1, <2>2, <2>3, <2>4, Collect
<1>5. ASSUME ~(Cardinality(FreeClusters) < call.size) PROVE FatInv'
  <2>1. /\ chain' = s /\ left' = call.size /\ pc' = "link" /\ at' = 0
        /\ call' = call /\ batch' = batch /\ scars' = scars
    BY <1>5 DEF Claim
  <2>2. call.size <= Cardinality(FreeClusters)
    <3>1. IsFiniteSet(FreeClusters)
      <4>1. IsFiniteSet(Clusters)
        BY FS_Interval DEF Clusters, Root, GeometryAssumption
      <4> QED
        BY <4>1, FS_Subset DEF FreeClusters
    <3>2. Cardinality(FreeClusters) \in Nat
      BY <3>1, FS_CardinalityType
    <3> QED
      BY <1>3, <1>5, <3>2
  <2> DEFINE n == call.size
  <2>3. /\ s \in Seq(Clusters) /\ Len(s) = n
        /\ \A k \in 1..n : s[k] \in FreeClusters
        /\ \A i, j \in 1..n : i < j => s[i] < s[j]
        /\ \A d \in FreeClusters, k \in 1..n : d < s[k] => \E j \in 1..n : s[j] = d
    BY <1>3, <2>2, FirstFitIs
  <2> HIDE DEF s, n
  <2>4. n \in 1..MaxSize /\ n \in Nat /\ n # 0 /\ DOMAIN s = 1..n
    BY <1>3, <2>3 DEF n
  <2>5. PICK G \in SUBSET Clusters : G = {s[k] : k \in 1..n}
    <3>1. {s[k] : k \in 1..n} \in SUBSET Clusters
      BY <2>3 DEF FreeClusters
    <3> QED
      BY <3>1
  <2>6. G = ToSet(s)
    BY <2>4, <2>5 DEF ToSet
  <2>7. \A b \in G : b \in Clusters /\ Fat[b] = 0
    BY <2>3, <2>5 DEF FreeClusters, Fat
  <2>8. PICK H \in SUBSET Clusters : FilesOk(H) /\ Work(H)
    BY <1>1, InCall
  <2>9. H = {} /\ Mid = {}
    BY <1>1, <2>8 DEF Work, Mid
  <2>10. Filed(Fat, Twin, Slots) /\ own \cap Pages = {} /\ Fenced(Fat, Twin, own, {}, {})
    <3>1. own \union H = own
      BY <2>9
    <3> QED
      BY <2>8, <2>9, <3>1 DEF FilesOk
  <2>11. \A b \in own : b \in Clusters /\ Fat[b] # 0
    BY <1>2, <2>10, OwnedIs
  <2> HIDE DEF own
  <2>12. Fat' = Fat /\ Twin' = Twin
    BY <1>1 DEF Fat, Twin
  <2>13. Directory' = Directory /\ Pages' = Pages /\ LastPage' = LastPage
    BY <2>12, SameDirectory
  <2>14. Slots' = Slots
    BY <1>1, <2>1, <2>13, SameSlots DEF Used
  <2>15. NamesOk'
    BY <1>1, <1>2, <2>1, <2>12, <2>13, <2>14, SameNames DEF NamesOk
  <2>16. NoNoise'
    BY <1>2, <2>1, <2>14, SameNoise
  <2>17. G \cap own = {} /\ (own \union G) \cap Pages = {}
    BY <1>2, <2>7, <2>10, <2>11, PagesTaken
  \* What points into the new chain is the second copy's rest of an old one.
  <2>18. Fenced(Fat, Twin, own \union G, G, G)
    <3>1. ASSUME NEW b \in Clusters, Fat[b] \in own \union G
          PROVE  b \in own \union G \/ Back(b, Fat[b])
      <4>1. CASE Fat[b] \in own
        BY <2>10, <4>1 DEF Fenced
      <4>2. CASE Fat[b] \in G
        <5>1. Chained(Fat[b]) /\ Fat[Fat[b]] = 0
          BY <2>7, <4>2 DEF Chained
        <5> QED
          BY <1>2, <5>1 DEF LinksOk
      <4> QED
        BY <3>1, <4>1, <4>2
    <3>2. ASSUME NEW b \in Clusters, Fat[b] = 0, Twin[b] \in own \union G
          PROVE  Back(b, Twin[b]) \/ (b \in G /\ Twin[b] \in G)
      <4>1. CASE Twin[b] \in own
        BY <2>10, <3>2, <4>1 DEF Fenced
      <4>2. CASE Twin[b] \in G /\ ~Back(b, Twin[b])
        <5>1. Chained(Twin[b]) /\ Fat[Twin[b]] = 0
          BY <2>7, <4>2 DEF Chained
        <5>2. b < Twin[b]
          BY <1>2, <3>2, <4>2, <5>1 DEF LinksOk
        <5>3. PICK k \in 1..n : s[k] = Twin[b]
          BY <2>5, <4>2
        <5>4. b \in FreeClusters
          BY <3>2 DEF FreeClusters, Fat
        <5>5. \E j \in 1..n : s[j] = b
          BY <2>3, <5>2, <5>3, <5>4
        <5> QED
          BY <2>5, <4>2, <5>5
      <4> QED
        BY <3>2, <4>1, <4>2
    <3> QED
      BY <3>1, <3>2 DEF Fenced
  <2>19. Mid' = G
    BY <2>1, <2>5 DEF Mid, n
  <2>20. FilesOk(G)'
    <3>1. Owned(Fat', Slots') = own
      BY <2>12, <2>14 DEF own
    <3> QED
      BY <2>10, <2>12, <2>13, <2>14, <2>17, <2>18, <2>19, <3>1 DEF FilesOk
  <2>21. Linking(G)'
    <3>1. left' \in 1..Len(chain') /\ left' = n /\ n \in 1..n
      BY <2>1, <2>3, <2>4 DEF n
    <3>2. \A k \in DOMAIN chain' : ~(k > left')
      BY <2>1, <2>4, <3>1
    <3>3. \A k \in 1..left' : Fat'[chain'[k]] = 0
      BY <2>1, <2>5, <2>7, <2>12, <3>1
    <3> QED
      BY <2>1, <2>6, <3>1, <3>2, <3>3 DEF Linking
  <2>22. CardOk'
    <3>1. Work(G)'
      BY <2>1, <2>21 DEF Work, Making
    <3> QED
      BY <1>2, <2>12, <2>15, <2>20, <3>1 DEF CardOk
  <2>23. TypeOK'
    <3>1. left' \in 0..MaxSize /\ Len(chain') = call'.size /\ chain' \in Seq(Clusters)
      <4>1. n \in 0..MaxSize
        BY <2>4 DEF GeometryAssumption
      <4> QED
        BY <2>1, <2>3, <4>1 DEF n
    <3> QED
      BY <1>1, <2>1, <3>1 DEF FatInv, TypeOK
  <2>24. CallOk' /\ EndsOk'
    <3>1. Len(chain') = call'.size /\ \A i, j \in DOMAIN chain' : i < j => chain'[i] < chain'[j]
      BY <2>1, <2>3, <2>4 DEF n
    <3> QED
      BY <1>1, <1>3, <2>1, <3>1 DEF FatInv, CallOk, EndsOk
  <2> QED
    BY <2>1, <2>16, <2>22, <2>23, <2>24, Collect
<1> QED
  BY <1>4, <1>5

\* The chain of the call, and what patching a sector of it changes.
LEMMA LinkingIs ==
  ASSUME GeometryAssumption, FatInv, pc \in {"link", "linkmirror"}, NEW H, Linking(H)
  PROVE  \E n \in Nat :
         /\ Len(chain) = n /\ chain \in Seq(Clusters) /\ DOMAIN chain = 1..n
         /\ H = {chain[k] : k \in 1..n} /\ (\A k \in 1..n : chain[k] \in Clusters)
         /\ \A i, j \in 1..n : chain[i] = chain[j] => i = j
         /\ \A i, j \in 1..n : i < j => chain[i] < chain[j]
         /\ left \in 1..n /\ left \in Run /\ (\A k \in Run : k \in 1..left /\ k \in 1..n)
         /\ Cardinality(Run) \in 1..left
         /\ \A k \in 1..left : k \in Run <=> k > left - Cardinality(Run)
         /\ \A k \in 1..n : LinkOf(k) = IF k < n THEN chain[k + 1] ELSE Eoc
         /\ \A k \in 1..n : LinkOf(k) # 0
<1> DEFINE len == Len(chain)
<1>1. chain \in Seq(Clusters) /\ len \in Nat /\ DOMAIN chain = 1..len
      /\ (\A k \in 1..len : chain[k] \in Clusters)
  BY DEF FatInv, TypeOK
<1>2. \A i, j \in 1..len : i < j => chain[i] < chain[j]
  BY <1>1 DEF FatInv, CallOk, Stepping
<1>3. left \in 1..len
  BY <1>1 DEF Linking
<1>4. H = {chain[k] : k \in 1..len}
  BY <1>1 DEF Linking, ToSet
<1>5. /\ Run \subseteq 1..left /\ left \in Run /\ Cardinality(Run) \in 1..left
      /\ \A k \in 1..left : k \in Run <=> k > left - Cardinality(Run)
  BY <1>1, <1>2, <1>3, RunIs
<1>6. \A k \in 1..len : LinkOf(k) = IF k < len THEN chain[k + 1] ELSE Eoc
  BY DEF LinkOf
<1> HIDE DEF len
<1>7. ASSUME NEW i \in 1..len, NEW j \in 1..len, chain[i] = chain[j] PROVE i = j
  <2>1. i < j \/ j < i \/ i = j
    BY <1>1
  <2>2. chain[i] \in Nat
    BY <1>1, Numbers
  <2>3. ~(chain[i] < chain[j]) /\ ~(chain[j] < chain[i])
    BY <1>7, <2>2
  <2> QED
    BY <1>2, <2>1, <2>3
<1>8. \A k \in Run : k \in 1..left /\ k \in 1..len
  BY <1>1, <1>3, <1>5
<1>9. ASSUME NEW k \in 1..len PROVE LinkOf(k) # 0
  <2>1. k < len => k + 1 \in 1..len
    BY <1>1
  <2>2. LinkOf(k) \in Clusters \/ LinkOf(k) = Eoc
    BY <1>1, <1>6, <2>1
  <2> QED
    BY <2>2, Numbers
<1> QED
  BY <1>1, <1>2, <1>3, <1>4, <1>5, <1>6, <1>7, <1>8, <1>9 DEF len

\* The run of one sector is linked in the first copy, its upper end to what is linked,
LEMMA LinkChainKeeps ==
  ASSUME GeometryAssumption, FatInv, LinkChain
  PROVE  FatInv' /\ Spared
<1> DEFINE own == Owned(Fat, Slots)
           low == {chain[k] : k \in 1..left}
           new == {chain[k] : k \in Run}
<1>1. /\ pc = "link" /\ pc' = "linkmirror" /\ fat' = Linked(1)
      /\ page' = page /\ body' = body /\ call' = call /\ at' = at /\ batch' = batch
      /\ chain' = chain /\ left' = left /\ calls' = calls /\ scars' = scars
  BY DEF LinkChain, locals
<1>2. /\ Formatted /\ NoNoise /\ LinksOk(Fat, Twin) /\ NamesOk
      /\ TablesTyped /\ PagesTyped /\ Fat \in Tables /\ Twin \in Tables
  BY <1>1, InCall
<1>3. PICK H \in SUBSET Clusters : FilesOk(H) /\ Work(H)
  BY <1>1, InCall
<1>4. Linking(H) /\ Mid = low
  BY <1>1, <1>3 DEF Work, Mid
<1>5. /\ Filed(Fat, Twin, Slots) /\ H \cap own = {} /\ (own \union H) \cap Pages = {}
      /\ Fenced(Fat, Twin, own \union H, H, low)
  BY <1>3, <1>4 DEF FilesOk
<1>6. PICK n \in Nat :
         /\ Len(chain) = n /\ chain \in Seq(Clusters) /\ DOMAIN chain = 1..n
         /\ H = {chain[k] : k \in 1..n} /\ (\A k \in 1..n : chain[k] \in Clusters)
         /\ \A i, j \in 1..n : chain[i] = chain[j] => i = j
         /\ \A i, j \in 1..n : i < j => chain[i] < chain[j]
         /\ left \in 1..n /\ left \in Run /\ (\A k \in Run : k \in 1..left /\ k \in 1..n)
         /\ Cardinality(Run) \in 1..left
         /\ \A k \in 1..left : k \in Run <=> k > left - Cardinality(Run)
         /\ \A k \in 1..n : LinkOf(k) = IF k < n THEN chain[k + 1] ELSE Eoc
         /\ \A k \in 1..n : LinkOf(k) # 0
  BY <1>1, <1>4, LinkingIs
<1>7. /\ \A k \in 1..n : k > left => Fat[chain[k]] = LinkOf(k) /\ Twin[chain[k]] = LinkOf(k)
      /\ \A k \in 1..left : Fat[chain[k]] = 0
  BY <1>1, <1>4, <1>6 DEF Linking
<1>8. /\ TablesTyped' /\ Twin' = Twin
      /\ \A k \in Run : Fat'[chain[k]] = LinkOf(k)
      /\ \A c \in Clusters : c \notin new => Fat'[c] = Fat[c]
  <2>1. /\ Linked(1) \in [1..2 -> [Clusters -> 0..Eoc]]
        /\ \A i \in 1..2 : i # 1 => Linked(1)[i] = fat[i]
        /\ \A k \in Run : Linked(1)[1][chain[k]] = LinkOf(k)
        /\ \A c \in Clusters : (\A k \in Run : chain[k] # c) => Linked(1)[1][c] = fat[1][c]
    <3>1. left \in 1..Len(chain) /\ chain \in Seq(Clusters) /\ 1 \in 1..2
      BY <1>6
    <3>2. \A i, j \in DOMAIN chain : i < j => chain[i] < chain[j]
      BY <1>6
    <3>3. fat \in [1..2 -> [Clusters -> 0..Eoc]]
      BY <1>2 DEF TablesTyped, Tables
    <3> QED
      BY <3>1, <3>2, <3>3, LinkedIs
  <2>2. TablesTyped' /\ Twin' = Twin
    BY <1>1, <2>1 DEF TablesTyped, Tables, Twin
  <2> QED
    BY <1>1, <2>1, <2>2 DEF Fat
<1>9. new \subseteq low /\ low \subseteq H /\ (\A c \in low : Fat[c] = 0) /\ (\A c \in new : Fat'[c] # 0)
  BY <1>6, <1>7, <1>8
<1>10. \A b \in own : b \in Clusters /\ Fat[b] # 0
  BY <1>2, <1>5, OwnedIs
\* A new link leads to the next cluster, which is linked in both copies or now.
<1>11. ASSUME NEW b \in new, Chained(Fat'[b])
       PROVE  /\ Fat'[b] \in H /\ Fat'[Fat'[b]] # 0 /\ Fat[b] = 0
  <2>1. PICK k \in Run : chain[k] = b
    OBVIOUS
  <2>2. k \in 1..left /\ k \in 1..n /\ Fat'[b] = LinkOf(k)
    BY <1>6, <1>8, <2>1
  <2>3. k < n
    BY <1>6, <1>11, <2>2, Numbers
  <2>4. LinkOf(k) = chain[k + 1] /\ k + 1 \in 1..n
    BY <1>6, <2>2, <2>3
  <2>5. Fat'[chain[k + 1]] # 0
    <3>1. CASE k + 1 \in Run
      BY <1>6, <1>8, <3>1
    <3>2. CASE k + 1 \notin Run
      <4> DEFINE c == Cardinality(Run)
      <4>1. c \in Nat /\ k \in Nat /\ left \in Nat /\ k > left - c
        BY <1>6, <2>1, <2>2
      <4>2. k + 1 \in 1..left => k + 1 > left - c
        BY <4>1
      <4>3. k + 1 \notin 1..left
        BY <1>6, <3>2, <4>2
      <4>4. k + 1 > left
        BY <2>4, <4>1, <4>3
      <4>5. Fat[chain[k + 1]] = LinkOf(k + 1) /\ LinkOf(k + 1) # 0
        BY <1>6, <1>7, <2>4, <4>4
      <4>6. chain[k + 1] \in Clusters
        BY <1>6, <2>4
      <4> QED
        BY <1>8, <1>9, <4>5, <4>6
    <3> QED
      BY <3>1, <3>2
  <2>6. chain[k + 1] \in H /\ Fat[b] = 0
    BY <1>6, <1>7, <2>1, <2>2, <2>4
  <2> QED
    BY <2>2, <2>4, <2>5, <2>6
<1> HIDE DEF own, low, new
<1>12. LinksOk(Fat', Twin')
  <2> SUFFICES ASSUME NEW b \in Clusters
               PROVE  /\ Chained(Fat'[b]) /\ ~Back(b, Fat'[b]) =>
                           /\ Fat'[Fat'[b]] # 0
                           /\ Twin[b] = Fat'[b] => Twin[Fat'[b]] # 0
                      /\ Fat'[b] = 0 /\ Chained(Twin[b]) /\ ~Back(b, Twin[b]) =>
                           /\ Twin[Twin[b]] # 0
                           /\ Fat'[Twin[b]] = 0 => b < Twin[b]
    BY <1>8 DEF LinksOk
  <2>1. ASSUME Chained(Fat'[b]), ~Back(b, Fat'[b])
        PROVE  Fat'[Fat'[b]] # 0 /\ (Twin[b] = Fat'[b] => Twin[Fat'[b]] # 0)
    <3>1. CASE b \in new
      <4>1. Fat'[Fat'[b]] # 0 /\ Fat[b] = 0
        BY <1>11, <2>1, <3>1
      <4>2. Twin[b] = Fat'[b] => Twin[Twin[b]] # 0
        BY <1>2, <2>1, <4>1 DEF LinksOk
      <4> QED
        BY <4>1, <4>2
    <3>2. CASE b \notin new
      <4>1. Fat'[b] = Fat[b] /\ Fat[b] \in Clusters
        BY <1>8, <2>1, <3>2 DEF Chained
      <4>2. Fat[Fat[b]] # 0 /\ (Twin[b] = Fat[b] => Twin[Fat[b]] # 0)
        BY <1>2, <2>1, <4>1 DEF LinksOk
      <4> QED
        BY <1>8, <1>9, <4>1, <4>2
    <3> QED
      BY <3>1, <3>2
  <2>2. ASSUME Fat'[b] = 0, Chained(Twin[b]), ~Back(b, Twin[b])
        PROVE  Twin[Twin[b]] # 0 /\ (Fat'[Twin[b]] = 0 => b < Twin[b])
    <3>1. b \notin new /\ Fat[b] = 0
      BY <1>8, <1>9, <2>2
    <3>2. Twin[Twin[b]] # 0 /\ (Fat[Twin[b]] = 0 => b < Twin[b])
      BY <1>2, <2>2, <3>1 DEF LinksOk
    <3> QED
      BY <1>8, <1>9, <2>2, <3>2 DEF Chained
  <2> QED
    BY <2>1, <2>2
<1>13. \A b \in own \union Pages : b \in Clusters /\ Fat'[b] = Fat[b]
  <2>1. Pages \subseteq Clusters
    BY <1>2, SlotsHere
  <2> QED
    BY <1>5, <1>8, <1>9, <1>10, <2>1
<1>14. Directory' = Directory /\ Pages' = Pages /\ LastPage' = LastPage
  BY <1>13, SameDirectory
<1>15. Slots' = Slots
  BY <1>1, <1>14, SameSlots DEF Used
<1>16. NamesOk'
  <2>1. call.kind = "save" => \A p \in EntriesOf(Slots) : Slots[p].name # call.name
    BY <1>1, <1>2 DEF NamesOk
  <2> QED
    BY <1>1, <1>2, <1>13, <1>14, <1>15, <2>1, SameNames
<1>17. NoNoise'
  BY <1>1, <1>2, <1>15, SameNoise
<1>18. Filed(Fat', Twin', Slots') /\ Owned(Fat', Slots') = own
  BY <1>2, <1>5, <1>8, <1>13, <1>15, SameFiles DEF own
<1>19. Fenced(Fat', Twin', own \union H, H, low)
  <2>1. ASSUME NEW b \in Clusters, Fat'[b] \in own \union H PROVE b \in own \union H \/ Back(b, Fat'[b])
    <3>1. CASE b \in new
      BY <1>9, <3>1
    <3>2. CASE b \notin new
      BY <1>5, <1>8, <2>1, <3>2 DEF Fenced
    <3> QED
      BY <3>1, <3>2
  <2>2. ASSUME NEW b \in Clusters, Fat'[b] = 0, Twin[b] \in own \union H
        PROVE  Back(b, Twin[b]) \/ (b \in low /\ Twin[b] \in H)
    <3>1. Fat[b] = 0
      BY <1>8, <1>9, <2>2
    <3> QED
      BY <1>5, <2>2, <3>1 DEF Fenced
  <2> QED
    BY <1>8, <2>1, <2>2 DEF Fenced
<1>20. FilesOk(H)'
  <2>1. Mid' = low
    BY <1>1 DEF Mid, low
  <2> QED
    BY <1>5, <1>14, <1>18, <1>19, <2>1 DEF FilesOk
<1>21. Linking(H)'
  <2>1. Run' = Run /\ \A k : LinkOf(k)' = LinkOf(k)
    BY <1>1 DEF Run, TopSector, LinkOf
  <2>2. ASSUME NEW k \in 1..n
        PROVE  /\ chain[k] \in Clusters
               /\ k \notin Run => chain[k] \notin new
    <3>1. chain[k] \in Clusters /\ Run \subseteq 1..n
      BY <1>6
    <3>2. ASSUME chain[k] \in new PROVE k \in Run
      <4>1. PICK j \in Run : chain[j] = chain[k]
        BY <3>2 DEF new
      <4>2. j = k
        BY <1>6, <3>1, <4>1
      <4> QED
        BY <4>1, <4>2
    <3> QED
      BY <3>1, <3>2
  <2>3. \A k \in 1..n : k > left => Fat'[chain[k]] = LinkOf(k) /\ Twin'[chain[k]] = LinkOf(k)
    <3>1. \A k \in 1..n : k > left => k \notin Run
      BY <1>6
    <3> QED
      BY <1>6, <1>7, <1>8, <2>2, <3>1
  <2>4. \A k \in 1..left : Fat'[chain[k]] = IF k \in Run THEN LinkOf(k) ELSE 0
    <3>1. \A k \in 1..left : k \in 1..n
      BY <1>6
    <3> QED
      BY <1>7, <1>8, <2>2, <3>1
  <2>5. H = ToSet(chain)
    BY <1>4 DEF Linking
  <2> QED
    BY <1>1, <1>6, <2>1, <2>3, <2>4, <2>5 DEF Linking
<1>22. CardOk'
  <2>1. Work(H)'
    BY <1>1, <1>21 DEF Work, Making
  <2> QED
    BY <1>12, <1>16, <1>20, <2>1 DEF CardOk
<1>23. TypeOK'
  BY <1>1, <1>8 DEF FatInv, TypeOK, TablesTyped, Tables
<1>24. CallOk' /\ EndsOk'
  BY <1>1 DEF FatInv, CallOk, EndsOk, Stepping, Making
<1>25. Spared
  BY <1>1, <1>13, <1>15, SparedBy DEF own
<1> QED
  BY <1>1, <1>17, <1>22, <1>23, <1>24, <1>25, Collect

\* and in the second; when none is left the chain is whole.
LEMMA LinkMirrorKeeps ==
  ASSUME GeometryAssumption, FatInv, LinkMirror
  PROVE  FatInv' /\ Spared
<1> DEFINE own == Owned(Fat, Slots)
           size == Cardinality(Run)
           new == {chain[k] : k \in Run}
           rest == IF left = size THEN {} ELSE {chain[k] : k \in 1..left - size}
<1>1. /\ pc = "linkmirror" /\ fat' = Linked(2)
      /\ page' = page /\ body' = body /\ call' = call /\ batch' = batch
      /\ chain' = chain /\ calls' = calls /\ scars' = scars
      /\ left = size => pc' = "data" /\ left' = 0 /\ at' = chain[1]
      /\ left # size => pc' = "link" /\ left' = left - size /\ at' = at
  BY DEF LinkMirror
<1>2. /\ Formatted /\ NoNoise /\ LinksOk(Fat, Twin) /\ NamesOk
      /\ TablesTyped /\ PagesTyped /\ Fat \in Tables /\ Twin \in Tables
  BY <1>1, InCall
<1>3. PICK H \in SUBSET Clusters : FilesOk(H) /\ Work(H)
  BY <1>1, InCall
<1> DEFINE low == {chain[k] : k \in 1..left}
<1>4. Linking(H) /\ Mid = low
  BY <1>1, <1>3 DEF Work, Mid
<1>5. /\ Filed(Fat, Twin, Slots) /\ H \cap own = {} /\ (own \union H) \cap Pages = {}
      /\ Fenced(Fat, Twin, own \union H, H, low)
  BY <1>3, <1>4 DEF FilesOk
<1>6. PICK n \in Nat :
         /\ Len(chain) = n /\ chain \in Seq(Clusters) /\ DOMAIN chain = 1..n
         /\ H = {chain[k] : k \in 1..n} /\ (\A k \in 1..n : chain[k] \in Clusters)
         /\ \A i, j \in 1..n : chain[i] = chain[j] => i = j
         /\ \A i, j \in 1..n : i < j => chain[i] < chain[j]
         /\ left \in 1..n /\ left \in Run /\ (\A k \in Run : k \in 1..left /\ k \in 1..n)
         /\ size \in 1..left
         /\ \A k \in 1..left : k \in Run <=> k > left - size
         /\ \A k \in 1..n : LinkOf(k) = IF k < n THEN chain[k + 1] ELSE Eoc
         /\ \A k \in 1..n : LinkOf(k) # 0
  BY <1>1, <1>4, LinkingIs
<1> HIDE DEF size
<1>7. /\ \A k \in 1..n : k > left => Fat[chain[k]] = LinkOf(k) /\ Twin[chain[k]] = LinkOf(k)
      /\ \A k \in 1..left : Fat[chain[k]] = IF k \in Run THEN LinkOf(k) ELSE 0
  BY <1>1, <1>4, <1>6 DEF Linking
<1>8. /\ TablesTyped' /\ Fat' = Fat
      /\ \A k \in Run : Twin'[chain[k]] = LinkOf(k)
      /\ \A c \in Clusters : c \notin new => Twin'[c] = Twin[c]
  <2>1. /\ Linked(2) \in [1..2 -> [Clusters -> 0..Eoc]]
        /\ \A i \in 1..2 : i # 2 => Linked(2)[i] = fat[i]
        /\ \A k \in Run : Linked(2)[2][chain[k]] = LinkOf(k)
        /\ \A c \in Clusters : (\A k \in Run : chain[k] # c) => Linked(2)[2][c] = fat[2][c]
    <3>1. left \in 1..Len(chain) /\ chain \in Seq(Clusters) /\ 2 \in 1..2
      BY <1>6
    <3>2. \A i, j \in DOMAIN chain : i < j => chain[i] < chain[j]
      BY <1>6
    <3>3. fat \in [1..2 -> [Clusters -> 0..Eoc]]
      BY <1>2 DEF TablesTyped, Tables
    <3> QED
      BY <3>1, <3>2, <3>3, LinkedIs
  <2>2. TablesTyped' /\ Fat' = Fat
    BY <1>1, <2>1 DEF TablesTyped, Tables, Fat
  <2> QED
    BY <1>1, <2>1, <2>2 DEF Twin
<1>9. new \subseteq H /\ (\A c \in new : Twin'[c] # 0 /\ Fat[c] # 0 /\ Twin'[c] = Fat[c])
  BY <1>6, <1>7, <1>8
<1>10. \A b \in own : b \in Clusters /\ Fat[b] # 0
  BY <1>2, <1>5, OwnedIs
<1>11. ASSUME NEW b \in new, Chained(Fat[b]) PROVE Twin'[Fat[b]] # 0
  <2>1. PICK k \in Run : chain[k] = b
    OBVIOUS
  <2>2. k \in 1..left /\ k \in 1..n /\ Fat[b] = LinkOf(k)
    BY <1>6, <1>7, <2>1
  <2>3. k < n
    BY <1>6, <1>11, <2>2, Numbers
  <2>4. LinkOf(k) = chain[k + 1] /\ k + 1 \in 1..n
    BY <1>6, <2>2, <2>3
  <2>5. CASE k + 1 \in Run
    BY <1>6, <1>8, <2>2, <2>4, <2>5
  <2>6. CASE k + 1 \notin Run
    <3>1. size \in Nat /\ k \in Nat /\ left \in Nat /\ k > left - size
      BY <1>6, <2>1, <2>2
    <3>2. k + 1 \in 1..left => k + 1 > left - size
      BY <3>1
    <3>3. k + 1 \notin 1..left
      BY <1>6, <2>6, <3>2
    <3>4. k + 1 > left
      BY <2>4, <3>1, <3>3
    <3>5. Twin[chain[k + 1]] = LinkOf(k + 1) /\ LinkOf(k + 1) # 0
      BY <1>6, <1>7, <2>4, <3>4
    <3>6. chain[k + 1] \in Clusters
      BY <1>6, <2>4
    <3> QED
      BY <1>8, <1>9, <2>2, <2>4, <3>5, <3>6
  <2> QED
    BY <2>5, <2>6
<1> HIDE DEF own, low, new
<1>12. LinksOk(Fat', Twin')
  <2> SUFFICES ASSUME NEW b \in Clusters
               PROVE  /\ Chained(Fat[b]) /\ ~Back(b, Fat[b]) =>
                           /\ Fat[Fat[b]] # 0
                           /\ Twin'[b] = Fat[b] => Twin'[Fat[b]] # 0
                      /\ Fat[b] = 0 /\ Chained(Twin'[b]) /\ ~Back(b, Twin'[b]) =>
                           /\ Twin'[Twin'[b]] # 0
                           /\ Fat[Twin'[b]] = 0 => b < Twin'[b]
    BY <1>8 DEF LinksOk
  <2>1. ASSUME Chained(Fat[b]), ~Back(b, Fat[b])
        PROVE  Fat[Fat[b]] # 0 /\ (Twin'[b] = Fat[b] => Twin'[Fat[b]] # 0)
    <3>1. Fat[Fat[b]] # 0 /\ (Twin[b] = Fat[b] => Twin[Fat[b]] # 0)
      BY <1>2, <2>1 DEF LinksOk
    <3>2. CASE b \in new
      BY <1>11, <2>1, <3>1, <3>2
    <3>3. CASE b \notin new
      BY <1>8, <1>9, <2>1, <3>1, <3>3 DEF Chained
    <3> QED
      BY <3>2, <3>3
  <2>2. ASSUME Fat[b] = 0, Chained(Twin'[b]), ~Back(b, Twin'[b])
        PROVE  Twin'[Twin'[b]] # 0 /\ (Fat[Twin'[b]] = 0 => b < Twin'[b])
    <3>1. Twin'[b] = Twin[b]
      BY <1>8, <1>9, <2>2
    <3>2. Twin[Twin[b]] # 0 /\ (Fat[Twin[b]] = 0 => b < Twin[b])
      BY <1>2, <2>2, <3>1 DEF LinksOk
    <3> QED
      BY <1>8, <1>9, <2>2, <3>1, <3>2 DEF Chained
  <2> QED
    BY <2>1, <2>2
<1>13. \A b \in own : b \in Clusters /\ Fat'[b] = Fat[b] /\ Twin'[b] = Twin[b]
  BY <1>5, <1>8, <1>9, <1>10
<1>14. Directory' = Directory /\ Pages' = Pages /\ LastPage' = LastPage
  BY <1>8, SameDirectory
<1>15. Slots' = Slots
  BY <1>1, <1>14, SameSlots DEF Used
<1>16. NamesOk'
  <2>1. call.kind = "save" => \A p \in EntriesOf(Slots) : Slots[p].name # call.name
    BY <1>1, <1>2 DEF NamesOk
  <2> QED
    BY <1>1, <1>2, <1>8, <1>14, <1>15, <2>1, SameNames
<1>17. NoNoise'
  BY <1>1, <1>2, <1>15, SameNoise
<1>18. Filed(Fat', Twin', Slots') /\ Owned(Fat', Slots') = own
  BY <1>2, <1>5, <1>8, <1>13, <1>15, SameFiles DEF own
<1>19. Fenced(Fat', Twin', own \union H, H, rest)
  <2>1. ASSUME NEW b \in Clusters, Fat[b] = 0, Twin'[b] \in own \union H
        PROVE  Back(b, Twin'[b]) \/ (b \in rest /\ Twin'[b] \in H)
    <3>1. b \notin new /\ Twin'[b] = Twin[b]
      BY <1>8, <1>9, <2>1
    <3>2. Back(b, Twin[b]) \/ (b \in low /\ Twin[b] \in H)
      BY <1>5, <2>1, <3>1 DEF Fenced
    <3>3. ASSUME b \in low PROVE b \in rest
      <4>1. PICK k \in 1..left : b = chain[k]
        BY <3>3 DEF low
      <4>2. k \notin Run
        BY <3>1, <4>1 DEF new
      <4>3. ~(k > left - size)
        BY <1>6, <4>1, <4>2
      <4>4. left \in Nat /\ size \in Nat /\ k \in Nat /\ k > 0
        BY <1>6, <4>1
      <4>5. left # size /\ k \in 1..left - size
        BY <4>3, <4>4
      <4> QED
        BY <4>1, <4>5
    <3> QED
      BY <3>1, <3>2, <3>3
  <2> QED
    BY <1>5, <1>8, <2>1 DEF Fenced
<1>20. FilesOk(H)'
  <2>1. Mid' = rest
    BY <1>1 DEF Mid
  <2> QED
    BY <1>5, <1>14, <1>18, <1>19, <2>1 DEF FilesOk
<1>21. H = ToSet(chain) /\ \A k : LinkOf(k)' = LinkOf(k)
  BY <1>1, <1>4 DEF Linking, LinkOf
<1>22. ASSUME NEW k \in 1..n, k > left \/ k \in Run
       PROVE  Fat[chain[k]] = LinkOf(k) /\ Twin'[chain[k]] = LinkOf(k)
  <2>1. CASE k \in Run
    BY <1>6, <1>7, <1>8, <2>1
  <2>2. CASE k \notin Run
    <3>1. chain[k] \in Clusters /\ chain[k] \notin new
      BY <1>6, <2>2 DEF new
    <3> QED
      BY <1>7, <1>8, <1>22, <2>2, <3>1
  <2> QED
    BY <2>1, <2>2
<1>23. left \in Nat /\ size \in Nat /\ size <= left /\ size # 0 /\ left <= n /\ n # 0
  BY <1>6
<1>24. ASSUME left # size PROVE Linking(H)'
  <2>1. left - size \in 1..n /\ \A k \in 1..left - size : k \in 1..left /\ k \notin Run
    <3>1. left - size \in 1..n /\ \A k \in 1..left - size : k \in 1..left /\ ~(k > left - size)
      BY <1>23, <1>24
    <3> QED
      BY <1>6, <3>1
  <2>2. \A k \in 1..n : k > left - size => k > left \/ k \in Run
    <3>1. \A k \in 1..n : k > left \/ k \in 1..left
      BY <1>23
    <3> QED
      BY <1>6, <3>1
  <2>3. \A k \in 1..n : k > left' => Fat'[chain[k]] = LinkOf(k) /\ Twin'[chain[k]] = LinkOf(k)
    BY <1>1, <1>8, <1>22, <1>24, <2>2
  <2>4. \A k \in 1..left' : Fat'[chain[k]] = 0
    BY <1>1, <1>7, <1>8, <1>24, <2>1
  <2> QED
    BY <1>1, <1>6, <1>21, <1>24, <2>1, <2>3, <2>4 DEF Linking
<1>25. ASSUME left = size PROVE Made(H)'
  <2>1. \A k \in 1..n : k > left \/ k \in Run
    <3>1. \A k \in 1..n : k > left \/ (k \in 1..left /\ k > left - size)
      BY <1>23, <1>25
    <3> QED
      BY <1>6, <3>1
  <2>2. \A k \in 1..n : Fat'[chain[k]] = LinkOf(k) /\ Twin'[chain[k]] = LinkOf(k)
    BY <1>8, <1>22, <2>1
  <2>3. left' + 1 \in 1..n
    BY <1>1, <1>23, <1>25
  <2> QED
    BY <1>1, <1>6, <1>21, <1>25, <2>2, <2>3 DEF Made, Adding
<1>26. CardOk'
  <2>1. Work(H)'
    BY <1>1, <1>24, <1>25 DEF Work, Making
  <2> QED
    BY <1>12, <1>16, <1>20, <2>1 DEF CardOk
<1>27. TypeOK'
  <2>1. fat' \in [1..2 -> [Clusters -> 0..Eoc]]
    BY <1>8 DEF TablesTyped, Tables
  <2>2. left' \in 0..MaxSize
    <3>1. left \in 0..MaxSize /\ MaxSize \in Nat
      BY DEF FatInv, TypeOK, GeometryAssumption
    <3> QED
      BY <1>1, <1>23, <3>1
  <2>3. at' \in Nat /\ (pc' = "data" => at' = chain'[left' + 1])
    <3>1. at \in Nat
      BY DEF FatInv, TypeOK
    <3>2. 1 \in 1..n
      BY <1>23
    <3>3. chain[1] \in Nat
      BY <1>6, <3>2, Numbers
    <3>4. 0 + 1 = 1
      OBVIOUS
    <3> QED
      BY <1>1, <3>1, <3>3, <3>4
  <2>4. Len(chain') = call'.size
    BY <1>1 DEF FatInv, TypeOK
  <2> QED
    BY <1>1, <2>1, <2>2, <2>3, <2>4 DEF FatInv, TypeOK
<1>28. CallOk' /\ EndsOk'
  BY <1>1 DEF FatInv, CallOk, EndsOk, Stepping, Making
<1>29. Spared
  BY <1>1, <1>8, <1>15, SparedBy
<1> QED
  BY <1>1, <1>17, <1>26, <1>27, <1>28, <1>29, Collect

\* The chain of a call that has linked it.
LEMMA MadeIs ==
  ASSUME GeometryAssumption, FatInv, pc \in Making, NEW H, Made(H)
  PROVE  \E n \in Nat :
         /\ Len(chain) = n /\ n = call.size /\ chain \in Seq(Clusters) /\ DOMAIN chain = 1..n
         /\ n \in 1..MaxSize
         /\ H = {chain[k] : k \in 1..n} /\ (\A k \in 1..n : chain[k] \in Clusters)
         /\ \A i, j \in 1..n : chain[i] = chain[j] => i = j
         /\ \A i, j \in 1..n : i < j => chain[i] < chain[j]
         /\ \A k \in 1..n : Fat[chain[k]] = (IF k < n THEN chain[k + 1] ELSE Eoc)
         /\ \A b \in H : Twin[b] = Fat[b] /\ Fat[b] # 0
         /\ H = ToSet(chain)
<1> DEFINE len == Len(chain)
<1>1. chain \in Seq(Clusters) /\ len \in Nat /\ DOMAIN chain = 1..len
      /\ (\A k \in 1..len : chain[k] \in Clusters)
  BY DEF FatInv, TypeOK
<1>2. (\A i, j \in 1..len : i < j => chain[i] < chain[j]) /\ len = call.size /\ len \in 1..MaxSize
  BY <1>1 DEF FatInv, CallOk, Stepping, Making
<1>3. H = {chain[k] : k \in 1..len} /\ H = ToSet(chain)
  BY <1>1 DEF Made, ToSet
<1>4. \A k \in 1..len : Fat[chain[k]] = (IF k < len THEN chain[k + 1] ELSE Eoc) /\ Twin[chain[k]] = Fat[chain[k]]
  BY <1>1 DEF Made, LinkOf
<1> HIDE DEF len
<1>5. ASSUME NEW i \in 1..len, NEW j \in 1..len, chain[i] = chain[j] PROVE i = j
  <2>1. i < j \/ j < i \/ i = j
    BY <1>1
  <2>2. chain[i] \in Nat
    BY <1>1, Numbers
  <2>3. ~(chain[i] < chain[j]) /\ ~(chain[j] < chain[i])
    BY <1>5, <2>2
  <2> QED
    BY <1>2, <2>1, <2>3
<1>6. ASSUME NEW k \in 1..len PROVE Fat[chain[k]] # 0
  <2>1. k < len => k + 1 \in 1..len
    BY <1>1
  <2>2. Fat[chain[k]] \in Clusters \/ Fat[chain[k]] = Eoc
    BY <1>1, <1>4, <2>1
  <2> QED
    BY <2>2, Numbers
<1>7. \A b \in H : Twin[b] = Fat[b] /\ Fat[b] # 0
  BY <1>3, <1>4, <1>6
<1> QED
  BY <1>1, <1>2, <1>3, <1>4, <1>5, <1>7 DEF len

LEMMA WriteDataKeeps ==
  ASSUME GeometryAssumption, FatInv, WriteData
  PROVE  FatInv' /\ Spared
<1> DEFINE own == Owned(Fat, Slots)
<1>1. /\ pc = "data" /\ fat' = fat /\ calls' = calls /\ scars' = scars
      /\ body' = [body EXCEPT ![at] = [version |-> call.version, part |-> left + 1]]
      /\ page' = [page EXCEPT ![at] = NoisePage]
  BY DEF WriteData
<1>2. /\ Formatted /\ NoNoise /\ LinksOk(Fat, Twin) /\ NamesOk
      /\ TablesTyped /\ PagesTyped /\ Fat \in Tables /\ Twin \in Tables
  BY <1>1, InCall
<1>3. PICK H \in SUBSET Clusters : FilesOk(H) /\ Work(H)
  BY <1>1, InCall
<1>4. Made(H) /\ Mid = {}
  BY <1>1, <1>3 DEF Work, Making, Mid
<1>5. PICK n \in Nat :
         /\ Len(chain) = n /\ n = call.size /\ chain \in Seq(Clusters) /\ DOMAIN chain = 1..n
         /\ n \in 1..MaxSize
         /\ H = {chain[k] : k \in 1..n} /\ (\A k \in 1..n : chain[k] \in Clusters)
         /\ \A i, j \in 1..n : chain[i] = chain[j] => i = j
         /\ \A i, j \in 1..n : i < j => chain[i] < chain[j]
         /\ \A k \in 1..n : Fat[chain[k]] = (IF k < n THEN chain[k + 1] ELSE Eoc)
         /\ \A b \in H : Twin[b] = Fat[b] /\ Fat[b] # 0
         /\ H = ToSet(chain)
  BY <1>1, <1>4, MadeIs DEF Making
<1>6. left + 1 \in 1..n /\ left \in Nat /\ at = chain[left + 1] /\ at \in Clusters /\ at \in H
  <2>1. left \in 0..MaxSize /\ MaxSize \in Nat /\ at = chain[left + 1]
    BY <1>1 DEF FatInv, TypeOK, GeometryAssumption
  <2>2. left + 1 \in 1..n
    BY <1>1, <1>4, <1>5 DEF Made
  <2> QED
    BY <1>5, <2>1, <2>2
<1>7. FilesOk(H) /\ (own \union H) \cap Pages = {}
  BY <1>3 DEF FilesOk
<1>8. /\ PagesTyped' /\ page'[at] = NoisePage
      /\ \A c \in Clusters : c # at => page'[c] = page[c]
  <2>1. NoisePage \in [1..PerPage -> Slot]
    <3>1. 0 \in 0..Eoc /\ 0 \in 0..MaxSize
      BY Numbers DEF GeometryAssumption
    <3> QED
      BY <3>1 DEF NoisePage, Slot, SlotKinds, Blank
  <2> HIDE DEF NoisePage
  <2> QED
    BY <1>1, <1>2, <1>6, <2>1 DEF PagesTyped
<1>9. Fat' = Fat /\ Twin' = Twin
  BY <1>1 DEF Fat, Twin
<1>10. Directory' = Directory /\ Pages' = Pages /\ LastPage' = LastPage
  BY <1>9, SameDirectory
<1>11. \A b \in Pages : page'[b] = page[b]
  <2>1. Pages \subseteq Clusters
    BY <1>2, SlotsHere
  <2> QED
    BY <1>6, <1>7, <1>8, <2>1
\* The table leads on down the chain.
<1>12. left + 1 # n => /\ Chained(Fat[at]) /\ Fat[at] \notin {at, chain[1]}
                       /\ Fat[at] = chain[(left + 1) + 1] /\ (left + 1) + 1 \in 1..n
  <2> SUFFICES ASSUME left + 1 # n
               PROVE  /\ Chained(Fat[at]) /\ Fat[at] \notin {at, chain[1]}
                      /\ Fat[at] = chain[(left + 1) + 1] /\ (left + 1) + 1 \in 1..n
    OBVIOUS
  <2>1. left + 1 < n /\ (left + 1) + 1 \in 1..n /\ 1 \in 1..n /\ (left + 1) + 1 # 1 /\ (left + 1) + 1 # left + 1
    BY <1>6
  <2>2. Fat[at] = chain[(left + 1) + 1]
    BY <1>5, <1>6, <2>1
  <2> QED
    BY <1>5, <1>6, <2>1, <2>2 DEF Chained
<1>13. \/ /\ left + 1 = n /\ pc' = "entry" /\ left' = 0 /\ at' = Root
          /\ call' = call /\ batch' = batch /\ chain' = chain
       \/ /\ left + 1 # n /\ at' = Fat[at] /\ left' = left + 1 /\ pc' = pc
          /\ call' = call /\ batch' = batch /\ chain' = chain
  <2>1. CASE left + 1 = n
    BY <1>5, <2>1 DEF WriteData
  <2>2. CASE left + 1 # n
    <3>1. ~(fat[1][at] \in {at, chain[1]} \/ ~Chained(fat[1][at])) /\ left + 1 # call.size
      BY <1>5, <1>12, <2>2 DEF Fat
    <3> QED
      BY <2>2, <3>1 DEF WriteData, Fat
  <2> QED
    BY <2>1, <2>2
<1>14. pc' \in {"data", "entry"} /\ call' = call /\ batch' = batch /\ chain' = chain
  BY <1>1, <1>13
<1>15. Slots' = Slots
  BY <1>1, <1>10, <1>11, <1>14, SameSlots DEF Used
<1>16. NamesOk'
  <2>1. call.kind = "save" => \A p \in EntriesOf(Slots) : Slots[p].name # call.name
    BY <1>1, <1>2 DEF NamesOk
  <2> QED
    BY <1>2, <1>9, <1>10, <1>11, <1>14, <1>15, <2>1, SameNames
<1>17. NoNoise'
  BY <1>1, <1>2, <1>15, SameNoise
<1>18. FilesOk(H)'
  <2>1. Mid' = {}
    BY <1>14 DEF Mid
  <2> QED
    BY <1>4, <1>7, <1>9, <1>10, <1>15, <2>1 DEF FilesOk
<1>19. Made(H)'
  <2>1. pc' = "data" => left' + 1 \in DOMAIN chain'
    BY <1>1, <1>5, <1>12, <1>13
  <2>2. LinkOf(1) = LinkOf(1) /\ \A k : LinkOf(k)' = LinkOf(k)
    BY <1>14 DEF LinkOf
  <2> QED
    BY <1>4, <1>9, <1>14, <2>1, <2>2 DEF Made, Adding
<1>20. CardOk'
  <2>1. Work(H)'
    BY <1>14, <1>19 DEF Work, Making
  <2> QED
    BY <1>2, <1>9, <1>16, <1>18, <2>1 DEF CardOk
<1>21. EndsOk'
  <2>1. \A i \in 1..PerPage : NoisePage[i].kind = "noise"
    BY DEF NoisePage, Blank
  <2> HIDE DEF NoisePage
  <2>2. EndsOk
    BY DEF FatInv
  <2>3. ASSUME NEW c \in Clusters, NEW i \in 1..PerPage, NEW j \in 1..PerPage, i < j, page'[c][i].kind = "end"
        PROVE  page'[c][j].kind = "end"
    BY <1>8, <2>1, <2>2, <2>3 DEF EndsOk
  <2> QED
    BY <2>3 DEF EndsOk
<1>22. TypeOK'
  <2>1. left' \in 0..MaxSize /\ left + 1 \in 0..MaxSize
    <3>1. left \in Nat /\ left + 1 \in 1..n /\ n \in 1..MaxSize /\ MaxSize \in Nat
      BY <1>5, <1>6 DEF GeometryAssumption
    <3>2. left + 1 \in 0..MaxSize /\ 0 \in 0..MaxSize
      BY <3>1
    <3> QED
      BY <1>13, <3>2
  <2>2. at' \in Nat /\ (pc' = "data" => at' = chain'[left' + 1])
    <3>1. Root \in Nat /\ \A c \in Clusters : c \in Nat
      BY Numbers
    <3>2. CASE left + 1 = n
      BY <1>13, <3>1, <3>2
    <3>3. CASE left + 1 # n
      BY <1>5, <1>12, <1>13, <3>1, <3>3 DEF Chained
    <3> QED
      BY <3>2, <3>3
  <2>3. body' \in [Clusters -> Piece]
    <3> DEFINE new == [version |-> call.version, part |-> left + 1]
    <3>1. new \in Piece
      <4>1. call.version \in Versions \union {0}
        BY DEF FatInv, TypeOK, Calls
      <4> QED
        BY <2>1, <4>1 DEF Piece
    <3>2. body \in [Clusters -> Piece]
      BY DEF FatInv, TypeOK
    <3> HIDE DEF new
    <3>3. body' = [body EXCEPT ![at] = new]
      BY <1>1 DEF new
    <3> QED
      BY <1>6, <3>1, <3>2, <3>3
  <2>4. Len(chain') = call'.size
    BY <1>5, <1>14
  <2> QED
    BY <1>1, <1>8, <1>14, <2>1, <2>2, <2>3, <2>4 DEF FatInv, TypeOK, PagesTyped
<1>23. CallOk'
  BY <1>1, <1>14 DEF FatInv, CallOk, Stepping, Making
<1>24. Spared
  <2>1. \A b \in own : b \in Clusters /\ b # at
    <3>1. Filed(Fat, Twin, Slots) /\ H \cap own = {}
      BY <1>7 DEF FilesOk
    <3> QED
      BY <1>2, <1>6, <3>1, OwnedIs
  <2>2. body \in [Clusters -> Piece]
    BY DEF FatInv, TypeOK
  <2>3. \A b \in own : Fat'[b] = Fat[b] /\ body'[b] = body[b]
    BY <1>1, <1>9, <2>1, <2>2
  <2> QED
    BY <1>15, <2>3, SparedBy
<1> QED
  BY <1>14, <1>17, <1>20, <1>21, <1>22, <1>23, <1>24, Collect

\* The entry is written last: what the call held is the new file.
LEMMA WriteEntryKeeps ==
  ASSUME GeometryAssumption, FatInv, WriteEntry
  PROVE  /\ FatInv' /\ Chained(chain[1]) /\ Walk(Fat, chain[1]) = chain
         /\ \E p \in EntriesOf(Slots') :
              /\ EntriesOf(Slots') = EntriesOf(Slots) \union {p} /\ p \notin EntriesOf(Slots)
              /\ Slots'[p] = [kind |-> "entry", name |-> call.name, first |-> chain[1], size |-> call.size]
              /\ \A q \in EntriesOf(Slots) : Slots'[q] = Slots[q]
<1> DEFINE p == First(Spare)
           e == [kind |-> "entry", name |-> call.name, first |-> chain[1], size |-> call.size]
           own == Owned(Fat, Slots)
<1>1. /\ pc = "entry" /\ Spare # {} /\ page' = WithSlot(p, e)
      /\ fat' = fat /\ body' = body /\ calls' = calls /\ scars' = scars
      /\ \/ /\ call.kind = "test" /\ call' = [call EXCEPT !.kind = "delete"] /\ pc' = "remove"
            /\ at' = 0 /\ chain' = <<>> /\ batch' = batch /\ left' = left
         \/ /\ call.kind # "test" /\ pc' = "idle" /\ call' = NoCall
            /\ at' = 0 /\ batch' = {} /\ chain' = <<>> /\ left' = 0
  BY DEF WriteEntry, Finish
<1>2. /\ Formatted /\ NoNoise /\ LinksOk(Fat, Twin) /\ NamesOk /\ EndsOk
      /\ TablesTyped /\ PagesTyped /\ Fat \in Tables /\ Twin \in Tables
  BY <1>1, InCall DEF FatInv
<1>3. PICK H \in SUBSET Clusters : FilesOk(H) /\ Work(H)
  BY <1>1, InCall
<1>4. Made(H) /\ Mid = {}
  BY <1>1, <1>3 DEF Work, Making, Mid
<1>5. PICK n \in Nat :
         /\ Len(chain) = n /\ n = call.size /\ chain \in Seq(Clusters) /\ DOMAIN chain = 1..n
         /\ n \in 1..MaxSize
         /\ H = {chain[k] : k \in 1..n} /\ (\A k \in 1..n : chain[k] \in Clusters)
         /\ \A i, j \in 1..n : chain[i] = chain[j] => i = j
         /\ \A i, j \in 1..n : i < j => chain[i] < chain[j]
         /\ \A k \in 1..n : Fat[chain[k]] = (IF k < n THEN chain[k + 1] ELSE Eoc)
         /\ \A b \in H : Twin[b] = Fat[b] /\ Fat[b] # 0
         /\ H = ToSet(chain)
  BY <1>1, <1>4, MadeIs DEF Making
<1>6. /\ Filed(Fat, Twin, Slots) /\ H \cap own = {} /\ (own \union H) \cap Pages = {}
      /\ Fenced(Fat, Twin, own \union H, H, {})
  BY <1>3, <1>4 DEF FilesOk
<1>7. call.kind \in {"save", "test"} /\ call.name \in Names /\ call \in Calls
      /\ (call.kind = "test" => call.name = TestName)
  BY <1>1 DEF FatInv, CallOk, Stepping, Making, TypeOK
\* The chain is the walk from its head.
<1>8. Walk(Fat, chain[1]) = chain /\ 1 \in 1..n /\ chain[1] \in Clusters /\ Fat[chain[n]] = Eoc /\ n \in 1..n
  <2>1. 1 \in 1..n /\ n \in 1..n /\ chain[1] \in Clusters
    BY <1>5
  <2>2. Fat[chain[n]] = Eoc
    BY <1>5, <2>1
  <2>3. ASSUME NEW k \in 1..n - 1 PROVE chain[k + 1] = Fat[chain[k]]
    <3>1. k \in 1..n /\ k < n
      BY <1>5, <2>3
    <3> QED
      BY <1>5, <3>1
  <2>4. Ended(Fat, chain)
    BY <1>5, <2>2, Numbers DEF Ended, NextOf
  <2>5. chain # <<>>
    BY <1>5, <2>1
  <2>6. IsWalk(Fat, chain[1], chain)
    BY <1>5, <2>3, <2>4, <2>5 DEF IsWalk, IsWay
  <2> QED
    BY <2>1, <2>2, <2>6, WalkOne
<1>9. FileOk(Fat, Twin, e) /\ On(Fat, e.first) = H /\ e \in Slot /\ e.kind = "entry" /\ e.name = call.name
  <2>1. On(Fat, chain[1]) = H
    BY <1>5, <1>8 DEF On
  <2>2. ASSUME NEW b \in H PROVE Twin[b] = Fat[b] /\ Rises(Fat, b)
    <3>1. PICK k \in 1..n : b = chain[k]
      BY <1>5
    <3>2. CASE k < n
      <4>1. k + 1 \in 1..n /\ k < k + 1
        BY <3>2
      <4> QED
        BY <1>5, <3>1, <3>2, <4>1 DEF Rises
    <3>3. CASE ~(k < n)
      BY <1>5, <3>1, <3>3, Numbers DEF Rises
    <3> QED
      BY <3>2, <3>3
  <2>3. Whole(Fat, Walk(Fat, chain[1]), n)
    BY <1>5, <1>8 DEF Whole
  <2>4. e.first = chain[1] /\ e.size = n /\ e.kind = "entry" /\ e.name = call.name /\ Chained(chain[1])
    BY <1>5, <1>8 DEF Chained
  <2>5. e \in Slot
    <3>1. chain[1] \in 0..Eoc
      BY <1>8, Numbers
    <3>2. call.size \in 0..MaxSize
      BY <1>5 DEF GeometryAssumption
    <3> QED
      BY <1>7, <3>1, <3>2 DEF Slot, SlotKinds
  <2> HIDE DEF e
  <2>6. FileOk(Fat, Twin, e)
    BY <1>5, <2>1, <2>2, <2>3, <2>4 DEF FileOk
  <2> QED
    BY <2>1, <2>4, <2>5, <2>6
<1>10. /\ p \in DOMAIN Slots /\ Slots[p].kind \in {"end", "deleted"}
       /\ \A q \in Spare : q = p \/ Before(p, q)
  <2>1. Spare \subseteq DOMAIN Slots /\ DOMAIN Slots \subseteq Nat \X Nat
    BY <1>2, SlotsHere DEF Spare
  <2>2. p \in Spare /\ \A q \in Spare : q = p \/ Before(p, q)
    BY <1>1, <2>1, FirstIs
  <2> QED
    BY <2>1, <2>2 DEF Spare
<1> HIDE DEF p, e
<1>11. /\ PagesTyped' /\ Directory' = Directory /\ Pages' = Pages /\ LastPage' = LastPage
       /\ DOMAIN Slots' = DOMAIN Slots /\ Slots'[p] = e
       /\ \A q \in DOMAIN Slots : q # p => Slots'[q] = Slots[q]
       /\ \A c \in Clusters : c # Directory[p[1]] => page'[c] = page[c]
       /\ \A i \in 1..PerPage : page'[Directory[p[1]]][i] =
                                   IF i = p[2] THEN e ELSE page[Directory[p[1]]][i]
  <2>1. Used(Directory, pc') = Used(Directory, pc)
    BY <1>1 DEF Used
  <2> QED
    BY <1>1, <1>2, <1>9, <1>10, <2>1, SlotChanged
<1>12. Fat' = Fat /\ Twin' = Twin
  BY <1>1 DEF Fat, Twin
<1>13. /\ EntriesOf(Slots') = EntriesOf(Slots) \union {p} /\ p \notin EntriesOf(Slots)
       /\ \A q \in EntriesOf(Slots) : Slots'[q] = Slots[q]
  BY <1>9, <1>10, <1>11 DEF EntriesOf
<1>14. Filed(Fat', Twin', Slots')
  <2> DEFINE sm == Slots'
             sl == Slots
  <2>1. /\ EntriesOf(sm) = EntriesOf(sl) \union {p} /\ sm[p] = e
        /\ \A q \in EntriesOf(sl) : sm[q] = sl[q] /\ q # p
    BY <1>11, <1>13
  <2>2. \A q \in EntriesOf(sl) : FileOk(Fat, Twin, sl[q]) /\ On(Fat, sl[q].first) \subseteq own
    BY <1>6 DEF Filed, Owned
  <2>3. \A q, r \in EntriesOf(sl) : q # r => On(Fat, sl[q].first) \cap On(Fat, sl[r].first) = {}
    BY <1>6 DEF Filed
  <2> HIDE DEF sm, sl, own
  <2>4. \A q \in EntriesOf(sm) : FileOk(Fat, Twin, sm[q])
    BY <1>9, <2>1, <2>2
  <2>5. ASSUME NEW q \in EntriesOf(sl)
        PROVE  On(Fat, sm[q].first) \cap On(Fat, sm[p].first) = {}
    BY <1>6, <1>9, <2>1, <2>2
  <2>6. \A q, r \in EntriesOf(sm) : q # r => On(Fat, sm[q].first) \cap On(Fat, sm[r].first) = {}
    BY <2>1, <2>3, <2>5
  <2> QED
    BY <1>12, <2>4, <2>6 DEF Filed, sm
<1>15. Owned(Fat', Slots') = own \union H
  <2>1. Owned(Fat', Slots') = UNION {On(Fat, Slots'[q].first) : q \in EntriesOf(Slots) \union {p}}
    BY <1>12, <1>13 DEF Owned
  <2>2. On(Fat, Slots'[p].first) = H
    BY <1>9, <1>11
  <2>3. \A q \in EntriesOf(Slots) : On(Fat, Slots'[q].first) = On(Fat, Slots[q].first)
    BY <1>13
  <2>4. own = UNION {On(Fat, Slots[q].first) : q \in EntriesOf(Slots)}
    BY DEF Owned
  <2> HIDE DEF own
  <2> QED
    BY <2>1, <2>2, <2>3, <2>4
<1>16. FilesOk({})'
  <2>1. Fenced(Fat', Twin', own \union H, {}, {})
    BY <1>6, <1>12 DEF Fenced
  <2>2. Mid' = {}
    BY <1>1 DEF Mid
  <2>3. (own \union H) \union {} = own \union H
    OBVIOUS
  <2> HIDE DEF own
  <2> QED
    BY <1>6, <1>11, <1>14, <1>15, <2>1, <2>2, <2>3 DEF FilesOk
<1>17. EndsOk'
  <2> DEFINE a == Directory[p[1]]
  <2>1. /\ DOMAIN Slots = (1..Used(Directory, pc)) \X (1..PerPage)
        /\ p[1] \in 1..Used(Directory, pc) /\ p[2] \in 1..PerPage
        /\ \A q \in DOMAIN Slots : Slots[q] = page[Directory[q[1]]][q[2]]
        /\ Used(Directory, pc) \in Nat /\ PerPage \in Nat /\ a \in Clusters
    <3>1. Used(Directory, pc) \in Nat /\ PerPage \in Nat
      BY <1>2, SlotsHere DEF Used, GeometryAssumption
    <3>2. /\ DOMAIN Slots = (1..Used(Directory, pc)) \X (1..PerPage)
          /\ \A q \in DOMAIN Slots : Slots[q] = page[Directory[q[1]]][q[2]]
          /\ a \in Clusters
      BY <1>2, <1>10, SlotsHere
    <3> QED
      BY <1>10, <3>1, <3>2
  <2>2. ASSUME NEW i \in 1..PerPage, page[a][i].kind = "end", i < p[2] PROVE FALSE
    <3> DEFINE q == <<p[1], i>>
    <3>1. q \in DOMAIN Slots /\ q[1] = p[1] /\ q[2] = i
      BY <2>1, <2>2
    <3>2. Slots[q].kind = "end"
      BY <2>1, <2>2, <3>1
    <3>3. q \in Spare
      BY <3>1, <3>2 DEF Spare
    <3>4. p[1] \in Nat /\ p[2] \in Nat /\ i \in Nat
      BY <2>1
    <3> QED
      BY <1>10, <2>2, <3>1, <3>3, <3>4 DEF Before
  <2>3. ASSUME NEW i \in 1..PerPage, NEW j \in 1..PerPage, i < j, page'[a][i].kind = "end"
        PROVE  page'[a][j].kind = "end"
    <3>1. i # p[2] /\ page[a][i].kind = "end"
      BY <1>9, <1>11, <2>3
    <3>2. page[a][j].kind = "end"
      BY <1>2, <2>1, <2>3, <3>1 DEF EndsOk
    <3>3. j # p[2]
      BY <2>2, <2>3, <3>1
    <3> QED
      BY <1>11, <3>2, <3>3
  <2>4. ASSUME NEW c \in Clusters, NEW i \in 1..PerPage, NEW j \in 1..PerPage, i < j, page'[c][i].kind = "end"
        PROVE  page'[c][j].kind = "end"
    <3>1. CASE c = a
      BY <2>3, <2>4, <3>1
    <3>2. CASE c # a
      BY <1>2, <1>11, <2>4, <3>2 DEF EndsOk
    <3> QED
      BY <3>1, <3>2
  <2> QED
    BY <2>4 DEF EndsOk
<1>18. NamesOk'
  <2>1. Fat'[LastPage'] = Eoc
    BY <1>2, <1>11, <1>12 DEF NamesOk
  <2>2. Pages \subseteq Clusters
    BY <1>2, SlotsHere
  <2>3. \A c \in Pages' : c # LastPage' => \A i \in 1..PerPage : page'[c][i].kind # "end"
    <3>1. ASSUME NEW c \in Pages, c # LastPage, NEW i \in 1..PerPage PROVE page'[c][i].kind # "end"
      <4>1. page[c][i].kind # "end"
        BY <1>2, <3>1 DEF NamesOk
      <4> QED
        BY <1>9, <1>11, <2>2, <4>1
    <3> QED
      BY <1>11, <3>1
  <2>4. \A r, q \in EntriesOf(Slots') : Slots'[r].name = Slots'[q].name /\ Slots'[r].name # TestName => r = q
    <3>1. \A q \in EntriesOf(Slots) : call.name # TestName => Slots[q].name # call.name
      BY <1>1, <1>2, <1>7 DEF NamesOk
    <3>2. \A r, q \in EntriesOf(Slots) : Slots[r].name = Slots[q].name /\ Slots[r].name # TestName => r = q
      BY <1>2 DEF NamesOk
    <3> QED
      BY <1>9, <1>11, <1>13, <3>1, <3>2
  <2>5. call'.kind # "save"
    BY <1>1, <1>7 DEF NoCall, Calls
  <2> QED
    BY <2>1, <2>3, <2>4, <2>5 DEF NamesOk
<1>19. NoNoise'
  BY <1>1, <1>2, <1>9, <1>11 DEF NoNoise
<1>20. CardOk'
  <2>1. Work({})'
    BY <1>1 DEF Work, Making
  <2> QED
    BY <1>2, <1>12, <1>16, <1>18, <2>1 DEF CardOk
<1>23. /\ pc' \in {"idle", "remove"} /\ at' = 0 /\ chain' = <<>> /\ (batch' = batch \/ batch' = {})
       /\ (left' = left \/ left' = 0)
       /\ fat' = fat /\ body' = body /\ calls' = calls /\ scars' = scars
       /\ pc = "entry"
  BY <1>1, Zenon
<1>21. TypeOK'
  <2>1. call' \in Calls /\ NoCall \in Calls
    <3>1. 0 \in 0..MaxSize
      BY DEF GeometryAssumption
    <3> QED
      BY <1>1, <1>7, <3>1 DEF Calls, NoCall
  <2>2. 0 \in 0..MaxSize /\ 0 \in Nat
    BY DEF GeometryAssumption
  <2> QED
    BY <1>11, <1>23, <2>1, <2>2 DEF FatInv, TypeOK, PagesTyped
<1>22. CallOk'
  <2>1. (call' = NoCall /\ pc' = "idle") \/ (call'.kind = "delete" /\ pc' = "remove")
    BY <1>1, <1>7 DEF Calls
  <2> QED
    BY <1>23, <2>1 DEF FatInv, CallOk, Stepping, Making, NoCall
<1>24. FatInv'
  BY <1>1, <1>17, <1>19, <1>20, <1>21, <1>22, Collect
<1>25. Chained(chain[1]) /\ p \in EntriesOf(Slots')
  BY <1>8, <1>13 DEF Chained
<1> QED
  BY <1>8, <1>11, <1>13, <1>24, <1>25 DEF e

\* Writing one entry of one copy of the table.
LEMMA FirstLink ==
  ASSUME GeometryAssumption, TablesTyped, NEW c \in Clusters, NEW x \in 0..Eoc,
         fat' = [fat EXCEPT ![1][c] = x]
  PROVE  /\ TablesTyped' /\ Twin' = Twin /\ Fat'[c] = x
         /\ \A b \in Clusters : b # c => Fat'[b] = Fat[b]
<1> DEFINE row == [fat[1] EXCEPT ![c] = x]
<1>1. row \in Tables /\ row[c] = x /\ \A b \in Clusters : b # c => row[b] = fat[1][b]
  BY DEF TablesTyped, Tables
<1>2. fat' = [fat EXCEPT ![1] = row]
  OBVIOUS
<1> HIDE DEF row
<1>3. fat' \in [1..2 -> Tables] /\ fat'[1] = row /\ fat'[2] = fat[2]
  <2>1. fat \in [1..2 -> Tables] /\ 1 \in 1..2 /\ 2 \in 1..2 /\ 1 # 2
    BY DEF TablesTyped
  <2> QED
    BY <1>1, <1>2, <2>1
<1>4. Fat' = fat'[1] /\ Twin' = fat'[2] /\ Fat = fat[1] /\ Twin = fat[2]
  BY DEF Fat, Twin
<1> QED
  BY <1>1, <1>3, <1>4 DEF TablesTyped

\* One link set in the second copy changes nothing else.
LEMMA SecondLink ==
  ASSUME GeometryAssumption, TablesTyped, NEW c \in Clusters, NEW x \in 0..Eoc,
         fat' = [fat EXCEPT ![2][c] = x]
  PROVE  /\ TablesTyped' /\ Fat' = Fat /\ Twin'[c] = x
         /\ \A b \in Clusters : b # c => Twin'[b] = Twin[b]
<1> DEFINE row == [fat[2] EXCEPT ![c] = x]
<1>1. row \in Tables /\ row[c] = x /\ \A b \in Clusters : b # c => row[b] = fat[2][b]
  BY DEF TablesTyped, Tables
<1>2. fat' = [fat EXCEPT ![2] = row]
  OBVIOUS
<1> HIDE DEF row
<1>3. fat' \in [1..2 -> Tables] /\ fat'[2] = row /\ fat'[1] = fat[1]
  <2>1. fat \in [1..2 -> Tables] /\ 1 \in 1..2 /\ 2 \in 1..2 /\ 1 # 2
    BY DEF TablesTyped
  <2> QED
    BY <1>1, <1>2, <2>1
<1>4. Fat' = fat'[1] /\ Twin' = fat'[2] /\ Fat = fat[1] /\ Twin = fat[2]
  BY DEF Fat, Twin
<1> QED
  BY <1>1, <1>3, <1>4 DEF TablesTyped

\* A page is asked for where the directory has no slot to spare: all of its
\* pages are in use, and what the call changes is no cluster of a file's.
LEMMA ExtendKeeps ==
  ASSUME GeometryAssumption, FatInv, Extend
  PROVE  FatInv' /\ Spared
<1> DEFINE own == Owned(Fat, Slots)
           x == NextFree(LastPage + 1)
<1>1. /\ pc = "entry" /\ Spare = {} /\ page' = page /\ body' = body /\ calls' = calls /\ scars' = scars
  BY DEF Extend
<1>2. /\ Formatted /\ NoNoise /\ LinksOk(Fat, Twin) /\ NamesOk
      /\ TablesTyped /\ PagesTyped /\ Fat \in Tables /\ Twin \in Tables
  BY <1>1, InCall
<1>3. ASSUME FreeClusters = {} PROVE FatInv' /\ Spared
  <2>1. /\ pc' = "idle" /\ call' = NoCall /\ fat' = fat
        /\ at' = 0 /\ batch' = {} /\ chain' = <<>> /\ left' = 0
    BY <1>3 DEF Extend, Finish
  <2>2. NoNoise' /\ CardOk'
    <3>1. UNCHANGED disk
      BY <1>1, <2>1 DEF disk
    <3> QED
      BY <1>1, <1>2, <2>1, <3>1, Rested DEF Adding, NoCall
  <2>3. TypeOK'
    <3>1. 0 \in 0..MaxSize
      BY DEF GeometryAssumption
    <3> QED
      BY <1>1, <2>1, <3>1 DEF FatInv, TypeOK, NoCall, Calls
  <2>4. CallOk' /\ EndsOk'
    BY <1>1, <2>1 DEF FatInv, CallOk, EndsOk, Stepping, Making, NoCall
  <2>5. Spared
    <3>1. UNCHANGED disk
      BY <1>1, <2>1 DEF disk
    <3> QED
      BY <1>1, <2>1, <3>1, Untouched DEF Adding
  <2> QED
    BY <2>1, <2>2, <2>3, <2>4, <2>5, Collect
<1>4. ASSUME FreeClusters # {} PROVE FatInv' /\ Spared
  <2>1. /\ at' = x /\ fat' = [fat EXCEPT ![1][x] = Eoc] /\ pc' = "extmirror"
        /\ call' = call /\ batch' = batch /\ chain' = chain /\ left' = left
    BY <1>4 DEF Extend
  <2>2. x \in Clusters /\ Fat[x] = 0
    <3> DEFINE F == FreeClusters
               above == {c \in F : c >= LastPage + 1}
    <3>1. F \subseteq Nat /\ above \subseteq Nat /\ above \subseteq F /\ F # {}
      BY <1>4, Numbers DEF FreeClusters
    <3>2. x = (IF above # {} THEN Least(above) ELSE Least(F))
      BY DEF NextFree
    <3> HIDE DEF F, above, x
    <3>3. x \in F
      BY <3>1, <3>2, LeastIs
    <3> QED
      BY <3>3 DEF F, FreeClusters, Fat
  <2> HIDE DEF x
  <2>3. PICK H \in SUBSET Clusters : FilesOk(H) /\ Work(H)
    BY <1>1, InCall
  <2>4. Made(H) /\ Mid = {}
    BY <1>1, <2>3 DEF Work, Making, Mid
  <2>5. /\ Filed(Fat, Twin, Slots) /\ H \cap own = {} /\ (own \union H) \cap Pages = {}
        /\ Fenced(Fat, Twin, own \union H, H, {})
    BY <2>3, <2>4 DEF FilesOk
  <2>6. /\ \A k \in DOMAIN chain : chain[k] \in H
        /\ \A b \in H : b \in Clusters /\ Fat[b] # 0
    <3>1. \E n \in Nat :
            /\ DOMAIN chain = 1..n /\ H = {chain[k] : k \in 1..n} /\ (\A k \in 1..n : chain[k] \in Clusters)
            /\ \A b \in H : Twin[b] = Fat[b] /\ Fat[b] # 0
      BY <1>1, <2>4, MadeIs DEF Making
    <3> QED
      BY <3>1
  <2>7. \A b \in own : b \in Clusters /\ Fat[b] # 0
    BY <1>2, <2>5, OwnedIs
  <2>8. \A b \in Pages : b \in Clusters /\ Fat[b] # 0
    BY <1>2, PagesTaken
  <2>9. x \notin own /\ x \notin H /\ x \notin Pages
    BY <2>2, <2>6, <2>7, <2>8
  <2>10. /\ TablesTyped' /\ Twin' = Twin /\ Fat'[x] = Eoc
         /\ \A b \in Clusters : b # x => Fat'[b] = Fat[b]
    <3>1. Eoc \in 0..Eoc
      BY Numbers
    <3> QED
      BY <1>2, <2>1, <2>2, <3>1, FirstLink, Zenon
  <2>11. Eoc # 0 /\ ~Chained(Eoc)
    BY Numbers
  <2> HIDE DEF own
  <2>12. Directory' = Directory /\ Pages' = Pages /\ LastPage' = LastPage
         /\ \A b \in Pages : Fat'[b] = Fat[b]
    <3>1. \A b \in Pages : Fat'[b] = Fat[b]
      BY <2>8, <2>9, <2>10
    <3> QED
      BY <3>1, SameDirectory
  <2>13. Slots' = Slots
    BY <1>1, <2>1, <2>12, SameSlots DEF Used
  <2>14. NamesOk'
    <3>1. call.kind = "save" => \A p \in EntriesOf(Slots) : Slots[p].name # call.name
      BY <1>1, <1>2 DEF NamesOk
    <3> QED
      BY <1>1, <1>2, <2>1, <2>12, <2>13, <3>1, SameNames
  <2>15. NoNoise'
    BY <1>1, <1>2, <2>13, SameNoise
  <2>16. Filed(Fat', Twin', Slots') /\ Owned(Fat', Slots') = own
    <3>1. \A b \in own : Fat'[b] = Fat[b] /\ Twin'[b] = Twin[b]
      BY <2>7, <2>9, <2>10
    <3> QED
      BY <1>2, <2>5, <2>10, <2>13, <3>1, SameFiles DEF own
  <2>17. Fenced(Fat', Twin', own \union H, H, {})
    <3>1. ASSUME NEW b \in Clusters, Fat'[b] \in own \union H PROVE b \in own \union H \/ Back(b, Fat'[b])
      <4>1. b # x
        BY <2>6, <2>7, <2>10, <2>11, <3>1 DEF Chained
      <4> QED
        BY <2>5, <2>10, <3>1, <4>1 DEF Fenced
    <3>2. ASSUME NEW b \in Clusters, Fat'[b] = 0, Twin[b] \in own \union H PROVE Back(b, Twin[b])
      <4>1. b # x
        BY <2>10, <2>11, <3>2
      <4> QED
        BY <2>5, <2>10, <3>2, <4>1 DEF Fenced
    <3> QED
      BY <2>10, <3>1, <3>2 DEF Fenced
  <2>18. LinksOk(Fat', Twin')
    <3> SUFFICES ASSUME NEW b \in Clusters
                 PROVE  /\ Chained(Fat'[b]) /\ ~Back(b, Fat'[b]) =>
                             /\ Fat'[Fat'[b]] # 0
                             /\ Twin[b] = Fat'[b] => Twin[Fat'[b]] # 0
                        /\ Fat'[b] = 0 /\ Chained(Twin[b]) /\ ~Back(b, Twin[b]) =>
                             /\ Twin[Twin[b]] # 0
                             /\ Fat'[Twin[b]] = 0 => b < Twin[b]
      BY <2>10 DEF LinksOk
    <3>1. ASSUME Chained(Fat'[b]), ~Back(b, Fat'[b])
          PROVE  Fat'[Fat'[b]] # 0 /\ (Twin[b] = Fat'[b] => Twin[Fat'[b]] # 0)
      <4>1. b # x /\ Fat'[b] = Fat[b]
        BY <2>10, <2>11, <3>1
      <4>2. Fat[Fat[b]] # 0 /\ (Twin[b] = Fat[b] => Twin[Fat[b]] # 0)
        BY <1>2, <3>1, <4>1 DEF LinksOk
      <4> QED
        BY <2>10, <2>11, <3>1, <4>1, <4>2 DEF Chained
    <3>2. ASSUME Fat'[b] = 0, Chained(Twin[b]), ~Back(b, Twin[b])
          PROVE  Twin[Twin[b]] # 0 /\ (Fat'[Twin[b]] = 0 => b < Twin[b])
      <4>1. Fat[b] = 0
        BY <2>10, <2>11, <3>2
      <4>2. Twin[Twin[b]] # 0 /\ (Fat[Twin[b]] = 0 => b < Twin[b])
        BY <1>2, <3>2, <4>1 DEF LinksOk
      <4> QED
        BY <2>10, <2>11, <3>2, <4>2 DEF Chained
    <3> QED
      BY <3>1, <3>2
  <2>19. FilesOk(H)'
    <3>1. Mid' = {}
      BY <2>1 DEF Mid
    <3> QED
      BY <2>5, <2>12, <2>16, <2>17, <3>1 DEF FilesOk
  <2>20. Made(H)'
    <3>1. \A k : LinkOf(k)' = LinkOf(k)
      BY <2>1 DEF LinkOf
    <3>2. Spare' = {}
      BY <1>1, <2>13 DEF Spare
    <3>3. at' \in Clusters \ (Pages' \union H \union Owned(Fat', Slots')) /\ Fat'[at'] = Eoc
      BY <2>1, <2>2, <2>9, <2>10, <2>12, <2>16
    <3>4. \A k \in DOMAIN chain : Fat'[chain[k]] = Fat[chain[k]] /\ Twin'[chain[k]] = Twin[chain[k]]
      BY <2>6, <2>9, <2>10
    <3> QED
      BY <2>1, <2>4, <3>1, <3>2, <3>3, <3>4 DEF Made, Adding
  <2>21. CardOk'
    <3>1. Work(H)'
      BY <2>1, <2>20 DEF Work, Making
    <3> QED
      BY <2>14, <2>18, <2>19, <3>1 DEF CardOk
  <2>22. TypeOK'
    <3>1. at' \in Nat
      BY <2>1, <2>2, Numbers
    <3> QED
      BY <1>1, <2>1, <2>10, <3>1 DEF FatInv, TypeOK, TablesTyped, Tables
  <2>23. CallOk' /\ EndsOk'
    BY <1>1, <2>1 DEF FatInv, CallOk, EndsOk, Stepping, Making
  <2>24. Spared
    <3>1. \A b \in own : Fat'[b] = Fat[b] /\ body'[b] = body[b]
      BY <1>1, <2>7, <2>9, <2>10
    <3> QED
      BY <2>13, <3>1, SparedBy DEF own
  <2> QED
    BY <2>1, <2>15, <2>21, <2>22, <2>23, <2>24, Collect
<1> QED
  BY <1>3, <1>4

LEMMA ExtendMirrorKeeps ==
  ASSUME GeometryAssumption, FatInv, ExtendMirror
  PROVE  FatInv' /\ Spared
<1> DEFINE own == Owned(Fat, Slots)
<1>1. /\ pc = "extmirror" /\ pc' = "hook" /\ fat' = [fat EXCEPT ![2][at] = Eoc]
      /\ page' = page /\ body' = body /\ call' = call /\ at' = at /\ batch' = batch
      /\ chain' = chain /\ left' = left /\ calls' = calls /\ scars' = scars
  BY DEF ExtendMirror, locals
<1>2. /\ Formatted /\ NoNoise /\ LinksOk(Fat, Twin) /\ NamesOk
      /\ TablesTyped /\ PagesTyped /\ Fat \in Tables /\ Twin \in Tables
  BY <1>1, InCall
<1>3. PICK H \in SUBSET Clusters : FilesOk(H) /\ Work(H)
  BY <1>1, InCall
<1>4. Made(H) /\ Mid = {}
  BY <1>1, <1>3 DEF Work, Making, Mid
<1>5. /\ Filed(Fat, Twin, Slots) /\ H \cap own = {} /\ (own \union H) \cap Pages = {}
      /\ Fenced(Fat, Twin, own \union H, H, {})
  BY <1>3, <1>4 DEF FilesOk
<1>6. /\ Spare = {} /\ at \in Clusters /\ at \notin Pages /\ at \notin H /\ at \notin own /\ Fat[at] = Eoc
  BY <1>1, <1>4 DEF Made
<1>7. \A k \in DOMAIN chain : chain[k] \in H /\ chain[k] \in Clusters
  <2>1. \E n \in Nat :
          DOMAIN chain = 1..n /\ H = {chain[k] : k \in 1..n} /\ (\A k \in 1..n : chain[k] \in Clusters)
    BY <1>1, <1>4, MadeIs DEF Making
  <2> QED
    BY <2>1
<1>8. \A b \in own : b \in Clusters
  BY <1>2, <1>5, OwnedIs
<1>9. Eoc # 0 /\ ~Chained(Eoc)
  BY Numbers
<1>10. /\ TablesTyped' /\ Fat' = Fat /\ Twin'[at] = Eoc
       /\ \A b \in Clusters : b # at => Twin'[b] = Twin[b]
  <2>1. Eoc \in 0..Eoc
    BY Numbers
  <2> QED
    BY <1>1, <1>2, <1>6, <2>1, SecondLink, Zenon
<1> HIDE DEF own
<1>11. Directory' = Directory /\ Pages' = Pages /\ LastPage' = LastPage
  BY <1>10, SameDirectory
<1>12. Slots' = Slots
  BY <1>1, <1>11, SameSlots DEF Used
<1>13. NamesOk'
  <2>1. call.kind = "save" => \A p \in EntriesOf(Slots) : Slots[p].name # call.name
    BY <1>1, <1>2 DEF NamesOk
  <2> QED
    BY <1>1, <1>2, <1>10, <1>11, <1>12, <2>1, SameNames
<1>14. NoNoise'
  BY <1>1, <1>2, <1>12, SameNoise
<1>15. Filed(Fat', Twin', Slots') /\ Owned(Fat', Slots') = own
  <2>1. \A b \in own : Fat'[b] = Fat[b] /\ Twin'[b] = Twin[b]
    BY <1>6, <1>8, <1>10
  <2> QED
    BY <1>2, <1>5, <1>10, <1>12, <2>1, SameFiles DEF own
<1>16. Fenced(Fat', Twin', own \union H, H, {})
  <2>1. ASSUME NEW b \in Clusters, Fat[b] = 0, Twin'[b] \in own \union H PROVE Back(b, Twin'[b])
    <3>1. b # at /\ Twin'[b] = Twin[b]
      BY <1>6, <1>9, <1>10, <2>1
    <3> QED
      BY <1>5, <2>1, <3>1 DEF Fenced
  <2> QED
    BY <1>5, <1>10, <2>1 DEF Fenced
<1>17. LinksOk(Fat', Twin')
  <2> SUFFICES ASSUME NEW b \in Clusters
               PROVE  /\ Chained(Fat[b]) /\ ~Back(b, Fat[b]) =>
                           /\ Fat[Fat[b]] # 0
                           /\ Twin'[b] = Fat[b] => Twin'[Fat[b]] # 0
                      /\ Fat[b] = 0 /\ Chained(Twin'[b]) /\ ~Back(b, Twin'[b]) =>
                           /\ Twin'[Twin'[b]] # 0
                           /\ Fat[Twin'[b]] = 0 => b < Twin'[b]
    BY <1>10 DEF LinksOk
  <2>1. ASSUME Chained(Fat[b]), ~Back(b, Fat[b])
        PROVE  Fat[Fat[b]] # 0 /\ (Twin'[b] = Fat[b] => Twin'[Fat[b]] # 0)
    <3>1. b # at
      BY <1>6, <1>9, <2>1
    <3>2. Fat[Fat[b]] # 0 /\ (Twin[b] = Fat[b] => Twin[Fat[b]] # 0)
      BY <1>2, <2>1 DEF LinksOk
    <3> QED
      BY <1>9, <1>10, <2>1, <3>1, <3>2 DEF Chained
  <2>2. ASSUME Fat[b] = 0, Chained(Twin'[b]), ~Back(b, Twin'[b])
        PROVE  Twin'[Twin'[b]] # 0 /\ (Fat[Twin'[b]] = 0 => b < Twin'[b])
    <3>1. b # at /\ Twin'[b] = Twin[b]
      BY <1>6, <1>9, <1>10, <2>2
    <3>2. Twin[Twin[b]] # 0 /\ (Fat[Twin[b]] = 0 => b < Twin[b])
      BY <1>2, <2>2, <3>1 DEF LinksOk
    <3> QED
      BY <1>9, <1>10, <2>2, <3>1, <3>2 DEF Chained
  <2> QED
    BY <2>1, <2>2
<1>18. FilesOk(H)'
  <2>1. Mid' = {}
    BY <1>1 DEF Mid
  <2> QED
    BY <1>5, <1>11, <1>15, <1>16, <2>1 DEF FilesOk
<1>19. Made(H)'
  <2>1. \A k : LinkOf(k)' = LinkOf(k)
    BY <1>1 DEF LinkOf
  <2>2. Spare' = {}
    BY <1>6, <1>12 DEF Spare
  <2>3. at' \in Clusters \ (Pages' \union H \union Owned(Fat', Slots')) /\ Fat'[at'] = Eoc /\ Twin'[at'] = Eoc
    BY <1>1, <1>6, <1>10, <1>11, <1>15
  <2>4. \A k \in DOMAIN chain : Fat'[chain[k]] = Fat[chain[k]] /\ Twin'[chain[k]] = Twin[chain[k]]
    BY <1>6, <1>7, <1>10
  <2> QED
    BY <1>1, <1>4, <2>1, <2>2, <2>3, <2>4 DEF Made, Adding
<1>20. CardOk'
  <2>1. Work(H)'
    BY <1>1, <1>19 DEF Work, Making
  <2> QED
    BY <1>13, <1>17, <1>18, <2>1 DEF CardOk
<1>21. TypeOK'
  BY <1>1, <1>10 DEF FatInv, TypeOK, TablesTyped, Tables
<1>22. CallOk' /\ EndsOk'
  BY <1>1 DEF FatInv, CallOk, EndsOk, Stepping, Making
<1>23. Spared
  BY <1>1, <1>10, <1>12, SparedBy
<1> QED
  BY <1>1, <1>14, <1>20, <1>21, <1>22, <1>23, Collect

\* The directory grows by the page; its slots do not count yet.
LEMMA HookKeeps ==
  ASSUME GeometryAssumption, FatInv, Hook
  PROVE  FatInv' /\ Spared
<1> DEFINE own == Owned(Fat, Slots)
<1>1. /\ pc = "hook" /\ pc' = "hookmirror" /\ fat' = [fat EXCEPT ![1][LastPage] = at]
      /\ page' = page /\ body' = body /\ call' = call /\ at' = at /\ batch' = {LastPage}
      /\ chain' = chain /\ left' = left /\ calls' = calls /\ scars' = scars
  BY DEF Hook
<1>2. /\ Formatted /\ NoNoise /\ LinksOk(Fat, Twin) /\ NamesOk
      /\ TablesTyped /\ PagesTyped /\ Fat \in Tables /\ Twin \in Tables
  BY <1>1, InCall
<1>3. PICK H \in SUBSET Clusters : FilesOk(H) /\ Work(H)
  BY <1>1, InCall
<1>4. Made(H) /\ Mid = {}
  BY <1>1, <1>3 DEF Work, Making, Mid
<1>5. /\ Filed(Fat, Twin, Slots) /\ H \cap own = {} /\ (own \union H) \cap Pages = {}
      /\ Fenced(Fat, Twin, own \union H, H, {})
  BY <1>3, <1>4 DEF FilesOk
<1>6. /\ Spare = {} /\ at \in Clusters /\ at \notin Pages /\ at \notin H /\ at \notin own
      /\ Fat[at] = Eoc /\ Twin[at] = Eoc
  BY <1>1, <1>4 DEF Made
<1>7. \A k \in DOMAIN chain : chain[k] \in H /\ chain[k] \in Clusters
  <2>1. \E n \in Nat :
          DOMAIN chain = 1..n /\ H = {chain[k] : k \in 1..n} /\ (\A k \in 1..n : chain[k] \in Clusters)
    BY <1>1, <1>4, MadeIs DEF Making
  <2> QED
    BY <2>1
<1>8. \A b \in own : b \in Clusters
  BY <1>2, <1>5, OwnedIs
<1>9. Eoc # 0 /\ ~Chained(Eoc) /\ at # 0
  BY <1>6, Numbers
<1>10. /\ Directory \in Seq(Clusters) /\ Len(Directory) \in Nat \ {0}
       /\ Pages = {Directory[i] : i \in 1..Len(Directory)} /\ Pages \subseteq Clusters /\ Root \in Pages
       /\ LastPage = Directory[Len(Directory)] /\ LastPage \in Pages /\ LastPage \in Clusters
       /\ DOMAIN Slots = (1..Len(Directory)) \X (1..PerPage)
       /\ \A p \in DOMAIN Slots : Slots[p] = page[Directory[p[1]]][p[2]] /\ Slots[p] \in Slot
  BY <1>1, <1>2, SlotsHere DEF Used
<1>11. at # LastPage /\ LastPage \notin own /\ LastPage \notin H /\ Fat[LastPage] = Eoc
  BY <1>2, <1>5, <1>6, <1>10 DEF NamesOk
<1>12. /\ TablesTyped' /\ Twin' = Twin /\ Fat'[LastPage] = at
       /\ \A b \in Clusters : b # LastPage => Fat'[b] = Fat[b]
  <2>1. at \in 0..Eoc
    BY <1>6, Numbers
  <2>2. LastPage \in Clusters
    BY <1>10
  <2> QED
    BY <1>1, <1>2, <2>1, <2>2, FirstLink, Zenon
<1>13. Directory' = Append(Directory, at)
  <2> DEFINE t == Fat
             u == Fat'
             w == Walk(t, Root)
  <2>1. w = Directory /\ Walk(u, Root) = Directory'
    BY Shape
  <2>2. ToSet(w) = Pages /\ LastPage = w[Len(w)]
    BY Shape
  <2>3. /\ at \notin ToSet(w) /\ ~Chained(u[at]) /\ Root \in Clusters
        /\ ~Chained(t[w[Len(w)]]) /\ u[w[Len(w)]] = at
        /\ \A b \in ToSet(w) : b # w[Len(w)] => u[b] = t[b]
    BY <1>6, <1>9, <1>10, <1>11, <1>12, <2>2
  <2> HIDE DEF t, u
  <2>4. Walk(u, Root) = Append(w, at)
    BY <1>6, <2>3, WalkGrows
  <2> QED
    BY <2>1, <2>4
<1>14. /\ Len(Directory') = Len(Directory) + 1 /\ Directory'[Len(Directory) + 1] = at
       /\ \A i \in 1..Len(Directory) : Directory'[i] = Directory[i]
  <2> DEFINE d == Directory
  <2> HIDE DEF d
  <2>1. d \in Seq(Clusters)
    BY <1>10 DEF d
  <2>2. /\ Len(Append(d, at)) = Len(d) + 1 /\ Append(d, at)[Len(d) + 1] = at
        /\ \A i \in 1..Len(d) : Append(d, at)[i] = d[i]
    BY <1>6, <2>1
  <2> QED
    BY <1>13, <2>2 DEF d
<1>15. Pages' = Pages \union {at} /\ LastPage' = at
  <2> DEFINE n == Len(Directory)
  <2>1. n \in Nat \ {0} /\ 1..(n + 1) = (1..n) \union {n + 1}
    <3> HIDE DEF n
    <3>1. n \in Nat \ {0} => 1..(n + 1) = (1..n) \union {n + 1}
      OBVIOUS
    <3> QED
      BY <1>10, <3>1 DEF n
  <2>2. Pages' = {Directory'[i] : i \in 1..(n + 1)}
    <3>1. Pages' = ToSet(Walk(Fat', Root)) /\ Directory' = Walk(Fat', Root)
      BY Shape
    <3>2. ToSet(Walk(Fat', Root)) = {Walk(Fat', Root)[i] : i \in 1..Len(Walk(Fat', Root))}
      BY DirectoryIs
    <3> QED
      BY <1>14, <3>1, <3>2
  <2>3. LastPage' = Directory'[Len(Directory')]
    BY Shape
  <2>4. LastPage' = at
    BY <1>14, <2>3
  <2>5. Pages' = {Directory'[i] : i \in 1..n} \union {Directory'[n + 1]}
    BY <2>1, <2>2
  <2>6. {Directory'[i] : i \in 1..n} = Pages
    BY <1>10, <1>14
  <2> QED
    BY <1>14, <2>4, <2>5, <2>6
<1>16. Slots' = Slots
  <2>1. Used(Directory', pc') = Len(Directory) /\ Used(Directory, pc) = Len(Directory)
    <3>1. Used(Directory', pc') = Len(Directory') - 1 /\ Used(Directory, pc) = Len(Directory)
      BY <1>1 DEF Used
    <3> DEFINE n == Len(Directory)
    <3>2. n \in Nat /\ Len(Directory') = n + 1
      BY <1>10, <1>14
    <3> HIDE DEF n
    <3>3. Len(Directory') - 1 = n
      BY <3>2
    <3> QED
      BY <3>1, <3>3 DEF n
  <2>2. SlotsIn(Directory', page, Len(Directory)) = SlotsIn(Directory, page, Len(Directory))
    BY <1>14 DEF SlotsIn
  <2> QED
    BY <1>1, <2>1, <2>2, Shape
<1> HIDE DEF own
<1>17. NamesOk'
  <2>1. Fat'[LastPage'] = Eoc
    BY <1>6, <1>11, <1>12, <1>15
  <2>2. ASSUME NEW c \in Pages', c # LastPage', NEW i \in 1..PerPage PROVE page'[c][i].kind # "end"
    <3>1. c \in Pages
      BY <1>15, <2>2
    <3>2. PICK k \in 1..Len(Directory) : c = Directory[k]
      BY <1>10, <3>1
    <3> DEFINE p == <<k, i>>
    <3>3. p \in DOMAIN Slots /\ p[1] = k /\ p[2] = i
      BY <1>10
    <3>4. Slots[p].kind # "end"
      BY <1>6, <3>3 DEF Spare
    <3> QED
      BY <1>1, <1>10, <3>2, <3>3, <3>4
  <2>3. \A r, q \in EntriesOf(Slots') : Slots'[r].name = Slots'[q].name /\ Slots'[r].name # TestName => r = q
    BY <1>2, <1>16 DEF NamesOk
  <2>4. call.kind = "save" => \A p \in EntriesOf(Slots') : Slots'[p].name # call.name
    BY <1>1, <1>2, <1>16 DEF NamesOk
  <2> QED
    BY <1>1, <2>1, <2>2, <2>3, <2>4 DEF NamesOk
<1>18. NoNoise'
  BY <1>1, <1>2, <1>16, SameNoise
<1>19. Filed(Fat', Twin', Slots') /\ Owned(Fat', Slots') = own
  <2>1. \A b \in own : Fat'[b] = Fat[b] /\ Twin'[b] = Twin[b]
    BY <1>8, <1>11, <1>12
  <2> QED
    BY <1>2, <1>5, <1>12, <1>16, <2>1, SameFiles DEF own
<1>20. Fenced(Fat', Twin', own \union H, H, {})
  <2>1. ASSUME NEW b \in Clusters, Fat'[b] \in own \union H PROVE b \in own \union H \/ Back(b, Fat'[b])
    <3>1. b # LastPage
      BY <1>6, <1>12, <2>1
    <3> QED
      BY <1>5, <1>12, <2>1, <3>1 DEF Fenced
  <2>2. ASSUME NEW b \in Clusters, Fat'[b] = 0, Twin[b] \in own \union H PROVE Back(b, Twin[b])
    <3>1. b # LastPage
      BY <1>9, <1>12, <2>2
    <3> QED
      BY <1>5, <1>12, <2>2, <3>1 DEF Fenced
  <2> QED
    BY <1>12, <2>1, <2>2 DEF Fenced
<1>21. LinksOk(Fat', Twin')
  <2> SUFFICES ASSUME NEW b \in Clusters
               PROVE  /\ Chained(Fat'[b]) /\ ~Back(b, Fat'[b]) =>
                           /\ Fat'[Fat'[b]] # 0
                           /\ Twin[b] = Fat'[b] => Twin[Fat'[b]] # 0
                      /\ Fat'[b] = 0 /\ Chained(Twin[b]) /\ ~Back(b, Twin[b]) =>
                           /\ Twin[Twin[b]] # 0
                           /\ Fat'[Twin[b]] = 0 => b < Twin[b]
    BY <1>12 DEF LinksOk
  <2>1. ASSUME Chained(Fat'[b]), ~Back(b, Fat'[b])
        PROVE  Fat'[Fat'[b]] # 0 /\ (Twin[b] = Fat'[b] => Twin[Fat'[b]] # 0)
    <3>1. CASE b = LastPage
      BY <1>6, <1>9, <1>11, <1>12, <3>1
    <3>2. CASE b # LastPage
      <4>1. Fat'[b] = Fat[b]
        BY <1>12, <3>2
      <4>2. Fat[Fat[b]] # 0 /\ (Twin[b] = Fat[b] => Twin[Fat[b]] # 0)
        BY <1>2, <2>1, <4>1 DEF LinksOk
      <4> QED
        BY <1>9, <1>12, <2>1, <4>1, <4>2 DEF Chained
    <3> QED
      BY <3>1, <3>2
  <2>2. ASSUME Fat'[b] = 0, Chained(Twin[b]), ~Back(b, Twin[b])
        PROVE  Twin[Twin[b]] # 0 /\ (Fat'[Twin[b]] = 0 => b < Twin[b])
    <3>1. Fat[b] = 0
      BY <1>9, <1>12, <2>2
    <3>2. Twin[Twin[b]] # 0 /\ (Fat[Twin[b]] = 0 => b < Twin[b])
      BY <1>2, <2>2, <3>1 DEF LinksOk
    <3> QED
      BY <1>9, <1>12, <2>2, <3>2 DEF Chained
  <2> QED
    BY <2>1, <2>2
<1>22. FilesOk(H)'
  <2>1. Mid' = {}
    BY <1>1 DEF Mid
  <2>2. (own \union H) \cap Pages' = {}
    BY <1>5, <1>6, <1>15
  <2> QED
    BY <1>5, <1>19, <1>20, <2>1, <2>2 DEF FilesOk
<1>23. Made(H)'
  <2>1. \A k : LinkOf(k)' = LinkOf(k)
    BY <1>1 DEF LinkOf
  <2>2. \A k \in DOMAIN chain : Fat'[chain[k]] = Fat[chain[k]] /\ Twin'[chain[k]] = Twin[chain[k]]
    BY <1>7, <1>11, <1>12
  <2>3. at' = LastPage' /\ at' # Root /\ Twin'[at'] = Eoc /\ batch' \subseteq Pages' \ {at'}
    BY <1>1, <1>6, <1>10, <1>11, <1>12, <1>15
  <2> QED
    BY <1>1, <1>4, <2>1, <2>2, <2>3 DEF Made, Adding
<1>24. CardOk'
  <2>1. Work(H)'
    BY <1>1, <1>23 DEF Work, Making
  <2> QED
    BY <1>17, <1>21, <1>22, <2>1 DEF CardOk
<1>25. TypeOK'
  BY <1>1, <1>10, <1>12 DEF FatInv, TypeOK, TablesTyped, Tables
<1>26. CallOk' /\ EndsOk'
  BY <1>1 DEF FatInv, CallOk, EndsOk, Stepping, Making
<1>27. Spared
  <2>1. \A b \in own : Fat'[b] = Fat[b] /\ body'[b] = body[b]
    BY <1>1, <1>8, <1>11, <1>12
  <2> QED
    BY <1>16, <2>1, SparedBy DEF own
<1> QED
  BY <1>1, <1>18, <1>24, <1>25, <1>26, <1>27, Collect

LEMMA HookMirrorKeeps ==
  ASSUME GeometryAssumption, FatInv, HookMirror
  PROVE  FatInv' /\ Spared
<1> DEFINE own == Owned(Fat, Slots)
           row == [c \in Clusters |-> IF c \in batch THEN at ELSE fat[2][c]]
<1>1. /\ pc = "hookmirror" /\ pc' = "clear" /\ fat' = [fat EXCEPT ![2] = row]
      /\ page' = page /\ body' = body /\ call' = call /\ at' = at /\ batch' = {}
      /\ chain' = chain /\ left' = left /\ calls' = calls /\ scars' = scars
  BY DEF HookMirror
<1>2. /\ Formatted /\ NoNoise /\ LinksOk(Fat, Twin) /\ NamesOk
      /\ TablesTyped /\ PagesTyped /\ Fat \in Tables /\ Twin \in Tables
  BY <1>1, InCall
<1>3. PICK H \in SUBSET Clusters : FilesOk(H) /\ Work(H)
  BY <1>1, InCall
<1>4. Made(H) /\ Mid = {}
  BY <1>1, <1>3 DEF Work, Making, Mid
<1>5. /\ Filed(Fat, Twin, Slots) /\ H \cap own = {} /\ (own \union H) \cap Pages = {}
      /\ Fenced(Fat, Twin, own \union H, H, {})
  BY <1>3, <1>4 DEF FilesOk
<1>6. at = LastPage /\ at # Root /\ Twin[at] = Eoc /\ batch \subseteq Pages \ {at}
  BY <1>1, <1>4 DEF Made, Adding
<1>7. \A b \in Pages : b \in Clusters /\ Fat[b] # 0
  BY <1>2, PagesTaken
<1>8. at \in Clusters /\ at # 0 /\ Eoc # 0 /\ \A b \in batch : b \in Clusters /\ Fat[b] # 0 /\ b \notin own /\ b \notin H
  BY <1>2, <1>5, <1>6, <1>7, SlotsHere, Numbers
<1>9. \A k \in DOMAIN chain : chain[k] \in H /\ chain[k] \in Clusters
  <2>1. \E n \in Nat :
          DOMAIN chain = 1..n /\ H = {chain[k] : k \in 1..n} /\ (\A k \in 1..n : chain[k] \in Clusters)
    BY <1>1, <1>4, MadeIs DEF Making
  <2> QED
    BY <2>1
<1>10. /\ TablesTyped' /\ Fat' = Fat
       /\ \A c \in Clusters : Twin'[c] = IF c \in batch THEN at ELSE Twin[c]
  <2>1. row \in Tables /\ \A c \in Clusters : row[c] = IF c \in batch THEN at ELSE fat[2][c]
    <3>1. at \in 0..Eoc /\ \A c \in Clusters : fat[2][c] \in 0..Eoc
      BY <1>2, <1>8, Numbers DEF TablesTyped, Tables
    <3> QED
      BY <3>1 DEF Tables
  <2> HIDE DEF row
  <2>2. fat' \in [1..2 -> Tables] /\ fat'[2] = row /\ fat'[1] = fat[1]
    <3>1. fat \in [1..2 -> Tables] /\ 1 \in 1..2 /\ 2 \in 1..2 /\ 1 # 2
      BY <1>2 DEF TablesTyped
    <3> QED
      BY <1>1, <2>1, <3>1
  <2>3. Fat' = fat'[1] /\ Twin' = fat'[2] /\ Fat = fat[1] /\ Twin = fat[2]
    BY DEF Fat, Twin
  <2> QED
    BY <2>1, <2>2, <2>3 DEF TablesTyped
<1>11. \A b \in own : b \in Clusters /\ Twin'[b] = Twin[b]
  <2>1. \A b \in own : b \in Clusters
    BY <1>2, <1>5, OwnedIs
  <2> QED
    BY <1>8, <1>10, <2>1
<1> HIDE DEF own, row
<1>12. Directory' = Directory /\ Pages' = Pages /\ LastPage' = LastPage
  BY <1>10, SameDirectory
<1>13. Slots' = Slots
  BY <1>1, <1>12, SameSlots DEF Used
<1>14. NamesOk'
  <2>1. call.kind = "save" => \A p \in EntriesOf(Slots) : Slots[p].name # call.name
    BY <1>1, <1>2 DEF NamesOk
  <2> QED
    BY <1>1, <1>2, <1>10, <1>12, <1>13, <2>1, SameNames
<1>15. NoNoise'
  BY <1>1, <1>2, <1>13, SameNoise
<1>16. Filed(Fat', Twin', Slots') /\ Owned(Fat', Slots') = own
  BY <1>2, <1>5, <1>10, <1>11, <1>13, SameFiles DEF own
<1>17. Fenced(Fat', Twin', own \union H, H, {})
  <2>1. ASSUME NEW b \in Clusters, Fat[b] = 0, Twin'[b] \in own \union H PROVE Back(b, Twin'[b])
    BY <1>5, <1>8, <1>10, <2>1 DEF Fenced
  <2> QED
    BY <1>5, <1>10, <2>1 DEF Fenced
<1>18. LinksOk(Fat', Twin')
  <2> SUFFICES ASSUME NEW b \in Clusters
               PROVE  /\ Chained(Fat[b]) /\ ~Back(b, Fat[b]) =>
                           /\ Fat[Fat[b]] # 0
                           /\ Twin'[b] = Fat[b] => Twin'[Fat[b]] # 0
                      /\ Fat[b] = 0 /\ Chained(Twin'[b]) /\ ~Back(b, Twin'[b]) =>
                           /\ Twin'[Twin'[b]] # 0
                           /\ Fat[Twin'[b]] = 0 => b < Twin'[b]
    BY <1>10 DEF LinksOk
  <2>1. ASSUME Chained(Fat[b]), ~Back(b, Fat[b])
        PROVE  Fat[Fat[b]] # 0 /\ (Twin'[b] = Fat[b] => Twin'[Fat[b]] # 0)
    <3>1. Fat[Fat[b]] # 0 /\ (Twin[b] = Fat[b] => Twin[Fat[b]] # 0)
      BY <1>2, <2>1 DEF LinksOk
    <3>2. CASE b \in batch
      <4>1. Twin'[b] = at /\ Twin'[at] = Eoc
        BY <1>6, <1>8, <1>10, <3>2
      <4> QED
        BY <1>8, <3>1, <4>1
    <3>3. CASE b \notin batch
      BY <1>8, <1>10, <2>1, <3>1, <3>3 DEF Chained
    <3> QED
      BY <3>2, <3>3
  <2>2. ASSUME Fat[b] = 0, Chained(Twin'[b]), ~Back(b, Twin'[b])
        PROVE  Twin'[Twin'[b]] # 0 /\ (Fat[Twin'[b]] = 0 => b < Twin'[b])
    <3>1. Twin'[b] = Twin[b]
      BY <1>8, <1>10, <2>2
    <3>2. Twin[Twin[b]] # 0 /\ (Fat[Twin[b]] = 0 => b < Twin[b])
      BY <1>2, <2>2, <3>1 DEF LinksOk
    <3> QED
      BY <1>8, <1>10, <2>2, <3>1, <3>2 DEF Chained
  <2> QED
    BY <2>1, <2>2
<1>19. FilesOk(H)'
  <2>1. Mid' = {}
    BY <1>1 DEF Mid
  <2> QED
    BY <1>5, <1>12, <1>16, <1>17, <2>1 DEF FilesOk
<1>20. Made(H)'
  <2>1. \A k : LinkOf(k)' = LinkOf(k)
    BY <1>1 DEF LinkOf
  <2>2. \A k \in DOMAIN chain : Fat'[chain[k]] = Fat[chain[k]] /\ Twin'[chain[k]] = Twin[chain[k]]
    BY <1>8, <1>9, <1>10
  <2>3. at' = LastPage' /\ at' # Root
    BY <1>1, <1>6, <1>12
  <2> QED
    BY <1>1, <1>4, <2>1, <2>2, <2>3 DEF Made, Adding
<1>21. CardOk'
  <2>1. Work(H)'
    BY <1>1, <1>20 DEF Work, Making
  <2> QED
    BY <1>14, <1>18, <1>19, <2>1 DEF CardOk
<1>22. TypeOK'
  BY <1>1, <1>10 DEF FatInv, TypeOK, TablesTyped, Tables
<1>23. CallOk' /\ EndsOk'
  BY <1>1 DEF FatInv, CallOk, EndsOk, Stepping, Making
<1>24. Spared
  BY <1>1, <1>10, <1>13, SparedBy
<1> QED
  BY <1>1, <1>15, <1>21, <1>22, <1>23, <1>24, Collect

\* The page that was being added counts: the slots there were, and its own.
LEMMA PageAdded ==
  ASSUME GeometryAssumption, PagesTyped, PagesTyped', Adding, pc' \notin {"hookmirror", "clear"},
         Directory' = Directory, \A c \in Clusters : c # LastPage => page'[c] = page[c]
  PROVE  /\ DOMAIN Slots \subseteq DOMAIN Slots' /\ \A p \in DOMAIN Slots : Slots'[p] = Slots[p]
         /\ \A p \in DOMAIN Slots' \ DOMAIN Slots : /\ p[2] \in 1..PerPage
                                                    /\ Slots'[p] = page'[LastPage][p[2]]
<1> DEFINE d == Directory
           n == Len(d)
<1>1. /\ n \in Nat \ {0} /\ LastPage = d[n]
      /\ \A i, j \in 1..n : d[i] = d[j] => i = j
      /\ \A i \in 1..n : d[i] \in Clusters
  <2>1. /\ Len(Directory) \in Nat \ {0} /\ LastPage = Directory[Len(Directory)]
        /\ \A i, j \in 1..Len(Directory) : Directory[i] = Directory[j] => i = j
        /\ Pages = {Directory[i] : i \in 1..Len(Directory)} /\ Pages \subseteq Clusters
    BY SlotsHere
  <2> QED
    BY <2>1
<1>2. Slots = SlotsIn(d, page, n - 1) /\ Slots' = SlotsIn(d, page', n)
  <2>1. pc \in {"hookmirror", "clear"}
    BY DEF Adding
  <2> QED
    BY <2>1, Shape DEF Used
<1> HIDE DEF d, n
<1>3. n - 1 \in Nat /\ 1..n = (1..(n - 1)) \union {n} /\ n \notin 1..(n - 1)
  BY <1>1
<1>4. DOMAIN Slots = (1..(n - 1)) \X (1..PerPage) /\ DOMAIN Slots' = (1..n) \X (1..PerPage)
      /\ (\A p \in (1..(n - 1)) \X (1..PerPage) : Slots[p] = page[d[p[1]]][p[2]])
      /\ (\A p \in (1..n) \X (1..PerPage) : Slots'[p] = page'[d[p[1]]][p[2]])
  BY <1>2 DEF SlotsIn
<1>5. \A i \in 1..(n - 1) : i \in 1..n /\ d[i] \in Clusters /\ d[i] # LastPage
  <2>1. n \in 1..n /\ \A i \in 1..(n - 1) : i \in 1..n /\ i # n
    BY <1>1, <1>3
  <2> QED
    BY <1>1, <2>1
<1>6. ASSUME NEW p \in (1..(n - 1)) \X (1..PerPage)
      PROVE  p \in (1..n) \X (1..PerPage) /\ Slots'[p] = Slots[p]
  <2>1. p[1] \in 1..(n - 1) /\ p[2] \in 1..PerPage /\ p = <<p[1], p[2]>>
    OBVIOUS
  <2>2. p \in (1..n) \X (1..PerPage)
    BY <1>5, <2>1
  <2> QED
    BY <1>4, <1>5, <2>1, <2>2
<1>7. ASSUME NEW p \in (1..n) \X (1..PerPage), p \notin (1..(n - 1)) \X (1..PerPage)
      PROVE  p[2] \in 1..PerPage /\ Slots'[p] = page'[LastPage][p[2]]
  <2>1. p[1] \in 1..n /\ p[2] \in 1..PerPage /\ p = <<p[1], p[2]>>
    OBVIOUS
  <2>2. p[1] = n
    BY <1>3, <1>7, <2>1
  <2> QED
    BY <1>1, <1>4, <2>1, <2>2
<1> QED
  BY <1>4, <1>6, <1>7

\* Where it holds no entries, the files and the names are what they were.
LEMMA NothingAdded ==
  ASSUME GeometryAssumption, FatInv, Formatted, Adding, pc' \notin {"hookmirror", "clear"},
         fat' = fat, PagesTyped', \A c \in Clusters : c # LastPage => page'[c] = page[c],
         \A i \in 1..PerPage : page'[LastPage][i].kind # "entry",
         call'.kind = "save" => call' = call
  PROVE  /\ Directory' = Directory /\ Pages' = Pages /\ LastPage' = LastPage /\ Fat' = Fat /\ Twin' = Twin
         /\ NamesOk' /\ LinksOk(Fat', Twin')
         /\ Filed(Fat', Twin', Slots') /\ Owned(Fat', Slots') = Owned(Fat, Slots)
         /\ (\A p \in DOMAIN Slots : Slots'[p] = Slots[p])
         /\ (\A p \in DOMAIN Slots' \ DOMAIN Slots : /\ p[2] \in 1..PerPage
                                                     /\ Slots'[p] = page'[LastPage][p[2]])
         /\ (\A b \in Owned(Fat, Slots) : b \in Clusters /\ b # LastPage)
         /\ EntriesOf(Slots') = EntriesOf(Slots) /\ \A p \in EntriesOf(Slots) : Slots'[p] = Slots[p]
<1>1. pc \in {"hookmirror", "clear"} /\ Fat' = Fat /\ Twin' = Twin
  BY DEF Adding, Fat, Twin
<1>2. NamesOk /\ PagesTyped /\ LinksOk(Fat, Twin) /\ Fat \in Tables
  BY <1>1, InCall
<1>3. Directory' = Directory /\ Pages' = Pages /\ LastPage' = LastPage
  BY <1>1, SameDirectory
<1>4. /\ DOMAIN Slots \subseteq DOMAIN Slots' /\ \A p \in DOMAIN Slots : Slots'[p] = Slots[p]
      /\ \A p \in DOMAIN Slots' \ DOMAIN Slots : /\ p[2] \in 1..PerPage
                                                 /\ Slots'[p] = page'[LastPage][p[2]]
  BY <1>2, <1>3, PageAdded
<1>5. EntriesOf(Slots') = EntriesOf(Slots) /\ \A p \in EntriesOf(Slots) : Slots'[p] = Slots[p]
  BY <1>4 DEF EntriesOf
<1>6. PICK H \in SUBSET Clusters : FilesOk(H)
  BY DEF FatInv, CardOk
<1>7. Filed(Fat', Twin', Slots') /\ Owned(Fat', Slots') = Owned(Fat, Slots)
  <2> DEFINE sm == Slots'
             sl == Slots
             t == Fat
             m == Twin
  <2>1. Filed(t, m, sl) /\ EntriesOf(sm) = EntriesOf(sl) /\ t \in Tables /\ \A p \in EntriesOf(sm) : sm[p] = sl[p]
    BY <1>2, <1>5, <1>6 DEF FilesOk
  <2> HIDE DEF sm, sl, t, m
  <2>2. Filed(t, m, sm) /\ Owned(t, sm) = Owned(t, sl)
    BY <2>1, FiledSub
  <2> QED
    BY <1>1, <2>2 DEF sm, sl, t, m
<1>8. NamesOk'
  <2>1. Fat'[LastPage'] = Eoc
    BY <1>1, <1>2, <1>3 DEF NamesOk
  <2>2. Pages \subseteq Clusters
    BY <1>2, SlotsHere
  <2>3. \A c \in Pages' : c # LastPage' => \A i \in 1..PerPage : page'[c][i].kind # "end"
    BY <1>2, <1>3, <2>2 DEF NamesOk
  <2>4. \A r, q \in EntriesOf(Slots') : Slots'[r].name = Slots'[q].name /\ Slots'[r].name # TestName => r = q
    BY <1>2, <1>5 DEF NamesOk
  <2>5. call'.kind = "save" => \A p \in EntriesOf(Slots') : Slots'[p].name # call'.name
    BY <1>1, <1>2, <1>5 DEF NamesOk
  <2> QED
    BY <2>1, <2>3, <2>4, <2>5 DEF NamesOk
<1>9. \A b \in Owned(Fat, Slots) : b \in Clusters /\ b # LastPage
  <2>1. Filed(Fat, Twin, Slots) /\ Owned(Fat, Slots) \cap Pages = {}
    BY <1>6 DEF FilesOk
  <2> QED
    BY <1>2, <2>1, OwnedIs, SlotsHere
<1> QED
  BY <1>1, <1>2, <1>3, <1>4, <1>5, <1>7, <1>8, <1>9

\* Cleared, they do, and are empty.
LEMMA ClearPageKeeps ==
  ASSUME GeometryAssumption, FatInv, ClearPage
  PROVE  FatInv' /\ Spared
<1> DEFINE own == Owned(Fat, Slots)
<1>1. /\ pc = "clear" /\ pc' = "entry" /\ fat' = fat
      /\ page' = [page EXCEPT ![at] = EmptyPage] /\ body' = [body EXCEPT ![at] = NoPiece]
      /\ call' = call /\ at' = at /\ batch' = batch
      /\ chain' = chain /\ left' = left /\ calls' = calls /\ scars' = scars
  BY DEF ClearPage, locals
<1>2. /\ Formatted /\ NoNoise /\ NamesOk /\ PagesTyped /\ Adding
  BY <1>1, InCall DEF Adding
<1>3. PICK H \in SUBSET Clusters : FilesOk(H) /\ Work(H)
  BY <1>1, InCall
<1>4. Made(H) /\ Mid = {} /\ at = LastPage /\ at \in Clusters
  <2>1. Made(H) /\ Mid = {}
    BY <1>1, <1>3 DEF Work, Making, Mid
  <2>2. LastPage \in Clusters
    BY <1>2, SlotsHere
  <2> QED
    BY <1>2, <2>1, <2>2 DEF Made
<1>5. /\ EmptyPage \in [1..PerPage -> Slot] /\ \A i \in 1..PerPage : EmptyPage[i].kind = "end"
  <2>1. 0 \in 0..Eoc /\ 0 \in 0..MaxSize
    BY Numbers DEF GeometryAssumption
  <2> QED
    BY <2>1 DEF EmptyPage, Slot, SlotKinds, Blank
<1> HIDE DEF EmptyPage
<1>6. /\ PagesTyped' /\ page'[at] = EmptyPage
      /\ \A c \in Clusters : c # at => page'[c] = page[c]
  BY <1>1, <1>2, <1>4, <1>5 DEF PagesTyped
<1>7. /\ Directory' = Directory /\ Pages' = Pages /\ LastPage' = LastPage /\ Fat' = Fat /\ Twin' = Twin
      /\ NamesOk' /\ LinksOk(Fat', Twin')
      /\ Filed(Fat', Twin', Slots') /\ Owned(Fat', Slots') = own
      /\ (\A p \in DOMAIN Slots : Slots'[p] = Slots[p])
      /\ (\A p \in DOMAIN Slots' \ DOMAIN Slots : /\ p[2] \in 1..PerPage
                                                  /\ Slots'[p] = page'[LastPage][p[2]])
      /\ (\A b \in own : b \in Clusters /\ b # LastPage)
      /\ EntriesOf(Slots') = EntriesOf(Slots) /\ \A p \in EntriesOf(Slots) : Slots'[p] = Slots[p]
  BY <1>1, <1>2, <1>4, <1>5, <1>6, NothingAdded
<1> HIDE DEF own
<1>8. NoNoise'
  BY <1>1, <1>2, <1>4, <1>5, <1>6, <1>7 DEF NoNoise
<1>9. FilesOk(H)'
  <2>1. Mid' = {}
    BY <1>1 DEF Mid
  <2> QED
    BY <1>3, <1>4, <1>7, <2>1 DEF FilesOk, own
<1>10. Made(H)'
  <2>1. \A k : LinkOf(k)' = LinkOf(k)
    BY <1>1 DEF LinkOf
  <2> QED
    BY <1>1, <1>4, <1>7, <2>1 DEF Made, Adding
<1>11. CardOk'
  <2>1. Work(H)'
    BY <1>1, <1>10 DEF Work, Making
  <2> QED
    BY <1>7, <1>9, <2>1 DEF CardOk
<1>12. EndsOk'
  <2>1. EndsOk
    BY DEF FatInv
  <2>2. ASSUME NEW c \in Clusters, NEW i \in 1..PerPage, NEW j \in 1..PerPage, i < j, page'[c][i].kind = "end"
        PROVE  page'[c][j].kind = "end"
    BY <1>5, <1>6, <2>1, <2>2 DEF EndsOk
  <2> QED
    BY <2>2 DEF EndsOk
<1>13. TypeOK'
  <2>1. body' \in [Clusters -> Piece]
    <3>1. NoPiece \in Piece
      BY DEF NoPiece, Piece, GeometryAssumption
    <3>2. body \in [Clusters -> Piece]
      BY DEF FatInv, TypeOK
    <3> HIDE DEF NoPiece
    <3> QED
      BY <1>1, <1>4, <3>1, <3>2
  <2>2. Len(chain) = call.size
    BY <1>1 DEF FatInv, CallOk, Stepping, Making
  <2> QED
    BY <1>1, <1>6, <2>1, <2>2 DEF FatInv, TypeOK, PagesTyped
<1>14. CallOk'
  BY <1>1 DEF FatInv, CallOk, Stepping, Making
<1>15. Spared
  <2>1. body \in [Clusters -> Piece]
    BY DEF FatInv, TypeOK
  <2>2. \A b \in own : body'[b] = body[b]
    BY <1>1, <1>4, <1>7, <2>1
  <2> QED
    BY <1>7, <2>2 DEF Spared, own
<1> QED
  BY <1>1, <1>8, <1>11, <1>12, <1>13, <1>14, <1>15, Collect

\* The power may go anywhere: what the call held stays claimed, or free.
LEMMA StopKeeps ==
  ASSUME GeometryAssumption, FatInv, Stop
  PROVE  FatInv' /\ (Formatted' => Spared)
<1>1. /\ pc # "idle" /\ pc' = "idle" /\ call' = NoCall /\ UNCHANGED disk
      /\ fat' = fat /\ page' = page /\ body' = body /\ calls' = calls
      /\ at' = 0 /\ batch' = {} /\ chain' = <<>> /\ left' = 0
      /\ scars \subseteq scars' /\ scars' \subseteq {"page", "format", "old"}
      /\ Adding => "page" \in scars'
      /\ Adding /\ Haunted => "old" \in scars'
      /\ pc \in {"format", "root"} => "format" \in scars'
  BY DEF Stop, Finish, disk, FatInv, TypeOK
<1>2. TypeOK'
  <2>1. NoCall \in Calls /\ 0 \in 0..MaxSize
    BY DEF NoCall, Calls, GeometryAssumption
  <2> QED
    BY <1>1, <2>1 DEF FatInv, TypeOK
<1>3. CallOk' /\ EndsOk'
  BY <1>1 DEF FatInv, CallOk, EndsOk, Stepping, Making, NoCall
<1>4. ASSUME Formatted' PROVE NoNoise' /\ CardOk' /\ Spared
  <2>1. pc \notin {"format", "root"} /\ ~(Adding /\ Haunted) /\ scars \cap {"format", "old"} = {}
    BY <1>1, <1>4 DEF Formatted
  <2>2. Formatted
    BY <2>1 DEF Formatted
  <2>3. CASE ~Adding
    BY <1>1, <2>2, <2>3, Rested, Untouched DEF NoCall
  <2>4. CASE Adding
    <3>1. PICK H \in SUBSET Clusters : FilesOk(H) /\ Work(H)
      BY <2>2 DEF FatInv, CardOk
    <3>2. at = LastPage
      <4>1. Made(H)
        BY <2>4, <3>1 DEF Adding, Work, Making
      <4> QED
        BY <2>4, <4>1 DEF Made
    <3>3. \A i \in 1..PerPage : page'[LastPage][i].kind # "entry"
      BY <1>1, <2>1, <2>4, <3>2 DEF Haunted
    <3>4. PagesTyped'
      BY <1>1 DEF FatInv, TypeOK, PagesTyped
    <3>5. /\ Directory' = Directory /\ Pages' = Pages /\ LastPage' = LastPage /\ Fat' = Fat /\ Twin' = Twin
          /\ NamesOk' /\ LinksOk(Fat', Twin')
          /\ Filed(Fat', Twin', Slots') /\ Owned(Fat', Slots') = Owned(Fat, Slots)
          /\ EntriesOf(Slots') = EntriesOf(Slots) /\ \A p \in EntriesOf(Slots) : Slots'[p] = Slots[p]
      <4>1. pc' \notin {"hookmirror", "clear"} /\ (call'.kind = "save" => call' = call)
        BY <1>1 DEF NoCall
      <4>2. \A c \in Clusters : c # LastPage => page'[c] = page[c]
        BY <1>1
      <4> QED
        BY <1>1, <2>2, <2>4, <3>3, <3>4, <4>1, <4>2, NothingAdded
    <3>6. Owned(Fat, Slots) \cap Pages = {} /\ Fenced(Fat, Twin, Owned(Fat, Slots), {}, {})
      BY <2>2, <3>1, Dropped
    <3>7. FilesOk({})'
      <4>1. Mid' = {}
        BY <1>1 DEF Mid
      <4> QED
        BY <3>5, <3>6, <4>1 DEF FilesOk
    <3>8. Work({})'
      BY <1>1 DEF Work, Making
    <3>9. NoNoise'
      BY <1>1, <2>4 DEF NoNoise
    <3>10. Spared
      BY <1>1, <3>5 DEF Spared
    <3> QED
      BY <3>5, <3>7, <3>8, <3>9, <3>10 DEF CardOk
  <2> QED
    BY <2>3, <2>4
<1> QED
  BY <1>1, <1>2, <1>3, <1>4, Collect

\* A call begins where no chain is held and no half format is left.
LEMMA BeginKeeps ==
  ASSUME GeometryAssumption, NamesAssumption, FatInv,
         NEW kind, NEW n \in Names \union {Absent}, NEW size \in 0..MaxSize, NEW first,
         Begin(kind, n, size, first),
         \/ kind = "format" /\ first = "format"
         \/ kind = "delete" /\ first = "remove"
         \/ kind = "test" /\ first = "remove" /\ n = TestName /\ size \in 1..MaxSize
         \/ kind = "save" /\ first = "remove" /\ n \in Names /\ n # TestName /\ size \in 1..MaxSize
  PROVE  FatInv'
<1>1. /\ pc = "idle" /\ calls < MaxCalls /\ (scars \cap {"format", "old"} # {} => kind = "format")
      /\ call' = [kind |-> kind, name |-> n, size |-> size, version |-> calls + 2]
      /\ pc' = first /\ calls' = calls + 1 /\ UNCHANGED disk
      /\ fat' = fat /\ page' = page /\ body' = body /\ at' = at /\ batch' = batch
      /\ chain' = chain /\ left' = left /\ scars' = scars
  BY DEF Begin, disk, locals
<1>2. call'.kind = kind /\ call'.name = n /\ call'.size = size /\ at = 0
  BY <1>1 DEF FatInv, CallOk
<1>3. TypeOK'
  <2>1. calls \in Nat /\ MaxCalls \in Nat /\ calls < MaxCalls
    BY <1>1 DEF FatInv, TypeOK, GeometryAssumption
  <2>2. calls + 1 \in 0..MaxCalls /\ calls + 2 \in Versions \union {0}
    BY <2>1 DEF Versions
  <2>3. call' \in Calls
    BY <1>1, <2>2 DEF Calls
  <2> QED
    BY <1>1, <2>2, <2>3 DEF FatInv, TypeOK
<1>4. CallOk'
  <2>1. TestName \in Names /\ kind # "none"
    BY DEF Names
  <2> QED
    BY <1>1, <1>2, <2>1 DEF CallOk, Stepping, Making
<1>5. EndsOk'
  BY <1>1 DEF FatInv, EndsOk
<1>6. CASE first = "remove"
  <2>1. Formatted
    BY <1>1, <1>6 DEF Formatted
  <2>2. NoNoise' /\ CardOk'
    BY <1>1, <1>6, <2>1, Rested DEF Adding
  <2> QED
    BY <1>1, <1>3, <1>4, <1>5, <1>6, <2>2, Collect
<1>7. CASE first = "format"
  <2>1. at' \in 0..2 * Sectors - 1 /\ \A c \in Clusters : ~(2 * Sector(c) < at') /\ ~(2 * Sector(c) + 1 < at')
    <3>1. 0 \in Nat /\ LastCluster \in Nat /\ 0 <= LastCluster /\ \A c \in Clusters : c \in Nat /\ c <= c
      BY Numbers
    <3>2. Sector(LastCluster) \in Nat /\ \A c \in Clusters : Sector(c) \in Nat
      BY <3>1, SectorRises
    <3> DEFINE s == Sector(LastCluster)
    <3>3. Sectors = s + 1 /\ s \in Nat
      BY <3>2 DEF Sectors, Sector
    <3> HIDE DEF s
    <3>4. 0 \in 0..2 * Sectors - 1
      BY <3>3
    <3>5. \A c \in Clusters : ~(2 * Sector(c) < 0) /\ ~(2 * Sector(c) + 1 < 0)
      BY <3>2
    <3> QED
      BY <1>1, <1>2, <3>4, <3>5
  <2>2. FormatOk'
    BY <1>1, <1>7, <2>1 DEF FormatOk
  <2>3. ~Formatted'
    BY <1>1, <1>7 DEF Formatted
  <2> QED
    BY <1>3, <1>4, <1>5, <2>2, <2>3 DEF FatInv
<1> QED
  BY <1>6, <1>7

-----------------------------------------------------------------------------
(* Formatting, and the cards there are at first. *)

\* One sector of one copy is as new.
LEMMA FormatTablesKeeps ==
  ASSUME GeometryAssumption, FatInv, FormatTables
  PROVE  FatInv'
<1> DEFINE copy == (at % 2) + 1
           row == [c \in Clusters |-> IF Sector(c) = at \div 2 THEN Fresh(c) ELSE fat[copy][c]]
           last == Sector(LastCluster)
<1>1. /\ pc = "format" /\ fat' = [fat EXCEPT ![copy] = row]
      /\ at + 1 = 2 * Sectors => pc' = "root" /\ at' = 0
      /\ at + 1 # 2 * Sectors => pc' = "format" /\ at' = at + 1
      /\ page' = page /\ body' = body /\ call' = call /\ batch' = batch
      /\ chain' = chain /\ left' = left /\ calls' = calls /\ scars' = scars
  BY DEF FormatTables
<1>2. fat \in [1..2 -> Tables] /\ at \in 0..2 * Sectors - 1
      /\ \A c \in Clusters : /\ 2 * Sector(c) < at => Fat[c] = Fresh(c)
                             /\ 2 * Sector(c) + 1 < at => Twin[c] = Fresh(c)
  BY <1>1 DEF FatInv, TypeOK, Tables, FormatOk
<1>3. last \in Nat /\ Sectors = last + 1 /\ \A c \in Clusters : Sector(c) \in Nat /\ Sector(c) <= last
  <2>1. LastCluster \in Nat /\ \A c \in Clusters : c \in Nat /\ c <= LastCluster
    BY DEF Clusters, Root, GeometryAssumption
  <2>2. LastCluster <= LastCluster
    BY <2>1
  <2>3. last \in Nat /\ \A c \in Clusters : Sector(c) \in Nat /\ Sector(c) <= last
    BY <2>1, <2>2, SectorRises
  <2> QED
    BY <2>3 DEF Sectors, Sector
<1> HIDE DEF last
<1>4. \/ \E s \in Nat : at = 2 * s /\ at % 2 = 0 /\ at \div 2 = s
      \/ \E s \in Nat : at = 2 * s + 1 /\ at % 2 = 1 /\ at \div 2 = s
  BY <1>2, <1>3
<1>5. row \in Tables /\ \A c \in Clusters : row[c] = IF Sector(c) = at \div 2 THEN Fresh(c) ELSE fat[copy][c]
  <2>1. copy \in 1..2
    BY <1>4
  <2>2. \A c \in Clusters : fat[copy][c] \in 0..Eoc /\ Fresh(c) \in 0..Eoc
    BY <1>2, <2>1, Numbers DEF Tables, Fresh
  <2> HIDE DEF copy
  <2> QED
    BY <2>2 DEF Tables
<1> HIDE DEF row
<1>6. /\ fat' \in [1..2 -> Tables]
      /\ copy = 1 => Fat' = row /\ Twin' = Twin
      /\ copy = 2 => Fat' = Fat /\ Twin' = row
  <2>1. copy \in {1, 2}
    BY <1>4
  <2> HIDE DEF copy
  <2> QED
    BY <1>1, <1>2, <1>5, <2>1 DEF Fat, Twin
\* What is written lies below the place that comes next.
<1>7. ASSUME NEW c \in Clusters
      PROVE  /\ 2 * Sector(c) < at + 1 => Fat'[c] = Fresh(c)
             /\ 2 * Sector(c) + 1 < at + 1 => Twin'[c] = Fresh(c)
  <2> DEFINE k == Sector(c)
  <2>1. k \in Nat
    BY <1>3
  <2>2. /\ 2 * k < at => Fat[c] = Fresh(c)
        /\ 2 * k + 1 < at => Twin[c] = Fresh(c)
    BY <1>2
  <2>3. row[c] = IF k = at \div 2 THEN Fresh(c) ELSE fat[copy][c]
    BY <1>5
  <2> HIDE DEF k
  <2>4. CASE \E s \in Nat : at = 2 * s /\ at % 2 = 0 /\ at \div 2 = s
    <3>1. PICK s \in Nat : at = 2 * s /\ at % 2 = 0 /\ at \div 2 = s
      BY <2>4
    <3>2. copy = 1
      BY <3>1
    <3>3. Fat'[c] = IF k = s THEN Fresh(c) ELSE Fat[c]
      BY <1>6, <2>3, <3>1, <3>2 DEF Fat
    <3>4. Twin'[c] = Twin[c]
      BY <1>6, <3>2
    <3>5. 2 * k < at + 1 => k = s \/ 2 * k < at
      BY <2>1, <3>1
    <3>6. 2 * k + 1 < at + 1 => 2 * k + 1 < at
      BY <2>1, <3>1
    <3> HIDE DEF copy
    <3> QED
      BY <2>2, <3>3, <3>4, <3>5, <3>6 DEF k
  <2>5. CASE \E s \in Nat : at = 2 * s + 1 /\ at % 2 = 1 /\ at \div 2 = s
    <3>1. PICK s \in Nat : at = 2 * s + 1 /\ at % 2 = 1 /\ at \div 2 = s
      BY <2>5
    <3>2. copy = 2
      BY <3>1
    <3>3. Twin'[c] = IF k = s THEN Fresh(c) ELSE Twin[c]
      BY <1>6, <2>3, <3>1, <3>2 DEF Twin
    <3>4. Fat'[c] = Fat[c]
      BY <1>6, <3>2
    <3>5. 2 * k < at + 1 => 2 * k < at
      BY <2>1, <3>1
    <3>6. 2 * k + 1 < at + 1 => k = s \/ 2 * k + 1 < at
      BY <2>1, <3>1
    <3> HIDE DEF copy
    <3> QED
      BY <2>2, <3>3, <3>4, <3>5, <3>6 DEF k
  <2> QED
    BY <1>4, <2>4, <2>5
<1> HIDE DEF copy
<1>8. FormatOk'
  <2>1. CASE at + 1 = 2 * Sectors
    <3>1. \A c \in Clusters : 2 * Sector(c) < at + 1 /\ 2 * Sector(c) + 1 < at + 1
      <4> SUFFICES ASSUME NEW c \in Clusters PROVE 2 * Sector(c) < at + 1 /\ 2 * Sector(c) + 1 < at + 1
        OBVIOUS
      <4> DEFINE k == Sector(c)
      <4>1. k \in Nat /\ k <= last /\ last \in Nat /\ at + 1 = 2 * (last + 1)
        BY <1>3, <2>1
      <4> HIDE DEF k
      <4>2. 2 * k < at + 1 /\ 2 * k + 1 < at + 1
        BY <4>1
      <4> QED
        BY <4>2 DEF k
    <3>2. \A c \in Clusters : Fat'[c] = Fresh(c) /\ Twin'[c] = Fresh(c)
      BY <1>7, <3>1
    <3> QED
      BY <1>1, <2>1, <3>2 DEF FormatOk
  <2>2. CASE at + 1 # 2 * Sectors
    <3>1. at + 1 \in 0..2 * Sectors - 1
      BY <1>2, <1>3, <2>2
    <3> QED
      BY <1>1, <1>7, <2>2, <3>1 DEF FormatOk
  <2> QED
    BY <2>1, <2>2
<1>9. TypeOK'
  <2>1. at' \in Nat
    BY <1>1, <1>2, <1>3
  <2> QED
    BY <1>1, <1>6, <2>1 DEF FatInv, TypeOK, Tables
<1>10. CallOk' /\ EndsOk' /\ ~Formatted'
  BY <1>1 DEF FatInv, CallOk, EndsOk, Formatted, Stepping, Making
<1> QED
  BY <1>8, <1>9, <1>10 DEF FatInv

\* A directory of one page.
LEMMA RootOnly ==
  ASSUME GeometryAssumption, NEW t, NEW pg, t[Root] = Eoc
  PROVE  /\ Walk(t, Root) = <<Root>> /\ Used(<<Root>>, "idle") = 1
         /\ ToSet(<<Root>>) = {Root} /\ Len(<<Root>>) = 1
         /\ LET sl == SlotsIn(<<Root>>, pg, 1) IN
            /\ \A p \in DOMAIN sl : p = <<1, p[2]>> /\ p[2] \in 1..PerPage /\ sl[p] = pg[Root][p[2]]
            /\ \A i \in 1..PerPage : <<1, i>> \in DOMAIN sl
<1>1. Root \in Clusters /\ ~Chained(Eoc)
  BY Numbers
<1>2. IsWalk(t, Root, <<Root>>)
  <2>1. \A k \in 1..Len(<<Root>>) - 1 : FALSE
    OBVIOUS
  <2>2. Ended(t, <<Root>>)
    BY <1>1 DEF Ended, NextOf
  <2> QED
    BY <1>1, <2>1, <2>2 DEF IsWalk, IsWay
<1>3. Walk(t, Root) = <<Root>>
  BY <1>1, <1>2, WalkOne
<1>4. ToSet(<<Root>>) = {Root} /\ Len(<<Root>>) = 1 /\ Used(<<Root>>, "idle") = 1
  BY DEF ToSet, Used
<1>5. PerPage \in Nat
  BY DEF GeometryAssumption
<1>6. LET sl == SlotsIn(<<Root>>, pg, 1) IN
      /\ \A p \in DOMAIN sl : p = <<1, p[2]>> /\ p[2] \in 1..PerPage /\ sl[p] = pg[Root][p[2]]
      /\ \A i \in 1..PerPage : <<1, i>> \in DOMAIN sl
  BY <1>5 DEF SlotsIn
<1> QED
  BY <1>3, <1>4, <1>6

LEMMA FormatRootKeeps ==
  ASSUME GeometryAssumption, FatInv, FormatRoot
  PROVE  FatInv' /\ EntriesOf(Slots') = {}
<1>1. /\ pc = "root" /\ pc' = "idle" /\ call' = NoCall /\ scars' = {}
      /\ fat' = fat /\ page' = [page EXCEPT ![Root] = EmptyPage] /\ body' = [body EXCEPT ![Root] = NoPiece]
      /\ at' = 0 /\ batch' = {} /\ chain' = <<>> /\ left' = 0 /\ calls' = calls
  BY DEF FormatRoot, Finish
<1>2. PagesTyped /\ EndsOk /\ body \in [Clusters -> Piece] /\ Root \in Clusters
  BY Numbers DEF FatInv, TypeOK, PagesTyped
<1>3. /\ EmptyPage \in [1..PerPage -> Slot] /\ \A i \in 1..PerPage : EmptyPage[i].kind = "end"
  <2>1. 0 \in 0..Eoc /\ 0 \in 0..MaxSize
    BY Numbers DEF GeometryAssumption
  <2> QED
    BY <2>1 DEF EmptyPage, Slot, SlotKinds, Blank
<1> HIDE DEF EmptyPage
<1>4. /\ PagesTyped' /\ page'[Root] = EmptyPage
      /\ \A c \in Clusters : c # Root => page'[c] = page[c]
  BY <1>1, <1>2, <1>3 DEF PagesTyped
<1>5. Fat' = Fat /\ Twin' = Twin /\ \A c \in Clusters : Fat[c] = Fresh(c) /\ Twin[c] = Fresh(c)
  BY <1>1 DEF FatInv, FormatOk, Fat, Twin
<1>6. \A c \in Clusters : ~Chained(Fat[c]) /\ ~Chained(Twin[c])
  BY <1>5, Numbers DEF Fresh
<1>7. Fat'[Root] = Eoc
  BY <1>2, <1>5 DEF Fresh
<1>8. /\ Directory' = <<Root>> /\ Pages' = {Root} /\ LastPage' = Root
      /\ \A p \in DOMAIN Slots' : Slots'[p].kind = "end"
  <2> DEFINE u == Fat'
             pg == page'
  <2>1. Walk(u, Root) = <<Root>> /\ Used(<<Root>>, "idle") = 1 /\ ToSet(<<Root>>) = {Root} /\ Len(<<Root>>) = 1
        /\ \A p \in DOMAIN SlotsIn(<<Root>>, pg, 1) :
              p[2] \in 1..PerPage /\ SlotsIn(<<Root>>, pg, 1)[p] = pg[Root][p[2]]
    <3>1. u[Root] = Eoc
      BY <1>7
    <3> HIDE DEF u, pg
    <3> QED
      BY <3>1, RootOnly
  <2>2. Directory' = <<Root>>
    BY <2>1, Shape
  <2>3. Pages' = {Root}
    BY <2>1, <2>2, Shape
  <2>4. Directory'[Len(Directory')] = Root
    BY <2>1, <2>2
  <2>5. Slots' = SlotsIn(<<Root>>, pg, 1)
    BY <1>1, <2>1, <2>2, Shape
  <2> QED
    BY <1>3, <1>4, <2>1, <2>2, <2>3, <2>4, <2>5, Shape
<1>9. EntriesOf(Slots') = {} /\ Owned(Fat', Slots') = {}
  <2>1. EntriesOf(Slots') = {}
    BY <1>8 DEF EntriesOf
  <2> QED
    BY <2>1 DEF Owned
<1>10. NoNoise'
  BY <1>8 DEF NoNoise
<1>11. NamesOk'
  BY <1>1, <1>7, <1>8, <1>9 DEF NamesOk, NoCall
<1>12. LinksOk(Fat', Twin')
  BY <1>5, <1>6 DEF LinksOk
<1>13. FilesOk({})'
  <2>1. Filed(Fat', Twin', Slots')
    BY <1>9 DEF Filed
  <2>2. Fenced(Fat', Twin', {} \union {}, {}, Mid')
    BY DEF Fenced
  <2> QED
    BY <1>9, <2>1, <2>2 DEF FilesOk
<1>14. Work({})'
  BY <1>1 DEF Work, Making
<1>15. EndsOk'
  <2>1. ASSUME NEW c \in Clusters, NEW i \in 1..PerPage, NEW j \in 1..PerPage, i < j, page'[c][i].kind = "end"
        PROVE  page'[c][j].kind = "end"
    BY <1>2, <1>3, <1>4, <2>1 DEF EndsOk
  <2> QED
    BY <2>1 DEF EndsOk
<1>16. TypeOK'
  <2>1. body' \in [Clusters -> Piece]
    <3>1. NoPiece \in Piece
      BY DEF NoPiece, Piece, GeometryAssumption
    <3> HIDE DEF NoPiece
    <3> QED
      BY <1>1, <1>2, <3>1
  <2>2. NoCall \in Calls /\ 0 \in 0..MaxSize
    BY DEF NoCall, Calls, GeometryAssumption
  <2> QED
    BY <1>1, <1>4, <2>1, <2>2 DEF FatInv, TypeOK, PagesTyped
<1>17. CallOk'
  BY <1>1 DEF CallOk, Stepping, Making, NoCall
<1> QED
  BY <1>1, <1>9, <1>10, <1>11, <1>12, <1>13, <1>14, <1>15, <1>16, <1>17, Collect DEF CardOk

PhotoName == [Blank("long") EXCEPT !.name = Photo]
PhotoEntry(size) == [kind |-> "entry", name |-> Photo, first |-> 3, size |-> size]

\* A card as it comes: nothing on it, or the photo's entry and clusters.
LEMMA CardIs ==
  ASSUME GeometryAssumption, NEW links, NEW size \in 0..MaxSize, Card(links, size),
         \/ links = <<>>
         \/ links # <<>> /\ DOMAIN links = {3, 4} /\ links[3] \in 0..Eoc /\ links[4] \in 0..Eoc
  PROVE  /\ TablesTyped /\ Twin = Fat /\ Fat[Root] = Eoc
         /\ \A c \in Clusters : c \notin {Root, 3, 4} => Fat[c] = 0
         /\ links = <<>> => Fat[3] = 0 /\ Fat[4] = 0
         /\ links # <<>> => Fat[3] = links[3] /\ Fat[4] = links[4]
         /\ PagesTyped /\ body \in [Clusters -> Piece]
         /\ \A c \in Clusters, i \in 1..PerPage : c # Root => page[c][i].kind = "end"
         /\ \A i \in 1..PerPage :
              page[Root][i] = (IF links = <<>> THEN Blank("end")
                               ELSE IF i = 1 THEN PhotoName
                               ELSE IF i = 2 THEN PhotoEntry(size)
                               ELSE Blank("end"))
<1> DEFINE row == [c \in Clusters |-> IF c = Root THEN Eoc ELSE IF c \in DOMAIN links THEN links[c] ELSE 0]
           top == [i \in 1..PerPage |->
                     IF links = <<>> THEN Blank("end")
                     ELSE IF i = 1 THEN PhotoName
                     ELSE IF i = 2 THEN PhotoEntry(size)
                     ELSE Blank("end")]
<1>1. /\ fat = [i \in 1..2 |-> row]
      /\ page = [c \in Clusters |-> IF c # Root THEN EmptyPage ELSE top]
      /\ body = [c \in Clusters |-> IF links # <<>> /\ c \in {3, 4} THEN [version |-> 1, part |-> c - 2] ELSE NoPiece]
  BY DEF Card, PhotoEntry, PhotoName
<1>2. Root \in Clusters /\ 3 \in Clusters /\ 4 \in Clusters /\ Root # 3 /\ Root # 4
      /\ 0 \in 0..Eoc /\ Eoc \in 0..Eoc /\ 3 \in 0..Eoc /\ 0 \in 0..MaxSize
  BY Numbers DEF Root, GeometryAssumption
<1>3. links = <<>> => \A c : c \notin DOMAIN links
  OBVIOUS
<1>4. row \in Tables /\ row[Root] = Eoc /\ \A c \in Clusters : c \notin {Root, 3, 4} => row[c] = 0
  BY <1>2, <1>3 DEF Tables
<1>5. /\ links = <<>> => row[3] = 0 /\ row[4] = 0
      /\ links # <<>> => row[3] = links[3] /\ row[4] = links[4]
  BY <1>2, <1>3
<1> HIDE DEF row
<1>6. TablesTyped /\ Fat = row /\ Twin = row
  BY <1>1, <1>4 DEF TablesTyped, Fat, Twin
<1>7. EmptyPage \in [1..PerPage -> Slot] /\ \A i \in 1..PerPage : EmptyPage[i].kind = "end"
  BY <1>2 DEF EmptyPage, Slot, SlotKinds, Blank
<1>8. top \in [1..PerPage -> Slot]
  <2>1. Blank("end") \in Slot
    BY <1>2 DEF Slot, SlotKinds, Blank
  <2>2. PhotoName \in Slot
    BY <1>2 DEF Slot, SlotKinds, Blank, Names, PhotoName
  <2>3. PhotoEntry(size) \in Slot
    BY <1>2 DEF Slot, SlotKinds, PhotoEntry, Names
  <2> QED
    BY <2>1, <2>2, <2>3
<1>9. \A i \in 1..PerPage :
        top[i] = (IF links = <<>> THEN Blank("end")
                  ELSE IF i = 1 THEN PhotoName
                  ELSE IF i = 2 THEN PhotoEntry(size)
                  ELSE Blank("end"))
  OBVIOUS
<1> HIDE DEF top, EmptyPage
<1>10. PagesTyped /\ page[Root] = top /\ \A c \in Clusters : c # Root => page[c] = EmptyPage
  BY <1>1, <1>2, <1>7, <1>8 DEF PagesTyped
<1>11. body \in [Clusters -> Piece]
  <2>1. MaxCalls \in Nat /\ MaxSize \in Nat /\ MaxSize > 2
    BY DEF GeometryAssumption
  <2>2. 1 \in Versions /\ 0 \in Versions \union {0} /\ 0 \in 0..MaxSize
        /\ \A c \in {3, 4} : c - 2 \in 0..MaxSize
    BY <2>1 DEF Versions
  <2> QED
    BY <1>1, <2>2 DEF Piece, NoPiece
<1> QED
  BY <1>4, <1>5, <1>6, <1>7, <1>9, <1>10, <1>11

\* The cards a computer hands over.
LEMMA InitInv ==
  ASSUME GeometryAssumption, NamesAssumption, Init
  PROVE  FatInv
<1>1. /\ call = NoCall /\ pc = "idle" /\ at = 0 /\ batch = {} /\ chain = <<>> /\ left = 0
      /\ calls = 0 /\ scars = {}
  BY DEF Init
<1>2. 3 \in Clusters /\ 4 \in Clusters /\ Root \in Clusters /\ 3 \in 0..Eoc /\ 4 \in 0..Eoc /\ Eoc \in 0..Eoc
      /\ Eoc # 0 /\ ~Chained(0) /\ ~Chained(Eoc) /\ Root # 3 /\ Root # 4 /\ Eoc # 3 /\ Eoc # 4
      /\ 1..2 = {1, 2} /\ PerPage \in Nat /\ 1 \in 1..PerPage /\ 2 \in 1..PerPage
      /\ MaxSize \in 1..MaxSize /\ 2 \in 1..MaxSize /\ 0 \in 0..MaxSize /\ 2 \in 0..MaxSize /\ MaxSize \in 0..MaxSize
  <2>1. MaxSize \in 1..MaxSize /\ 2 \in 1..MaxSize /\ 0 \in 0..MaxSize /\ 2 \in 0..MaxSize /\ MaxSize \in 0..MaxSize
    BY DEF GeometryAssumption
  <2>2. 1..2 = {1, 2} /\ PerPage \in Nat /\ 1 \in 1..PerPage /\ 2 \in 1..PerPage
    BY DEF GeometryAssumption
  <2>3. 3 \in Clusters /\ 4 \in Clusters /\ Root \in Clusters /\ 3 \in 0..Eoc /\ 4 \in 0..Eoc /\ Eoc \in 0..Eoc
        /\ Eoc # 0 /\ ~Chained(0) /\ ~Chained(Eoc) /\ Eoc # 3 /\ Eoc # 4
    BY Numbers
  <2> QED
    BY <2>1, <2>2, <2>3 DEF Root
\* What the three cards have in common.
<1>3. PICK size \in 1..MaxSize, holds \in BOOLEAN :
      /\ TablesTyped /\ Twin = Fat /\ Fat[Root] = Eoc
      /\ \A c \in Clusters : c \notin {Root, 3, 4} => Fat[c] = 0
      /\ ~holds => Fat[3] = 0 /\ Fat[4] = 0
      /\ holds => Fat[3] = 4 /\ ((Fat[4] = Eoc /\ size = 2) \/ (Fat[4] = 3 /\ size = MaxSize))
      /\ PagesTyped /\ body \in [Clusters -> Piece]
      /\ \A c \in Clusters, i \in 1..PerPage : c # Root => page[c][i].kind = "end"
      /\ \A i \in 1..PerPage :
           page[Root][i] = (IF ~holds THEN Blank("end")
                            ELSE IF i = 1 THEN PhotoName
                            ELSE IF i = 2 THEN PhotoEntry(size)
                            ELSE Blank("end"))
  <2> DEFINE sound == [c \in {3, 4} |-> IF c = 4 THEN Eoc ELSE 4]
             loop == [c \in {3, 4} |-> IF c = LoopBack[1] THEN LoopBack[2] ELSE 4]
  <2>1. sound # <<>> /\ DOMAIN sound = {3, 4} /\ sound[3] = 4 /\ sound[4] = Eoc
    OBVIOUS
  <2>2. loop # <<>> /\ DOMAIN loop = {3, 4} /\ loop[3] = 4 /\ loop[4] = 3
    BY DEF LoopBack
  <2>3. Card(<<>>, 0) \/ Card(sound, 2) \/ Card(loop, MaxSize)
    BY DEF Init
  <2> HIDE DEF sound, loop
  <2>4. CASE Card(<<>>, 0)
    <3> DEFINE none == <<>>
    <3>1. none = <<>>
      OBVIOUS
    <3> HIDE DEF none
    <3>2. Card(none, 0) /\ 0 \in 0..MaxSize
      BY <1>2, <2>4, <3>1
    <3> QED
      BY <1>2, <3>1, <3>2, CardIs
  <2>5. CASE Card(sound, 2)
    <3>1. /\ TablesTyped /\ Twin = Fat /\ Fat[Root] = Eoc
          /\ \A c \in Clusters : c \notin {Root, 3, 4} => Fat[c] = 0
          /\ Fat[3] = 4 /\ Fat[4] = Eoc
          /\ PagesTyped /\ body \in [Clusters -> Piece]
          /\ \A c \in Clusters, i \in 1..PerPage : c # Root => page[c][i].kind = "end"
          /\ \A i \in 1..PerPage :
               page[Root][i] = (IF i = 1 THEN PhotoName
                                ELSE IF i = 2 THEN PhotoEntry(2)
                                ELSE Blank("end"))
      BY <1>2, <2>1, <2>5, CardIs
    <3> WITNESS 2 \in 1..MaxSize, TRUE \in BOOLEAN
    <3> QED
      BY <3>1
  <2>6. CASE Card(loop, MaxSize)
    <3>1. /\ TablesTyped /\ Twin = Fat /\ Fat[Root] = Eoc
          /\ \A c \in Clusters : c \notin {Root, 3, 4} => Fat[c] = 0
          /\ Fat[3] = 4 /\ Fat[4] = 3
          /\ PagesTyped /\ body \in [Clusters -> Piece]
          /\ \A c \in Clusters, i \in 1..PerPage : c # Root => page[c][i].kind = "end"
          /\ \A i \in 1..PerPage :
               page[Root][i] = (IF i = 1 THEN PhotoName
                                ELSE IF i = 2 THEN PhotoEntry(MaxSize)
                                ELSE Blank("end"))
      BY <1>2, <2>2, <2>6, CardIs
    <3> WITNESS MaxSize \in 1..MaxSize, TRUE \in BOOLEAN
    <3> QED
      BY <3>1
  <2> QED
    BY <2>3, <2>4, <2>5, <2>6
<1>4. /\ Directory = <<Root>> /\ Pages = {Root} /\ LastPage = Root
      /\ \A p \in DOMAIN Slots : p = <<1, p[2]>> /\ p[2] \in 1..PerPage /\ Slots[p] = page[Root][p[2]]
      /\ \A i \in 1..PerPage : <<1, i>> \in DOMAIN Slots
  <2> DEFINE t == Fat
             pg == page
             sl == SlotsIn(<<Root>>, pg, 1)
  <2>1. /\ Walk(t, Root) = <<Root>> /\ Used(<<Root>>, "idle") = 1
        /\ ToSet(<<Root>>) = {Root} /\ Len(<<Root>>) = 1
        /\ \A p \in DOMAIN sl : p = <<1, p[2]>> /\ p[2] \in 1..PerPage /\ sl[p] = pg[Root][p[2]]
        /\ \A i \in 1..PerPage : <<1, i>> \in DOMAIN sl
    <3>1. t[Root] = Eoc
      BY <1>3
    <3> HIDE DEF t, pg
    <3> QED
      BY <3>1, RootOnly
  <2>2. Directory = <<Root>>
    BY <2>1, Shape
  <2>3. Pages = {Root} /\ LastPage = Root
    BY <2>1, <2>2, Shape
  <2>4. Slots = sl
    BY <1>1, <2>1, <2>2, Shape
  <2> HIDE DEF sl
  <2> QED
    BY <2>1, <2>2, <2>3, <2>4
<1> DEFINE e == PhotoEntry(size)
           place == <<1, 2>>
<1>5. e.kind = "entry" /\ e.name = Photo /\ e.first = 3 /\ e.size = size /\ (size = MaxSize => e = LoopEntry)
  BY DEF PhotoEntry, LoopEntry
<1>6. /\ Blank("end").kind = "end" /\ PhotoName.kind = "long"
  BY DEF Blank, PhotoName
<1> HIDE DEF e
<1>7. /\ \A i \in 1..PerPage : page[Root][i].kind \in {"end", "long", "entry"}
      /\ ~holds => \A i \in 1..PerPage : page[Root][i].kind = "end"
      /\ holds => /\ page[Root][1].kind = "long" /\ page[Root][2] = e
                  /\ \A i \in 1..PerPage : i # 1 /\ i # 2 => page[Root][i].kind = "end"
  BY <1>2, <1>3, <1>5, <1>6 DEF e
<1>8. /\ ~holds => EntriesOf(Slots) = {}
      /\ holds => EntriesOf(Slots) = {place} /\ Slots[place] = e
  <2>1. place \in DOMAIN Slots /\ place[2] = 2
    BY <1>2, <1>4
  <2>2. \A p \in DOMAIN Slots : p[2] = 2 => p = place
    BY <1>4
  <2>3. \A p \in DOMAIN Slots : holds /\ Slots[p].kind = "entry" => p[2] = 2
    BY <1>4, <1>7
  <2>4. ~holds => \A p \in DOMAIN Slots : Slots[p].kind # "entry"
    BY <1>4, <1>7
  <2>5. holds => Slots[place] = e
    BY <1>4, <1>7, <2>1
  <2> HIDE DEF place
  <2> QED
    BY <1>5, <2>1, <2>2, <2>3, <2>4, <2>5 DEF EntriesOf
<1> HIDE DEF place
<1>9. \A c \in Clusters : Chained(Fat[c]) => holds /\ ((c = 3 /\ Fat[c] = 4) \/ (c = 4 /\ Fat[c] = 3))
  BY <1>2, <1>3
<1>10. holds => /\ On(Fat, 3) \subseteq {3, 4} /\ 3 \in On(Fat, 3)
                /\ FileOk(Fat, Twin, e)
  <2> SUFFICES ASSUME holds
               PROVE  On(Fat, 3) \subseteq {3, 4} /\ 3 \in On(Fat, 3) /\ FileOk(Fat, Twin, e)
    OBVIOUS
  <2> DEFINE R == {3, 4}
  <2>1. 3 \in R /\ \A b \in R : Chained(Fat[b]) => Fat[b] \in R
    BY <1>2, <1>3
  <2> HIDE DEF R
  <2>2. On(Fat, 3) \subseteq R
    BY <1>2, <2>1, WalkStays DEF On
  <2>3. 3 \in On(Fat, 3)
    BY <1>2, OnIs
  <2>4. \A b \in On(Fat, 3) : Twin[b] = Fat[b] /\ Rises(Fat, b)
    <3>1. 3 < 4 /\ Back(4, 3) /\ ~Chained(Eoc)
      BY <1>2 DEF Back, LoopBack
    <3> QED
      BY <1>3, <2>2, <3>1 DEF R, Rises
  <2>5. CASE Fat[4] = Eoc /\ size = 2
    <3> DEFINE w == <<3, 4>>
    <3>1. Len(w) = 2 /\ w \in Seq(Clusters) /\ w # <<>> /\ w[1] = 3 /\ w[2] = 4
      BY <1>2
    <3>2. \A k \in 1..Len(w) - 1 : w[k + 1] = Fat[w[k]]
      <4>1. 1..Len(w) - 1 = {1} /\ 1 + 1 = 2
        BY <3>1
      <4> HIDE DEF w
      <4> QED
        BY <1>3, <3>1, <4>1
    <3>3. \A i, j \in 1..Len(w) : w[i] = w[j] => i = j
      <4>1. 1..Len(w) = {1, 2}
        BY <3>1
      <4> HIDE DEF w
      <4> QED
        BY <3>1, <4>1
    <3> HIDE DEF w
    <3>4. Ended(Fat, w)
      BY <1>2, <2>5, <3>1 DEF Ended, NextOf
    <3>5. IsWalk(Fat, 3, w)
      BY <3>1, <3>2, <3>3, <3>4 DEF IsWalk, IsWay
    <3>6. Walk(Fat, 3) = w
      BY <1>2, <3>5, WalkOne
    <3>7. Whole(Fat, Walk(Fat, e.first), e.size)
      BY <1>5, <2>5, <3>1, <3>6 DEF Whole
    <3> QED
      BY <1>2, <1>5, <2>2, <2>3, <2>4, <2>5, <3>7 DEF FileOk, Chained, R
  <2>6. CASE Fat[4] = 3 /\ size = MaxSize
    BY <1>2, <1>3, <1>5, <2>2, <2>3, <2>4, <2>6 DEF FileOk, Chained, R
  <2> QED
    BY <1>3, <2>5, <2>6
<1>11. Filed(Fat, Twin, Slots)
  BY <1>8, <1>10 DEF Filed
<1>12. /\ ~holds => Owned(Fat, Slots) = {}
       /\ holds => Owned(Fat, Slots) = On(Fat, 3)
  <2>1. Owned(Fat, Slots) = UNION {On(Fat, Slots[p].first) : p \in EntriesOf(Slots)}
    BY DEF Owned
  <2> QED
    BY <1>5, <1>8, <2>1
<1>13. LinksOk(Fat, Twin)
  <2>1. ASSUME NEW b \in Clusters, Chained(Fat[b]) PROVE Fat[Fat[b]] # 0
    <3>1. holds /\ (Fat[b] = 4 \/ Fat[b] = 3)
      BY <1>9, <2>1
    <3>2. Fat[4] # 0 /\ Fat[3] # 0
      BY <1>2, <1>3, <3>1
    <3> QED
      BY <3>1, <3>2
  <2>2. \A b \in Clusters : ~(Fat[b] = 0 /\ Chained(Twin[b]))
    BY <1>2, <1>3
  <2> QED
    BY <1>3, <2>1, <2>2 DEF LinksOk
<1>14. FilesOk({})
  <2> DEFINE own == Owned(Fat, Slots)
  <2>1. own \subseteq {3, 4} /\ (own # {} => holds /\ 3 \in own) /\ own \union {} = own
    BY <1>10, <1>12
  <2> HIDE DEF own
  <2>2. own \cap Pages = {}
    BY <1>2, <1>4, <2>1
  <2>3. \A b \in Clusters : Fat[b] \in own => b \in own \/ Back(b, Fat[b])
    <3>1. Back(4, 3)
      BY DEF Back, LoopBack
    <3>2. ASSUME NEW b \in Clusters, Fat[b] \in own PROVE b \in own \/ Back(b, Fat[b])
      <4>1. Fat[b] \in Clusters
        BY <1>2, <2>1, <3>2
      <4>2. (b = 3 /\ Fat[b] = 4) \/ (b = 4 /\ Fat[b] = 3)
        BY <1>9, <4>1 DEF Chained
      <4> QED
        BY <2>1, <3>1, <3>2, <4>2
    <3> QED
      BY <3>2
  <2>4. \A b \in Clusters : Fat[b] = 0 => Twin[b] \notin own
    BY <1>3, <2>1
  <2>5. Fenced(Fat, Twin, own, {}, Mid)
    BY <2>3, <2>4 DEF Fenced
  <2> QED
    BY <1>11, <2>1, <2>2, <2>5 DEF FilesOk, own
<1>15. NamesOk
  <2>1. \A c \in Pages : c = LastPage
    BY <1>4
  <2>2. \A p, q \in EntriesOf(Slots) : p = q
    BY <1>8
  <2> QED
    BY <1>1, <1>3, <1>4, <2>1, <2>2 DEF NamesOk, NoCall
<1>16. NoNoise
  BY <1>4, <1>7 DEF NoNoise
<1>17. EndsOk
  <2>1. ASSUME NEW c \in Clusters, NEW i \in 1..PerPage, NEW j \in 1..PerPage, i < j, page[c][i].kind = "end"
        PROVE  page[c][j].kind = "end"
    <3>1. CASE c # Root
      BY <1>3, <3>1
    <3>2. CASE c = Root /\ ~holds
      BY <1>7, <3>2
    <3>3. CASE c = Root /\ holds
      <4>1. i # 1 /\ i # 2
        BY <1>5, <1>7, <2>1, <3>3
      <4>2. j # 1 /\ j # 2
        BY <1>2, <2>1, <4>1
      <4> QED
        BY <1>7, <3>3, <4>2
    <3> QED
      BY <3>1, <3>2, <3>3
  <2> QED
    BY <2>1 DEF EndsOk
<1>18. TypeOK
  <2>1. NoCall \in Calls
    BY <1>2 DEF NoCall, Calls
  <2>2. 0 \in 0..MaxCalls /\ 0 \in Nat /\ <<>> \in Seq(Clusters)
    BY DEF GeometryAssumption
  <2> QED
    BY <1>1, <1>2, <1>3, <2>1, <2>2 DEF TypeOK, TablesTyped, Tables, PagesTyped
<1>19. CallOk /\ FormatOk
  BY <1>1 DEF CallOk, FormatOk, NoCall, Stepping, Making
<1>20. CardOk
  <2>1. Work({})
    BY <1>1 DEF Work, Making
  <2> QED
    BY <1>13, <1>14, <1>15, <2>1 DEF CardOk
<1> QED
  BY <1>16, <1>17, <1>18, <1>19, <1>20 DEF FatInv

-----------------------------------------------------------------------------
(* The theorems. *)

LEMMA WritesKeep ==
  ASSUME GeometryAssumption, FatInv, Writes
  PROVE  FatInv'
<1>1. CASE MarkDeleted \/ NothingToDelete \/ FreeChain \/ FreeMirror
  BY <1>1, MarkDeletedKeeps, NothingToDeleteKeeps, FreeChainKeeps, FreeMirrorKeeps
<1>2. CASE Claim \/ LinkChain \/ LinkMirror \/ WriteData \/ WriteEntry
  BY <1>2, ClaimKeeps, LinkChainKeeps, LinkMirrorKeeps, WriteDataKeeps, WriteEntryKeeps
<1>3. CASE Extend \/ ExtendMirror \/ Hook \/ HookMirror \/ ClearPage
  BY <1>3, ExtendKeeps, ExtendMirrorKeeps, HookKeeps, HookMirrorKeeps, ClearPageKeeps
<1>4. CASE Done \/ FormatTables \/ FormatRoot
  BY <1>4, DoneKeeps, FormatTablesKeeps, FormatRootKeeps
<1> QED
  BY <1>1, <1>2, <1>3, <1>4 DEF Writes

LEMMA RestKeeps ==
  ASSUME FatInv, UNCHANGED vars
  PROVE  FatInv'
<1>1. /\ fat' = fat /\ page' = page /\ body' = body /\ call' = call /\ pc' = pc /\ at' = at
      /\ batch' = batch /\ chain' = chain /\ left' = left /\ calls' = calls /\ scars' = scars
  BY DEF vars, disk, locals
<1>2. /\ Fat' = Fat /\ Twin' = Twin /\ Directory' = Directory /\ LastPage' = LastPage /\ Pages' = Pages
      /\ Mid' = Mid /\ (Formatted' <=> Formatted) /\ (Adding' <=> Adding)
      /\ TopSector' = TopSector /\ Run' = Run /\ \A k : LinkOf(k)' = LinkOf(k)
  BY <1>1, Shape DEF Fat, Twin, Mid, Formatted, Adding, TopSector, Run, LinkOf
<1>3. Slots' = Slots
  BY <1>1, <1>2, Shape
<1>4. Spare' = Spare
  BY <1>3 DEF Spare
<1>5. TypeOK'
  BY <1>1 DEF FatInv, TypeOK
<1>6. CallOk'
  BY <1>1 DEF FatInv, CallOk
<1>7. FormatOk'
  BY <1>1, <1>2 DEF FatInv, FormatOk
<1>8. EndsOk'
  BY <1>1 DEF FatInv, EndsOk
<1>9. NoNoise => NoNoise'
  BY <1>1, <1>3 DEF NoNoise
<1>10. NamesOk => NamesOk'
  BY <1>1, <1>2, <1>3 DEF NamesOk, EntriesOf
<1>11. LinksOk(Fat, Twin) => LinksOk(Fat, Twin)'
  BY <1>2 DEF LinksOk
<1>12. ASSUME NEW H PROVE FilesOk(H) => FilesOk(H)'
  <2>1. Owned(Fat, Slots)' = Owned(Fat, Slots) /\ (Filed(Fat, Twin, Slots)' <=> Filed(Fat, Twin, Slots))
    BY <1>2, <1>3 DEF Owned, On, EntriesOf, Filed, FileOk, Whole, Rises
  <2>2. \A K : Fenced(Fat, Twin, K, H, Mid)' <=> Fenced(Fat, Twin, K, H, Mid)
    BY <1>2 DEF Fenced
  <2> QED
    BY <1>2, <2>1, <2>2 DEF FilesOk
<1>13. ASSUME NEW H PROVE Work(H) => Work(H)'
  <2>1. Freeing(H) => Freeing(H)'
    BY <1>1, <1>2 DEF Freeing, Rises
  <2>2. Linking(H) => Linking(H)'
    BY <1>1, <1>2 DEF Linking
  <2>3. Made(H) => Made(H)'
    BY <1>1, <1>2, <1>3, <1>4 DEF Made, Owned, On, EntriesOf
  <2> QED
    BY <1>1, <2>1, <2>2, <2>3 DEF Work
<1>14. CardOk => CardOk'
  BY <1>10, <1>11, <1>12, <1>13 DEF CardOk
<1> QED
  BY <1>2, <1>5, <1>6, <1>7, <1>8, <1>9, <1>14 DEF FatInv

LEMMA StepKeeps ==
  ASSUME GeometryAssumption, NamesAssumption, FatInv, [Next]_vars
  PROVE  FatInv'
<1>1. CASE \E n \in Saved \union {Photo}, size \in Sizes : Save(n, size)
  <2>1. PICK n \in Saved \union {Photo}, size \in Sizes : Begin("save", n, size, "remove")
    BY <1>1 DEF Save
  <2>2. n \in Names /\ n # TestName /\ size \in 1..MaxSize /\ size \in 0..MaxSize
    BY DEF NamesAssumption, Names, GeometryAssumption
  <2> QED
    BY <2>1, <2>2, BeginKeeps
<1>2. CASE \E n \in Names : Delete(n)
  <2>1. PICK n \in Names : Begin("delete", n, 0, "remove")
    BY <1>2 DEF Delete
  <2>2. 0 \in 0..MaxSize
    BY DEF GeometryAssumption
  <2> QED
    BY <2>1, <2>2, BeginKeeps
<1>3. CASE Test
  <2>1. Begin("test", TestName, 1, "remove")
    BY <1>3 DEF Test
  <2>2. 1 \in 1..MaxSize /\ 1 \in 0..MaxSize /\ TestName \in Names
    BY DEF GeometryAssumption, Names
  <2> QED
    BY <2>1, <2>2, BeginKeeps
<1>4. CASE Format
  <2>1. Begin("format", Absent, 0, "format")
    BY <1>4 DEF Format
  <2>2. 0 \in 0..MaxSize
    BY DEF GeometryAssumption
  <2> QED
    BY <2>1, <2>2, BeginKeeps
<1>5. CASE Writes
  BY <1>5, WritesKeep
<1>6. CASE Stop
  BY <1>6, StopKeeps
<1>7. CASE TestGoesOn
  BY <1>7, TestGoesOnKeeps
<1>8. CASE UNCHANGED vars
  BY <1>8, RestKeeps
<1> QED
  BY <1>1, <1>2, <1>3, <1>4, <1>5, <1>6, <1>7, <1>8 DEF Next

\* FatInv, after any writes of any calls, wherever the power went: both copies of
\* the table, the directory and the clusters of the call under way are as
\* delete_file, create_file and the format leave them between two writes.
THEOREM FatInvariant == Spec => []FatInv
<1>1. Init => FatInv
  BY InitInv, GeometryAssumption, NamesAssumption
<1>2. FatInv /\ [Next]_vars => FatInv'
  BY StepKeeps, GeometryAssumption, NamesAssumption
<1> QED
  BY <1>1, <1>2, PTL DEF Spec

\* A looped photo reads back as damaged.
LEMMA LoopIsDamaged ==
  ASSUME GeometryAssumption, fat \in [1..2 -> Tables], Fat[3] = 4, Fat[4] = 3
  PROVE  ReadEntry(LoopEntry) = Damaged
<1> DEFINE w == Walk(Fat, 3)
           S == {3, 4}
           n == Len(w)
<1>1. 3 \in Clusters
  BY Numbers
<1>2. /\ n \in Nat /\ ToSet(w) = {w[i] : i \in 1..n}
      /\ \A i, j \in 1..n : w[i] = w[j] => i = j
  <2>1. /\ Len(Walk(Fat, 3)) \in Nat \ {0}
        /\ ToSet(Walk(Fat, 3)) = {Walk(Fat, 3)[i] : i \in 1..Len(Walk(Fat, 3))}
        /\ \A i, j \in 1..Len(Walk(Fat, 3)) : Walk(Fat, 3)[i] = Walk(Fat, 3)[j] => i = j
    BY <1>1, WalkFacts
  <2> QED
    BY <2>1
<1>3. ToSet(w) \subseteq S
  <2>1. 3 \in S /\ \A b \in S : Chained(Fat[b]) => Fat[b] \in S
    OBVIOUS
  <2> HIDE DEF S
  <2> QED
    BY <1>1, <2>1, WalkStays
<1> HIDE DEF w, n
<1>4. ~(n >= MaxSize)
  <2> SUFFICES ASSUME n >= MaxSize PROVE FALSE
    OBVIOUS
  <2>1. 1 \in 1..n /\ 2 \in 1..n /\ 3 \in 1..n
    BY <1>2 DEF GeometryAssumption
  <2>2. w[1] \in {3, 4} /\ w[2] \in {3, 4} /\ w[3] \in {3, 4}
    BY <1>2, <1>3, <2>1
  <2> QED
    BY <1>2, <2>1, <2>2
<1>5. PathFrom(LoopEntry.first) = w /\ LoopEntry.size = MaxSize
  BY DEF PathFrom, LoopEntry, w, Fat
<1> QED
  BY <1>4, <1>5 DEF ReadEntry, n

\* FatInv is about every table and entry there is; the properties follow.
LEMMA SoundOf ==
  ASSUME GeometryAssumption, FatInv
  PROVE  TableSound
<1>1. TypeOK
  BY DEF FatInv
<1>2. fat \in [1..2 -> Tables] /\ Fat \in Tables /\ PagesTyped
  BY <1>1 DEF TypeOK, Tables, Fat, PagesTyped
<1>3. ASSUME Formatted PROVE LinksOk(Fat, Twin) /\ \E H \in SUBSET Clusters : FilesOk(H)
  BY <1>3 DEF FatInv, CardOk
<1>4. LinksClaimed
  BY <1>3 DEF LinksClaimed, LinksOk, Back, Fat, Twin
<1>5. ChainsSound
  <2> SUFFICES ASSUME Formatted,
                      NEW e \in Files, Intact(e)
               PROVE  LET path == [f \in Files |-> PathFrom(f.first)] IN
                      /\ Len(path[e]) = e.size /\ fat[1][path[e][e.size]] = Eoc
                      /\ \A c \in ToSet(path[e]) : fat[1][c] = fat[2][c] /\ c \notin ToSet(Directory)
                      /\ \A f \in Files \ {e} : ToSet(path[e]) \cap ToSet(path[f]) = {}
    BY DEF ChainsSound
  <2>1. PICK H \in SUBSET Clusters : FilesOk(H)
    BY <1>3
  <2>2. /\ Filed(Fat, Twin, Slots) /\ Owned(Fat, Slots) \cap Pages = {}
    BY <2>1 DEF FilesOk
  <2>3. \A f \in Files : \E p \in EntriesOf(Slots) : f = Slots[p]
    BY DEF Files, EntriesOf
  <2>4. PICK p \in EntriesOf(Slots) : e = Slots[p]
    BY <2>3
  <2>5. FileOk(Fat, Twin, e) /\ On(Fat, e.first) \subseteq Owned(Fat, Slots)
    BY <2>2, <2>4 DEF Filed, Owned
  <2>6. Whole(Fat, Walk(Fat, e.first), e.size)
    <3>1. CASE e = LoopEntry /\ Fat[3] = 4 /\ Fat[4] = 3
      <4>1. e.name = Photo
        BY <3>1 DEF LoopEntry
      <4>2. ReadEntry(e) = Damaged
        BY <1>2, <3>1, LoopIsDamaged
      <4> QED
        BY <4>1, <4>2 DEF Intact
    <3> QED
      BY <2>5, <3>1 DEF FileOk
  <2>7. \A c \in On(Fat, e.first) : Fat[c] = Twin[c] /\ c \notin Pages
    BY <2>2, <2>5 DEF FileOk
  <2>8. ASSUME NEW f \in Files, f # e PROVE On(Fat, e.first) \cap On(Fat, f.first) = {}
    <3>1. PICK q \in EntriesOf(Slots) : f = Slots[q]
      BY <2>3
    <3> QED
      BY <2>2, <2>4, <2>8, <3>1 DEF Filed
  <2>9. \A f \in Files : PathFrom(f.first) = Walk(Fat, f.first)
    BY DEF PathFrom, Fat
  <2> QED
    BY <2>6, <2>7, <2>8, <2>9 DEF Whole, On, Fat, Twin, Pages
<1> QED
  BY <1>1, <1>4, <1>5 DEF TableSound

\* For cards of every size and any sequence of saves, deletions, tests and formats,
\* cut off after any write: a listed file has a whole chain of its own in both
\* copies of the table, and no link leads to a cluster that could be given out
\* (delete_file's entry-first order, allocate_chain's top-sector-first one).
THEOREM TablesSound == Spec => []TableSound
<1>1. FatInv => TableSound
  BY SoundOf, GeometryAssumption
<1> QED
  BY FatInvariant, <1>1, PTL

\* A listing is a set of entries; no two of them are of one name.
LEMMA NamedOnce ==
  ASSUME GeometryAssumption, FatInv, Formatted, NEW n \in Names \ {TestName}
  PROVE  Cardinality(Hits(n)) <= 1
<1>1. Hits(n) \subseteq EntriesOf(Slots) /\ \A p \in Hits(n) : Slots[p].name = n
  BY DEF Hits, HitsIn, Listed, EntriesOf
<1>2. \A p, q \in Hits(n) : p = q
  BY <1>1 DEF FatInv, CardOk, NamesOk
<1>3. CASE Hits(n) = {}
  BY <1>3, FS_EmptySet
<1>4. CASE Hits(n) # {}
  <2>1. PICK p : p \in Hits(n)
    BY <1>4
  <2>2. Hits(n) = {p}
    BY <1>2, <2>1
  <2> QED
    BY <2>2, FS_Singleton
<1> QED
  BY <1>3, <1>4

\* What no reading of the card under FatInv covers: a format on its way.
Unspoilt == ("old" \in scars => "page" \in scars) /\ NoNoise

\* Formatting only cuts the directory short.
LEMMA CutShort ==
  ASSUME GeometryAssumption, TypeOK, pc \in {"format", "idle"}, NoNoise, pc' \in {"format", "root"},
         page' = page, scars' = scars, PagesTyped, PagesTyped',
         \A c \in Clusters : Chained(Fat'[c]) => Fat'[c] = Fat[c]
  PROVE  NoNoise'
<1> DEFINE t == Fat
           u == Fat'
           S == ToSet(Walk(t, Root))
<1>1. Root \in Clusters
  BY Numbers
<1>2. Root \in S /\ \A b \in S : Chained(t[b]) => t[b] \in S
  BY <1>1, WalkFacts
<1>3. Pages = S /\ Pages' = ToSet(Walk(u, Root)) /\ S \subseteq Clusters
  BY <1>1, Shape, WalkFacts
<1>4. Pages' \subseteq Pages
  <2>1. \A b \in S : Chained(u[b]) => u[b] \in S
    BY <1>2, <1>3
  <2> HIDE DEF S, t, u
  <2>2. ToSet(Walk(u, Root)) \subseteq S
    BY <1>1, <1>2, <2>1, WalkStays
  <2> QED
    BY <1>3, <2>2
<1> HIDE DEF t, u, S
<1>5. Used(Directory, pc) = Len(Directory)
  BY DEF Used
<1>6. ASSUME "page" \notin scars', NEW q \in DOMAIN Slots' PROVE Slots'[q].kind # "noise"
  <2>1. /\ q[2] \in 1..PerPage /\ Directory'[q[1]] \in Pages'
        /\ Slots'[q] = page'[Directory'[q[1]]][q[2]]
    <3> DEFINE d == Walk(Fat', Root)
    <3>1. /\ Len(d) \in Nat /\ ToSet(d) = {d[i] : i \in 1..Len(d)}
      BY <1>1, WalkFacts
    <3>2. Directory' = d /\ Slots' = SlotsIn(d, page', Used(d, pc')) /\ Pages' = ToSet(d)
      BY Shape
    <3> HIDE DEF d
    <3>3. Used(d, pc') = Len(d)
      BY DEF Used
    <3>4. q \in (1..Len(d)) \X (1..PerPage) /\ Slots'[q] = page'[d[q[1]]][q[2]]
      BY <3>2, <3>3 DEF SlotsIn
    <3>5. q[1] \in 1..Len(d) /\ q[2] \in 1..PerPage
      BY <3>4
    <3> QED
      BY <3>1, <3>2, <3>4, <3>5
  <2>2. PICK i \in 1..Len(Directory) : Directory[i] = Directory'[q[1]]
    BY <1>4, <2>1, SlotsHere
  <2>3. <<i, q[2]>> \in DOMAIN Slots
    BY <1>5, <2>1, <2>2, SlotsHere
  <2>4. Slots[<<i, q[2]>>] = page[Directory[i]][q[2]]
    BY <2>3, SlotsHere
  <2> QED
    BY <1>6, <2>1, <2>2, <2>3, <2>4 DEF NoNoise
<1> QED
  BY <1>6 DEF NoNoise

LEMMA UnspoiltKeeps ==
  ASSUME GeometryAssumption, FatInv, Unspoilt, FatInv', [Next]_vars
  PROVE  Unspoilt'
<1>1. scars' = scars \/ FormatRoot \/ Stop
  BY DEF Next, Save, Delete, Test, Format, Begin, Writes, MarkDeleted, NothingToDelete, FreeChain,
         FreeMirror, Claim, LinkChain, LinkMirror, WriteData, WriteEntry, Extend, ExtendMirror, Hook,
         HookMirror, ClearPage, Done, FormatTables, TestGoesOn, vars
<1>2. "old" \in scars' => "page" \in scars'
  BY <1>1 DEF Unspoilt, FormatRoot, Stop
<1>3. CASE Formatted'
  BY <1>2, <1>3 DEF FatInv, Unspoilt
<1>4. CASE ~Formatted' /\ "page" \in scars'
  BY <1>2, <1>4 DEF Unspoilt, NoNoise
<1>5. CASE ~Formatted' /\ "page" \notin scars'
  <2>1. TypeOK /\ TypeOK' /\ PagesTyped /\ PagesTyped' /\ NoNoise
    BY DEF FatInv, TypeOK, PagesTyped, Unspoilt
  <2>2. CASE Stop
    <3>1. ~Adding /\ fat' = fat /\ page' = page /\ pc' = "idle"
      BY <1>5, <2>2 DEF Stop, Finish, disk
    <3>2. scars' = scars \/ pc \in {"format", "root"}
      BY <2>2, <3>1 DEF Stop
    <3>3. pc \in {"format", "root"}
      BY <1>5, <2>2, <3>1, <3>2 DEF FatInv, CallOk, Formatted, Stop
    <3>4. Used(Directory, pc) = Used(Directory, pc')
      BY <3>1, <3>3 DEF Used
    <3>5. Slots' = Slots
      BY <3>1, <3>4, Shape DEF Fat
    <3> QED
      BY <1>2, <1>5, <2>1, <2>2, <3>5 DEF NoNoise, Unspoilt, Stop
  <2>3. CASE FormatTables
    <3>1. /\ pc = "format" /\ pc' \in {"format", "root"} /\ page' = page /\ scars' = scars
          /\ fat' = [fat EXCEPT ![(at % 2) + 1] =
               [c \in Clusters |-> IF Sector(c) = at \div 2 THEN Fresh(c) ELSE @[c]]]
      BY <2>3 DEF FormatTables
    <3>2. \A c \in Clusters : Chained(Fat'[c]) => Fat'[c] = Fat[c]
      <4>1. ~Chained(Eoc) /\ ~Chained(0)
        BY Numbers
      <4>2. fat \in [1..2 -> [Clusters -> 0..Eoc]]
        BY <2>1 DEF TypeOK
      <4> QED
        BY <3>1, <4>1, <4>2 DEF Fat, Fresh
    <3>3. NoNoise'
      BY <2>1, <3>1, <3>2, CutShort
    <3> QED
      BY <1>2, <3>3 DEF Unspoilt
  <2>4. CASE Format
    <3>1. pc = "idle" /\ pc' = "format" /\ page' = page /\ scars' = scars /\ fat' = fat
      BY <2>4 DEF Format, Begin, disk
    <3>2. NoNoise'
      BY <2>1, <3>1, CutShort DEF Fat
    <3> QED
      BY <1>2, <3>2 DEF Unspoilt
  <2>5. CASE UNCHANGED vars
    <3>1. fat' = fat /\ page' = page /\ pc' = pc /\ scars' = scars
      BY <2>5 DEF vars, disk
    <3>2. Slots' = Slots
      BY <3>1, Shape DEF Fat
    <3> QED
      BY <1>2, <2>1, <3>1, <3>2 DEF NoNoise, Unspoilt
  <2>6. CASE FormatRoot
    BY <1>5, <2>6 DEF FormatRoot, Finish, Formatted
  <2>7. CASE \/ \E n \in Saved \union {Photo}, size \in Sizes : Save(n, size)
             \/ \E n \in Names : Delete(n)
             \/ Test
    BY <1>5, <2>7 DEF Save, Delete, Test, Begin, Formatted
  <2>8. CASE TestGoesOn \/ (Writes /\ ~FormatTables /\ ~FormatRoot)
    <3>1. pc \notin {"idle", "format", "root"} /\ scars' = scars /\ pc' \notin {"format", "root"}
      BY <2>8 DEF Writes, MarkDeleted, NothingToDelete, FreeChain, AfterFree, Finish,
         FreeMirror, Claim, LinkChain, LinkMirror, WriteData, WriteEntry, Extend, ExtendMirror, Hook,
         HookMirror, ClearPage, Done, TestGoesOn
    <3> QED
      BY <1>5, <3>1 DEF FatInv, CallOk, Formatted
  <2> QED
    BY <2>2, <2>3, <2>4, <2>5, <2>6, <2>7, <2>8 DEF Next
<1> QED
  BY <1>3, <1>4, <1>5

\* As far as no page of before a format came back, a name but the test's is in the
\* directory once; and nothing but entries is listed unless a page was linked
\* (write_dir_entry_to_root) and the power went before it was cleared.
THEOREM DirectoryStaysTrue == Spec => []DirectoryTrue
<1>1. Init => Unspoilt
  BY InitInv, GeometryAssumption, NamesAssumption DEF Init, FatInv, Unspoilt, Formatted
<1>2. FatInv /\ Unspoilt /\ FatInv' /\ [Next]_vars => Unspoilt'
  BY UnspoiltKeeps, GeometryAssumption
<1>3. FatInv /\ Unspoilt => DirectoryTrue
  BY NamedOnce, GeometryAssumption DEF DirectoryTrue, Unspoilt, NoNoise
<1> QED
  BY FatInvariant, <1>1, <1>2, <1>3, PTL DEF Spec

-----------------------------------------------------------------------------
(* What the user was promised. *)

\* Reading a name back is reading the one entry of that name.
ReadsOne == \A n \in Names \ {TestName} :
  /\ ReadBack(n) \in Versions \union {Absent, Damaged}
  /\ (\A p \in EntriesOf(Slots) : Slots[p].name # n) => ReadBack(n) = Absent
  /\ \A p \in EntriesOf(Slots) : Slots[p].name = n => ReadBack(n) = ReadEntry(Slots[p])

\* No two entries have a name in common, so the first one found is the one there is.
LEMMA ReadsOneHere == FatInv /\ Formatted => ReadsOne
<1> SUFFICES ASSUME FatInv, Formatted PROVE ReadsOne
  OBVIOUS
<1>1. PagesTyped /\ NamesOk /\ EndsOk
  BY DEF FatInv, TypeOK, PagesTyped, CardOk
<1>2. Listed(Slots) = EntriesOf(Slots) /\ EntriesOf(Slots) \subseteq Nat \X Nat
  <2>1. DOMAIN Slots \subseteq Nat \X Nat
    BY <1>1, SlotsHere, GeometryAssumption
  <2> QED
    BY <1>1, <2>1, AllListed, GeometryAssumption DEF EntriesOf
<1>3. ASSUME NEW e PROVE ReadEntry(e) \in Versions \union {Damaged}
  BY DEF ReadEntry
<1> SUFFICES ASSUME NEW n \in Names \ {TestName}
             PROVE  /\ ReadBack(n) \in Versions \union {Absent, Damaged}
                    /\ (\A p \in EntriesOf(Slots) : Slots[p].name # n) => ReadBack(n) = Absent
                    /\ \A p \in EntriesOf(Slots) : Slots[p].name = n => ReadBack(n) = ReadEntry(Slots[p])
  BY DEF ReadsOne
<1> DEFINE hits == HitsIn(Slots, n)
<1>4. hits = {p \in EntriesOf(Slots) : Slots[p].name = n}
  BY <1>2 DEF HitsIn
<1>5. ReadBack(n) = IF hits = {} THEN Absent ELSE ReadEntry(Slots[First(hits)])
  BY DEF ReadBack
<1> HIDE DEF hits
<1>6. ASSUME NEW p \in EntriesOf(Slots), Slots[p].name = n PROVE ReadBack(n) = ReadEntry(Slots[p])
  <2>1. hits = {p}
    BY <1>1, <1>4, <1>6 DEF NamesOk
  <2>2. First(hits) \in hits
    BY <1>2, <2>1, FirstIs
  <2> QED
    BY <1>5, <2>1, <2>2
<1> QED
  BY <1>3, <1>4, <1>5, <1>6

\* An entry reads the same while nothing of its file is written.
LEMMA EntrySame ==
  ASSUME GeometryAssumption, FatInv, Formatted, NEW p \in EntriesOf(Slots), Slots'[p] = Slots[p],
         \A b \in Owned(Fat, Slots) : Fat'[b] = Fat[b] /\ body'[b] = body[b]
  PROVE  ReadEntry(Slots[p])' = ReadEntry(Slots[p])
<1>1. PICK e : e = Slots[p]
  OBVIOUS
<1>2. PICK H \in SUBSET Clusters : FilesOk(H)
  BY DEF FatInv, CardOk
<1>3. FileOk(Fat, Twin, e) /\ On(Fat, e.first) \subseteq Owned(Fat, Slots)
  BY <1>1, <1>2 DEF FilesOk, Filed, Owned
<1>4. e.first \in Clusters /\ e.size \in Nat
  BY <1>3 DEF FileOk, Chained, GeometryAssumption
<1> DEFINE S == On(Fat, e.first)
           w == Walk(Fat, e.first)
<1>5. \A b \in S : Fat'[b] = Fat[b] /\ body'[b] = body[b]
  BY <1>3
<1>6. Walk(Fat', e.first) = w
  BY <1>4, <1>5, WalkSame DEF On
<1>7. e.first \in S /\ S = {w[i] : i \in 1..Len(w)} /\ Len(w) \in Nat
  BY <1>4, OnIs, WalkFacts
<1>8. /\ ReadEntry(e) = LET v == body[e.first].version IN
           IF v \in Versions /\ Len(w) >= e.size /\ \A i \in 1..e.size : body[w[i]] = [version |-> v, part |-> i]
           THEN v ELSE Damaged
      /\ ReadEntry(e)' = LET v == body'[e.first].version IN
           IF v \in Versions /\ Len(w) >= e.size /\ \A i \in 1..e.size : body'[w[i]] = [version |-> v, part |-> i]
           THEN v ELSE Damaged
  BY <1>6 DEF ReadEntry, PathFrom, Fat
<1> HIDE DEF w, S
<1>9. Len(w) >= e.size => \A i \in 1..e.size : body'[w[i]] = body[w[i]]
  BY <1>4, <1>5, <1>7
<1>10. ReadEntry(e)' = ReadEntry(e)
  BY <1>5, <1>7, <1>8, <1>9
<1> QED
  BY <1>1, <1>10

\* So does a name, while its entry stays.
LEMMA NameSame ==
  ASSUME FatInv, Formatted, FatInv', Formatted', NEW n \in Names \ {TestName},
         \A b \in Owned(Fat, Slots) : Fat'[b] = Fat[b] /\ body'[b] = body[b],
         \A p \in EntriesOf(Slots) : Slots[p].name = n => p \in EntriesOf(Slots') /\ Slots'[p] = Slots[p],
         \A p \in EntriesOf(Slots') : Slots'[p].name = n => p \in EntriesOf(Slots) /\ Slots'[p] = Slots[p]
  PROVE  ReadBack(n)' = ReadBack(n)
<1>1. ReadsOne /\ ReadsOne'
  BY ReadsOneHere, PTL
<1>2. CASE \A p \in EntriesOf(Slots) : Slots[p].name # n
  <2>1. ReadBack(n) = Absent
    BY <1>1, <1>2 DEF ReadsOne
  <2>2. \A p \in EntriesOf(Slots') : Slots'[p].name # n
    BY <1>2
  <2>3. ReadBack(n)' = Absent
    BY <1>1, <2>2 DEF ReadsOne
  <2> QED
    BY <2>1, <2>3
<1>3. CASE \E p \in EntriesOf(Slots) : Slots[p].name = n
  <2>1. PICK p \in EntriesOf(Slots) : Slots[p].name = n
    BY <1>3
  <2>2. p \in EntriesOf(Slots') /\ Slots'[p] = Slots[p]
    BY <2>1
  <2>3. ReadBack(n) = ReadEntry(Slots[p])
    BY <1>1, <2>1 DEF ReadsOne
  <2>4. ReadBack(n)' = ReadEntry(Slots[p])'
    BY <1>1, <2>1, <2>2 DEF ReadsOne
  <2>5. ReadEntry(Slots[p])' = ReadEntry(Slots[p])
    BY <2>2, EntrySame, GeometryAssumption
  <2> QED
    BY <2>3, <2>4, <2>5
<1> QED
  BY <1>2, <1>3

\* So does every name, when every entry is spared.
LEMMA AllSame ==
  ASSUME FatInv, Formatted, FatInv', Formatted', Spared, NEW n \in Names \ {TestName}
  PROVE  ReadBack(n)' = ReadBack(n)
BY NameSame DEF Spared

-----------------------------------------------------------------------------
(* The data of the chain being made. *)

\* What a call is for is settled when it begins.
LEMMA ErrandStays ==
  ASSUME Errand, \/ call' = call /\ (pc # "idle" \/ pc' = pc)
                 \/ call' = NoCall /\ pc' = "idle"
  PROVE  Errand'
BY DEF Errand, NoCall

\* A step of a call that writes no data of the chain leaves what the chain holds.
LEMMA PiecesStay ==
  ASSUME PiecesOk, \/ pc' \notin Making
                   \/ /\ pc \in Making \ {"data"} /\ pc' # "data"
                      /\ body' = body /\ call' = call /\ chain' = chain
  PROVE  PiecesOk'
BY DEF PiecesOk

\* Each sector of data goes where the chain says it belongs,
LEMMA WriteDataPieces ==
  ASSUME GeometryAssumption, FatInv, DataInv, WriteData
  PROVE  DataInv' /\ (call' = call \/ call' = NoCall)
<1>1. /\ pc = "data"
      /\ body' = [body EXCEPT ![at] = [version |-> call.version, part |-> left + 1]]
      /\ \/ left + 1 = call.size /\ pc' = "entry" /\ call' = call /\ chain' = chain
         \/ left + 1 # call.size /\ pc' = "idle" /\ call' = NoCall
         \/ left + 1 # call.size /\ pc' = "data" /\ left' = left + 1 /\ call' = call /\ chain' = chain
  BY DEF WriteData, Finish
<1>2. Errand'
  BY <1>1, ErrandStays DEF DataInv
<1>3. PICK H \in SUBSET Clusters : Made(H)
  BY <1>1, InCall DEF Work, Making
<1>4. PICK n \in Nat :
         /\ n = call.size /\ DOMAIN chain = 1..n
         /\ \A k \in 1..n : chain[k] \in Clusters
         /\ \A i, j \in 1..n : chain[i] = chain[j] => i = j
  BY <1>1, <1>3, MadeIs DEF Making
<1>5. left \in Nat /\ left + 1 \in 1..n /\ at = chain[left + 1]
  BY <1>1, <1>3, <1>4 DEF Made, FatInv, TypeOK, GeometryAssumption
<1>6. body \in [Clusters -> Piece]
  BY DEF FatInv, TypeOK
<1>7. ASSUME NEW k \in 1..left + 1
      PROVE  body'[chain[k]] = [version |-> call.version, part |-> k]
  <2>1. k \in 1..n /\ chain[k] \in Clusters /\ chain[left + 1] \in Clusters
    BY <1>4, <1>5
  <2>2. CASE k = left + 1
    BY <1>1, <1>5, <1>6, <2>1, <2>2
  <2>3. CASE k # left + 1
    <3>1. k \in 1..left /\ chain[k] # at
      BY <1>4, <1>5, <2>1, <2>3
    <3>2. body'[chain[k]] = body[chain[k]]
      BY <1>1, <1>6, <2>1, <3>1
    <3> QED
      BY <1>1, <3>1, <3>2 DEF DataInv, PiecesOk, Making
  <2> QED
    BY <2>2, <2>3
<1>8. PiecesOk'
  BY <1>1, <1>4, <1>7 DEF PiecesOk, Making
<1> QED
  BY <1>1, <1>2, <1>8 DEF DataInv

\* a page that is cleared is none of the chain,
LEMMA ClearPagePieces ==
  ASSUME GeometryAssumption, FatInv, DataInv, ClearPage
  PROVE  DataInv'
<1>1. /\ pc = "clear" /\ pc' = "entry" /\ body' = [body EXCEPT ![at] = NoPiece]
      /\ call' = call /\ chain' = chain
  BY DEF ClearPage, locals
<1>2. PICK H \in SUBSET Clusters : FilesOk(H) /\ Made(H)
  BY <1>1, InCall DEF Work, Making
<1>3. PICK n \in Nat : n = call.size /\ H = {chain[k] : k \in 1..n} /\ \A k \in 1..n : chain[k] \in Clusters
  BY <1>1, <1>2, MadeIs DEF Making
<1>4. at \in Pages /\ H \cap Pages = {}
  <2>1. PagesTyped
    BY DEF FatInv, TypeOK, PagesTyped
  <2> QED
    BY <1>1, <1>2, <2>1, SlotsHere DEF FilesOk, Made, Adding
<1>5. \A k \in 1..n : body'[chain[k]] = body[chain[k]]
  BY <1>1, <1>3, <1>4 DEF FatInv, TypeOK
<1>6. PiecesOk'
  BY <1>1, <1>3, <1>5 DEF DataInv, PiecesOk, Making
<1> QED
  BY <1>1, <1>6, ErrandStays DEF DataInv

\* and a call begins with nothing in its chain.
LEMMA BeginErrand ==
  ASSUME GeometryAssumption, FatInv, NEW kind, NEW n, NEW size, NEW first, Begin(kind, n, size, first),
         \/ kind = "format" /\ first = "format" /\ n = Absent
         \/ kind \in {"save", "delete", "test"} /\ first = "remove" /\ n \in Names
  PROVE  DataInv' /\ call'.version \in Versions
<1>1. /\ call' = [kind |-> kind, name |-> n, size |-> size, version |-> calls + 2] /\ pc' = first
      /\ calls < MaxCalls
  BY DEF Begin
<1>2. calls + 2 \in Versions
  <2>1. calls \in Nat /\ MaxCalls \in Nat
    BY DEF FatInv, TypeOK, GeometryAssumption
  <2> QED
    BY <1>1, <2>1 DEF Versions
<1>3. call'.kind = kind /\ call'.name = n /\ call'.version = calls + 2
  BY <1>1
<1>4. Errand'
  BY <1>2, <1>3 DEF Errand
<1>5. PiecesOk'
  BY <1>1 DEF PiecesOk, Making
<1> QED
  BY <1>2, <1>3, <1>4, <1>5 DEF DataInv

\* So no write spoils what the chain holds already,
LEMMA WritesPieces ==
  ASSUME GeometryAssumption, FatInv, DataInv, Writes
  PROVE  DataInv'
<1>1. CASE MarkDeleted \/ NothingToDelete \/ FreeChain \/ FreeMirror \/ LinkChain
  <2>1. pc \in {"remove", "free", "mirror", "link"} /\ call' = call
        /\ pc' \in {"free", "mirror", "claim", "done", "linkmirror"}
    BY <1>1 DEF MarkDeleted, NothingToDelete, FreeChain, FreeMirror, LinkChain, AfterFree
  <2> QED
    BY <2>1, ErrandStays, PiecesStay DEF DataInv, Making
<1>2. CASE Claim \/ Done \/ FormatTables \/ FormatRoot
  <2>1. /\ pc # "idle" /\ (call' = call \/ (call' = NoCall /\ pc' = "idle"))
        /\ pc' \in {"idle", "link", "format", "root"}
    BY <1>2 DEF Claim, Done, FormatTables, FormatRoot, Finish
  <2> QED
    BY <2>1, ErrandStays, PiecesStay DEF DataInv, Making
<1>3. CASE LinkMirror
  <2>1. pc = "linkmirror" /\ call' = call /\ (pc' = "link" \/ (pc' = "data" /\ left' = 0))
    BY <1>3 DEF LinkMirror
  <2>2. PiecesOk'
    BY <2>1 DEF PiecesOk, Making
  <2> QED
    BY <2>1, <2>2, ErrandStays DEF DataInv
<1>4. CASE WriteEntry
  <2>1. \/ pc' = "idle" /\ call' = NoCall
        \/ pc' = "remove" /\ call.kind = "test" /\ call' = [call EXCEPT !.kind = "delete"]
    BY <1>4 DEF WriteEntry, Finish
  <2>2. pc = "entry" /\ call \in Calls
    BY <1>4 DEF WriteEntry, FatInv, TypeOK
  <2>3. PiecesOk'
    BY <2>1 DEF PiecesOk, Making
  <2>4. Errand'
    BY <2>1, <2>2 DEF DataInv, Errand, NoCall, Calls
  <2> QED
    BY <2>3, <2>4 DEF DataInv
<1>5. CASE Extend \/ ExtendMirror \/ Hook \/ HookMirror
  <2>1. /\ pc \in {"entry", "extmirror", "hook", "hookmirror"}
        /\ \/ pc' = "idle" /\ call' = NoCall
           \/ /\ pc' \in {"extmirror", "hook", "hookmirror", "clear"}
              /\ call' = call /\ body' = body /\ chain' = chain
    BY <1>5 DEF Extend, ExtendMirror, Hook, HookMirror, Finish, locals
  <2> QED
    BY <2>1, ErrandStays, PiecesStay DEF DataInv, Making
<1> QED
  BY <1>1, <1>2, <1>3, <1>4, <1>5, WriteDataPieces, ClearPagePieces DEF Writes

\* and no other step does.
LEMMA DataKeeps ==
  ASSUME FatInv, DataInv, [Next]_vars
  PROVE  DataInv'
<1>1. CASE \E n \in Saved \union {Photo}, size \in Sizes : Save(n, size)
  <2>1. PICK n \in Saved \union {Photo}, size \in Sizes : Begin("save", n, size, "remove")
    BY <1>1 DEF Save
  <2> QED
    BY <2>1, BeginErrand, GeometryAssumption DEF Names
<1>2. CASE \E n \in Names : Delete(n)
  <2>1. PICK n \in Names : Begin("delete", n, 0, "remove")
    BY <1>2 DEF Delete
  <2> QED
    BY <2>1, BeginErrand, GeometryAssumption
<1>3. CASE Test
  <2>1. Begin("test", TestName, 1, "remove") /\ TestName \in Names
    BY <1>3 DEF Test, Names
  <2> QED
    BY <2>1, BeginErrand, GeometryAssumption
<1>4. CASE Format
  BY <1>4, BeginErrand, GeometryAssumption DEF Format
<1>5. CASE Stop \/ TestGoesOn
  <2>1. pc # "idle" /\ ((pc' = "idle" /\ call' = NoCall) \/ (pc' = "claim" /\ call' = call))
    BY <1>5 DEF Stop, TestGoesOn, Finish
  <2> QED
    BY <2>1, ErrandStays, PiecesStay DEF DataInv, Making
<1>6. CASE UNCHANGED vars
  <2>1. pc' = pc /\ call' = call /\ body' = body /\ chain' = chain /\ left' = left
    BY <1>6 DEF vars, disk, locals
  <2> QED
    BY <2>1 DEF DataInv, Errand, PiecesOk
<1> QED
  BY <1>1, <1>2, <1>3, <1>4, <1>5, <1>6, WritesPieces, GeometryAssumption DEF Next

-----------------------------------------------------------------------------
(* The steps of the store. *)

Shelf == [n \in Names \ {TestName} |-> ShelfOf(n)]
Nothing == [name |-> Absent, version |-> Absent]

\* The work a call has for the store, as a function of the call.
LEMMA WorkIs ==
  ASSUME NamesAssumption
  PROVE  /\ pc = "idle" \/ call.name \in {TestName, Absent} => WorkOf = Nothing
         /\ pc # "idle" /\ call.name \in Names \ {TestName} =>
              /\ WorkOf = [name |-> call.name, version |-> IF call.kind = "delete" THEN Absent ELSE call.version]
              /\ WorkOf # Nothing /\ call.name # Absent
<1>1. pc = "idle" \/ call.name \in {TestName, Absent} => WorkOf = Nothing
  BY DEF WorkOf, Nothing
<1>2. ASSUME pc # "idle", call.name \in Names \ {TestName}
      PROVE  /\ WorkOf = [name |-> call.name, version |-> IF call.kind = "delete" THEN Absent ELSE call.version]
             /\ WorkOf # Nothing /\ call.name # Absent
  <2>1. call.name # TestName /\ call.name # Absent
    BY <1>2 DEF NamesAssumption
  <2>2. WorkOf = [name |-> call.name, version |-> IF call.kind = "delete" THEN Absent ELSE call.version]
    BY <1>2, <2>1 DEF WorkOf
  <2> QED
    BY <2>1, <2>2 DEF Nothing
<1> QED
  BY <1>1, <1>2

\* The call under way stays the same until it is over.
LEMMA WorkStays ==
  /\ call' = call /\ pc # "idle" /\ pc' # "idle" => WorkOf' = WorkOf
  /\ pc' = "idle" => WorkOf' = Nothing
BY DEF WorkOf, Nothing

\* What the store has on its shelf is what reading each name gives.
LEMMA ShelfIs ==
  /\ Formatted => \A n \in Names \ {TestName} : Shelf[n] = ReadBack(n)
  /\ Formatted' => \A n \in Names \ {TestName} : Shelf'[n] = ReadBack(n)'
  /\ ~Formatted => Shelf = [n \in Names \ {TestName} |-> Unknown]
  /\ ~Formatted' => Shelf' = [n \in Names \ {TestName} |-> Unknown]
BY DEF Shelf, ShelfOf

\* The variables of the store, mapped.
LEMMA StoreVars ==
  /\ Store!vars = <<Shelf, WorkOf>>
  /\ Shelf' = Shelf /\ WorkOf' = WorkOf => UNCHANGED Store!vars
  /\ Shelf' = Shelf /\ WorkOf # Nothing /\ WorkOf' = Nothing => Store!End
BY DEF Store!vars, Store!End, Store!NoWork, Shelf, Nothing

\* What a reader is given is never the answer of a card being formatted.
LEMMA NeverLost ==
  ASSUME NamesAssumption, FatInv, Formatted
  PROVE  ~Store!Lost
<1>1. Photo \in Names \ {TestName}
  BY DEF NamesAssumption, Names
<1>2. ReadBack(Photo) \in Versions \union {Absent, Damaged}
  BY <1>1, ReadsOneHere DEF ReadsOne
<1>3. Unknown \notin Versions \union {Absent, Damaged}
  BY DEF NamesAssumption
<1>4. Shelf[Photo] # Unknown
  BY <1>1, <1>2, <1>3, ShelfIs
<1>5. Store!Lost => Shelf = [n \in Names \ {TestName} |-> Unknown]
  BY DEF Store!Lost, Shelf
<1> QED
  BY <1>1, <1>4, <1>5

\* A step that leaves the files alone is no step, or the end of a call.
LEMMA KeptStep ==
  ASSUME FatInv, Formatted, FatInv', Formatted', Spared, WorkOf' = WorkOf \/ WorkOf' = Nothing
  PROVE  [Store!Next]_Store!vars
<1>1. \A n \in Names \ {TestName} : ReadBack(n)' = ReadBack(n)
  BY AllSame
<1>2. Shelf' = Shelf
  BY <1>1 DEF Shelf, ShelfOf
<1> QED
  BY <1>2, StoreVars DEF Store!Next

\* A step that writes nothing while the card is half formatted.
LEMMA BlankStep ==
  ASSUME ~Formatted, ~Formatted', WorkOf' = WorkOf
  PROVE  [Store!Next]_Store!vars
BY ShelfIs, StoreVars

\* delete_file's first write: the one name is gone, no other is touched.
LEMMA DropStep ==
  ASSUME GeometryAssumption, NamesAssumption, FatInv, DataInv, MarkDeleted
  PROVE  [Store!Next]_Store!vars
<1>1. /\ pc = "remove" /\ pc' \in {"free", "claim", "done"} /\ call' = call
      /\ fat' = fat /\ body' = body /\ scars' = scars
  BY DEF MarkDeleted, AfterFree
<1>2. Formatted /\ Formatted' /\ NamesOk
  BY <1>1, InCall DEF Formatted
<1>3. FatInv'
  BY MarkDeletedKeeps
<1>4. PICK p \in EntriesOf(Slots) :
        /\ Slots[p].name = call.name /\ EntriesOf(Slots') = EntriesOf(Slots) \ {p}
        /\ \A q \in EntriesOf(Slots') : Slots'[q] = Slots[q]
  BY MarkDeletedKeeps
<1>5. \A b \in Owned(Fat, Slots) : Fat'[b] = Fat[b] /\ body'[b] = body[b]
  BY <1>1 DEF Fat
<1>6. ASSUME NEW n \in Names \ {TestName}, n # call.name PROVE ReadBack(n)' = ReadBack(n)
  BY <1>2, <1>3, <1>4, <1>5, <1>6, NameSame
<1>7. WorkOf' = WorkOf
  BY <1>1, WorkStays
<1>8. call.name \in Names
  BY <1>1 DEF DataInv, Errand, FatInv, CallOk, TypeOK, Calls
<1>9. CASE call.name = TestName
  <2>1. Shelf' = Shelf
    BY <1>2, <1>6, <1>9 DEF Shelf, ShelfOf
  <2> QED
    BY <1>7, <2>1, StoreVars
<1>10. CASE call.name # TestName
  <2>1. \A q \in EntriesOf(Slots') : Slots'[q].name # call.name
    BY <1>2, <1>4, <1>10 DEF NamesOk
  <2>2. ReadsOne'
    BY <1>2, <1>3, ReadsOneHere, PTL
  <2>3. \A n \in Names \ {TestName} : n = call.name => ReadBack(n)' = Absent
    BY <2>1, <2>2 DEF ReadsOne
  <2>4. Shelf' = [Shelf EXCEPT ![call.name] = Absent]
    BY <1>2, <1>6, <1>8, <2>3 DEF Shelf, ShelfOf
  <2>5. WorkOf # Nothing /\ WorkOf.name = call.name
    BY <1>1, <1>8, <1>10, WorkIs
  <2>6. ~Store!Lost
    BY <1>2, NeverLost
  <2>7. Store!Drop
    BY <1>7, <2>4, <2>5, <2>6 DEF Store!Drop, Store!NoWork, Nothing, Shelf
  <2> QED
    BY <2>7 DEF Store!Next
<1> QED
  BY <1>9, <1>10

\* create_file's last write: the whole new file, under its name.
LEMMA CommitStep ==
  ASSUME GeometryAssumption, NamesAssumption, FatInv, DataInv, WriteEntry
  PROVE  [Store!Next]_Store!vars
<1> DEFINE e == [kind |-> "entry", name |-> call.name, first |-> chain[1], size |-> call.size]
<1>1. /\ pc = "entry" /\ pc' \in {"idle", "remove"} /\ fat' = fat /\ body' = body /\ scars' = scars
      /\ \/ pc' = "idle" /\ call' = NoCall /\ call.kind # "test"
         \/ pc' = "remove" /\ call.kind = "test" /\ call' = [call EXCEPT !.kind = "delete"]
  BY DEF WriteEntry, Finish
<1>2. Formatted /\ Formatted' /\ NamesOk
  BY <1>1, InCall DEF Formatted
<1>3. FatInv' /\ Chained(chain[1]) /\ Walk(Fat, chain[1]) = chain
  BY WriteEntryKeeps
<1>4. PICK p \in EntriesOf(Slots') :
        /\ EntriesOf(Slots') = EntriesOf(Slots) \union {p} /\ p \notin EntriesOf(Slots)
        /\ Slots'[p] = e
        /\ \A q \in EntriesOf(Slots) : Slots'[q] = Slots[q]
  BY WriteEntryKeeps
<1>5. \A b \in Owned(Fat, Slots) : Fat'[b] = Fat[b] /\ body'[b] = body[b]
  BY <1>1 DEF Fat
<1>6. e.name = call.name /\ e.first = chain[1] /\ e.size = call.size
  OBVIOUS
<1>7. /\ call.kind \in {"save", "test"} /\ call \in Calls /\ Len(chain) = call.size
      /\ call.size \in Nat \ {0} /\ call.name \in Names /\ call.version \in Versions
      /\ (call.kind = "test" => call.name = TestName)
  BY <1>1 DEF FatInv, CallOk, Stepping, Making, TypeOK, DataInv, Errand, GeometryAssumption
<1> HIDE DEF e
<1>8. ASSUME NEW n \in Names \ {TestName}, n # call.name PROVE ReadBack(n)' = ReadBack(n)
  <2>1. \A q \in EntriesOf(Slots) : Slots[q].name = n => q \in EntriesOf(Slots') /\ Slots'[q] = Slots[q]
    BY <1>4
  <2>2. \A q \in EntriesOf(Slots') : Slots'[q].name = n => q \in EntriesOf(Slots) /\ Slots'[q] = Slots[q]
    BY <1>4, <1>6, <1>8
  <2> QED
    BY <1>2, <1>3, <1>5, <2>1, <2>2, NameSame
<1>9. CASE call.name = TestName
  <2>1. Shelf' = Shelf
    BY <1>2, <1>8, <1>9 DEF Shelf, ShelfOf
  <2>2. WorkOf = Nothing
    BY <1>9, WorkIs
  <2>3. WorkOf' = Nothing
    <3>1. CASE pc' = "idle"
      BY <3>1, WorkStays
    <3>2. CASE pc' # "idle"
      <4>1. call' = [call EXCEPT !.kind = "delete"]
        BY <1>1, <3>2
      <4>2. call'.name = call.name
        BY <1>7, <4>1 DEF Calls
      <4> QED
        BY <1>9, <4>2 DEF WorkOf, Nothing
    <3> QED
      BY <3>1, <3>2
  <2> QED
    BY <2>1, <2>2, <2>3, StoreVars
<1>10. CASE call.name # TestName
  <2>1. call.kind = "save" /\ pc' = "idle"
    BY <1>1, <1>7, <1>10
  \* What the chain holds is what the call was given, all of it.
  <2>2. \A k \in 1..call.size : body[chain[k]] = [version |-> call.version, part |-> k]
    BY <1>1 DEF DataInv, PiecesOk, Making
  <2>3. PICK f : f = e
    OBVIOUS
  <2>4. ReadEntry(f)' = call.version
    <3>1. f.first = chain[1] /\ f.size = call.size
      BY <1>6, <2>3
    <3>2. fat'[1] = Fat /\ body' = body
      BY <1>1 DEF Fat
    <3>3. Walk(fat'[1], f.first) = chain
      BY <1>3, <3>1, <3>2
    <3>4. 1 \in 1..call.size
      BY <1>7
    <3>5. body'[f.first].version = call.version
      <4>1. body[chain[1]] = [version |-> call.version, part |-> 1]
        BY <2>2, <3>4
      <4>2. body[chain[1]].version = call.version
        BY <4>1
      <4> QED
        BY <3>1, <3>2, <4>2
    <3>6. Len(chain) >= f.size
      BY <1>7, <3>1
    <3>7. \A i \in 1..f.size : body'[chain[i]] = [version |-> call.version, part |-> i]
      BY <2>2, <3>1, <3>2
    <3> HIDE DEF e
    <3> QED
      BY <1>7, <3>3, <3>5, <3>6, <3>7 DEF ReadEntry, PathFrom
  <2>5. ReadsOne'
    BY <1>2, <1>3, ReadsOneHere, PTL
  <2>6. \A n \in Names \ {TestName} : n = call.name => ReadBack(n)' = call.version
    <3> SUFFICES ASSUME NEW n \in Names \ {TestName}, n = call.name PROVE ReadBack(n)' = call.version
      OBVIOUS
    <3>1. Slots'[p].name = n
      BY <1>4, <1>6
    <3>2. ReadBack(n)' = ReadEntry(Slots[p])'
      BY <2>5, <3>1 DEF ReadsOne
    <3>3. Slots'[p] = f
      BY <1>4, <2>3
    <3>4. ReadEntry(Slots[p])' = ReadEntry(f)'
      BY <3>3 DEF ReadEntry, PathFrom
    <3> QED
      BY <2>4, <3>2, <3>4
  <2>7. Shelf' = [Shelf EXCEPT ![call.name] = call.version]
    BY <1>2, <1>7, <1>8, <2>6 DEF Shelf, ShelfOf
  <2>8. WorkOf.name = call.name /\ WorkOf.version = call.version
    <3>1. WorkOf = [name |-> call.name, version |-> IF call.kind = "delete" THEN Absent ELSE call.version]
      BY <1>1, <1>7, <1>10, WorkIs
    <3> QED
      BY <2>1, <3>1
  <2>9. WorkOf' = Nothing
    BY <2>1, WorkStays
  <2>10. ~Store!Lost
    BY <1>2, NeverLost
  <2>11. Store!Commit
    BY <1>7, <2>7, <2>8, <2>9, <2>10 DEF Store!Commit, Store!NoWork, Nothing, Shelf
  <2> QED
    BY <2>11 DEF Store!Next
<1> QED
  BY <1>9, <1>10

\* The steps of a call that leave every file alone.
LEMMA QuietStep ==
  ASSUME GeometryAssumption, NamesAssumption, FatInv, FatInv', DataInv,
         \/ NothingToDelete \/ FreeChain \/ FreeMirror \/ Claim \/ LinkChain \/ LinkMirror \/ WriteData
         \/ Extend \/ ExtendMirror \/ Hook \/ HookMirror \/ ClearPage \/ Done \/ TestGoesOn
  PROVE  [Store!Next]_Store!vars
<1>1. CASE NothingToDelete \/ Claim \/ Done \/ TestGoesOn
  <2>1. /\ pc \in {"remove", "claim", "done", "free", "mirror"} /\ pc' \in {"claim", "done", "link", "idle"}
        /\ scars' = scars /\ UNCHANGED disk /\ (call' = call \/ pc' = "idle")
    BY <1>1 DEF NothingToDelete, Claim, Done, TestGoesOn, Finish, AfterFree
  <2>2. Spared
    BY <2>1, Untouched DEF Adding
  <2>3. Formatted /\ Formatted'
    BY <2>1, InCall DEF Formatted
  <2>4. WorkOf' = WorkOf \/ WorkOf' = Nothing
    BY <2>1, WorkStays
  <2> QED
    BY <2>2, <2>3, <2>4, KeptStep
<1>2. CASE \/ FreeChain \/ FreeMirror \/ LinkChain \/ LinkMirror \/ WriteData
           \/ Extend \/ ExtendMirror \/ Hook \/ HookMirror \/ ClearPage
  <2>1. Spared
    BY <1>2, FreeChainKeeps, FreeMirrorKeeps, LinkChainKeeps, LinkMirrorKeeps, WriteDataKeeps,
       ExtendKeeps, ExtendMirrorKeeps, HookKeeps, HookMirrorKeeps, ClearPageKeeps
  <2>2. /\ pc \notin {"idle", "format", "root"} /\ pc' \notin {"format", "root"} /\ scars' = scars
        /\ (call' = call /\ pc' # "idle") \/ pc' = "idle"
    BY <1>2 DEF FreeChain, FreeMirror, LinkChain, LinkMirror, WriteData, Extend, ExtendMirror, Hook,
                HookMirror, ClearPage, Finish, AfterFree, locals
  <2>3. Formatted /\ Formatted'
    BY <2>2, InCall DEF Formatted
  <2>4. WorkOf' = WorkOf \/ WorkOf' = Nothing
    BY <2>2, WorkStays
  <2> QED
    BY <2>1, <2>3, <2>4, KeptStep
<1> QED
  BY <1>1, <1>2

\* A call that is to save or delete begins.
LEMMA BeginStep ==
  ASSUME GeometryAssumption, NamesAssumption, FatInv, FatInv', NEW kind, NEW n \in Names, NEW size,
         Begin(kind, n, size, "remove"), kind \in {"save", "delete", "test"}
  PROVE  [Store!Next]_Store!vars
<1>1. /\ pc = "idle" /\ scars \cap {"format", "old"} = {} /\ pc' = "remove" /\ scars' = scars
      /\ call' = [kind |-> kind, name |-> n, size |-> size, version |-> calls + 2] /\ UNCHANGED disk
  BY DEF Begin
<1>2. Formatted /\ Formatted'
  BY <1>1 DEF Formatted
<1>3. Spared
  BY <1>1, Untouched DEF Adding
<1>4. call'.name = n /\ call'.kind = kind /\ call'.version = calls + 2
  BY <1>1
<1>5. WorkOf = Nothing
  BY <1>1, WorkIs
<1>6. CASE n = TestName
  <2>1. WorkOf' = Nothing
    BY <1>4, <1>6 DEF WorkOf, Nothing
  <2> QED
    BY <1>2, <1>3, <2>1, KeptStep
<1>7. CASE n # TestName
  <2> DEFINE v == IF kind = "delete" THEN Absent ELSE calls + 2
  <2>1. n # Absent
    BY DEF NamesAssumption
  <2>2. WorkOf' = [name |-> n, version |-> v]
    BY <1>1, <1>4, <1>7, <2>1 DEF WorkOf
  <2>3. v \in Versions \union {Absent}
    <3>1. calls + 2 \in Versions
      <4>1. calls < MaxCalls
        BY DEF Begin
      <4>2. calls \in Nat /\ MaxCalls \in Nat
        BY DEF FatInv, TypeOK, GeometryAssumption
      <4> QED
        BY <4>1, <4>2 DEF Versions
    <3> QED
      BY <3>1
  <2>4. \A m \in Names \ {TestName} : ReadBack(m)' = ReadBack(m)
    BY <1>2, <1>3, AllSame
  <2>5. Shelf' = Shelf
    BY <1>2, <2>4 DEF Shelf, ShelfOf
  <2> HIDE DEF v
  <2>6. Store!Begin(n, v)
    BY <1>5, <2>2, <2>5 DEF Store!Begin, Store!NoWork, Nothing, Shelf
  <2> QED
    BY <1>7, <2>3, <2>6 DEF Store!Next
<1> QED
  BY <1>6, <1>7

\* From a format's first write to its last the contents are unknown.
LEMMA FormatBegins ==
  ASSUME NamesAssumption, Begin("format", Absent, 0, "format")
  PROVE  [Store!Next]_Store!vars
<1>1. pc = "idle" /\ pc' = "format" /\ call'.name = Absent
  BY DEF Begin
<1>2. WorkOf = Nothing /\ WorkOf' = Nothing
  BY <1>1 DEF WorkOf, Nothing
<1>3. Shelf' = [n \in Names \ {TestName} |-> Unknown]
  BY <1>1, ShelfIs DEF Formatted
<1>4. Store!BeginFormat
  BY <1>2, <1>3 DEF Store!BeginFormat, Store!NoWork, Nothing, Shelf
<1> QED
  BY <1>4 DEF Store!Next

\* The writes of a format, and the end of it.
LEMMA FormatStep ==
  ASSUME GeometryAssumption, FatInv, FatInv', DataInv, FormatTables \/ FormatRoot
  PROVE  [Store!Next]_Store!vars
<1>1. pc \in {"format", "root"} /\ ~Formatted
  BY DEF FormatTables, FormatRoot, Formatted
<1>2. call.name = Absent /\ WorkOf = Nothing
  BY <1>1 DEF DataInv, Errand, FatInv, CallOk, WorkOf, Nothing
<1>3. CASE FormatTables
  <2>1. pc' \in {"format", "root"} /\ call' = call
    BY <1>3 DEF FormatTables
  <2>2. ~Formatted' /\ WorkOf' = WorkOf
    BY <1>1, <2>1, WorkStays DEF Formatted
  <2> QED
    BY <1>1, <2>2, BlankStep
<1>4. CASE FormatRoot
  <2>1. pc' = "idle" /\ scars' = {}
    BY <1>4 DEF FormatRoot, Finish
  <2>2. Formatted' /\ WorkOf' = Nothing
    BY <2>1, WorkStays DEF Formatted
  <2>3. EntriesOf(Slots') = {}
    BY <1>4, FormatRootKeeps
  <2>4. ReadsOne'
    BY <2>2, ReadsOneHere, PTL
  <2>5. \A n \in Names \ {TestName} : ReadBack(n)' = Absent
    BY <2>3, <2>4 DEF ReadsOne
  <2>6. Shelf = [n \in Names \ {TestName} |-> Unknown] /\ Shelf' = [n \in Names \ {TestName} |-> Absent]
    BY <1>1, <2>2, <2>5, ShelfIs DEF Shelf, ShelfOf
  <2>7. Store!EndFormat
    BY <1>2, <2>2, <2>6 DEF Store!EndFormat, Store!Lost, Store!NoWork, Nothing, Shelf
  <2> QED
    BY <2>7 DEF Store!Next
<1> QED
  BY <1>3, <1>4

\* The power goes, or the card fails.
LEMMA StopStep ==
  ASSUME GeometryAssumption, NamesAssumption, FatInv, FatInv', DataInv, Stop
  PROVE  [Store!Next \/ OldPageBack]_Store!vars
<1>1. /\ pc # "idle" /\ pc' = "idle"
      /\ scars' = scars \union (IF Adding THEN {"page"} ELSE {})
                        \union (IF Adding /\ Haunted THEN {"old"} ELSE {})
                        \union (IF pc \in {"format", "root"} THEN {"format"} ELSE {})
  BY DEF Stop, Finish
<1>2. WorkOf' = Nothing
  BY <1>1, WorkStays
<1>3. CASE pc \in {"format", "root"}
  <2>1. ~Formatted /\ ~Formatted'
    BY <1>1, <1>3 DEF Formatted
  <2>2. WorkOf = Nothing
    BY <1>3 DEF DataInv, Errand, FatInv, CallOk, WorkOf, Nothing
  <2> QED
    BY <1>2, <2>1, <2>2, BlankStep
<1>4. CASE pc \notin {"format", "root"} /\ "old" \in scars'
  BY <1>1, <1>4 DEF FatInv, CallOk, OldPageBack
<1>5. CASE pc \notin {"format", "root"} /\ "old" \notin scars'
  <2>1. scars \cap {"format", "old"} = {}
    BY <1>1, <1>5 DEF FatInv, CallOk
  <2>2. Formatted /\ Formatted'
    BY <1>1, <1>5, <2>1 DEF Formatted
  <2>3. Spared
    BY <2>2, StopKeeps
  <2> QED
    BY <1>2, <2>2, <2>3, KeptStep
<1> QED
  BY <1>3, <1>4, <1>5

\* Where the card stutters, so does the store.
LEMMA RestStep ==
  ASSUME UNCHANGED vars
  PROVE  UNCHANGED Store!vars
<1>1. /\ fat' = fat /\ page' = page /\ body' = body /\ call' = call /\ pc' = pc /\ scars' = scars
  BY DEF vars, disk
<1>2. WorkOf' = WorkOf
  BY <1>1 DEF WorkOf
<1>3. Directory' = Directory
  BY <1>1 DEF Directory, PathFrom
<1>4. Slots' = Slots
  BY <1>1, <1>3, Shape
<1>5. ASSUME NEW n \in Names PROVE ReadBack(n)' = ReadBack(n)
  <2>1. HitsIn(Slots, n)' = HitsIn(Slots, n)
    BY <1>4 DEF HitsIn, Listed
  <2> QED
    BY <1>1, <1>4, <2>1 DEF ReadBack, ReadEntry, PathFrom
<1>6. Shelf' = Shelf
  BY <1>1, <1>5 DEF Shelf, ShelfOf, Formatted
<1> QED
  BY <1>2, <1>6, StoreVars

\* Every step of the card is a step of the store, or the exception.
LEMMA StoreStep ==
  ASSUME FatInv, FatInv', DataInv, [Next]_vars
  PROVE  [Store!Next \/ OldPageBack]_Store!vars
<1>1. CASE \E n \in Saved \union {Photo}, size \in Sizes : Save(n, size)
  <2>1. PICK n \in Saved \union {Photo}, size \in Sizes : Begin("save", n, size, "remove")
    BY <1>1 DEF Save
  <2> QED
    BY <2>1, BeginStep, GeometryAssumption, NamesAssumption DEF Names
<1>2. CASE \E n \in Names : Delete(n)
  <2>1. PICK n \in Names : Begin("delete", n, 0, "remove")
    BY <1>2 DEF Delete
  <2> QED
    BY <2>1, BeginStep, GeometryAssumption, NamesAssumption
<1>3. CASE Test
  <2>1. Begin("test", TestName, 1, "remove") /\ TestName \in Names
    BY <1>3 DEF Test, Names
  <2> QED
    BY <2>1, BeginStep, GeometryAssumption, NamesAssumption
<1>4. CASE Format
  BY <1>4, FormatBegins, NamesAssumption DEF Format
<1>5. CASE Stop
  BY <1>5, StopStep, GeometryAssumption, NamesAssumption
<1>6. CASE MarkDeleted
  BY <1>6, DropStep, GeometryAssumption, NamesAssumption
<1>7. CASE WriteEntry
  BY <1>7, CommitStep, GeometryAssumption, NamesAssumption
<1>8. CASE FormatTables \/ FormatRoot
  BY <1>8, FormatStep, GeometryAssumption
<1>9. CASE \/ NothingToDelete \/ FreeChain \/ FreeMirror \/ Claim \/ LinkChain \/ LinkMirror \/ WriteData
           \/ Extend \/ ExtendMirror \/ Hook \/ HookMirror \/ ClearPage \/ Done \/ TestGoesOn
  BY <1>9, QuietStep, GeometryAssumption, NamesAssumption
<1>10. CASE UNCHANGED vars
  BY <1>10, RestStep
<1> QED
  BY <1>1, <1>2, <1>3, <1>4, <1>5, <1>6, <1>7, <1>8, <1>9, <1>10 DEF Next, Writes

\* A card as a computer hands it over is a store.
LEMMA StoreInit ==
  ASSUME Init, FatInv
  PROVE  Store!Init /\ DataInv
<1>1. pc = "idle" /\ scars = {} /\ call = NoCall
  BY DEF Init
<1>2. Formatted
  BY <1>1 DEF Formatted
<1>3. \A n \in Names \ {TestName} : ReadBack(n) \in Versions \union {Absent, Damaged}
  BY <1>2, ReadsOneHere DEF ReadsOne
<1>4. Shelf \in [Names \ {TestName} -> Versions \union {Absent, Damaged}]
  BY <1>2, <1>3 DEF Shelf, ShelfOf
<1>5. WorkOf = Nothing
  BY <1>1 DEF WorkOf, Nothing
<1>6. Store!Init
  BY <1>4, <1>5 DEF Store!Init, Store!NoWork, Shelf, Nothing
<1>7. DataInv
  BY <1>1 DEF DataInv, Errand, PiecesOk, Making, NoCall
<1> QED
  BY <1>6, <1>7

\* Saving keeps FileStore's promise, whatever is cut off where: the first write of
\* delete_file takes the one name away, the last write of create_file puts the new
\* version there, all of it, and no other write of theirs, and no stop of theirs,
\* changes what a reader of any name is given; but for the stop OldPageBack.
THEOREM PromiseKept == Spec => KeepsPromise
<1>1. Init => FatInv
  BY InitInv, GeometryAssumption, NamesAssumption
<1>2. Init => Store!Init /\ DataInv
  BY <1>1, StoreInit
<1>3. FatInv /\ DataInv /\ [Next]_vars => DataInv'
  BY DataKeeps
<1>4. FatInv /\ FatInv' /\ DataInv /\ [Next]_vars => [Store!Next \/ OldPageBack]_Store!vars
  BY StoreStep
<1> QED
  BY FatInvariant, <1>2, <1>3, <1>4, PTL DEF Spec, KeepsPromise

-----------------------------------------------------------------------------
(* SdCard. *)

Steps == {"boot", "idle", "cycle", "ask", "reselect", "identify", "capacity", "select",
          "settle", "closure", "data", "end", "leave"}
Types == Kinds \union {"none"}
Entry == [card : Cards, block : Blocks, value : Int]
CardSlots == [card : Cards \union {None}, mode : {"out", "idle", "stby", "tran", "spi"},
          busy : SUBSET Blocks]
Hosts == [type : Types, address : Int, sectors : Nat]
Tasks == [kind : {"none", "boot", "session"}, step : Steps, type : Types, found : Types,
          op : {"none", "read", "write"}, todo : SUBSET Blocks,
          done : SUBSET Entry, told : SUBSET Entry, size : Nat]

Typed ==
  /\ board \in {"ws", "m5"}
  /\ slot \in CardSlots
  /\ memory \in [Cards -> [Blocks -> Int]]
  /\ host \in Hosts
  /\ pins \in [owner : {"card", "display"}, select : BOOLEAN]
  /\ power \in SUBSET {"card", "rest"}
  /\ task \in Tasks
  /\ spent \in [sessions : Nat, swaps : Nat]

InClosure == task.step \in {"closure", "data", "end"}

\* A step is one of its board's; the pins are the display's between sessions
\* only, with the select lifted; a card in transfer is one the session selected.
OnBoard ==
  /\ slot.card = None <=> slot.mode = "out"
  /\ slot.mode \in {"stby", "tran"} => board = "ws"
  /\ slot.mode = "spi" => board = "m5"
  /\ task.step \in {"ask", "reselect", "capacity", "select", "settle"} => board = "ws"
  /\ task.step = "cycle" => board = "m5"
  /\ pins.owner = "display" => task.step \in {"boot", "idle"} /\ ~pins.select
  /\ task.step = "boot" => slot.mode \in {"out", "idle"}
  /\ slot.mode = "tran" => InClosure \/ task.step \in {"settle", "leave"}
  /\ slot.mode = "stby" => task.step # "settle"
  /\ "rest" \in power

\* The card that holds the address is the one the capacity was read from, and
\* the type kept is its type, but while it is being identified.
Known ==
  /\ slot.mode \in {"stby", "tran"} =>
       /\ host.sectors \in {0, SizeOf[slot.card]}
       /\ IF task.step \in {"capacity", "select", "settle"}
          THEN task.found = KindOf(slot.card) ELSE host.type = KindOf(slot.card)
  /\ task.step \in {"ask", "reselect"} => task.type = host.type
  /\ InClosure /\ Attends => task.type = KindOf(slot.card)

\* What the caller was told and what the operation under way has moved.
Owed ==
  /\ task.step \notin {"data", "end"} => task.done = {}
  /\ ~InClosure /\ task.step \notin {"idle", "leave"} => task.size = 0
  /\ board = "ws" /\ ~InClosure /\ task.step \notin {"idle", "leave"} => task.told = {}
  /\ task.step = "data" => task.todo # {}
  /\ \A t \in task.told \union task.done :
       /\ memory[t.card][t.block] = t.value
       /\ task.size \in {0, SizeOf[t.card]}
       /\ InClosure /\ board = "ws" => host.sectors \in {0, SizeOf[t.card]}
       /\ InClosure /\ Attends => t.card = slot.card
       /\ \A u \in task.told \union task.done : u.card = t.card
  /\ InClosure /\ Attends => task.size \in {0, SizeOf[slot.card]}
  /\ \A t \in task.told : t.card = slot.card => t.block \notin slot.busy
  /\ task.op = "write" /\ task.step \in {"data", "end"} =>
       \A t \in task.told : t.block \notin task.todo /\ \A d \in task.done : t.block # d.block
  /\ \A d \in task.done : d.block \notin task.todo
CardInv == Typed /\ OnBoard /\ Known /\ Owed

Provided == CardsAssumption /\ Detours = {}

-----------------------------------------------------------------------------
(* The operators. *)

\* The block a run goes on with is one that is left.
LEMMA LowestLeft ==
  ASSUME Provided, Typed, task.todo # {}
  PROVE  Lowest \in task.todo
<1>1. task.todo \subseteq Nat
  <2>1. task.todo \subseteq Blocks
    BY DEF Typed, Tasks
  <2>2. Blocks \subseteq Nat
    BY DEF Provided, CardsAssumption, Unit
  <2> QED
    BY <2>1, <2>2
<1>2. \E b \in task.todo : \A c \in task.todo : b <= c
  BY <1>1, LeastNat
<1> QED
  BY <1>2 DEF Lowest

\* An address of the card's own type is the block's.
LEMMA WhereItIs ==
  ASSUME Provided, NEW b \in Blocks, task.type = KindOf(slot.card)
  PROVE  Where(b) = b
<1>1. b \in 1..511
  BY DEF Provided, CardsAssumption, Unit
<1>2. CASE KindOf(slot.card) = "blocks"
  BY <1>2 DEF Where, Sent
<1>3. CASE KindOf(slot.card) # "blocks"
  <2>1. Sent(b) = b * 512
    BY <1>3 DEF Sent, Unit
  <2>2. Where(b) = IF Sent(b) % 512 = 0 THEN Sent(b) \div 512 ELSE 0
    BY <1>3 DEF Where, Unit
  <2>3. (b * 512) % 512 = 0 /\ (b * 512) \div 512 = b
    BY <1>1
  <2> QED
    BY <2>1, <2>2, <2>3
<1> QED
  BY <1>2, <1>3

\* A card that programs nothing loses nothing when its power goes.
LEMMA NothingTorn ==
  ASSUME Typed, slot.busy = {}
  PROVE  Torn(memory) = memory
<1>1. CASE ~There
  BY <1>1 DEF Torn
<1>2. CASE There
  <2>1. slot.card \in Cards /\ memory[slot.card] \in [Blocks -> Int]
    BY <1>2 DEF Typed, CardSlots, There
  <2>2. [b \in Blocks |-> IF b \in slot.busy THEN -1 ELSE memory[slot.card][b]]
          = memory[slot.card]
    BY <2>1
  <2>3. [memory EXCEPT ![slot.card] = memory[slot.card]] = memory
    BY <2>1 DEF Typed
  <2> QED
    BY <1>2, <2>2, <2>3 DEF Torn
<1> QED
  BY <1>1, <1>2

LEMMA Tears ==
  ASSUME Typed
  PROVE  /\ Torn(memory) \in [Cards -> [Blocks -> Int]]
         /\ \A c \in Cards, b \in Blocks :
              ~(There /\ c = slot.card /\ b \in slot.busy) => Torn(memory)[c][b] = memory[c][b]
<1>1. CASE ~There
  BY <1>1 DEF Torn, Typed, CardSlots
<1>2. CASE There
  BY <1>2 DEF Torn, Typed, CardSlots, There
<1> QED
  BY <1>1, <1>2

LEMMA TypeOfCard == ASSUME NEW c PROVE KindOf(c) \in Types /\ KindOf(c) # "none"
  BY DEF KindOf, Types, Kinds

LEMMA IdleTask ==
  /\ Idle \in Tasks
  /\ Idle.step = "idle" /\ Idle.done = {} /\ Idle.told = {} /\ Idle.size = 0
  BY DEF Idle, Tasks, Steps, Types

\* A step that leaves the rest of the task alone.
LEMMA StepOnly ==
  ASSUME task \in Tasks, NEW s \in Steps, Step(s)
  PROVE  /\ task' \in Tasks /\ task'.step = s
         /\ task'.kind = task.kind /\ task'.type = task.type /\ task'.found = task.found
         /\ task'.op = task.op /\ task'.todo = task.todo /\ task'.done = task.done
         /\ task'.told = task.told /\ task'.size = task.size
  BY DEF Step, Tasks

LEMMA ModeOnly ==
  ASSUME slot \in CardSlots, NEW m \in {"idle", "stby", "tran", "spi"}
  PROVE  /\ Mode(m) \in CardSlots /\ Mode(m).mode = m
         /\ Mode(m).card = slot.card /\ Mode(m).busy = slot.busy
  BY DEF Mode, CardSlots

\* How a session's task begins.
LEMMA BeginsTask ==
  ASSUME Typed
  PROVE  /\ Begins \in Tasks
         /\ Begins.step \in IF board = "m5" THEN {"cycle"} ELSE {"ask", "identify"}
         /\ Begins.type = host.type /\ Begins.done = {} /\ Begins.size = 0
         /\ Begins.told = IF board = "m5" THEN task.told ELSE {}
<1>1. host.type \in Types /\ task.told \in SUBSET Entry /\ board \in {"ws", "m5"}
  BY DEF Typed, Hosts, Tasks
<1> DEFINE a == [Idle EXCEPT !.kind = "session"]
           b == [a EXCEPT !.type = host.type]
           c == [b EXCEPT !.told = IF board = "m5" THEN task.told ELSE {}]
           s == IF board = "m5" THEN "cycle"
                ELSE IF host.address # 0 THEN "ask" ELSE "identify"
<1>2. a \in Tasks /\ a.done = {} /\ a.size = 0
  BY IdleTask DEF Tasks
<1>3. b \in Tasks /\ b.type = host.type /\ b.done = {} /\ b.size = 0
  <2> HIDE DEF a
  <2> QED BY <1>1, <1>2 DEF Tasks
<1>4. /\ c \in Tasks /\ c.type = host.type /\ c.done = {} /\ c.size = 0
      /\ c.told = IF board = "m5" THEN task.told ELSE {}
  <2> HIDE DEF b
  <2> QED BY <1>1, <1>3 DEF Tasks
<1>5. s \in Steps /\ s \in IF board = "m5" THEN {"cycle"} ELSE {"ask", "identify"}
  BY <1>1 DEF Steps
<1>6. Begins = [c EXCEPT !.step = s]
  BY DEF Begins
<1> HIDE DEF c, s
<1> QED
  BY <1>4, <1>5, <1>6 DEF Tasks

-----------------------------------------------------------------------------
(* The card and its user. *)

LEMMA PullKept ==
  ASSUME Provided, CardInv, Pull
  PROVE  CardInv'
<1>1. slot.busy = {} /\ memory' = memory /\ slot' = NoCard
  BY NothingTorn DEF Pull, Provided, CardInv
<1>2. NoCard \in CardSlots /\ NoCard.card = None /\ NoCard.mode = "out" /\ NoCard.busy = {}
  BY DEF NoCard, CardSlots
<1>3. UNCHANGED <<board, host, pins, power, task, spent>>
  BY DEF Pull
<1>4. Typed'
  BY <1>1, <1>2, <1>3 DEF CardInv, Typed
<1>5. OnBoard' /\ Known'
  BY <1>1, <1>2, <1>3 DEF CardInv, OnBoard, Known, InClosure, Attends, There
<1>6. Owed'
  BY <1>1, <1>2, <1>3 DEF CardInv, Owed, InClosure, Attends, There
<1> QED
  BY <1>4, <1>5, <1>6 DEF CardInv

LEMMA InsertKept ==
  ASSUME Provided, CardInv, NEW c \in Cards, Insert(c)
  PROVE  CardInv'
<1>1. /\ slot' = Put(c) /\ c # None
      /\ UNCHANGED <<board, memory, host, pins, power, task>>
      /\ spent' \in [sessions : Nat, swaps : Nat]
  BY DEF Insert, Provided, CardsAssumption, CardInv, Typed
<1>2. Put(c) \in CardSlots /\ Put(c).card = c /\ Put(c).mode = "idle" /\ Put(c).busy = {}
  BY DEF Put, CardSlots
<1>3. Typed'
  BY <1>1, <1>2 DEF CardInv, Typed
<1>4. OnBoard' /\ Known'
  BY <1>1, <1>2 DEF CardInv, Typed, OnBoard, Known, InClosure, Attends, Ready
<1>5. ~Attends'
  BY <1>1, <1>2 DEF Attends, Ready
<1>6. Owed'
  BY <1>1, <1>2, <1>5 DEF CardInv, Owed, InClosure
<1> QED
  BY <1>3, <1>4, <1>6 DEF CardInv

LEMMA ProgrammedKept ==
  ASSUME Provided, CardInv, Programmed
  PROVE  CardInv'
<1>1. /\ slot' \in CardSlots /\ slot'.card = slot.card /\ slot'.mode = slot.mode
      /\ slot'.busy = {} /\ UNCHANGED <<board, memory, host, pins, power, task, spent>>
  BY DEF Programmed, CardInv, Typed, CardSlots
<1>2. Attends' = Attends
  BY <1>1 DEF Attends, There, Ready
<1>3. Typed'
  BY <1>1 DEF CardInv, Typed
<1>4. OnBoard' /\ Known'
  BY <1>1, <1>2 DEF CardInv, OnBoard, Known, InClosure
<1>5. Owed'
  BY <1>1, <1>2 DEF CardInv, Owed, InClosure
<1> QED
  BY <1>3, <1>4, <1>5 DEF CardInv

-----------------------------------------------------------------------------
(* The session. *)

\* A session that ends with nothing to show for it, the card out of transfer.
LEMMA FailsKept ==
  ASSUME Provided, CardInv, Fails, Typed', UNCHANGED <<board, memory, power>>,
         slot'.card = slot.card, slot'.busy = slot.busy, slot'.mode # "tran",
         slot'.mode = slot.mode \/ (slot'.mode = "idle" /\ slot.mode # "out"),
         slot'.mode = "stby" =>
           task.step \notin {"capacity", "select", "settle"} /\ host' = host
  PROVE  CardInv'
<1>1. /\ task'.step = "idle" /\ task'.done = {} /\ task'.told = {} /\ task'.size = 0
      /\ pins'.owner = "display" /\ ~pins'.select /\ ~InClosure'
  BY IdleTask DEF Fails, GiveBack, InClosure
<1>2. OnBoard'
  BY <1>1 DEF CardInv, OnBoard
<1>3. Known'
  BY <1>1, <1>2 DEF CardInv, OnBoard, Known
<1>4. Owed'
  BY <1>1 DEF CardInv, Owed
<1> QED
  BY <1>2, <1>3, <1>4 DEF CardInv

LEMMA BootKept ==
  ASSUME Provided, CardInv, Boot
  PROVE  CardInv'
<1>1. /\ task' \in Tasks /\ task'.step = IF board = "ws" THEN "identify" ELSE "cycle"
      /\ task'.done = {} /\ task'.told = {} /\ task'.size = 0
  BY DEF Boot, Idle, Tasks, Steps, Types
<1>2. /\ pins'.owner = "card" /\ pins' \in [owner : {"card", "display"}, select : BOOLEAN]
      /\ UNCHANGED <<board, spent, slot, memory, host, power>>
  BY DEF Boot, Take, At, CardInv, Typed
<1>3. ~InClosure' /\ Attends' = Attends
  BY <1>1, <1>2 DEF InClosure, Attends, There, Ready
<1>4. Typed'
  BY <1>1, <1>2 DEF CardInv, Typed
<1>5. slot.mode \in {"out", "idle"}
  BY DEF Boot, At, CardInv, OnBoard
<1>6. OnBoard' /\ Known'
  BY <1>1, <1>2, <1>3, <1>5 DEF CardInv, Typed, OnBoard, Known
<1>7. Owed'
  BY <1>1, <1>2, <1>3 DEF CardInv, Owed
<1> QED
  BY <1>4, <1>6, <1>7 DEF CardInv

LEMMA EnterKept ==
  ASSUME Provided, CardInv, Enter
  PROVE  CardInv'
<1>1. /\ UNCHANGED <<board, slot, memory, host, power>>
      /\ spent' \in [sessions : Nat, swaps : Nat]
  BY DEF Enter, CardInv, Typed
<1>2. ~InClosure /\ Attends' = Attends /\ slot.mode # "tran"
  BY <1>1 DEF Enter, InClosure, CardInv, OnBoard, Attends, There, Ready
<1>3. CASE board = "ws" /\ host.type = "none"
  <2>1. /\ task' \in Tasks /\ pins' = pins /\ task'.step = "idle"
        /\ task'.done = {} /\ task'.told = {} /\ task'.size = 0
    BY <1>3, IdleTask DEF Enter
  <2>2. Typed'
    BY <1>1, <2>1 DEF CardInv, Typed
  <2>3. OnBoard' /\ Known'
    BY <1>1, <1>2, <2>1 DEF Enter, CardInv, OnBoard, Known, InClosure
  <2>4. Owed'
    BY <1>1, <1>2, <2>1 DEF CardInv, Owed, InClosure
  <2> QED
    BY <2>2, <2>3, <2>4 DEF CardInv
<1>4. CASE ~(board = "ws" /\ host.type = "none")
  <2>1. Typed /\ board \in {"ws", "m5"} /\ task.step = "idle"
    BY DEF CardInv, Typed, Enter
  <2>2. /\ pins'.owner = "card"
        /\ pins' \in [owner : {"card", "display"}, select : BOOLEAN]
    BY <1>4 DEF Enter, Take, CardInv, Typed
  <2>3. /\ task' \in Tasks
        /\ task'.step \in IF board = "m5" THEN {"cycle"} ELSE {"ask", "identify"}
        /\ task'.type = host.type /\ task'.done = {} /\ task'.size = 0
        /\ task'.told = IF board = "m5" THEN task.told ELSE {}
    <3>1. CASE task' = Begins
      BY <2>1, <3>1, BeginsTask
    <3>2. CASE board = "ws" /\ task' = [Begins EXCEPT !.step = "identify"]
      <4> DEFINE b == Begins
      <4>1. b \in Tasks /\ b.type = host.type /\ b.done = {} /\ b.size = 0 /\ b.told = {}
        BY <2>1, <3>2, BeginsTask
      <4>2. task' = [b EXCEPT !.step = "identify"]
        BY <3>2
      <4> HIDE DEF b
      <4> QED
        BY <3>2, <4>1, <4>2 DEF Tasks, Steps
    <3> QED
      BY <1>4, <2>1, <3>1, <3>2 DEF Enter
  <2>4. ~InClosure'
    BY <2>3 DEF InClosure
  <2>5. Typed'
    BY <1>1, <2>2, <2>3 DEF CardInv, Typed
  <2>6. OnBoard' /\ Known'
    BY <1>1, <1>2, <2>1, <2>2, <2>3, <2>4 DEF CardInv, OnBoard, Known
  <2>7. Owed'
    BY <1>1, <1>2, <2>1, <2>2, <2>3, <2>4 DEF CardInv, Owed
  <2> QED
    BY <2>5, <2>6, <2>7 DEF CardInv
<1> QED
  BY <1>3, <1>4

LEMMA AskedKept ==
  ASSUME Provided, CardInv, Asked
  PROVE  CardInv'
<1>1. UNCHANGED <<board, spent, slot, memory, host, pins, power>> /\ task.step = "ask"
  BY DEF Asked, At
<1>2. PICK s \in {"reselect", "closure", "identify"} :
        /\ Step(s)
        /\ s = "closure" => slot.mode = "tran"
  BY DEF Asked, Answers
<1>3. board = "ws" /\ slot.mode # "tran" /\ ~InClosure
  BY <1>1 DEF CardInv, OnBoard, InClosure
<1>4. s # "closure"
  BY <1>2, <1>3
<1>5. /\ task' \in Tasks /\ task'.step = s /\ task'.type = task.type
      /\ task'.done = task.done /\ task'.told = task.told /\ task'.size = task.size
  BY <1>2, StepOnly DEF CardInv, Typed, Steps
<1>6. ~InClosure'
  BY <1>4, <1>5 DEF InClosure
<1>7. Typed'
  BY <1>1, <1>5 DEF CardInv, Typed
<1>8. OnBoard' /\ Known'
  BY <1>1, <1>3, <1>4, <1>5, <1>6 DEF CardInv, OnBoard, Known
<1>9. Owed'
  BY <1>1, <1>3, <1>4, <1>5, <1>6 DEF CardInv, Owed
<1> QED
  BY <1>7, <1>8, <1>9 DEF CardInv

LEMMA ReselectedKept ==
  ASSUME Provided, CardInv, Reselected
  PROVE  CardInv'
<1>1. /\ UNCHANGED <<board, spent, memory, host, pins, power>> /\ task.step = "reselect"
      /\ board = "ws" /\ ~InClosure /\ slot.mode # "tran" /\ task.told = {}
      /\ task.done = {} /\ task.size = 0 /\ task.type = host.type
  BY DEF Reselected, At, CardInv, OnBoard, Owed, Known, InClosure
<1>2. CASE slot.mode = "stby" /\ slot' = Mode("tran") /\ Step("closure")
  <2>1. /\ slot' \in CardSlots /\ slot'.mode = "tran"
        /\ slot'.card = slot.card /\ slot'.busy = slot.busy
    BY <1>2, ModeOnly DEF CardInv, Typed
  <2>2. /\ task' \in Tasks /\ task'.step = "closure" /\ task'.type = task.type
        /\ task'.done = task.done /\ task'.told = task.told /\ task'.size = task.size
    BY <1>2, StepOnly DEF CardInv, Typed, Steps
  <2>3. InClosure'
    BY <2>2 DEF InClosure
  <2>4. Typed'
    BY <1>1, <2>1, <2>2 DEF CardInv, Typed
  <2>5. OnBoard' /\ Known'
    BY <1>1, <1>2, <2>1, <2>2, <2>3 DEF CardInv, OnBoard, Known
  <2>6. Owed'
    BY <1>1, <2>1, <2>2, <2>3 DEF Owed
  <2> QED
    BY <2>4, <2>5, <2>6 DEF CardInv
<1>3. CASE slot' = slot /\ Step("identify")
  <2>1. /\ task' \in Tasks /\ task'.step = "identify"
        /\ task'.done = task.done /\ task'.told = task.told /\ task'.size = task.size
    BY <1>3, StepOnly DEF CardInv, Typed, Steps
  <2>2. ~InClosure'
    BY <2>1 DEF InClosure
  <2>3. Typed'
    BY <1>1, <1>3, <2>1 DEF CardInv, Typed
  <2>4. OnBoard' /\ Known'
    BY <1>1, <1>3, <2>1, <2>2 DEF CardInv, OnBoard, Known
  <2>5. Owed'
    BY <1>1, <1>3, <2>1, <2>2 DEF Owed
  <2> QED
    BY <2>3, <2>4, <2>5 DEF CardInv
<1> QED
  BY <1>2, <1>3 DEF Reselected

LEMMA IdentifiedKept ==
  ASSUME Provided, CardInv, Identified
  PROVE  CardInv'
<1>1. /\ UNCHANGED <<board, spent, memory, power>> /\ task.step = "identify" /\ board = "ws"
      /\ ~InClosure /\ slot.mode # "tran" /\ task.told = {} /\ task.done = {}
      /\ task.size = 0 /\ task \in Tasks /\ slot \in CardSlots
  BY DEF Identified, At, CardInv, OnBoard, Owed, InClosure, Typed
<1>2. CASE /\ There /\ slot' = Mode("stby") /\ UNCHANGED pins
           /\ task' = [task EXCEPT !.step = "capacity", !.found = KindOf(slot.card)]
           /\ host' = [host EXCEPT !.address = 1, !.sectors = 0]
  <2>1. /\ slot' \in CardSlots /\ slot'.mode = "stby"
        /\ slot'.card = slot.card /\ slot'.busy = slot.busy
    BY <1>1, <1>2, ModeOnly
  <2>2. /\ task' \in Tasks /\ task'.step = "capacity" /\ task'.found = KindOf(slot.card)
        /\ task'.done = {} /\ task'.told = {} /\ task'.size = 0
    <3> DEFINE a == [task EXCEPT !.step = "capacity"]
    <3>1. a \in Tasks /\ a.step = "capacity" /\ a.done = {} /\ a.told = {} /\ a.size = 0
      BY <1>1 DEF Tasks, Steps
    <3>2. task' = [a EXCEPT !.found = KindOf(slot.card)] /\ KindOf(slot.card) \in Types
      BY <1>2, TypeOfCard
    <3> HIDE DEF a
    <3> QED
      BY <3>1, <3>2 DEF Tasks
  <2>3. host' \in Hosts /\ host'.sectors = 0
    <3> DEFINE h == [host EXCEPT !.address = 1]
    <3>1. h \in Hosts
      BY DEF CardInv, Typed, Hosts
    <3>2. host' = [h EXCEPT !.sectors = 0]
      BY <1>2
    <3> HIDE DEF h
    <3> QED
      BY <3>1, <3>2 DEF Hosts
  <2>4. ~InClosure'
    BY <2>2 DEF InClosure
  <2>5. Typed'
    BY <1>1, <1>2, <2>1, <2>2, <2>3 DEF CardInv, Typed
  <2>6. OnBoard' /\ Known'
    BY <1>1, <1>2, <2>1, <2>2, <2>3, <2>4 DEF CardInv, OnBoard, Known, There
  <2>7. Owed'
    BY <1>1, <2>1, <2>2, <2>4 DEF Owed
  <2> QED
    BY <2>5, <2>6, <2>7 DEF CardInv
<1>3. CASE /\ slot' \in IF ~There THEN {slot}
                        ELSE {Mode("idle")} \union (IF Late THEN {Mode("stby")} ELSE {})
           /\ Fails /\ UNCHANGED host
  <2>1. /\ slot' \in CardSlots /\ slot'.card = slot.card /\ slot'.busy = slot.busy
        /\ IF There THEN slot'.mode = "idle" ELSE slot' = slot
    BY <1>1, <1>3, ModeOnly DEF Provided, Late
  <2>2. There <=> slot.mode # "out"
    BY DEF There, CardInv, OnBoard
  <2>3. Typed'
    BY <1>1, <1>3, <2>1, IdleTask DEF Fails, GiveBack, CardInv, Typed
  <2>4. /\ UNCHANGED <<board, memory, power>> /\ Fails /\ host' = host
        /\ slot'.card = slot.card /\ slot'.busy = slot.busy /\ slot'.mode # "tran"
        /\ slot'.mode = slot.mode \/ (slot'.mode = "idle" /\ slot.mode # "out")
        /\ slot'.mode = "stby" => task.step \notin {"capacity", "select", "settle"}
    BY <1>1, <1>3, <2>1, <2>2
  <2> QED
    BY <2>4, <2>3, FailsKept
<1> QED
  BY <1>2, <1>3 DEF Identified

LEMMA MeasuredKept ==
  ASSUME Provided, CardInv, Measured
  PROVE  CardInv'
<1>1. /\ UNCHANGED <<board, spent, slot, memory, pins, power>> /\ task.step = "capacity"
      /\ Step("select") /\ board = "ws" /\ ~InClosure /\ task \in Tasks
  BY DEF Measured, At, CardInv, OnBoard, InClosure, Typed
<1>2. /\ task' \in Tasks /\ task'.step = "select" /\ task'.found = task.found
      /\ task'.done = task.done /\ task'.told = task.told /\ task'.size = task.size
  BY <1>1, StepOnly DEF Steps
<1>3. /\ host' \in Hosts
      /\ host'.sectors = host.sectors \/ host'.sectors = SizeOf[slot.card]
  <2>1. CASE host' = host
    BY <2>1 DEF CardInv, Typed
  <2>2. CASE There /\ host' = [host EXCEPT !.sectors = SizeOf[slot.card]]
    <3>1. SizeOf[slot.card] \in Nat
      BY <2>2 DEF There, CardInv, Typed, CardSlots, Provided, CardsAssumption
    <3> QED
      BY <2>2, <3>1 DEF CardInv, Typed, Hosts
  <2> QED
    BY <2>1, <2>2 DEF Measured
<1>4. ~InClosure'
  BY <1>2 DEF InClosure
<1>5. Typed'
  BY <1>1, <1>2, <1>3 DEF CardInv, Typed
<1>6. OnBoard' /\ Known'
  BY <1>1, <1>2, <1>3, <1>4 DEF CardInv, OnBoard, Known, InClosure
<1>7. Owed'
  BY <1>1, <1>2, <1>4 DEF CardInv, Owed
<1> QED
  BY <1>5, <1>6, <1>7 DEF CardInv

LEMMA SelectedKept ==
  ASSUME Provided, CardInv, Selected
  PROVE  CardInv'
<1>1. /\ UNCHANGED <<board, spent, memory, host, power>> /\ task.step = "select"
      /\ board = "ws" /\ ~InClosure /\ task \in Tasks /\ slot \in CardSlots /\ slot.mode # "tran"
  BY DEF Selected, At, CardInv, OnBoard, InClosure, Typed
<1>2. CASE There /\ slot.mode = "stby" /\ slot' = Mode("tran") /\ Step("settle") /\ UNCHANGED pins
  <2>1. /\ slot' \in CardSlots /\ slot'.mode = "tran"
        /\ slot'.card = slot.card /\ slot'.busy = slot.busy
    BY <1>1, <1>2, ModeOnly
  <2>2. /\ task' \in Tasks /\ task'.step = "settle" /\ task'.found = task.found
        /\ task'.done = task.done /\ task'.told = task.told /\ task'.size = task.size
    BY <1>1, <1>2, StepOnly DEF Steps
  <2>3. ~InClosure'
    BY <2>2 DEF InClosure
  <2>4. Typed'
    BY <1>1, <1>2, <2>1, <2>2 DEF CardInv, Typed
  <2>5. OnBoard' /\ Known'
    BY <1>1, <1>2, <2>1, <2>2, <2>3 DEF CardInv, OnBoard, Known
  <2>6. Owed'
    BY <1>1, <2>1, <2>2, <2>3 DEF CardInv, Owed
  <2> QED
    BY <2>4, <2>5, <2>6 DEF CardInv
<1>3. CASE ~(There /\ slot.mode = "stby") /\ slot' = slot /\ Fails
  <2>1. slot.mode # "stby"
    BY <1>3 DEF There, CardInv, OnBoard
  <2>2. Typed'
    BY <1>1, <1>3, IdleTask DEF Fails, GiveBack, CardInv, Typed
  <2>3. /\ UNCHANGED <<board, memory, power>> /\ Fails /\ host' = host
        /\ slot'.card = slot.card /\ slot'.busy = slot.busy /\ slot'.mode # "tran"
        /\ slot'.mode = slot.mode \/ (slot'.mode = "idle" /\ slot.mode # "out")
        /\ slot'.mode = "stby" => task.step \notin {"capacity", "select", "settle"}
    BY <1>1, <1>3, <2>1
  <2> QED
    BY <2>3, <2>2, FailsKept
<1> QED
  BY <1>2, <1>3 DEF Selected, Late, Provided

LEMMA SettledKept ==
  ASSUME Provided, CardInv, Settled
  PROVE  CardInv'
<1>1. /\ UNCHANGED <<board, spent, slot, memory, power>> /\ task.step = "settle"
      /\ board = "ws" /\ ~InClosure /\ task \in Tasks /\ slot \in CardSlots
      /\ task.told = {} /\ task.done = {} /\ task.size = 0 /\ slot.mode # "stby"
  BY DEF Settled, At, CardInv, OnBoard, Owed, InClosure, Typed
<1>2. CASE /\ There /\ slot.mode = "tran" /\ host' = [host EXCEPT !.type = task.found]
           /\ task' = [task EXCEPT !.step = IF task.kind = "boot" THEN "leave" ELSE "closure",
                                   !.type = task.found]
           /\ UNCHANGED pins
  <2>1. task.found = KindOf(slot.card) /\ task.found \in Types
    BY <1>1, <1>2 DEF CardInv, Known, Tasks
  <2>2. /\ host' \in Hosts /\ host'.type = task.found /\ host'.sectors = host.sectors
    BY <1>2, <2>1 DEF CardInv, Typed, Hosts
  <2>3. /\ task' \in Tasks /\ task'.step \in {"leave", "closure"} /\ task'.type = task.found
        /\ task'.done = {} /\ task'.told = {} /\ task'.size = 0
    <3> DEFINE s == IF task.kind = "boot" THEN "leave" ELSE "closure"
               a == [task EXCEPT !.step = s]
    <3>1. s \in {"leave", "closure"}
      OBVIOUS
    <3>2. a \in Tasks /\ a.step = s /\ a.done = {} /\ a.told = {} /\ a.size = 0
      <4> HIDE DEF s
      <4> QED BY <1>1, <3>1 DEF Tasks, Steps
    <3>3. task' = [a EXCEPT !.type = task.found]
      BY <1>2
    <3> HIDE DEF a, s
    <3> QED
      BY <2>1, <3>1, <3>2, <3>3 DEF Tasks
  <2>4. Typed'
    BY <1>1, <1>2, <2>2, <2>3 DEF CardInv, Typed
  <2>5. OnBoard' /\ Known'
    BY <1>1, <1>2, <2>1, <2>2, <2>3 DEF CardInv, OnBoard, Known, InClosure
  <2>6. Owed'
    BY <1>1, <1>2, <2>2, <2>3 DEF CardInv, Owed
  <2> QED
    BY <2>4, <2>5, <2>6 DEF CardInv
<1>3. CASE ~(There /\ slot.mode = "tran") /\ host' = host /\ Fails
  <2>1. slot.mode # "tran"
    BY <1>3 DEF There, CardInv, OnBoard
  <2>2. Typed'
    BY <1>1, <1>3, IdleTask DEF Fails, GiveBack, CardInv, Typed
  <2>3. /\ UNCHANGED <<board, memory, power>> /\ Fails /\ host' = host
        /\ slot'.card = slot.card /\ slot'.busy = slot.busy /\ slot'.mode # "tran"
        /\ slot'.mode = slot.mode \/ (slot'.mode = "idle" /\ slot.mode # "out")
        /\ slot'.mode = "stby" => task.step \notin {"capacity", "select", "settle"}
    BY <1>1, <1>3, <2>1
  <2> QED
    BY <2>3, <2>2, FailsKept
<1> QED
  BY <1>2, <1>3 DEF Settled, Late, Provided

LEMMA PowerCycledKept ==
  ASSUME Provided, CardInv, PowerCycled
  PROVE  CardInv'
<1>1. /\ UNCHANGED <<board, spent, host, pins>> /\ task.step = "cycle"
      /\ board = "m5" /\ ~InClosure /\ task \in Tasks /\ slot \in CardSlots
      /\ task.done = {} /\ task.size = 0 /\ Step("identify")
  BY DEF PowerCycled, At, CardInv, OnBoard, Owed, InClosure, Typed
<1>2. PICK low \in SUBSET {"card", "rest"} :
        /\ "rest" \in low /\ power' \in SUBSET {"card", "rest"} /\ "rest" \in power'
        /\ IF There /\ "card" \notin low THEN slot' = Put(slot.card) /\ memory' = Torn(memory)
           ELSE UNCHANGED <<slot, memory>>
  <2>1. PICK off \in BOOLEAN, on \in BOOLEAN :
          LET low == IF off THEN power \ {"card"} ELSE power IN
          /\ power' = IF on THEN power \union {"card"} ELSE low
          /\ IF There /\ "card" \notin low THEN slot' = Put(slot.card) /\ memory' = Torn(memory)
             ELSE UNCHANGED <<slot, memory>>
    BY DEF PowerCycled, Provided
  <2>2. power \in SUBSET {"card", "rest"} /\ "rest" \in power
    BY DEF CardInv, Typed, OnBoard
  <2> QED
    BY <2>1, <2>2
<1>3. /\ task' \in Tasks /\ task'.step = "identify"
      /\ task'.done = task.done /\ task'.told = task.told /\ task'.size = task.size
  BY <1>1, StepOnly DEF Steps
<1>4. ~InClosure'
  BY <1>3 DEF InClosure
<1>5. CASE There /\ "card" \notin low
  <2>1. /\ slot' \in CardSlots /\ slot'.card = slot.card /\ slot'.mode = "idle"
        /\ slot'.busy = {} /\ slot.card # None
    BY <1>1, <1>2, <1>5 DEF Put, CardSlots, There
  <2>2. /\ memory' \in [Cards -> [Blocks -> Int]]
        /\ \A t \in task.told : memory'[t.card][t.block] = memory[t.card][t.block]
    <3>1. \A t \in task.told :
            t \in Entry /\ (t.card = slot.card => t.block \notin slot.busy)
      BY DEF CardInv, Owed, Typed, Tasks
    <3> QED
      BY <1>2, <1>5, <3>1, Tears DEF CardInv, Entry
  <2>3. Typed'
    BY <1>1, <1>2, <1>3, <2>1, <2>2 DEF CardInv, Typed
  <2>4. OnBoard' /\ Known'
    BY <1>1, <1>2, <1>3, <1>4, <2>1 DEF CardInv, OnBoard, Known
  <2>5. Owed'
    BY <1>1, <1>3, <1>4, <2>1, <2>2 DEF CardInv, Owed
  <2> QED
    BY <2>3, <2>4, <2>5 DEF CardInv
<1>6. CASE ~(There /\ "card" \notin low)
  <2>1. UNCHANGED <<slot, memory>>
    BY <1>2, <1>6
  <2>2. Typed'
    BY <1>1, <1>2, <1>3, <2>1 DEF CardInv, Typed
  <2>3. OnBoard' /\ Known'
    BY <1>1, <1>2, <1>3, <1>4, <2>1 DEF CardInv, OnBoard, Known
  <2>4. Owed'
    BY <1>1, <1>3, <1>4, <2>1 DEF CardInv, Owed
  <2> QED
    BY <2>2, <2>3, <2>4 DEF CardInv
<1> QED
  BY <1>5, <1>6

LEMMA InitialisedKept ==
  ASSUME Provided, CardInv, Initialised
  PROVE  CardInv'
<1>1. /\ UNCHANGED <<board, spent, memory, host, power>> /\ task.step = "identify"
      /\ board = "m5" /\ ~InClosure /\ task \in Tasks /\ slot \in CardSlots
      /\ task.done = {} /\ task.size = 0 /\ slot.mode \notin {"stby", "tran"}
  BY DEF Initialised, At, CardInv, OnBoard, Owed, InClosure, Typed
<1>2. CASE /\ There /\ slot' = [Mode("spi") EXCEPT !.busy = {}]
           /\ task' = [task EXCEPT !.step = IF task.kind = "boot" THEN "leave" ELSE "closure",
                                   !.type = KindOf(slot.card), !.told = {}]
           /\ UNCHANGED pins
  <2>1. slot' \in CardSlots /\ slot'.card = slot.card /\ slot'.mode = "spi" /\ slot'.busy = {}
    <3> DEFINE m == Mode("spi")
    <3>1. m \in CardSlots /\ m.mode = "spi" /\ m.card = slot.card
      BY <1>1, ModeOnly
    <3>2. slot' = [m EXCEPT !.busy = {}]
      BY <1>2
    <3> HIDE DEF m
    <3> QED
      BY <3>1, <3>2 DEF CardSlots
  <2>2. /\ task' \in Tasks /\ task'.step \in {"leave", "closure"}
        /\ task'.type = KindOf(slot.card)
        /\ task'.done = {} /\ task'.told = {} /\ task'.size = 0
    <3> DEFINE s == IF task.kind = "boot" THEN "leave" ELSE "closure"
               a == [task EXCEPT !.step = s]
               b == [a EXCEPT !.type = KindOf(slot.card)]
    <3>1. s \in {"leave", "closure"}
      OBVIOUS
    <3>2. a \in Tasks /\ a.step = s /\ a.done = {} /\ a.size = 0
      <4> HIDE DEF s
      <4> QED BY <1>1, <3>1 DEF Tasks, Steps
    <3>3. /\ b \in Tasks /\ b.step = s /\ b.type = KindOf(slot.card)
          /\ b.done = {} /\ b.size = 0
      <4> HIDE DEF a, s
      <4> QED BY <3>2, TypeOfCard DEF Tasks
    <3>4. task' = [b EXCEPT !.told = {}]
      BY <1>2
    <3> HIDE DEF b, s
    <3> QED
      BY <3>1, <3>3, <3>4 DEF Tasks
  <2>3. Typed'
    BY <1>1, <1>2, <2>1, <2>2 DEF CardInv, Typed
  <2>4. OnBoard' /\ Known'
    BY <1>1, <1>2, <2>1, <2>2 DEF CardInv, OnBoard, Known, InClosure, There
  <2>5. Owed'
    BY <1>1, <2>1, <2>2 DEF Owed
  <2> QED
    BY <2>3, <2>4, <2>5 DEF CardInv
<1>3. CASE slot' = slot /\ Fails
  <2>1. Typed'
    BY <1>1, <1>3, IdleTask DEF Fails, GiveBack, CardInv, Typed
  <2>2. /\ UNCHANGED <<board, memory, power>> /\ Fails /\ host' = host
        /\ slot'.card = slot.card /\ slot'.busy = slot.busy /\ slot'.mode # "tran"
        /\ slot'.mode = slot.mode \/ (slot'.mode = "idle" /\ slot.mode # "out")
        /\ slot'.mode = "stby" => task.step \notin {"capacity", "select", "settle"}
    BY <1>1, <1>3
  <2> QED
    BY <2>2, <2>1, FailsKept
<1> QED
  BY <1>2, <1>3 DEF Initialised

-----------------------------------------------------------------------------
(* The closure. *)

LEMMA IssuedKept ==
  ASSUME Provided, CardInv, NEW op \in {"read", "write"}, NEW span \in Spans, Issued(op, span)
  PROVE  CardInv'
<1>1. /\ UNCHANGED <<board, spent, slot, memory, host, power>> /\ task.step = "closure"
      /\ InClosure /\ Attends /\ task \in Tasks /\ task.done = {}
      /\ span \in SUBSET Blocks /\ span # {}
  BY DEF Issued, At, CardInv, Owed, InClosure, Typed, Provided, CardsAssumption
<1> DEFINE undone == IF op = "write" THEN task.told \ UNION {Told(b) : b \in span} ELSE task.told
           a == [task EXCEPT !.step = "data"]
           b == [a EXCEPT !.op = op]
           c == [b EXCEPT !.todo = span]
<1>2. /\ undone \subseteq task.told
      /\ op = "write" => \A t \in undone : t.block \notin span
  BY DEF Told
<1>3. /\ task' \in Tasks /\ task'.step = "data" /\ task'.op = op /\ task'.todo = span
      /\ task'.type = task.type /\ task'.done = {} /\ task'.told = undone
      /\ task'.size = task.size
  <2>1. /\ a \in Tasks /\ a.step = "data" /\ a.type = task.type /\ a.done = {}
        /\ a.told = task.told /\ a.size = task.size
    BY <1>1 DEF Tasks, Steps
  <2>2. /\ b \in Tasks /\ b.step = "data" /\ b.type = task.type /\ b.done = {}
        /\ b.op = op /\ b.told = task.told /\ b.size = task.size
    <3> HIDE DEF a
    <3> QED BY <2>1 DEF Tasks
  <2>3. /\ c \in Tasks /\ c.step = "data" /\ c.type = task.type /\ c.done = {}
        /\ c.op = op /\ c.told = task.told /\ c.size = task.size /\ c.todo = span
    <3> HIDE DEF b
    <3> QED BY <1>1, <2>2 DEF Tasks
  <2>4. task' = [c EXCEPT !.told = undone]
    BY DEF Issued
  <2>5. undone \in SUBSET Entry
    <3> HIDE DEF undone
    <3> QED BY <1>1, <1>2 DEF Tasks
  <2> HIDE DEF c, undone
  <2> QED
    BY <1>1, <2>3, <2>4, <2>5 DEF Tasks
<1> HIDE DEF undone
<1>4. /\ pins'.owner = pins.owner
      /\ pins' \in [owner : {"card", "display"}, select : BOOLEAN]
  BY DEF Issued, Select, CardInv, Typed
<1>5. InClosure' /\ Attends'
  BY <1>1, <1>3 DEF InClosure, Attends, There, Ready
<1>6. Typed'
  BY <1>1, <1>3, <1>4 DEF CardInv, Typed
<1>7. OnBoard' /\ Known'
  BY <1>1, <1>3, <1>4, <1>5 DEF CardInv, OnBoard, Known
<1>8. Owed'
  BY <1>1, <1>2, <1>3, <1>5 DEF CardInv, Owed
<1> QED
  BY <1>6, <1>7, <1>8 DEF CardInv

\* The capacity the caller is given is that of the card it is told about.
LEMMA SizedKept ==
  ASSUME Provided, CardInv, NEW s \in Nat, task.step = "closure",
         task' = [task EXCEPT !.size = s],
         UNCHANGED <<board, spent, slot, memory, host, pins, power>>,
         \A t \in task.told : s \in {0, SizeOf[t.card]},
         Attends => s \in {0, SizeOf[slot.card]}
  PROVE  CardInv'
<1>1. task \in Tasks /\ InClosure /\ task.done = {}
  BY DEF InClosure, CardInv, Typed, Owed
<1>2. /\ task' \in Tasks /\ task'.step = "closure" /\ task'.size = s
      /\ task'.type = task.type /\ task'.op = task.op /\ task'.todo = task.todo
      /\ task'.told = task.told /\ task'.done = {}
  BY <1>1 DEF Tasks
<1>3. InClosure' /\ Attends' = Attends
  BY <1>2 DEF InClosure, Attends, There, Ready
<1>4. Typed'
  BY <1>2 DEF CardInv, Typed
<1>5. OnBoard' /\ Known'
  BY <1>1, <1>2, <1>3 DEF CardInv, OnBoard, Known
<1>6. Owed'
  BY <1>1, <1>2, <1>3 DEF CardInv, Owed
<1> QED
  BY <1>4, <1>5, <1>6 DEF CardInv

LEMMA CapacityKept ==
  ASSUME Provided, CardInv, WsCapacity \/ M5Capacity
  PROVE  CardInv'
<1>1. /\ task.step = "closure" /\ InClosure
      /\ UNCHANGED <<board, spent, slot, memory, host, pins, power>>
  BY DEF WsCapacity, M5Capacity, At, InClosure
<1>2. CASE WsCapacity
  <2>1. /\ board = "ws" /\ host.sectors \in Nat
        /\ task' = [task EXCEPT !.size = host.sectors]
    BY <1>2 DEF WsCapacity, CardInv, Typed, Hosts
  <2>2. \A t \in task.told : host.sectors \in {0, SizeOf[t.card]}
    BY <1>1, <2>1 DEF CardInv, Owed
  <2>3. Attends => host.sectors \in {0, SizeOf[slot.card]}
    BY <2>1 DEF Attends, Ready, CardInv, Known
  <2> QED
    BY <1>1, <2>1, <2>2, <2>3, SizedKept
<1>3. CASE M5Capacity
  <2>1. /\ Attends /\ SizeOf[slot.card] \in Nat
        /\ task' = [task EXCEPT !.size = SizeOf[slot.card]]
    BY <1>3 DEF M5Capacity, CardInv, Typed, CardSlots, Attends, There, Provided, CardsAssumption
  <2>2. \A t \in task.told : t.card = slot.card
    BY <1>1, <2>1 DEF CardInv, Owed
  <2> QED
    BY <1>1, <2>1, <2>2, SizedKept
<1> QED
  BY <1>2, <1>3

\* A block moved: one entry more, true of the card that answers, and whose
\* block was left.
LEMMA TookKept ==
  ASSUME Provided, CardInv, task.step = "data", Attends,
         NEW b \in task.todo, NEW v \in Int, Took(b, v),
         UNCHANGED <<board, spent, host, pins, power>>,
         slot' \in CardSlots, slot'.card = slot.card, slot'.mode = slot.mode,
         memory' \in [Cards -> [Blocks -> Int]], memory'[slot.card][b] = v,
         \A c \in Cards, d \in Blocks : <<c, d>> # <<slot.card, b>> => memory'[c][d] = memory[c][d],
         (memory' = memory /\ slot' = slot) \/ (task.op = "write" /\ slot'.busy = {b})
  PROVE  CardInv'
<1>1. /\ task \in Tasks /\ slot.card \in Cards /\ b \in Blocks /\ InClosure
      /\ task.todo \subseteq Blocks /\ task.done \subseteq Entry /\ task.told \subseteq Entry
  BY DEF CardInv, Typed, Tasks, CardSlots, Attends, There, InClosure
<1> DEFINE new == [card |-> slot.card, block |-> b, value |-> v]
           s == IF task.todo = {b} THEN "end" ELSE "data"
           x == [task EXCEPT !.todo = task.todo \ {b}]
           y == [x EXCEPT !.step = s]
<1>2. new \in Entry /\ new.card = slot.card /\ new.block = b /\ new.value = v
  BY <1>1 DEF Entry
<1> HIDE DEF new
<1>3. s \in {"end", "data"} /\ (s = "data" => task.todo \ {b} # {})
  OBVIOUS
<1>4. /\ task' \in Tasks /\ task'.step = s /\ task'.op = task.op
      /\ task'.todo = task.todo \ {b} /\ task'.type = task.type /\ task'.told = task.told
      /\ task'.size = task.size /\ task'.done = task.done \union {new}
  <2>1. /\ x \in Tasks /\ x.op = task.op /\ x.type = task.type /\ x.told = task.told
        /\ x.size = task.size /\ x.done = task.done /\ x.todo = task.todo \ {b}
    BY <1>1 DEF Tasks
  <2>2. /\ y \in Tasks /\ y.op = task.op /\ y.type = task.type /\ y.told = task.told
        /\ y.size = task.size /\ y.done = task.done /\ y.todo = task.todo \ {b} /\ y.step = s
    <3> HIDE DEF x, s
    <3> QED BY <1>3, <2>1 DEF Tasks, Steps
  <2>3. task' = [y EXCEPT !.done = task.done \union {new}]
    BY DEF Took, new
  <2>4. task.done \union {new} \in SUBSET Entry
    BY <1>1, <1>2
  <2> HIDE DEF y, s
  <2> QED
    BY <2>2, <2>3, <2>4 DEF Tasks
<1> HIDE DEF s
<1>5. InClosure' /\ Attends'
  BY <1>3, <1>4 DEF InClosure, Attends, There, Ready
<1>6. Typed'
  BY <1>4 DEF CardInv, Typed
<1>7. OnBoard' /\ Known'
  BY <1>1, <1>3, <1>4, <1>5 DEF CardInv, OnBoard, Known
<1>8. \A t \in task.told \union task.done :
         /\ t \in Entry /\ t.card = slot.card /\ memory[t.card][t.block] = t.value
         /\ task.size \in {0, SizeOf[t.card]}
         /\ board = "ws" => host.sectors \in {0, SizeOf[t.card]}
  BY <1>1 DEF CardInv, Owed
<1>9. /\ task.size \in {0, SizeOf[slot.card]}
      /\ board = "ws" => host.sectors \in {0, SizeOf[slot.card]}
  BY <1>1 DEF CardInv, Owed, Known, Attends, Ready
<1>10. \A d \in task.done : d.block \notin task.todo
  BY DEF CardInv, Owed
<1>11. task.op = "write" => \A t \in task.told :
         t.block \notin task.todo /\ \A d \in task.done : t.block # d.block
  BY DEF CardInv, Owed
<1>12. ASSUME NEW t \in task'.told \union task'.done
       PROVE  /\ memory'[t.card][t.block] = t.value /\ t.card = slot.card
              /\ task'.size \in {0, SizeOf[t.card]}
              /\ board = "ws" => host.sectors \in {0, SizeOf[t.card]}
  <2>1. CASE t = new
    BY <1>2, <1>4, <1>9, <2>1
  <2>2. CASE t \in task.told \union task.done
    <3>1. t.card \in Cards /\ t.block \in Blocks
      BY <1>8, <2>2 DEF Entry
    <3>2. memory' = memory \/ t.block # b
      BY <1>10, <1>11, <2>2
    <3> QED
      BY <1>4, <1>8, <2>2, <3>1, <3>2
  <2> QED
    BY <1>4, <2>1, <2>2
<1>13. /\ task'.step \notin {"data", "end"} => task'.done = {}
       /\ task'.step = "data" => task'.todo # {}
       /\ \A d \in task'.done : d.block \notin task'.todo
       /\ task'.op = "write" => \A t \in task'.told :
            t.block \notin task'.todo /\ \A d \in task'.done : t.block # d.block
  BY <1>2, <1>3, <1>4, <1>10, <1>11
<1>14. \A t \in task'.told : t.card = slot'.card => t.block \notin slot'.busy
  BY <1>4, <1>11 DEF CardInv, Owed
<1>15. Owed'
  BY <1>4, <1>5, <1>9, <1>12, <1>13, <1>14 DEF Owed
<1> QED
  BY <1>6, <1>7, <1>15 DEF CardInv

LEMMA MovedKept ==
  ASSUME Provided, CardInv, WsWrote \/ WsGot \/ M5Wrote \/ M5Got
  PROVE  CardInv'
<1>1. /\ task.step = "data" /\ InClosure
      /\ UNCHANGED <<board, spent, host, pins, power>>
  BY DEF WsWrote, WsGot, M5Wrote, M5Got, Moves, At, InClosure
<1>2. Attends
  BY DEF WsWrote, WsGot, M5Wrote, M5Got, Programs, Gives, Provided
<1>3. Lowest \in task.todo
  BY <1>1, LowestLeft DEF CardInv, Owed
<1>4. /\ Lowest \in Blocks /\ slot.card \in Cards /\ slot \in CardSlots
      /\ memory \in [Cards -> [Blocks -> Int]] /\ Value \in Int
  BY <1>2, <1>3 DEF CardInv, Typed, Tasks, CardSlots, Attends, There, Value
<1>5. Where(Lowest) = Lowest
  BY <1>1, <1>2, <1>4, WhereItIs DEF CardInv, Known
<1>6. CASE WsWrote \/ M5Wrote
  <2>1. Programs(Lowest) /\ task.op = "write"
    BY <1>5, <1>6 DEF WsWrote, M5Wrote, Moves, Provided
  <2>2. /\ Took(Lowest, Value)
        /\ memory' = [memory EXCEPT ![slot.card][Lowest] = Value]
        /\ slot' = [slot EXCEPT !.busy = {Lowest}]
    BY <1>4, <2>1 DEF Programs
  <2>3. /\ slot' \in CardSlots /\ slot'.card = slot.card /\ slot'.mode = slot.mode
        /\ slot'.busy = {Lowest}
    BY <1>4, <2>2 DEF CardSlots
  <2>4. /\ memory' \in [Cards -> [Blocks -> Int]] /\ memory'[slot.card][Lowest] = Value
        /\ \A c \in Cards, d \in Blocks :
             <<c, d>> # <<slot.card, Lowest>> => memory'[c][d] = memory[c][d]
    BY <1>4, <2>2
  <2> QED
    BY <1>1, <1>2, <1>3, <1>4, <2>1, <2>2, <2>3, <2>4, TookKept
<1>7. CASE WsGot \/ M5Got
  <2>1. Gives(Lowest)
    BY <1>5, <1>7 DEF WsGot, M5Got
  <2>2. UNCHANGED <<slot, memory>> /\ Took(Lowest, memory[slot.card][Lowest])
    BY <1>4, <2>1 DEF Gives
  <2>3. memory[slot.card][Lowest] \in Int
    BY <1>4
  <2> QED
    BY <1>1, <1>2, <1>3, <1>4, <2>2, <2>3, TookKept
<1> QED
  BY <1>6, <1>7

\* What an operation leaves behind when it is over, well or not.
LEMMA RefusedTask ==
  ASSUME task \in Tasks
  PROVE  /\ Refused \in Tasks /\ Refused.step = "closure" /\ Refused.op = "none"
         /\ Refused.type = task.type /\ Refused.done = {}
         /\ Refused.told = task.told /\ Refused.size = task.size
<1> DEFINE a == [task EXCEPT !.step = "closure"]
           b == [a EXCEPT !.op = "none"]
           c == [b EXCEPT !.todo = {}]
<1>1. /\ a \in Tasks /\ a.step = "closure" /\ a.type = task.type
      /\ a.told = task.told /\ a.size = task.size
  BY DEF Tasks, Steps
<1>2. /\ b \in Tasks /\ b.step = "closure" /\ b.type = task.type /\ b.op = "none"
      /\ b.told = task.told /\ b.size = task.size
  <2> HIDE DEF a
  <2> QED BY <1>1 DEF Tasks
<1>3. /\ c \in Tasks /\ c.step = "closure" /\ c.type = task.type /\ c.op = "none"
      /\ c.told = task.told /\ c.size = task.size
  <2> HIDE DEF b
  <2> QED BY <1>2 DEF Tasks
<1>4. Refused = [c EXCEPT !.done = {}]
  BY DEF Refused
<1> HIDE DEF c
<1> QED
  BY <1>3, <1>4 DEF Tasks

LEMMA ClosedKept ==
  ASSUME Provided, CardInv, WsClosed \/ M5Closed
  PROVE  CardInv'
<1>1. /\ UNCHANGED <<board, spent, slot, memory, host, power>> /\ task.step = "end"
      /\ slot.busy = {} /\ InClosure /\ task \in Tasks
  BY DEF WsClosed, M5Closed, Ends, At, InClosure, CardInv, Typed, Provided
<1> DEFINE r == Refused
           undone == (task.told \ UNION {Told(t.block) : t \in task.done}) \union task.done
<1>2. undone \subseteq task.told \union task.done
  OBVIOUS
<1>3. task' = [r EXCEPT !.told = undone]
  <2>1. r.told = task.told
    BY <1>1, RefusedTask
  <2> QED
    BY <2>1 DEF WsClosed, M5Closed, Ends
<1> HIDE DEF undone
<1>4. /\ task' \in Tasks /\ task'.step = "closure" /\ task'.op = "none"
      /\ task'.type = task.type /\ task'.done = {} /\ task'.told = undone
      /\ task'.size = task.size
  <2>1. /\ r \in Tasks /\ r.step = "closure" /\ r.op = "none"
        /\ r.type = task.type /\ r.done = {} /\ r.size = task.size
    BY <1>1, RefusedTask
  <2>2. undone \in SUBSET Entry
    BY <1>1, <1>2 DEF Tasks
  <2> HIDE DEF r
  <2> QED
    BY <1>3, <2>1, <2>2 DEF Tasks
<1>5. /\ pins'.owner = pins.owner
      /\ pins' \in [owner : {"card", "display"}, select : BOOLEAN]
  BY DEF WsClosed, M5Closed, Ends, Select, CardInv, Typed
<1>6. InClosure' /\ Attends' = Attends
  BY <1>1, <1>4 DEF InClosure, Attends, There, Ready
<1>7. Typed'
  BY <1>1, <1>4, <1>5 DEF CardInv, Typed
<1>8. OnBoard' /\ Known'
  BY <1>1, <1>4, <1>5, <1>6 DEF CardInv, OnBoard, Known
<1>9. \A t \in undone : t \in task.told \union task.done
  BY <1>2
<1>10. Owed'
  BY <1>1, <1>4, <1>6, <1>9 DEF CardInv, Owed
<1> QED
  BY <1>7, <1>8, <1>10 DEF CardInv

LEMMA FailedKept ==
  ASSUME Provided, CardInv, Failed
  PROVE  CardInv'
<1>1. /\ UNCHANGED <<board, spent, slot, memory, host, power>>
      /\ InClosure /\ task \in Tasks /\ task' = Refused
  BY DEF Failed, InClosure, CardInv, Typed
<1>2. /\ task' \in Tasks /\ task'.step = "closure" /\ task'.op = "none"
      /\ task'.type = task.type /\ task'.done = {} /\ task'.told = task.told
      /\ task'.size = task.size
  BY <1>1, RefusedTask
<1>3. /\ pins'.owner = pins.owner
      /\ pins' \in [owner : {"card", "display"}, select : BOOLEAN]
  BY DEF Failed, Select, CardInv, Typed
<1>4. InClosure' /\ Attends' = Attends
  BY <1>1, <1>2 DEF InClosure, Attends, There, Ready
<1>5. Typed'
  BY <1>1, <1>2, <1>3 DEF CardInv, Typed
<1>6. OnBoard' /\ Known'
  BY <1>1, <1>2, <1>3, <1>4 DEF CardInv, OnBoard, Known, InClosure
<1>7. Owed'
  BY <1>1, <1>2, <1>4 DEF CardInv, Owed
<1> QED
  BY <1>5, <1>6, <1>7 DEF CardInv

LEMMA LeaveKept ==
  ASSUME Provided, CardInv, WsLeave \/ M5Leave
  PROVE  CardInv'
<1>1. /\ UNCHANGED <<board, spent, memory, host, power>> /\ task.step \in {"closure", "leave"}
      /\ task \in Tasks /\ slot \in CardSlots /\ task.done = {} /\ GiveBack
  BY DEF WsLeave, M5Leave, Leaves, At, CardInv, Typed, Owed
<1>2. /\ slot' \in CardSlots /\ slot'.card = slot.card /\ slot'.busy = slot.busy
      /\ slot'.mode = IF slot.mode = "tran" THEN "stby" ELSE slot.mode
  <2>1. slot.mode = "tran" => board = "ws" /\ There
    BY DEF CardInv, OnBoard, There
  <2>2. CASE slot.mode = "tran"
    <3>1. slot' = Mode("stby")
      BY <2>1, <2>2 DEF WsLeave, M5Leave, Provided
    <3> QED
      BY <1>1, <2>2, <3>1, ModeOnly
  <2>3. CASE slot.mode # "tran"
    BY <1>1, <2>3 DEF WsLeave, M5Leave
  <2> QED
    BY <2>2, <2>3
<1>3. /\ task' \in Tasks /\ task'.step = "idle" /\ task'.done = {} /\ task'.op = "none"
      /\ task'.told = task.told /\ task'.size = task.size
  <2> DEFINE a == [Idle EXCEPT !.told = task.told]
             b == [a EXCEPT !.size = task.size]
  <2>1. /\ a \in Tasks /\ a.step = "idle" /\ a.done = {} /\ a.op = "none"
        /\ a.told = task.told
    BY <1>1, IdleTask DEF Idle, Tasks
  <2>2. /\ b \in Tasks /\ b.step = "idle" /\ b.done = {} /\ b.op = "none"
        /\ b.told = task.told /\ b.size = task.size
    <3> HIDE DEF a
    <3> QED BY <1>1, <2>1 DEF Tasks
  <2>3. task' = [b EXCEPT !.type = task.type]
    BY DEF WsLeave, M5Leave, Leaves
  <2> HIDE DEF b
  <2> QED
    BY <1>1, <2>2, <2>3 DEF Tasks
<1>4. ~InClosure'
  BY <1>3 DEF InClosure
<1>5. /\ pins'.owner = "display" /\ ~pins'.select
      /\ pins' \in [owner : {"card", "display"}, select : BOOLEAN]
  BY <1>1 DEF GiveBack
<1>6. Typed'
  BY <1>1, <1>2, <1>3, <1>5 DEF CardInv, Typed
<1>7. OnBoard' /\ Known'
  BY <1>1, <1>2, <1>3, <1>4, <1>5 DEF CardInv, OnBoard, Known
<1>8. Owed'
  BY <1>1, <1>2, <1>3, <1>4 DEF CardInv, Owed
<1> QED
  BY <1>6, <1>7, <1>8 DEF CardInv

-----------------------------------------------------------------------------
(* The theorems. *)

LEMMA InitKept ==
  ASSUME Provided, CardInit
  PROVE  CardInv
<1>1. /\ task \in Tasks /\ task.step = "boot" /\ task.done = {} /\ task.told = {}
      /\ task.size = 0 /\ task.op = "none"
  BY IdleTask DEF CardInit, Idle, Tasks, Steps
<1>2. slot \in CardSlots /\ slot.mode \in {"out", "idle"} /\ (slot.card = None <=> slot.mode = "out")
  BY DEF CardInit, NoCard, Put, CardSlots, Provided, CardsAssumption
<1>3. Typed
  BY <1>1, <1>2 DEF CardInit, Typed, Hosts, Types
<1>4. OnBoard /\ Known
  BY <1>1, <1>2 DEF CardInit, OnBoard, Known, InClosure
<1>5. Owed
  BY <1>1 DEF Owed, InClosure
<1> QED
  BY <1>3, <1>4, <1>5 DEF CardInv

LEMMA StepKept ==
  ASSUME Provided, CardInv, [CardNext]_cardVars
  PROVE  CardInv'
<1>1. CASE UNCHANGED cardVars
  BY <1>1 DEF cardVars, CardInv, Typed, OnBoard, Known, Owed, InClosure, Attends, There, Ready
<1>2. CASE CardNext
  <2>1. CASE Pull \/ Programmed \/ \E c \in Cards : Insert(c)
    BY <2>1, PullKept, ProgrammedKept, InsertKept
  <2>2. CASE Boot \/ Enter \/ Asked \/ Reselected \/ Identified \/ Measured
    BY <2>2, BootKept, EnterKept, AskedKept, ReselectedKept, IdentifiedKept, MeasuredKept
  <2>3. CASE Selected \/ Settled \/ PowerCycled \/ Initialised
    BY <2>3, SelectedKept, SettledKept, PowerCycledKept, InitialisedKept
  <2>4. CASE \E op \in {"read", "write"}, span \in Spans : Issued(op, span)
    BY <2>4, IssuedKept
  <2>5. CASE WsCapacity \/ M5Capacity \/ WsWrote \/ WsGot \/ M5Wrote \/ M5Got
    BY <2>5, CapacityKept, MovedKept
  <2>6. CASE WsClosed \/ M5Closed \/ WsLeave \/ M5Leave \/ Failed
    BY <2>6, ClosedKept, LeaveKept, FailedKept
  <2> QED
    BY <1>2, <2>1, <2>2, <2>3, <2>4, <2>5, <2>6 DEF CardNext
<1> QED
  BY <1>1, <1>2

LEMMA CardInvTrue ==
  ASSUME Provided, CardInv
  PROVE  SessionTrue
<1>1. DoneIsOnCard
  BY DEF CardInv, Typed, Tasks, Entry, Owed, DoneIsOnCard
<1>2. RightCard
  BY DEF CardInv, OnBoard, Known, RightCard, InClosure, Attends, Ready
<1>3. DisplayFree
  BY DEF CardInv, Typed, OnBoard, InClosure, DisplayFree
<1>4. SuppliesKept
  BY DEF CardInv, OnBoard, SuppliesKept
<1> QED
  BY <1>1, <1>2, <1>3, <1>4 DEF SessionTrue

\* The inductive invariant: what the driver keeps between sessions is of the
\* card that answers it, however often cards were pulled and put in.
THEOREM CardInvariant ==
  ASSUME Detours = {}
  PROVE  CardSpec => []CardInv
<1>1. CardInit => CardInv
  BY InitKept, CardsAssumption DEF Provided
<1>2. CardInv /\ [CardNext]_cardVars => CardInv'
  BY StepKept, CardsAssumption DEF Provided
<1> QED
  BY <1>1, <1>2, PTL DEF CardSpec

\* What the FAT code is told is done is done and on one card, a card is
\* addressed as its kind requires, the display gets its pins back from a card
\* that has let go of them, and no other supply is switched off.
THEOREM CardSessions ==
  ASSUME Detours = {}
  PROVE  CardSpec => []SessionTrue
<1>1. CardInv => SessionTrue
  BY CardInvTrue, CardsAssumption DEF Provided
<1> QED
  BY <1>1, CardInvariant, PTL
=============================================================================
