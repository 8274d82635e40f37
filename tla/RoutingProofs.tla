--------------------------- MODULE RoutingProofs ---------------------------
(***************************************************************************)
(* Static routing is a partition of the keyspace, for any number of shards *)
(* and any boundaries.                                                     *)
(***************************************************************************)
EXTENDS Routing, WellFoundedInduction, TLAPS

\* Every non-empty set of naturals has a least element: induction over the
\* shards, in the form of a least counterexample.
LEMMA LeastElement ==
  ASSUME NEW S \in SUBSET Nat, S # {}
  PROVE  \E n \in S : \A m \in S : n <= m
<1>1. PICK x \in S : \A y \in S : ~(<<y, x>> \in OpToRel(<, Nat))
  BY NatLessThanWellFounded, WFMin
<1>2. \A y \in S : ~(y < x)
  BY <1>1 DEF OpToRel
<1> QED
  BY <1>2

\* Routes as NewCoordinatedProxy accepts them.
GoodRoutes(routes) ==
  /\ Len(routes) \in Nat \ {0}
  /\ \A i \in 1..Len(routes) : routes[i].start \in Nat /\ routes[i].end \in Nat
  /\ Contiguous(routes)

\* The loop of CoordinatedProxy.shard always finds a shard: its
\* panic("validated routing") is unreachable.
LEMMA ShardOfExists ==
  ASSUME NEW routes, GoodRoutes(routes), NEW key \in Nat
  PROVE  /\ ShardOf(routes, key) \in 1..Len(routes)
         /\ BelowEnd(routes[ShardOf(routes, key)], key)
         /\ \A j \in 1..(ShardOf(routes, key) - 1) : ~BelowEnd(routes[j], key)
<1> DEFINE S == {i \in 1..Len(routes) : BelowEnd(routes[i], key)}
<1>1. S \in SUBSET Nat
  BY DEF GoodRoutes
<1>2. Len(routes) \in S
  BY DEF GoodRoutes, Contiguous, BelowEnd
<1>3. PICK n \in S : \A m \in S : n <= m
  BY <1>1, <1>2, LeastElement
<1>4. \A j \in 1..(n - 1) : ~BelowEnd(routes[j], key)
  BY <1>1, <1>3 DEF GoodRoutes
<1> QED
  BY <1>3, <1>4 DEF ShardOf

\* Boundaries grow along the shards.
LEMMA EndsGrow ==
  ASSUME NEW routes, GoodRoutes(routes),
         NEW i \in 1..Len(routes), NEW j \in 1..Len(routes), i < j
  PROVE  routes[i].end <= routes[j].start
<1> DEFINE S == {m \in 1..Len(routes) : i < m /\ ~(routes[i].end <= routes[m].start)}
<1>1. S = {}
  <2>1. SUFFICES ASSUME S # {} PROVE FALSE
    OBVIOUS
  <2>2. S \in SUBSET Nat
    BY DEF GoodRoutes
  <2>3. PICK n \in S : \A m \in S : n <= m
    BY <2>1, <2>2, LeastElement
  <2>4. /\ n \in 1..Len(routes) /\ n - 1 \in 1..Len(routes) /\ n - 1 < Len(routes)
        /\ routes[n].start = routes[n - 1].end
        /\ routes[n - 1].start < routes[n - 1].end
    BY <2>3 DEF GoodRoutes, Contiguous
  <2>5. CASE n - 1 = i
    BY <2>3, <2>4, <2>5 DEF GoodRoutes
  <2>6. CASE n - 1 # i
    <3>1. n - 1 \notin S
      BY <2>2, <2>3
    <3>2. routes[i].end <= routes[n - 1].start
      BY <3>1, <2>3, <2>4, <2>6 DEF GoodRoutes
    <3> QED
      BY <3>2, <2>3, <2>4 DEF GoodRoutes
  <2> QED
    BY <2>5, <2>6
<1> QED
  BY <1>1

\* CoordinatedProxy.shard returns the one shard whose range holds the key.
THEOREM OneOwner ==
  ASSUME NEW routes, GoodRoutes(routes), NEW key \in Nat
  PROVE  \A i \in 1..Len(routes) : Owns(routes[i], key) <=> i = ShardOf(routes, key)
<1> DEFINE s == ShardOf(routes, key)
<1>1. /\ s \in 1..Len(routes) /\ BelowEnd(routes[s], key)
      /\ \A j \in 1..(s - 1) : ~BelowEnd(routes[j], key)
  BY ShardOfExists
<1> HIDE DEF s
<1>2. Owns(routes[s], key)
  <2>1. CASE s = 1
    <3>1. routes[s].start = 0
      BY <1>1, <2>1 DEF GoodRoutes, Contiguous, Empty
    <3> QED
      BY <1>1, <3>1 DEF Owns
  <2>2. CASE s # 1
    <3>1. s > 1 /\ s - 1 \in 1..Len(routes) /\ s - 1 \in 1..(s - 1)
      BY <1>1, <2>2 DEF GoodRoutes
    <3>2. routes[s - 1].end = routes[s].start
      BY <1>1, <3>1 DEF GoodRoutes, Contiguous
    <3>3. routes[s - 1].end <= key
      BY <1>1, <3>1 DEF BelowEnd, GoodRoutes
    <3> QED
      BY <1>1, <3>2, <3>3 DEF Owns
  <2> QED
    BY <2>1, <2>2
<1>3. ASSUME NEW i \in 1..Len(routes), Owns(routes[i], key) PROVE i = s
  <2>1. CASE i < s
    <3>1. i \in 1..(s - 1)
      BY <1>1, <2>1 DEF GoodRoutes
    <3> QED
      BY <1>1, <1>3, <3>1 DEF Owns
  <2>2. CASE s < i
    <3>1. routes[s].end <= routes[i].start
      BY <1>1, <2>2, EndsGrow
    <3>2. routes[s].end # Empty
      BY <1>1, <2>2 DEF GoodRoutes, Contiguous
    <3> QED
      BY <1>1, <1>3, <3>1, <3>2 DEF Owns, BelowEnd, GoodRoutes
  <2> QED
    BY <1>1, <2>1, <2>2 DEF GoodRoutes
<1> QED
  BY <1>2, <1>3, <1>1 DEF s

\* mutationShard accepts a delete exactly when every key it covers has the
\* owner of its first key.
THEOREM MutationAllowedIsExact ==
  ASSUME NEW routes, GoodRoutes(routes),
         NEW key \in Nat \ {0}, NEW end \in Nat
  PROVE  MutationAllowed(routes, key, end) <=>
           \A k \in Nat : InRange(k, key, end) =>
              Owns(routes[ShardOf(routes, key)], k)
<1> DEFINE s == ShardOf(routes, key)
           e == routes[s].end
<1>1. s \in 1..Len(routes) /\ e \in Nat /\ routes[s].start \in Nat
  BY ShardOfExists DEF GoodRoutes
<1>2. Owns(routes[s], key)
  BY <1>1, OneOwner
<1>3. routes[s].start <= key /\ (e = 0 \/ key < e)
  BY <1>2 DEF Owns, BelowEnd, Empty
<1>4. MutationAllowed(routes, key, end) <=> (end = 0 \/ e = 0 \/ (end # 1 /\ end <= e))
  BY DEF MutationAllowed, Empty, NoEnd
<1>5. \A k \in Nat : Owns(routes[s], k) <=> routes[s].start <= k /\ (e = 0 \/ k < e)
  BY DEF Owns, BelowEnd, Empty
<1>6. \A k \in Nat : InRange(k, key, end) <=>
        IF end = 0 THEN k = key ELSE k >= key /\ (end = 1 \/ k < end)
  BY DEF InRange, Empty, NoEnd
<1> HIDE DEF s, e
<1>7. ASSUME end = 0 \/ e = 0 \/ (end # 1 /\ end <= e),
             NEW k \in Nat, InRange(k, key, end)
      PROVE  Owns(routes[s], k)
  BY <1>1, <1>3, <1>5, <1>6, <1>7
<1>8. ASSUME ~(end = 0 \/ e = 0 \/ (end # 1 /\ end <= e))
      PROVE  InRange(e, key, end) /\ ~Owns(routes[s], e)
  BY <1>1, <1>3, <1>5, <1>6, <1>8
<1> QED
  BY <1>1, <1>4, <1>7, <1>8 DEF s
-----------------------------------------------------------------------------
(***************************************************************************)
(* What a validated configuration becomes.                                 *)
(***************************************************************************)
GoodConfig(shards) ==
  /\ Len(shards) \in Nat \ {0}
  /\ \A i \in 1..Len(shards) : StartOf(shards, i) \in Nat /\ EndOf(shards, i) \in Nat
  /\ ValidBoundaries(shards)

LEMMA LenOfFunction ==
  ASSUME NEW n \in Nat, NEW S, NEW f \in [1..n -> S]
  PROVE  f \in Seq(S) /\ Len(f) = n
  OBVIOUS

LEMMA ShardsOfConfig ==
  ASSUME NEW shards, Len(shards) \in Nat
  PROVE  /\ Len(CoordinatedShards(shards)) = Len(shards)
         /\ Len(LegacyShards(shards)) = Len(shards)
         /\ \A i \in 1..Len(shards) :
              /\ CoordinatedShards(shards)[i].start = StartOf(shards, i)
              /\ CoordinatedShards(shards)[i].end =
                   IF i = Len(shards) THEN Empty ELSE EndOf(shards, i)
              /\ LegacyShards(shards)[i].start = StartOf(shards, i)
              /\ LegacyShards(shards)[i].end =
                   IF i = Len(shards) THEN NoEnd ELSE EndOf(shards, i)
<1> DEFINE n == Len(shards)
           c == CoordinatedShards(shards)
           l == LegacyShards(shards)
<1>1. /\ DOMAIN c = 1..n /\ DOMAIN l = 1..n
      /\ \A i \in 1..n :
           /\ c[i].start = StartOf(shards, i)
           /\ c[i].end = IF i = n THEN Empty ELSE EndOf(shards, i)
           /\ l[i].start = StartOf(shards, i)
           /\ l[i].end = IF i = n THEN NoEnd ELSE EndOf(shards, i)
  BY DEF CoordinatedShards, LegacyShards
<1>2. c \in [1..n -> {c[i] : i \in 1..n}] /\ l \in [1..n -> {l[i] : i \in 1..n}]
  BY DEF CoordinatedShards, LegacyShards
<1> HIDE DEF c, l, n
<1>3. Len(c) = n /\ Len(l) = n
  BY <1>2, LenOfFunction DEF n
<1> QED
  BY <1>1, <1>3 DEF c, l, n

\* What Configurations.Validate accepts, NewCoordinatedProxy accepts.
THEOREM ValidConfigIsContiguous ==
  ASSUME NEW shards, GoodConfig(shards)
  PROVE  GoodRoutes(CoordinatedShards(shards))
<1> DEFINE n == Len(shards)
           c == CoordinatedShards(shards)
<1>1. /\ n \in Nat \ {0} /\ Len(c) = n
      /\ \A i \in 1..n : /\ c[i].start = StartOf(shards, i)
                         /\ c[i].end = IF i = n THEN Empty ELSE EndOf(shards, i)
  BY ShardsOfConfig DEF GoodConfig
<1>2. \A i \in 1..n : StartOf(shards, i) \in Nat /\ EndOf(shards, i) \in Nat
  BY DEF GoodConfig
<1>3. \A i \in 1..n : /\ i > 1 => StartOf(shards, i) = EndOf(shards, i - 1)
                      /\ i < n => /\ EndOf(shards, i) \notin {Empty, NoEnd}
                                  /\ StartOf(shards, i) < EndOf(shards, i)
  BY DEF GoodConfig, ValidBoundaries
<1>4. StartOf(shards, 1) = Empty
  BY DEF StartOf
<1> HIDE DEF n, c
<1>5. \A i \in 1..n : c[i].start \in Nat /\ c[i].end \in Nat
  BY <1>1, <1>2 DEF Empty
<1>6. Contiguous(c)
  <2> SUFFICES ASSUME NEW i \in 1..n
               PROVE  /\ i = 1 => c[i].start = Empty
                      /\ i > 1 => c[i - 1].end = c[i].start
                      /\ i < n => c[i].end # Empty /\ c[i].start < c[i].end
                      /\ i = n => c[i].end = Empty
    BY <1>1 DEF Contiguous
  <2>1. i > 1 => c[i - 1].end = c[i].start
    <3> SUFFICES ASSUME i > 1 PROVE c[i - 1].end = c[i].start
      OBVIOUS
    <3>1. i - 1 \in 1..n /\ i - 1 # n
      BY <1>1
    <3> QED
      BY <1>1, <1>3, <3>1
  <2> QED
    BY <1>1, <1>3, <1>4, <2>1
<1> QED
  BY <1>1, <1>5, <1>6 DEF GoodRoutes, c

\* ShardImpl.Contains holds exactly for the shards that own a key of the
\* request; keys up to any bound M of the boundaries are enough to tell.
THEOREM ContainsIsOverlap ==
  ASSUME NEW shards, GoodConfig(shards), NEW M \in Nat, NEW key \in 1..M, NEW end \in Nat,
         NEW i \in 1..Len(shards), StartOf(shards, i) <= M
  PROVE  ContainsRange(LegacyShards(shards)[i], key, end) <=>
           \E k \in 1..M : /\ k = key \/ InRange(k, key, end)
                           /\ Owns(CoordinatedShards(shards)[i], k)
<1> DEFINE n == Len(shards)
           s == StartOf(shards, i)
           e == EndOf(shards, i)
           last == i = n
<1>1. /\ n \in Nat /\ s \in Nat /\ e \in Nat /\ s <= M
      /\ ~last => e \notin {0, 1} /\ s < e
  BY DEF GoodConfig, ValidBoundaries, Empty, NoEnd
<1>2. ContainsRange(LegacyShards(shards)[i], key, end) <=>
        (last \/ key < e) /\ (key >= s \/ end = 1 \/ (end # 0 /\ end > s))
  BY <1>1, ShardsOfConfig DEF ContainsRange, Empty, NoEnd
<1>3. \A k \in Nat : Owns(CoordinatedShards(shards)[i], k) <=> s <= k /\ (last \/ k < e)
  BY <1>1, ShardsOfConfig DEF Owns, BelowEnd, Empty
<1>4. \A k \in Nat : InRange(k, key, end) <=>
        IF end = 0 THEN k = key ELSE k >= key /\ (end = 1 \/ k < end)
  BY DEF InRange, Empty, NoEnd
<1> HIDE DEF s, e, last, n
<1>5. ASSUME NEW k \in 1..M, k = key \/ InRange(k, key, end), s <= k, last \/ k < e
      PROVE  (last \/ key < e) /\ (key >= s \/ end = 1 \/ (end # 0 /\ end > s))
  BY <1>1, <1>4, <1>5
<1>6. ASSUME last \/ key < e, key >= s \/ end = 1 \/ (end # 0 /\ end > s)
      PROVE  \E k \in 1..M : (k = key \/ InRange(k, key, end)) /\ s <= k /\ (last \/ k < e)
  <2>1. CASE key >= s
    BY <1>1, <1>6, <2>1
  <2>2. CASE ~(key >= s)
    <3>1. s \in 1..M /\ InRange(s, key, end) /\ s <= s /\ (last \/ s < e)
      BY <1>1, <1>4, <1>6, <2>2
    <3> QED
      BY <3>1
  <2> QED
    BY <2>1, <2>2
<1>7. \A k \in 1..M : k \in Nat
  OBVIOUS
<1> QED
  BY <1>2, <1>3, <1>5, <1>6, <1>7

\* The early break of GetShardClis loses nothing: the shards that contain a
\* range are neighbours.
THEOREM GetShardClisIsComplete ==
  ASSUME NEW shards, GoodConfig(shards), NEW key \in Nat, NEW end \in Nat
  PROVE  GetShardClis(LegacyShards(shards), key, end)
           = {i \in 1..Len(shards) : ContainsRange(LegacyShards(shards)[i], key, end)}
<1> DEFINE n == Len(shards)
           l == LegacyShards(shards)
           c == CoordinatedShards(shards)
<1>1. /\ n \in Nat /\ Len(l) = n /\ Len(c) = n
      /\ \A i \in 1..n : /\ l[i].start \in Nat /\ l[i].end \in Nat
                         /\ c[i].start = l[i].start
                         /\ i = n => l[i].end = 1
                         /\ i # n => c[i].end = l[i].end /\ l[i].end # 1 /\ l[i].start < l[i].end
  BY ShardsOfConfig DEF GoodConfig, ValidBoundaries, Empty, NoEnd
<1>2. GoodRoutes(c)
  BY ValidConfigIsContiguous
<1> HIDE DEF n, l, c
<1>3. ASSUME NEW i \in 1..n, NEW j \in 1..n, i < j
      PROVE  l[i].start < l[j].start /\ l[i].end <= l[j].start /\ l[i].end # 1
  <2>1. c[i].end <= c[j].start
    BY <1>1, <1>2, <1>3, EndsGrow
  <2>2. i # n
    BY <1>1, <1>3
  <2> QED
    BY <1>1, <2>1, <2>2
<1>4. ASSUME NEW j \in 1..n, NEW m \in 1..n, NEW i \in 1..n, j <= m, m <= i,
             ContainsRange(l[j], key, end), ContainsRange(l[i], key, end)
      PROVE  ContainsRange(l[m], key, end)
  <2>1. l[m].end # 1 => key < l[m].end
    <3>1. CASE j = m
      BY <1>4, <3>1 DEF ContainsRange, NoEnd
    <3>2. CASE j < m
      <4>1. key < l[j].end /\ l[j].end <= l[m].start
        BY <1>3, <1>4, <3>2 DEF ContainsRange, NoEnd
      <4>2. l[m].end # 1 => l[m].start < l[m].end
        BY <1>1
      <4> QED
        BY <1>1, <4>1, <4>2
    <3> QED
      BY <1>1, <1>4, <3>1, <3>2
  <2>2. l[m].start <= l[i].start
    <3>1. CASE m = i
      BY <1>1, <3>1
    <3>2. CASE m < i
      <4>1. l[m].start < l[i].start
        BY <1>3, <3>2
      <4>2. l[m].start \in Nat /\ l[i].start \in Nat
        BY <1>1
      <4> QED
        BY <4>1, <4>2
    <3> QED
      BY <1>1, <1>4, <3>1, <3>2
  <2>3. key >= l[i].start \/ end = 1 \/ (end # 0 /\ end > l[i].start)
    BY <1>4 DEF ContainsRange, Empty, NoEnd
  <2> QED
    BY <1>1, <2>1, <2>2, <2>3 DEF ContainsRange, Empty, NoEnd
<1>5. ASSUME NEW i \in 1..n, ContainsRange(l[i], key, end),
             NEW j \in 1..(i - 1), ContainsRange(l[j], key, end), NEW m \in j..i
      PROVE  ContainsRange(l[m], key, end)
  <2>1. j \in 1..n /\ m \in 1..n /\ j <= m /\ m <= i
    BY <1>1
  <2> QED
    BY <1>4, <1>5, <2>1
<1>6. GetShardClis(l, key, end) = {i \in 1..n : ContainsRange(l[i], key, end)}
  BY <1>1, <1>5 DEF GetShardClis
<1> QED
  BY <1>6 DEF l, n
=============================================================================
