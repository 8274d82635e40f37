------------------------- MODULE StartupRelayProofs -------------------------
(***************************************************************************)
(* How a proxy starts and how it relays streams.  First Startup, for any   *)
(* number of replicas, any configurations and any keys; then Relay, for    *)
(* any requests and responses.                                             *)
(***************************************************************************)
EXTENDS Startup, Relay, RoutingProofs, FiniteSetTheorems

FingerprintOf(c) == CoordinatedShards(c.shards)

\* Each process runs with a configuration that was validated, and one that
\* bootstrapped found its own routes in the coordinator.
ReplicaOK(r) ==
  /\ phase[r] # "down" => conf[r] # Nil
  /\ conf[r] # Nil => conf[r] \in Configs /\ Validate(conf[r])
  /\ phase[r] = "bootstrap" => Mode(conf[r]) = "coordinated"
  /\ Ready(r) /\ Coordinated(r) => fingerprint = FingerprintOf(conf[r])

IInv == TypeOK /\ \A r \in Replicas : ReplicaOK(r)

LEMMA CoordinatedIsSharded ==
  ASSUME NEW c \in Configs, Validate(c), Mode(c) # "backend"
  PROVE  GoodConfig(c.shards)
<1>1. c.backend = Nil
  BY DEF Mode, Validate
<1>2. Len(c.shards) > 0 /\ ValidBoundaries(c.shards)
  BY <1>1 DEF Validate
<1>3. c.shards \in Seq(ShardConfig)
  BY ConfigsAssumption
<1>4. Len(c.shards) \in Nat \ {0}
  BY <1>2, <1>3
<1>5. \A i \in 1..Len(c.shards) : c.shards[i] \in ShardConfig
  BY <1>3
<1>6. \A i \in 1..Len(c.shards) : StartOf(c.shards, i) \in Nat /\ EndOf(c.shards, i) \in Nat
  <2> SUFFICES ASSUME NEW i \in 1..Len(c.shards)
               PROVE  StartOf(c.shards, i) \in Nat /\ EndOf(c.shards, i) \in Nat
    OBVIOUS
  <2> DEFINE s == c.shards[i]
  <2>1. s.start \in Nat /\ s.startBytes \in Nat /\ s.end \in Nat /\ s.endBytes \in Nat
    <3>1. s \in ShardConfig
      BY <1>5
    <3> HIDE DEF s
    <3>2. s.start \in Nat /\ s.startBytes \in Nat /\ s.end \in 0..MaxKey /\ s.endBytes \in 0..MaxKey
      BY <3>1 DEF ShardConfig
    <3> QED
      BY <3>2, ConfigsAssumption
  <2> QED
    BY <2>1 DEF StartOf, EndOf, Bound, Empty
<1> QED
  BY <1>2, <1>4, <1>6 DEF GoodConfig

\* The fingerprint of a coordinated configuration is not the absent one.
LEMMA FingerprintIsSet ==
  ASSUME NEW c \in Configs, Validate(c), Mode(c) # "backend"
  PROVE  FingerprintOf(c) # <<>>
<1>1. Len(c.shards) \in Nat \ {0}
  BY CoordinatedIsSharded DEF GoodConfig
<1>2. Len(FingerprintOf(c)) # 0
  BY <1>1, ShardsOfConfig DEF FingerprintOf
<1> QED
  BY <1>2

LEMMA InitOK == StartupInit => IInv
  BY DEF StartupInit, IInv, TypeOK, ReplicaOK, Ready

LEMMA ExitOK ==
  ASSUME IInv, NEW r \in Replicas, Exit(r)
  PROVE  /\ phase' \in [Replicas -> {"down", "loaded", "bootstrap", "built", "serving"}]
         /\ conf' \in [Replicas -> Configs \cup {Nil}]
         /\ \A q \in Replicas :
              IF q = r THEN phase'[q] = "down" /\ conf'[q] = Nil
              ELSE phase'[q] = phase[q] /\ conf'[q] = conf[q]
  BY DEF IInv, TypeOK, Exit, Goto

LEMMA NextOK == IInv /\ [StartupNext]_startupVars => IInv'
<1> SUFFICES ASSUME IInv, [StartupNext]_startupVars PROVE IInv'
  OBVIOUS
<1> DEFINE Prints == {FingerprintOf(c) : c \in Configs}
<1> USE DEF ReplicaOK, Ready, Coordinated
<1>1. /\ phase \in [Replicas -> {"down", "loaded", "bootstrap", "built", "serving"}]
      /\ conf \in [Replicas -> Configs \cup {Nil}]
      /\ fingerprint \in {<<>>} \cup Prints /\ late \subseteq Prints
      /\ \A r \in Replicas : ReplicaOK(r)
  BY DEF IInv, TypeOK, FingerprintOf
<1>2. ASSUME NEW r \in Replicas, NEW c \in Configs, LoadConfig(r, c) PROVE IInv'
  <2>1. TypeOK'
    BY <1>1, <1>2 DEF LoadConfig, Goto, TypeOK, FingerprintOf
  <2>2. \A q \in Replicas : ReplicaOK(q)'
    BY <1>1, <1>2, ConfigsAssumption DEF LoadConfig, Goto
  <2> QED
    BY <2>1, <2>2 DEF IInv
<1>3. ASSUME NEW r \in Replicas, BuildBackends(r) PROVE IInv'
  <2>1. TypeOK'
    BY <1>1, <1>3 DEF BuildBackends, Goto, Exit, TypeOK, FingerprintOf
  <2>2. \A q \in Replicas : ReplicaOK(q)'
    BY <1>1, <1>3 DEF BuildBackends, Goto, Exit
  <2> QED
    BY <2>1, <2>2 DEF IInv
<1>4. ASSUME NEW r \in Replicas, Bootstrap(r) PROVE IInv'
  <2>1. /\ conf[r] \in Configs /\ Routes(r) = FingerprintOf(conf[r]) /\ Routes(r) # <<>>
    BY <1>1, <1>4, FingerprintIsSet DEF Bootstrap, Routes, FingerprintOf
  <2>2. fingerprint' \in Prints /\ (fingerprint # <<>> => fingerprint' = fingerprint)
    BY <1>1, <1>4, <2>1 DEF Bootstrap, Initialized
  <2>3. TypeOK'
    BY <1>1, <1>4, <2>2 DEF Bootstrap, Goto, Exit, TypeOK, FingerprintOf
  <2>4. \A q \in Replicas : Ready(q) /\ Coordinated(q) => fingerprint' = FingerprintOf(conf[q])
    BY <1>1, <2>2, FingerprintIsSet
  <2>5. \A q \in Replicas : ReplicaOK(q)'
    BY <1>1, <1>4, <2>1, <2>4 DEF Bootstrap, Goto, Exit
  <2> QED
    BY <2>3, <2>5 DEF IInv
<1>5. ASSUME NEW r \in Replicas, BootstrapFails(r) PROVE IInv'
  <2>1. Routes(r) \in Prints
    BY <1>1, <1>5 DEF BootstrapFails, Routes, FingerprintOf
  <2>2. TypeOK'
    BY <1>1, <1>5, <2>1 DEF BootstrapFails, Goto, Exit, TypeOK, FingerprintOf
  <2>3. \A q \in Replicas : ReplicaOK(q)'
    BY <1>1, <1>5 DEF BootstrapFails, Goto, Exit
  <2> QED
    BY <2>2, <2>3 DEF IInv
<1>6. ASSUME NEW r \in Replicas, Serve(r) PROVE IInv'
  <2>1. TypeOK'
    BY <1>1, <1>6 DEF Serve, Goto, TypeOK, FingerprintOf
  <2>2. \A q \in Replicas : ReplicaOK(q)'
    BY <1>1, <1>6 DEF Serve, Goto
  <2> QED
    BY <2>1, <2>2 DEF IInv
<1>7. ASSUME NEW r \in Replicas, Crash(r) PROVE IInv'
  <2>1. TypeOK'
    BY <1>1, <1>7 DEF Crash, Exit, Goto, TypeOK, FingerprintOf
  <2>2. \A q \in Replicas : ReplicaOK(q)'
    BY <1>1, <1>7 DEF Crash, Exit, Goto
  <2> QED
    BY <2>1, <2>2 DEF IInv
<1>8. ASSUME NEW f \in late, LateBootstrap(f) PROVE IInv'
  <2>1. fingerprint' \in Prints /\ (fingerprint # <<>> => fingerprint' = fingerprint)
    BY <1>1, <1>8 DEF LateBootstrap, Initialized
  <2>2. TypeOK'
    BY <1>1, <1>8, <2>1 DEF LateBootstrap, TypeOK, FingerprintOf
  <2>3. \A q \in Replicas : Ready(q) /\ Coordinated(q) => fingerprint' = FingerprintOf(conf[q])
    BY <1>1, <2>1, FingerprintIsSet
  <2>4. \A q \in Replicas : ReplicaOK(q)'
    BY <1>1, <1>8, <2>3 DEF LateBootstrap
  <2> QED
    BY <2>2, <2>4 DEF IInv
<1>9. ASSUME NEW f \in late, LoseBootstrap(f) PROVE IInv'
  BY <1>1, <1>9 DEF LoseBootstrap, IInv, TypeOK, FingerprintOf
<1>10. CASE UNCHANGED startupVars
  BY <1>1, <1>10 DEF startupVars, IInv, TypeOK, FingerprintOf
<1> QED
  BY <1>2, <1>3, <1>4, <1>5, <1>6, <1>7, <1>8, <1>9, <1>10 DEF StartupNext

LEMMA InvariantHolds == StartupSpec => []IInv
  BY InitOK, NextOK, PTL DEF StartupSpec
-----------------------------------------------------------------------------
(***************************************************************************)
(* Theorems.                                                               *)
(***************************************************************************)
\* The values of main and of coordinatedConfigKey stay within their types; the
\* fingerprint is always the routes of some configuration.
THEOREM TypesHold == StartupSpec => []TypeOK
<1>1. IInv => TypeOK
  BY DEF IInv
<1> QED
  BY <1>1, InvariantHolds, PTL

\* NewCoordinatedProxy compares the fingerprint after the coordinator decided
\* which one is stored: replicas that serve coordinated mode route alike.
THEOREM RoutingIsAgreed == StartupSpec => []AgreedRouting
<1>1. IInv => AgreedRouting
  BY DEF IInv, ReplicaOK, AgreedRouting, Routes, FingerprintOf
<1> QED
  BY <1>1, InvariantHolds, PTL

\* The version comparison in the Txn of NewCoordinatedProxy: the fingerprint is
\* written once.
THEOREM FingerprintIsAlwaysFinal == StartupSpec => FingerprintIsFinal
<1>1. [StartupNext]_startupVars => (fingerprint # <<>> => fingerprint' = fingerprint)
  BY DEF StartupNext, startupVars, LoadConfig, BuildBackends, Bootstrap, BootstrapFails, Serve,
         Crash, LateBootstrap, LoseBootstrap, Initialized
<1> QED
  BY <1>1, PTL DEF StartupSpec, FingerprintIsFinal

\* The configuration a process runs with was validated.
LEMMA RunsValidConfig ==
  ASSUME IInv, NEW r \in Replicas, Sharded(r)
  PROVE  /\ GoodConfig(conf[r].shards) /\ GoodRoutes(Routes(r))
         /\ conf[r].shards \in Seq(ShardConfig)
         /\ Len(Routes(r)) = Len(conf[r].shards)
<1>1. conf[r] \in Configs /\ Validate(conf[r]) /\ Mode(conf[r]) # "backend"
  BY DEF IInv, ReplicaOK, Sharded
<1>2. GoodConfig(conf[r].shards)
  BY <1>1, CoordinatedIsSharded
<1>3. GoodRoutes(Routes(r))
  BY <1>2, ValidConfigIsContiguous DEF Routes
<1>4. Len(Routes(r)) = Len(conf[r].shards)
  BY <1>2, ShardsOfConfig DEF Routes, GoodConfig
<1> QED
  BY <1>1, <1>2, <1>3, <1>4, ConfigsAssumption

\* NewCoordinatedProxy never refuses the boundaries Validate accepted.
THEOREM BoundariesAreAccepted == StartupSpec => []ValidatedBoundariesAreAccepted
<1>1. IInv => ValidatedBoundariesAreAccepted
  BY RunsValidConfig DEF ValidatedBoundariesAreAccepted, Coordinated, Sharded, Mode, GoodRoutes
<1> QED
  BY <1>1, InvariantHolds, PTL

\* The boundaries are keys of 0..MaxKey.
LEMMA BoundariesAreKeys ==
  ASSUME IInv, NEW r \in Replicas, Sharded(r), NEW i \in 1..Len(conf[r].shards)
  PROVE  StartOf(conf[r].shards, i) <= MaxKey /\ EndOf(conf[r].shards, i) <= MaxKey
<1> DEFINE s == conf[r].shards
<1>1. GoodConfig(s) /\ s \in Seq(ShardConfig)
  BY RunsValidConfig
<1> HIDE DEF s
<1>2. \A j \in 1..Len(s) : EndOf(s, j) <= MaxKey
  <2> SUFFICES ASSUME NEW j \in 1..Len(s) PROVE EndOf(s, j) <= MaxKey
    OBVIOUS
  <2>1. s[j] \in ShardConfig
    BY <1>1
  <2>2. s[j].end \in 0..MaxKey /\ s[j].endBytes \in 0..MaxKey
    BY <2>1 DEF ShardConfig
  <2> QED
    BY <2>2, ConfigsAssumption DEF EndOf, Bound
<1>3. i \in 1..Len(s) /\ Len(s) \in Nat
  BY <1>1 DEF s, GoodConfig
<1>4. StartOf(s, i) <= MaxKey
  <2>1. CASE i = 1
    BY <2>1, ConfigsAssumption DEF StartOf, Empty
  <2>2. CASE i # 1
    <3>1. i - 1 \in 1..Len(s) /\ i > 1
      BY <1>3, <2>2
    <3>2. StartOf(s, i) = EndOf(s, i - 1)
      BY <1>1, <1>3, <3>1 DEF GoodConfig, ValidBoundaries
    <3> QED
      BY <1>2, <3>1, <3>2
  <2> QED
    BY <2>1, <2>2
<1> QED
  BY <1>2, <1>3, <1>4 DEF s

\* mutationShard refuses exactly the deletes that leave the shard.
THEOREM MutationsAlwaysStayInOneShard == StartupSpec => []MutationsStayInOneShard
<1>1. ASSUME IInv, NEW r \in Replicas, Sharded(r), NEW key \in 1..MaxKey, NEW end \in 0..MaxKey
      PROVE  MutationAllowed(Routes(r), key, end)
               <=> \A k \in 1..MaxKey : InRange(k, key, end) =>
                      Owns(Routes(r)[ShardOf(Routes(r), key)], k)
  <2> DEFINE c == Routes(r)
             s == ShardOf(c, key)
  <2>1. GoodRoutes(c) /\ key \in Nat \ {0} /\ end \in Nat
    BY <1>1, RunsValidConfig, ConfigsAssumption
  <2>2. MutationAllowed(c, key, end) <=> \A k \in Nat : InRange(k, key, end) => Owns(c[s], k)
    BY <2>1, MutationAllowedIsExact
  <2>3. s \in 1..Len(c) /\ Owns(c[s], key) /\ c[s].end \in Nat /\ c[s].start \in Nat
    BY <2>1, ShardOfExists, OneOwner DEF GoodRoutes
  <2>4. c[s].end <= MaxKey
    <3>1. /\ Len(c) = Len(conf[r].shards) /\ Len(conf[r].shards) \in Nat
          /\ c[s].end = Empty \/ c[s].end = EndOf(conf[r].shards, s)
      BY <1>1, <2>3, RunsValidConfig, ShardsOfConfig DEF Routes, GoodConfig
    <3> QED
      BY <1>1, <2>3, <3>1, BoundariesAreKeys, ConfigsAssumption DEF Empty
  <2> HIDE DEF c, s
  <2>5. ASSUME \A k \in 1..MaxKey : InRange(k, key, end) => Owns(c[s], k),
               NEW k \in Nat, InRange(k, key, end)
        PROVE  Owns(c[s], k)
    <3>1. k >= key
      BY <1>1, <2>5 DEF InRange
    <3>2. CASE k <= MaxKey
      BY <1>1, <2>5, <3>1, <3>2
    <3>3. CASE k > MaxKey
      <4>1. CASE c[s].end = 0
        BY <1>1, <2>3, <3>1, <4>1 DEF Owns, BelowEnd, Empty
      <4>2. CASE c[s].end # 0
        <5>1. c[s].end \in 1..MaxKey /\ key < c[s].end /\ c[s].end < k
          BY <2>3, <2>4, <3>3, <4>2, ConfigsAssumption DEF Owns, BelowEnd, Empty
        <5>2. InRange(c[s].end, key, end)
          BY <1>1, <2>5, <5>1 DEF InRange
        <5>3. ~Owns(c[s], c[s].end)
          BY <2>3, <4>2 DEF Owns, BelowEnd, Empty
        <5> QED
          BY <2>5, <5>1, <5>2, <5>3
      <4> QED
        BY <4>1, <4>2
    <3> QED
      BY <3>2, <3>3, ConfigsAssumption
  <2>6. \A k \in 1..MaxKey : k \in Nat
    OBVIOUS
  <2> QED
    BY <2>2, <2>5, <2>6 DEF c, s
<1>2. IInv => MutationsStayInOneShard
  BY <1>1 DEF MutationsStayInOneShard
<1> QED
  BY <1>2, InvariantHolds, PTL

\* Legacy fan-out asks every shard that owns a key of the request, and no other.
THEOREM RangesAlwaysReachTheirOwners == StartupSpec => []RangesReachTheirOwners
<1>1. ASSUME IInv, NEW r \in Replicas, Sharded(r), NEW key \in 1..MaxKey, NEW end \in 0..MaxKey
      PROVE  GetShardClis(LegacyShards(conf[r].shards), key, end)
               = {i \in 1..Len(Routes(r)) :
                    \E k \in 1..MaxKey : /\ k = key \/ InRange(k, key, end)
                                         /\ Owns(Routes(r)[i], k)}
  <2> DEFINE s == conf[r].shards
  <2>1. /\ GoodConfig(s) /\ Len(Routes(r)) = Len(s) /\ Routes(r) = CoordinatedShards(s)
        /\ MaxKey \in Nat /\ key \in Nat /\ end \in Nat
    BY <1>1, RunsValidConfig, ConfigsAssumption DEF Routes
  <2>2. \A i \in 1..Len(s) : StartOf(s, i) <= MaxKey
    BY <1>1, BoundariesAreKeys
  <2> HIDE DEF s
  <2>3. GetShardClis(LegacyShards(s), key, end)
          = {i \in 1..Len(s) : ContainsRange(LegacyShards(s)[i], key, end)}
    BY <2>1, GetShardClisIsComplete
  <2>4. \A i \in 1..Len(s) :
          ContainsRange(LegacyShards(s)[i], key, end) <=>
            \E k \in 1..MaxKey : /\ k = key \/ InRange(k, key, end)
                                 /\ Owns(CoordinatedShards(s)[i], k)
    BY <1>1, <2>1, <2>2, ContainsIsOverlap
  <2> QED
    BY <2>1, <2>3, <2>4 DEF s
<1>2. IInv => RangesReachTheirOwners
  BY <1>1 DEF RangesReachTheirOwners
<1> QED
  BY <1>2, InvariantHolds, PTL

\* Both modes find the one owner of a key.
THEOREM KeysAlwaysHaveOneOwner == StartupSpec => []KeysHaveOneOwner
<1>1. ASSUME IInv, NEW r \in Replicas, NEW k \in 1..MaxKey, Sharded(r)
      PROVE  LET owners == {i \in 1..Len(Routes(r)) : Owns(Routes(r)[i], k)}
             IN  /\ owners = {ShardOf(Routes(r), k)}
                 /\ owners = GetShardClis(LegacyShards(conf[r].shards), k, Empty)
  <2> DEFINE s == conf[r].shards
             c == Routes(r)
             owners == {i \in 1..Len(c) : Owns(c[i], k)}
  <2>1. /\ GoodRoutes(c) /\ GoodConfig(s) /\ Len(c) = Len(s) /\ c = CoordinatedShards(s)
        /\ MaxKey \in Nat /\ k \in Nat /\ Empty \in Nat
    BY <1>1, RunsValidConfig, ConfigsAssumption DEF Routes, Empty
  <2>2. \A i \in 1..Len(s) : StartOf(s, i) <= MaxKey
    BY <1>1, BoundariesAreKeys
  <2> HIDE DEF s, c
  <2>3. owners = {ShardOf(c, k)}
    BY <2>1, ShardOfExists, OneOwner
  <2>4. GetShardClis(LegacyShards(s), k, Empty)
          = {i \in 1..Len(s) : ContainsRange(LegacyShards(s)[i], k, Empty)}
    BY <2>1, GetShardClisIsComplete
  <2>5. \A i \in 1..Len(s) :
          ContainsRange(LegacyShards(s)[i], k, Empty) <=>
            \E j \in 1..MaxKey : (j = k \/ InRange(j, k, Empty)) /\ Owns(c[i], j)
    BY <2>1, <2>2, ContainsIsOverlap
  <2>6. \A j : InRange(j, k, Empty) <=> j = k
    BY DEF InRange
  <2>7. owners = GetShardClis(LegacyShards(s), k, Empty)
    BY <2>1, <2>4, <2>5, <2>6
  <2> QED
    BY <2>3, <2>7 DEF s, c
<1>2. IInv => KeysHaveOneOwner
  BY <1>1 DEF KeysHaveOneOwner
<1> QED
  BY <1>2, InvariantHolds, PTL
\* Validate: "shard TLS requires coordinated mode".  No replica that is ready ever
\* talks in plaintext to a shard whose configuration asks for TLS.
THEOREM TLSIsAlwaysHonoured == StartupSpec => []TLSIsHonoured
<1>1. IInv => TLSIsHonoured
  <2> SUFFICES ASSUME IInv, NEW r \in Replicas, Sharded(r),
                      NEW i \in 1..Len(conf[r].shards),
                      TLSIsEnabled(conf[r].shards[i].tls)
               PROVE  DialsSecurely(conf[r], i)
    BY DEF TLSIsHonoured
  <2>1. conf[r] # Nil /\ Validate(conf[r]) /\ Mode(conf[r]) # "backend"
    BY DEF IInv, ReplicaOK, Sharded
  <2>2. conf[r].coordinator # Nil
    <3>1. SUFFICES ASSUME conf[r].coordinator = Nil PROVE FALSE
      OBVIOUS
    <3>2. conf[r].backend = Nil
      BY <2>1, <3>1 DEF Mode
    <3>3. ValidShard(conf[r], conf[r].shards[i])
      BY <2>1, <3>2 DEF Validate
    <3> QED
      BY <3>1, <3>3 DEF ValidShard
  <2> QED
    BY <2>2 DEF DialsSecurely, Mode
<1> QED
  BY <1>1, InvariantHolds, PTL
-----------------------------------------------------------------------------
\* Append, Head and Tail, index by index.
LEMMA AppendFacts ==
  ASSUME NEW S, NEW s \in Seq(S), NEW x \in S
  PROVE  /\ Append(s, x) \in Seq(S) /\ Len(Append(s, x)) = Len(s) + 1
         /\ \A i \in 1..Len(s) : Append(s, x)[i] = s[i]
         /\ Append(s, x)[Len(s) + 1] = x
  OBVIOUS

LEMMA TailFacts ==
  ASSUME NEW S, NEW s \in Seq(S), s # <<>>
  PROVE  /\ Tail(s) \in Seq(S) /\ Len(s) \in Nat \ {0} /\ Len(Tail(s)) = Len(s) - 1
         /\ \A i \in 1..(Len(s) - 1) : Tail(s)[i] = s[i + 1]
         /\ Head(s) = s[1] /\ Head(s) \in S
  OBVIOUS

LEMMA OnlyElement ==
  ASSUME NEW S, NEW s \in Seq(S), s # <<>>, Len(s) <= 1
  PROVE  Len(s) = 1 /\ Head(s) = s[1]
<1>1. Len(s) \in Nat \ {0}
  BY TailFacts
<1>2. Len(s) = 1
  BY <1>1
<1>3. Head(s) = s[1]
  OBVIOUS
<1>4. QED  BY <1>2, <1>3

LEMMA EmptySequence ==
  ASSUME NEW S
  PROVE  <<>> \in Seq(S) /\ Len(<<>>) = 0
  OBVIOUS

LEMMA PrefixByIndex ==
  ASSUME NEW S, NEW s \in Seq(S), NEW t \in Seq(S), Len(s) <= Len(t),
         \A i \in 1..Len(s) : s[i] = t[i]
  PROVE  Prefix(s, t)
<1>1. /\ SubSeq(t, 1, Len(s)) \in Seq(S) /\ Len(SubSeq(t, 1, Len(s))) = Len(s)
      /\ \A i \in 1..Len(s) : SubSeq(t, 1, Len(s))[i] = t[i]
  OBVIOUS
<1>2. s = SubSeq(t, 1, Len(s))
  BY <1>1
<1>3. QED  BY <1>2 DEF Prefix

LEMMA SameByIndex ==
  ASSUME NEW S, NEW s \in Seq(S), NEW t \in Seq(S), Len(s) = Len(t),
         \A i \in 1..Len(s) : s[i] = t[i]
  PROVE  s = t
  OBVIOUS

\* An element of a sequence.
LEMMA ElementFact ==
  ASSUME NEW S, NEW s \in Seq(S), NEW i \in 1..Len(s)
  PROVE  s[i] \in S
  OBVIOUS
-----------------------------------------------------------------------------
(***************************************************************************)
(* One direction of the relay: of the messages p, those of d have passed,  *)
(* then comes x when n = 1, then those of o.                               *)
(***************************************************************************)
SoFar(d, p) == Len(d) <= Len(p) /\ \A i \in 1..Len(d) : d[i] = p[i]

OnTheWay(d, n, x, o, p) ==
  /\ Len(d) + n + Len(o) <= Len(p)
  /\ n = 1 => x = p[Len(d) + 1]
  /\ \A i \in 1..Len(o) : o[i] = p[Len(d) + n + i]

NoneMissing(d, n, o, p) == Len(d) + n + Len(o) = Len(p)

LEMMA MessageEnters ==
  ASSUME NEW S, NEW d \in Seq(S), NEW n \in {0, 1}, NEW x, NEW o \in Seq(S),
         NEW p \in Seq(S), NEW m \in S,
         SoFar(d, p), OnTheWay(d, n, x, o, p), NoneMissing(d, n, o, p)
  PROVE  /\ SoFar(d, Append(p, m))
         /\ OnTheWay(d, n, x, Append(o, m), Append(p, m))
         /\ NoneMissing(d, n, Append(o, m), Append(p, m))
<1>1. /\ Len(Append(p, m)) = Len(p) + 1 /\ Len(Append(o, m)) = Len(o) + 1
      /\ \A i \in 1..Len(p) : Append(p, m)[i] = p[i]
      /\ \A i \in 1..Len(o) : Append(o, m)[i] = o[i]
      /\ Append(p, m)[Len(p) + 1] = m /\ Append(o, m)[Len(o) + 1] = m
  BY AppendFacts
<1>2. Len(p) \in Nat /\ Len(o) \in Nat /\ Len(d) \in Nat
  OBVIOUS
<1>3. PICK P, O : P = Append(p, m) /\ O = Append(o, m)
  OBVIOUS
<1>4. SoFar(d, P) /\ OnTheWay(d, n, x, O, P) /\ NoneMissing(d, n, O, P)
  BY <1>1, <1>2, <1>3 DEF SoFar, OnTheWay, NoneMissing
<1>5. QED  BY <1>3, <1>4

LEMMA MessageTaken ==
  ASSUME NEW S, NEW d \in Seq(S), NEW x, NEW o \in Seq(S), NEW p \in Seq(S),
         o # <<>>, OnTheWay(d, 0, x, o, p)
  PROVE  /\ OnTheWay(d, 1, Head(o), Tail(o), p)
         /\ NoneMissing(d, 0, o, p) => NoneMissing(d, 1, Tail(o), p)
<1>1. /\ Len(o) \in Nat \ {0} /\ Len(Tail(o)) = Len(o) - 1
      /\ \A i \in 1..(Len(o) - 1) : Tail(o)[i] = o[i + 1]
      /\ Head(o) = o[1]
  BY TailFacts
<1>2. Len(p) \in Nat /\ Len(d) \in Nat
  OBVIOUS
<1>3. PICK O, h : O = Tail(o) /\ h = Head(o)
  OBVIOUS
<1>4. OnTheWay(d, 1, h, O, p) /\ (NoneMissing(d, 0, o, p) => NoneMissing(d, 1, O, p))
  BY <1>1, <1>2, <1>3 DEF OnTheWay, NoneMissing
<1>5. QED  BY <1>3, <1>4

LEMMA MessageLeaves ==
  ASSUME NEW S, NEW d \in Seq(S), NEW x \in S, NEW o \in Seq(S), NEW p \in Seq(S),
         SoFar(d, p), OnTheWay(d, 1, x, o, p)
  PROVE  /\ SoFar(Append(d, x), p)
         /\ OnTheWay(Append(d, x), 0, x, o, p)
         /\ NoneMissing(d, 1, o, p) => NoneMissing(Append(d, x), 0, o, p)
<1>1. /\ Len(Append(d, x)) = Len(d) + 1
      /\ \A i \in 1..Len(d) : Append(d, x)[i] = d[i]
      /\ Append(d, x)[Len(d) + 1] = x
  BY AppendFacts
<1>2. Len(p) \in Nat /\ Len(o) \in Nat /\ Len(d) \in Nat
  OBVIOUS
<1>3. PICK D : D = Append(d, x)
  OBVIOUS
<1>4. Len(D) = Len(d) + 1 /\ Len(d) + 1 <= Len(p)
  BY <1>1, <1>2, <1>3 DEF OnTheWay
<1>5. SoFar(D, p)
  <2>1. ASSUME NEW i \in 1..Len(D) PROVE D[i] = p[i]
    <3>1. CASE i = Len(d) + 1
      BY <1>1, <1>3, <3>1 DEF OnTheWay
    <3>2. CASE i \in 1..Len(d)
      BY <1>1, <1>3, <3>2 DEF SoFar
    <3>3. QED  BY <3>1, <3>2, <1>2, <1>4, <2>1
  <2>2. QED  BY <2>1, <1>4 DEF SoFar
<1>6. OnTheWay(D, 0, x, o, p) /\ (NoneMissing(d, 1, o, p) => NoneMissing(D, 0, o, p))
  BY <1>2, <1>4 DEF OnTheWay, NoneMissing
<1>7. QED  BY <1>3, <1>5, <1>6
-----------------------------------------------------------------------------
(***************************************************************************)
(* The inductive invariant.                                                *)
(***************************************************************************)
ControlTypes ==
  /\ client \in {"open", "halfclosed", "gone"}
  /\ sender \in {"unborn", "none", "recv", "send", "report", "cancel", "done"}
  /\ held \in Requests \cup {None} /\ failure \in {None, "canceled", "rejected"}
  /\ cancelled \in BOOLEAN /\ backClosed \in BOOLEAN
  /\ ended \in {"no", "ok", "error"}
  /\ handler \in {"open", "header", "recv", "send", "select", "done"}
  /\ response \in Responses \cup {None}
  /\ err \in {None, "ok", "error", "canceled"}
  /\ result \in {None, "ok", "error", "canceled", "rejected"}

SequenceTypes ==
  /\ asked \in Seq(Requests) /\ inbox \in Seq(Requests) /\ arrived \in Seq(Requests)
  /\ produced \in Seq(Responses) /\ outbox \in Seq(Responses)
  /\ delivered \in Seq(Responses)
  /\ sendError \in Seq({"canceled", "rejected"}) /\ Len(sendError) <= 1

InSend == IF handler = "send" THEN 1 ELSE 0
InHeld == IF sender = "send" THEN 1 ELSE 0

\* A response is delivered, held by the handler, or on its way, in this order;
\* none is missing unless the connection broke.
ResponsesInOrder ==
  /\ SoFar(delivered, produced)
  /\ handler \in {"open", "header", "recv", "send"} =>
       /\ OnTheWay(delivered, InSend, response, outbox, produced)
       /\ ended # "error" => NoneMissing(delivered, InSend, outbox, produced)

\* The same of requests, until the backend ends: after that they are dropped.
RequestsInOrder ==
  /\ SoFar(arrived, asked)
  /\ ended = "no" /\ sender \in {"unborn", "recv", "send"} =>
       /\ OnTheWay(arrived, InHeld, held, inbox, asked)
       /\ NoneMissing(arrived, InHeld, inbox, asked)

\* Whatever the sender holds or will receive is a request of the client.
Asked(r) == \E i \in 1..Len(asked) : asked[i] = r

RequestsAreAsked ==
  /\ sender = "send" => Asked(held)
  /\ \A i \in 1..Len(inbox) : Asked(inbox[i])
  /\ failure = "rejected" => \E i \in 1..Len(asked) : asked[i] \in Rejected

\* What is known of the sender's error: the sender does not cancel the call
\* before it has left its error for the handler.
SenderErrors ==
  /\ sender \in {"unborn", "none", "recv", "send"} => failure = None
  /\ sender \in {"report", "cancel"} => failure # None
  /\ sender = "report" => Len(sendError) = 0
  /\ sender = "cancel" /\ handler # "done" => Len(sendError) = 1
  /\ Len(sendError) = 1 => sendError[1] = failure /\ failure # None
  /\ failure = "canceled" /\ client # "gone" => handler = "done"
  /\ cancelled => \/ handler = "done"
                  \/ sender = "done" /\ failure # None /\ Len(sendError) = 1

\* What the handler is about to return, and has returned.
HandlerErrors ==
  /\ handler = "open" => ended = "no" /\ produced = <<>> /\ asked = <<>> /\ ~cancelled
  /\ handler = "open" <=> sender = "unborn"
  /\ handler = "select" =>
       /\ err # None
       /\ err \in {"ok", "error"} => err = ended
       /\ err = "ok" => delivered = produced
       /\ err = "canceled" /\ client # "gone" => Len(sendError) = 1
  /\ handler = "done" => cancelled \/ ended # "no"
  /\ handler # "done" => result = None

RelayInv ==
  /\ ControlTypes /\ SequenceTypes /\ ResponsesInOrder /\ RequestsInOrder /\ RequestsAreAsked
  /\ SenderErrors /\ HandlerErrors /\ OKIsComplete /\ ErrorsAreExplained
-----------------------------------------------------------------------------
LEMMA RelayInvInit == Init => RelayInv
<1>1. SUFFICES ASSUME Init PROVE RelayInv
  OBVIOUS
<1>2. ControlTypes
  BY <1>1 DEF Init, ControlTypes
<1>3. SequenceTypes
  BY <1>1 DEF Init, SequenceTypes
<1>4. ResponsesInOrder
  BY <1>1 DEF Init, ResponsesInOrder, InSend, SoFar, OnTheWay, NoneMissing
<1>5. RequestsInOrder /\ RequestsAreAsked
  BY <1>1, RelayAssumption
     DEF Init, RequestsInOrder, RequestsAreAsked, InHeld, SoFar, OnTheWay, NoneMissing
<1>6. SenderErrors
  BY <1>1, RelayAssumption DEF Init, SenderErrors
<1>7. HandlerErrors /\ OKIsComplete /\ ErrorsAreExplained
  BY <1>1, RelayAssumption DEF Init, HandlerErrors, OKIsComplete, ErrorsAreExplained
<1>8. QED  BY <1>2, <1>3, <1>4, <1>5, <1>6, <1>7 DEF RelayInv

\* The sender holds a request, and the handler a response, when it sends.
LEMMA InHand ==
  ASSUME RelayInv
  PROVE  /\ sender = "send" => held \in Requests
         /\ handler = "send" => response \in Responses
<1>1. SequenceTypes /\ RequestsAreAsked /\ ResponsesInOrder
  BY DEF RelayInv
<1>2. sender = "send" => held \in Requests
  BY <1>1 DEF SequenceTypes, RequestsAreAsked, Asked
<1>3. handler = "send" => response \in Responses
  BY <1>1 DEF SequenceTypes, ResponsesInOrder, InSend, OnTheWay
<1>4. QED  BY <1>2, <1>3

LEMMA ControlTypesStep ==
  ASSUME RelayInv, Next
  PROVE  ControlTypes'
<1>0. ControlTypes
  BY DEF RelayInv
<1>1. CASE \/ \E r \in Requests : ClientSend(r)
           \/ ClientHalfClose \/ ClientGoes
           \/ \E r \in Responses : BackendSends(r)
           \/ BackendEnds
  BY <1>0, <1>1
     DEF ControlTypes, ClientSend, ClientHalfClose, ClientGoes, BackendSends,
         BackendEnds, clientVars, senderVars, backVars, handlerVars
<1>2. CASE SenderRecv
  <2>1. inbox # <<>> => Head(inbox) \in Requests
    BY TailFacts DEF RelayInv, SequenceTypes
  <2>2. /\ sender' \in {"send", "done", "report"}
        /\ held' = held \/ (inbox # <<>> /\ held' = Head(inbox))
        /\ failure' = failure \/ failure' = "canceled"
        /\ UNCHANGED <<client, cancelled, ended, handler, response, err, result>>
    BY <1>2 DEF SenderRecv, clientVars, handlerVars
  <2>3. backClosed' \in BOOLEAN
    BY <1>0, <1>2 DEF ControlTypes, SenderRecv, CloseSend
  <2>4. QED
    BY <1>0, <2>1, <2>2, <2>3 DEF ControlTypes
<1>3. CASE SenderSend \/ Fail
  BY <1>0, <1>3 DEF ControlTypes, SenderSend, AfterSend, AfterEOF, Fail, Cancel,
                    clientVars, backVars, handlerVars
<1>4. CASE Open \/ Header \/ HandlerRecvEnds \/ HandlerSend
  BY <1>0, <1>4 DEF ControlTypes, Open, Header, HandlerRecvEnds, HandlerSend, Stop,
                    Status, clientVars, senderVars, backVars
<1>5. CASE HandlerTakes
  <2>1. outbox # <<>> => Head(outbox) \in Responses
    BY TailFacts DEF RelayInv, SequenceTypes
  <2>2. QED
    BY <1>0, <1>5, <2>1 DEF ControlTypes, HandlerTakes, clientVars, senderVars, backVars
<1>6. CASE Select
  <2>1. sendError # <<>> => Head(sendError) \in {"canceled", "rejected"}
    BY TailFacts DEF RelayInv, SequenceTypes
  <2>2. QED
    BY <1>0, <1>6, <2>1 DEF ControlTypes, Select, clientVars, senderVars, backVars
<1>7. QED
  BY <1>1, <1>2, <1>3, <1>4, <1>5, <1>6 DEF Next, SenderStep, HandlerStep

LEMMA SequenceTypesStep ==
  ASSUME RelayInv, Next
  PROVE  SequenceTypes'
<1>0. SequenceTypes
  BY DEF RelayInv
<1>1. ASSUME NEW r \in Requests, ClientSend(r) PROVE SequenceTypes'
  BY <1>0, <1>1, AppendFacts DEF SequenceTypes, ClientSend, backVars, handlerVars
<1>2. ASSUME NEW r \in Responses, BackendSends(r) PROVE SequenceTypes'
  BY <1>0, <1>2, AppendFacts DEF SequenceTypes, BackendSends, clientVars, handlerVars
<1>3. ASSUME UNCHANGED <<asked, inbox, arrived, produced, outbox, delivered, sendError>>
      PROVE  SequenceTypes'
  BY <1>0, <1>3 DEF SequenceTypes
<1>4. CASE BackendEnds
  <2>1. outbox' = outbox \/ outbox' = <<>>
    BY <1>4 DEF BackendEnds
  <2>2. outbox' \in Seq(Responses)
    BY <1>0, <2>1, EmptySequence DEF SequenceTypes
  <2>3. QED
    BY <1>0, <1>4, <2>2 DEF SequenceTypes, BackendEnds, clientVars, handlerVars
<1>5. CASE SenderRecv
  <2>1. inbox' = inbox \/ (inbox # <<>> /\ inbox' = Tail(inbox))
    BY <1>5 DEF SenderRecv
  <2>2. inbox' \in Seq(Requests)
    BY <1>0, <2>1, TailFacts DEF SequenceTypes
  <2>3. QED
    BY <1>0, <1>5, <2>2 DEF SequenceTypes, SenderRecv, clientVars, handlerVars
<1>6. CASE SenderSend
  <2>1. arrived' = arrived \/ arrived' = Append(arrived, held)
    BY <1>6 DEF SenderSend
  <2>2. arrived' \in Seq(Requests)
    <3>1. held \in Requests
      BY <1>6, InHand DEF SenderSend
    <3>2. Append(arrived, held) \in Seq(Requests)
      BY <1>0, <3>1, AppendFacts DEF SequenceTypes
    <3>3. QED
      BY <1>0, <2>1, <3>2 DEF SequenceTypes
  <2>3. QED
    BY <1>0, <1>6, <2>2 DEF SequenceTypes, SenderSend, clientVars, handlerVars
<1>7. CASE Fail
  <2>1. sender = "report" => failure \in {"canceled", "rejected"}
    BY DEF RelayInv, ControlTypes, SenderErrors
  <2>2. sendError' \in Seq({"canceled", "rejected"}) /\ Len(sendError') <= 1
    BY <1>0, <1>7, <2>1, AppendFacts DEF SequenceTypes, Fail, RoomInSendError
  <2>3. QED
    BY <1>0, <1>7, <2>2 DEF SequenceTypes, Fail, clientVars, backVars, handlerVars
<1>8. CASE HandlerTakes
  BY <1>0, <1>8, TailFacts DEF SequenceTypes, HandlerTakes, clientVars, backVars
<1>9. CASE HandlerSend
  <2>1. delivered' = delivered \/ delivered' = Append(delivered, response)
    BY <1>9 DEF HandlerSend, Stop
  <2>2. delivered' \in Seq(Responses)
    <3>1. response \in Responses
      BY <1>9, InHand DEF HandlerSend
    <3>2. Append(delivered, response) \in Seq(Responses)
      BY <1>0, <3>1, AppendFacts DEF SequenceTypes
    <3>3. QED
      BY <1>0, <2>1, <3>2 DEF SequenceTypes
  <2>3. QED
    BY <1>0, <1>9, <2>2 DEF SequenceTypes, HandlerSend, clientVars, backVars
<1>10. CASE Select
  BY <1>0, <1>10, EmptySequence DEF SequenceTypes, Select, clientVars, backVars
<1>11. CASE ClientHalfClose \/ ClientGoes \/ Open \/ Header \/ HandlerRecvEnds
  BY <1>3, <1>11 DEF ClientHalfClose, ClientGoes, Open, Header, HandlerRecvEnds, Stop,
                     clientVars, backVars, handlerVars
<1>12. QED
  BY <1>1, <1>2, <1>4, <1>5, <1>6, <1>7, <1>8, <1>9, <1>10, <1>11
     DEF Next, SenderStep, HandlerStep

LEMMA ResponsesStep ==
  ASSUME RelayInv, Next
  PROVE  ResponsesInOrder'
<1>0. SequenceTypes /\ ResponsesInOrder /\ HandlerErrors
  BY DEF RelayInv
<1>1. ASSUME UNCHANGED <<delivered, produced, outbox, handler, response, ended>>
      PROVE  ResponsesInOrder'
  BY <1>0, <1>1 DEF ResponsesInOrder, InSend
<1>2. ASSUME NEW r \in Responses, BackendSends(r) PROVE ResponsesInOrder'
  <2>1. /\ produced' = Append(produced, r) /\ outbox' = Append(outbox, r)
        /\ ended = "no" /\ UNCHANGED <<delivered, handler, response, ended>>
    BY <1>2 DEF BackendSends, handlerVars
  <2>2. CASE handler \in {"open", "header", "recv", "send"}
    <3>1. /\ SoFar(delivered, produced)
          /\ OnTheWay(delivered, InSend, response, outbox, produced)
          /\ NoneMissing(delivered, InSend, outbox, produced)
      BY <1>0, <2>1, <2>2 DEF ResponsesInOrder
    <3>2. InSend \in {0, 1} /\ InSend' = InSend
      BY <2>1 DEF InSend
    <3>3. /\ SoFar(delivered, Append(produced, r))
          /\ OnTheWay(delivered, InSend, response, Append(outbox, r), Append(produced, r))
          /\ NoneMissing(delivered, InSend, Append(outbox, r), Append(produced, r))
      BY <1>0, <3>1, <3>2, MessageEnters DEF SequenceTypes
    <3>4. QED
      BY <2>1, <3>2, <3>3 DEF ResponsesInOrder
  <2>3. CASE handler \notin {"open", "header", "recv", "send"}
    <3>1. SoFar(delivered, produced)
      BY <1>0 DEF ResponsesInOrder
    <3>2. /\ Len(Append(produced, r)) = Len(produced) + 1
          /\ \A i \in 1..Len(produced) : Append(produced, r)[i] = produced[i]
      BY <1>0, <1>2, AppendFacts DEF SequenceTypes
    <3>3. SoFar(delivered, Append(produced, r))
      BY <1>0, <3>1, <3>2 DEF SoFar, SequenceTypes
    <3>4. QED
      BY <2>1, <2>3, <3>3 DEF ResponsesInOrder
  <2>4. QED  BY <2>2, <2>3
<1>3. CASE BackendEnds
  <2>1. /\ UNCHANGED <<delivered, produced, handler, response>> /\ InSend' = InSend
        /\ ended = "no"
        /\ outbox' = outbox \/ (outbox' = <<>> /\ ended' = "error")
    BY <1>3 DEF BackendEnds, handlerVars, InSend
  <2>2. CASE outbox' = outbox
    BY <1>0, <2>1, <2>2 DEF ResponsesInOrder
  <2>3. CASE outbox' = <<>> /\ ended' = "error"
    <3>1. OnTheWay(delivered, InSend, response, outbox, produced) =>
            OnTheWay(delivered, InSend, response, <<>>, produced)
      BY <1>0, EmptySequence DEF OnTheWay, InSend, SequenceTypes
    <3>2. QED
      BY <1>0, <2>1, <2>3, <3>1 DEF ResponsesInOrder
  <2>4. QED  BY <2>1, <2>2, <2>3
<1>4. CASE Open \/ Header \/ HandlerRecvEnds \/ Select
  <2>1. /\ UNCHANGED <<delivered, produced, outbox, response>>
        /\ handler # "send" /\ handler' # "send"
        /\ \/ handler' \notin {"open", "header", "recv", "send"}
           \/ handler \in {"open", "header", "recv"} /\ UNCHANGED ended
    BY <1>4 DEF Open, Header, HandlerRecvEnds, Select, Stop, backVars
  <2>2. QED
    BY <1>0, <2>1 DEF ResponsesInOrder, InSend
<1>5. CASE HandlerTakes
  <2>1. /\ UNCHANGED <<delivered, produced, ended>> /\ outbox # <<>>
        /\ handler = "recv" /\ handler' = "send" /\ InSend = 0 /\ InSend' = 1
        /\ response' = Head(outbox) /\ outbox' = Tail(outbox)
    BY <1>5 DEF HandlerTakes, backVars, InSend
  <2>2. OnTheWay(delivered, 0, response, outbox, produced)
    BY <1>0, <2>1 DEF ResponsesInOrder
  <2>3. /\ OnTheWay(delivered, 1, Head(outbox), Tail(outbox), produced)
        /\ NoneMissing(delivered, 0, outbox, produced) =>
              NoneMissing(delivered, 1, Tail(outbox), produced)
    BY <1>0, <2>1, <2>2, MessageTaken DEF SequenceTypes
  <2>4. QED
    BY <1>0, <2>1, <2>3 DEF ResponsesInOrder
<1>6. CASE HandlerSend
  <2>1. CASE handler' = "select"
    BY <1>0, <1>6, <2>1 DEF ResponsesInOrder, HandlerSend, Stop, backVars
  <2>2. CASE handler' # "select"
    <3>1. /\ UNCHANGED <<produced, outbox, response, ended>>
          /\ handler = "send" /\ handler' = "recv" /\ InSend = 1 /\ InSend' = 0
          /\ delivered' = Append(delivered, response)
      BY <1>6, <2>2 DEF HandlerSend, Stop, backVars, InSend
    <3>2. response \in Responses
      BY <3>1, InHand
    <3>3. /\ SoFar(delivered, produced)
          /\ OnTheWay(delivered, 1, response, outbox, produced)
      BY <1>0, <3>1 DEF ResponsesInOrder
    <3>4. /\ SoFar(Append(delivered, response), produced)
          /\ OnTheWay(Append(delivered, response), 0, response, outbox, produced)
          /\ NoneMissing(delivered, 1, outbox, produced) =>
                NoneMissing(Append(delivered, response), 0, outbox, produced)
      BY <1>0, <3>2, <3>3, MessageLeaves DEF SequenceTypes
    <3>5. QED
      BY <1>0, <3>1, <3>4 DEF ResponsesInOrder
  <2>3. QED  BY <2>1, <2>2
<1>7. QED
  BY <1>1, <1>2, <1>3, <1>4, <1>5, <1>6
     DEF Next, SenderStep, HandlerStep, ClientSend, ClientHalfClose, ClientGoes,
         SenderRecv, SenderSend, Fail, backVars, handlerVars

LEMMA RequestsStep ==
  ASSUME RelayInv, Next
  PROVE  RequestsInOrder'
<1>0. SequenceTypes /\ RequestsInOrder /\ HandlerErrors
  BY DEF RelayInv
<1>1. ASSUME UNCHANGED <<arrived, asked, inbox, held, sender, ended>>
      PROVE  RequestsInOrder'
  BY <1>0, <1>1 DEF RequestsInOrder, InHeld
<1>2. ASSUME NEW r \in Requests, ClientSend(r) PROVE RequestsInOrder'
  <2>1. /\ asked' = Append(asked, r) /\ inbox' = Append(inbox, r)
        /\ UNCHANGED <<arrived, held, sender, ended>>
    BY <1>2 DEF ClientSend, senderVars, backVars
  <2>2. CASE ended = "no" /\ sender \in {"unborn", "recv", "send"}
    <3>1. /\ SoFar(arrived, asked)
          /\ OnTheWay(arrived, InHeld, held, inbox, asked)
          /\ NoneMissing(arrived, InHeld, inbox, asked)
      BY <1>0, <2>2 DEF RequestsInOrder
    <3>2. InHeld \in {0, 1} /\ InHeld' = InHeld
      BY <2>1 DEF InHeld
    <3>3. /\ SoFar(arrived, Append(asked, r))
          /\ OnTheWay(arrived, InHeld, held, Append(inbox, r), Append(asked, r))
          /\ NoneMissing(arrived, InHeld, Append(inbox, r), Append(asked, r))
      BY <1>0, <3>1, <3>2, MessageEnters DEF SequenceTypes
    <3>4. QED
      BY <2>1, <3>2, <3>3 DEF RequestsInOrder
  <2>3. CASE ~(ended = "no" /\ sender \in {"unborn", "recv", "send"})
    <3>1. SoFar(arrived, asked)
      BY <1>0 DEF RequestsInOrder
    <3>2. /\ Len(Append(asked, r)) = Len(asked) + 1
          /\ \A i \in 1..Len(asked) : Append(asked, r)[i] = asked[i]
      BY <1>0, <1>2, AppendFacts DEF SequenceTypes
    <3>3. SoFar(arrived, Append(asked, r))
      BY <1>0, <3>1, <3>2 DEF SoFar, SequenceTypes
    <3>4. QED
      BY <2>1, <2>3, <3>3 DEF RequestsInOrder
  <2>4. QED  BY <2>2, <2>3
<1>3. CASE BackendEnds
  <2>1. UNCHANGED <<arrived, asked>> /\ ended' # "no"
    BY <1>3 DEF BackendEnds, clientVars
  <2>2. QED
    BY <1>0, <2>1 DEF RequestsInOrder
<1>4. CASE SenderRecv
  <2>1. CASE sender' # "send"
    <3>1. UNCHANGED <<arrived, asked>> /\ sender' \notin {"unborn", "recv", "send"}
      BY <1>4, <2>1 DEF SenderRecv, clientVars
    <3>2. QED
      BY <1>0, <3>1 DEF RequestsInOrder
  <2>2. CASE sender' = "send"
    <3>1. /\ UNCHANGED <<arrived, asked, ended>> /\ inbox # <<>>
          /\ sender = "recv" /\ InHeld = 0 /\ InHeld' = 1
          /\ held' = Head(inbox) /\ inbox' = Tail(inbox)
      BY <1>4, <2>2 DEF SenderRecv, clientVars, InHeld
    <3>2. CASE ended = "no"
      <4>1. /\ OnTheWay(arrived, 0, held, inbox, asked)
            /\ NoneMissing(arrived, 0, inbox, asked)
        BY <1>0, <3>1, <3>2 DEF RequestsInOrder
      <4>2. /\ OnTheWay(arrived, 1, Head(inbox), Tail(inbox), asked)
            /\ NoneMissing(arrived, 1, Tail(inbox), asked)
        BY <1>0, <3>1, <4>1, MessageTaken DEF SequenceTypes
      <4>3. QED
        BY <1>0, <3>1, <4>2 DEF RequestsInOrder
    <3>3. CASE ended # "no"
      BY <1>0, <3>1, <3>3 DEF RequestsInOrder
    <3>4. QED  BY <3>2, <3>3
  <2>3. QED  BY <2>1, <2>2
<1>5. CASE SenderSend
  <2>0. sender = "send" /\ InHeld = 1 /\ UNCHANGED <<asked, inbox, held, ended>>
    BY <1>5 DEF SenderSend, clientVars, InHeld
  <2>1. CASE sender' = "recv" /\ ended = "no"
    <3>1. InHeld' = 0 /\ arrived' = Append(arrived, held)
      BY <1>5, <2>1 DEF SenderSend, AfterEOF, InHeld
    <3>2. held \in Requests
      BY <2>0, InHand
    <3>3. /\ SoFar(arrived, asked)
          /\ OnTheWay(arrived, 1, held, inbox, asked)
          /\ NoneMissing(arrived, 1, inbox, asked)
      BY <1>0, <2>0, <2>1 DEF RequestsInOrder
    <3>4. /\ SoFar(Append(arrived, held), asked)
          /\ OnTheWay(Append(arrived, held), 0, held, inbox, asked)
          /\ NoneMissing(Append(arrived, held), 0, inbox, asked)
      BY <1>0, <3>2, <3>3, MessageLeaves DEF SequenceTypes
    <3>5. QED
      BY <2>0, <3>1, <3>4 DEF RequestsInOrder
  <2>2. CASE ~(sender' = "recv" /\ ended = "no")
    <3>1. arrived' = arrived /\ (ended # "no" \/ sender' \in {"done", "report"})
      BY <1>5, <2>2 DEF SenderSend, AfterSend, AfterEOF
    <3>2. QED
      BY <1>0, <2>0, <3>1 DEF RequestsInOrder
  <2>3. QED  BY <2>1, <2>2
<1>6. CASE Fail
  <2>1. UNCHANGED <<arrived, asked>> /\ sender' \in {"cancel", "done"}
    BY <1>6 DEF Fail, clientVars, backVars
  <2>2. QED
    BY <1>0, <2>1 DEF RequestsInOrder
<1>7. CASE Open
  <2>1. /\ UNCHANGED <<arrived, asked, inbox, held>> /\ sender = "unborn"
        /\ sender' = "none" \/ (sender' = "recv" /\ ended' = ended)
    BY <1>0, <1>7 DEF Open, clientVars, HandlerErrors
  <2>2. QED
    BY <1>0, <2>1 DEF RequestsInOrder, InHeld
<1>8. QED
  BY <1>1, <1>2, <1>3, <1>4, <1>5, <1>6, <1>7
     DEF Next, SenderStep, HandlerStep, ClientHalfClose, ClientGoes, BackendSends,
         Header, HandlerTakes, HandlerRecvEnds, HandlerSend, Select, clientVars,
         senderVars, backVars

LEMMA AskedStep ==
  ASSUME RelayInv, Next
  PROVE  RequestsAreAsked'
<1>0. SequenceTypes /\ RequestsAreAsked
  BY DEF RelayInv
<1>1. ASSUME UNCHANGED <<asked, inbox, held, failure>>, sender' = sender \/ sender' # "send"
      PROVE  RequestsAreAsked'
  BY <1>0, <1>1 DEF RequestsAreAsked, Asked
<1>2. ASSUME NEW r \in Requests, ClientSend(r) PROVE RequestsAreAsked'
  <2>1. /\ asked' = Append(asked, r) /\ inbox' = Append(inbox, r)
        /\ UNCHANGED <<held, sender, failure>>
    BY <1>2 DEF ClientSend, senderVars
  <2>2. /\ Len(asked) \in Nat /\ Len(inbox) \in Nat
        /\ Len(asked') = Len(asked) + 1 /\ Len(inbox') = Len(inbox) + 1
        /\ \A i \in 1..Len(asked) : asked'[i] = asked[i]
        /\ \A i \in 1..Len(inbox) : inbox'[i] = inbox[i]
        /\ asked'[Len(asked) + 1] = r /\ inbox'[Len(inbox) + 1] = r
    <3>1. asked \in Seq(Requests) /\ inbox \in Seq(Requests)
      BY <1>0, Zenon DEF SequenceTypes
    <3>2. Len(asked) \in Nat /\ Len(inbox) \in Nat
      BY <3>1
    <3>3. /\ Len(asked') = Len(asked) + 1 /\ \A i \in 1..Len(asked) : asked'[i] = asked[i]
          /\ asked'[Len(asked) + 1] = r
      BY <3>1, <1>2, <2>1, AppendFacts
    <3>4. /\ Len(inbox') = Len(inbox) + 1 /\ \A i \in 1..Len(inbox) : inbox'[i] = inbox[i]
          /\ inbox'[Len(inbox) + 1] = r
      BY <3>1, <1>2, <2>1, AppendFacts
    <3>5. QED  BY <3>2, <3>3, <3>4, Zenon
  <2>3. 1..Len(asked) \subseteq 1..Len(asked') /\ Len(asked') \in 1..Len(asked')
    BY <2>2
  <2>4. \A x : Asked(x) => \E j \in 1..Len(asked') : asked'[j] = x
    BY <2>2, <2>3 DEF Asked
  <2>5. \A i \in 1..Len(inbox') : \E j \in 1..Len(asked') : asked'[j] = inbox'[i]
    <3>1. ASSUME NEW i \in 1..Len(inbox) PROVE \E j \in 1..Len(asked') : asked'[j] = inbox'[i]
      BY <1>0, <2>2, <2>4 DEF RequestsAreAsked
    <3>2. \E j \in 1..Len(asked') : asked'[j] = inbox'[Len(inbox) + 1]
      BY <2>2, <2>3
    <3>3. QED  BY <3>1, <3>2, <2>2
  <2>6. failure' = "rejected" => \E i \in 1..Len(asked') : asked'[i] \in Rejected
    BY <1>0, <2>1, <2>2, <2>3 DEF RequestsAreAsked
  <2>7. QED
    BY <1>0, <2>1, <2>4, <2>5, <2>6 DEF RequestsAreAsked, Asked
<1>3. CASE SenderRecv
  <2>1. CASE sender' # "send"
    <3>1. /\ UNCHANGED <<asked, inbox, held>>
          /\ failure' = failure \/ failure' = "canceled"
      BY <1>3, <2>1 DEF SenderRecv, clientVars
    <3>2. QED
      BY <1>0, <2>1, <3>1 DEF RequestsAreAsked, Asked
  <2>2. CASE sender' = "send"
    <3>1. /\ UNCHANGED <<asked, failure>> /\ inbox # <<>>
          /\ held' = Head(inbox) /\ inbox' = Tail(inbox)
      BY <1>3, <2>2 DEF SenderRecv, clientVars
    <3>2. /\ Len(inbox) \in Nat \ {0} /\ Len(inbox') = Len(inbox) - 1
          /\ \A i \in 1..(Len(inbox) - 1) : inbox'[i] = inbox[i + 1]
          /\ held' = inbox[1]
      BY <1>0, <3>1, TailFacts DEF SequenceTypes
    <3>3. QED
      BY <1>0, <3>1, <3>2 DEF RequestsAreAsked, Asked
  <2>3. QED  BY <2>1, <2>2
<1>4. CASE SenderSend
  <2>1. /\ UNCHANGED <<asked, inbox, held>> /\ sender = "send"
        /\ \/ failure' = failure \/ failure' = "canceled"
           \/ failure' = "rejected" /\ held \in Rejected
        /\ sender' # "send"
    BY <1>4 DEF SenderSend, AfterSend, AfterEOF, clientVars
  <2>2. PICK i \in 1..Len(asked) : asked[i] = held
    BY <1>0, <2>1 DEF RequestsAreAsked, Asked
  <2>3. failure' = "rejected" => \E j \in 1..Len(asked) : asked[j] \in Rejected
    BY <1>0, <2>1, <2>2 DEF RequestsAreAsked
  <2>4. QED
    BY <1>0, <2>1, <2>3 DEF RequestsAreAsked, Asked
<1>5. QED
  BY <1>1, <1>2, <1>3, <1>4
     DEF Next, SenderStep, HandlerStep, ClientHalfClose, ClientGoes, BackendSends,
         BackendEnds, Fail, Open, Header, HandlerTakes, HandlerRecvEnds, HandlerSend,
         Select, clientVars, senderVars

LEMMA SenderErrorsStep ==
  ASSUME RelayInv, Next
  PROVE  SenderErrors'
<1>0. ControlTypes /\ SequenceTypes /\ SenderErrors
  BY DEF RelayInv
<1>1. CASE \/ \E r \in Requests : ClientSend(r)
           \/ ClientHalfClose \/ ClientGoes
           \/ \E r \in Responses : BackendSends(r)
           \/ BackendEnds \/ Header \/ HandlerTakes \/ HandlerRecvEnds \/ HandlerSend
  <2>1. /\ UNCHANGED <<sender, failure, sendError, cancelled>>
        /\ client' # "gone" => client # "gone"
        /\ handler = "done" => handler' = "done"
    BY <1>1 DEF ClientSend, ClientHalfClose, ClientGoes, BackendSends, BackendEnds,
                Header, HandlerTakes, HandlerRecvEnds, HandlerSend, clientVars,
                senderVars, handlerVars
  <2>2. QED
    BY <1>0, <2>1 DEF SenderErrors
<1>2. CASE SenderRecv
  <2>1. /\ sender = "recv" /\ UNCHANGED <<client, sendError, cancelled, handler>>
        /\ \/ sender' \in {"send", "done"} /\ failure' = failure
           \/ /\ sender' = "report" /\ failure' = "canceled"
              /\ client = "gone" \/ handler = "done"
    BY <1>2 DEF SenderRecv, FrontDone, clientVars, handlerVars
  <2>2. failure = None /\ Len(sendError) = 0 /\ (cancelled => handler = "done")
    <3>1. failure = None /\ Len(sendError) # 1
      BY <1>0, <2>1 DEF SenderErrors
    <3>2. cancelled => handler = "done"
      BY <1>0, <2>1 DEF SenderErrors
    <3>3. Len(sendError) \in Nat /\ Len(sendError) <= 1
      BY <1>0 DEF SequenceTypes
    <3>4. QED  BY <3>1, <3>2, <3>3
  <2>3. QED
    BY <2>1, <2>2, RelayAssumption DEF SenderErrors
<1>3. CASE SenderSend
  <2>1. /\ sender = "send" /\ UNCHANGED <<client, sendError, cancelled, handler>>
        /\ \/ sender' \in {"recv", "done"} /\ failure' = failure
           \/ sender' = "report" /\ failure' = "rejected"
           \/ /\ sender' = "report" /\ failure' = "canceled"
              /\ client = "gone" \/ cancelled
    BY <1>3 DEF SenderSend, AfterSend, AfterEOF, BackDone, clientVars, handlerVars
  <2>2. failure = None /\ Len(sendError) = 0 /\ (cancelled => handler = "done")
    <3>1. failure = None /\ Len(sendError) # 1
      BY <1>0, <2>1 DEF SenderErrors
    <3>2. cancelled => handler = "done"
      BY <1>0, <2>1 DEF SenderErrors
    <3>3. Len(sendError) \in Nat /\ Len(sendError) <= 1
      BY <1>0 DEF SequenceTypes
    <3>4. QED  BY <3>1, <3>2, <3>3
  <2>3. QED
    BY <2>1, <2>2, RelayAssumption DEF SenderErrors
<1>4. CASE Fail
  <2>1. CASE sender = "report"
    <3>1. /\ sender' = "cancel" /\ UNCHANGED <<client, cancelled, handler, failure>>
          /\ sendError' = Append(sendError, failure) /\ Len(sendError) = 0
          /\ failure # None /\ failure \in {"canceled", "rejected"}
      BY <1>0, <1>4, <2>1 DEF Fail, clientVars, handlerVars, SenderErrors, ControlTypes
    <3>2. Len(sendError') = 1 /\ sendError'[1] = failure
      BY <1>0, <3>1, AppendFacts DEF SequenceTypes
    <3>3. QED
      BY <1>0, <2>1, <3>1, <3>2 DEF SenderErrors
  <2>2. CASE sender = "cancel"
    <3>1. /\ sender' = "done" /\ UNCHANGED <<client, handler, failure, sendError>>
      BY <1>4, <2>2 DEF Fail, clientVars, handlerVars
    <3>2. QED
      BY <1>0, <2>2, <3>1 DEF SenderErrors
  <2>3. QED  BY <1>4, <2>1, <2>2 DEF Fail
<1>5. CASE Open
  <2>1. /\ sender = "unborn" /\ handler = "open" /\ ~cancelled
        /\ sender' \in {"recv", "none"}
        /\ UNCHANGED <<client, failure, sendError, cancelled>>
    BY <1>5 DEF RelayInv, HandlerErrors, Open, clientVars
  <2>2. QED
    BY <1>0, <2>1, RelayAssumption DEF SenderErrors
<1>6. CASE Select
  <2>1. /\ handler' = "done" /\ sendError' = <<>>
        /\ UNCHANGED <<client, sender, failure>>
    BY <1>6 DEF Select, clientVars, senderVars
  <2>2. Len(sendError') = 0
    BY <2>1, EmptySequence
  <2>3. QED
    BY <1>0, <2>1, <2>2 DEF SenderErrors
<1>7. QED
  BY <1>1, <1>2, <1>3, <1>4, <1>5, <1>6 DEF Next, SenderStep, HandlerStep

LEMMA HandlerErrorsStep ==
  ASSUME RelayInv, Next
  PROVE  HandlerErrors'
<1>0. ControlTypes /\ SequenceTypes /\ SenderErrors /\ HandlerErrors
  BY DEF RelayInv
<1>1. CASE \/ \E r \in Requests : ClientSend(r)
           \/ ClientHalfClose \/ ClientGoes
  <2>1. /\ UNCHANGED <<sender, sendError, cancelled, ended, produced, handler, err,
                        delivered, result>>
        /\ client' = client \/ client # "gone"
        /\ asked' = asked \/ sender # "unborn"
    BY <1>0, <1>1
       DEF ClientSend, ClientHalfClose, ClientGoes, senderVars, backVars, handlerVars,
           HandlerErrors
  <2>2. QED
    BY <1>0, <2>1 DEF HandlerErrors
<1>2. CASE \/ \E r \in Responses : BackendSends(r)
           \/ BackendEnds
  <2>1. /\ UNCHANGED <<client, asked, sender, sendError, cancelled, handler, err,
                        delivered, result>>
        /\ handler # "open" /\ ended = "no" /\ client # "gone" /\ ~cancelled
    BY <1>2 DEF BackendSends, BackendEnds, BackDone, clientVars, senderVars, handlerVars
  <2>2. handler # "done" /\ (handler = "select" => err = "canceled")
    BY <1>0, <2>1 DEF HandlerErrors, ControlTypes
  <2>3. QED
    BY <1>0, <2>1, <2>2 DEF HandlerErrors
<1>3. CASE SenderRecv \/ SenderSend
  <2>1. /\ UNCHANGED <<client, asked, sendError, cancelled, ended, produced, handler,
                        err, delivered, result>>
        /\ sender # "unborn" /\ sender' # "unborn"
    BY <1>3 DEF SenderRecv, SenderSend, AfterSend, AfterEOF, clientVars, handlerVars
  <2>2. QED
    BY <1>0, <2>1 DEF HandlerErrors
<1>4. CASE Fail
  <2>1. /\ UNCHANGED <<client, asked, ended, produced, handler, err, delivered, result>>
        /\ sender \in {"report", "cancel"} /\ sender' # "unborn"
        /\ sendError' = sendError \/ sendError' = Append(sendError, failure)
        /\ sender = "report" => cancelled' = cancelled
        /\ sender = "cancel" => sendError' = sendError
    BY <1>4 DEF Fail, clientVars, backVars, handlerVars
  <2>2. failure \in {"canceled", "rejected"}
    BY <1>0, <2>1 DEF SenderErrors, ControlTypes
  <2>3. sender = "report" => Len(sendError) = 0
    BY <1>0 DEF SenderErrors
  <2>4. Len(sendError) = 1 => Len(sendError') = 1
    BY <2>1, <2>3
  <2>5. handler # "open" /\ (handler = "done" => cancelled \/ ended # "no")
    BY <1>0, <2>1 DEF HandlerErrors
  <2>6. cancelled => cancelled'
    BY <1>4 DEF Fail, Cancel
  <2>7. QED
    BY <1>0, <2>1, <2>4, <2>5, <2>6 DEF HandlerErrors
<1>5. CASE Open
  <2>1. /\ handler' \in {"header", "done"} /\ sender' # "unborn"
        /\ handler' = "done" => ended' = "error"
        /\ handler' = "header" => result' = result
        /\ handler = "open"
    BY <1>5 DEF Open
  <2>2. QED
    BY <1>0, <2>1 DEF HandlerErrors
<1>6. CASE Header \/ HandlerTakes \/ HandlerSend \/ HandlerRecvEnds
  <2>1. /\ UNCHANGED <<client, asked, sender, sendError, cancelled, ended, produced,
                        result>>
        /\ handler \notin {"open", "select", "done"} /\ handler' \notin {"open", "done"}
        /\ handler' = "select" =>
              /\ delivered' = delivered
              /\ \/ err' = "canceled" /\ BackDone
                 \/ err' = ended /\ ended # "no" /\ outbox = <<>> /\ handler = "recv"
    BY <1>6 DEF Header, HandlerTakes, HandlerSend, HandlerRecvEnds, Stop, Status,
                BackDone, clientVars, senderVars, backVars
  <2>2. handler = "recv" /\ ended = "ok" /\ outbox = <<>> => delivered = produced
    <3>1. SUFFICES ASSUME handler = "recv", ended = "ok", outbox = <<>>
                   PROVE  delivered = produced
      OBVIOUS
    <3>2. SoFar(delivered, produced) /\ NoneMissing(delivered, 0, outbox, produced)
      BY <3>1 DEF RelayInv, ResponsesInOrder, InSend
    <3>3. Len(delivered) = Len(produced)
      BY <1>0, <3>1, <3>2, EmptySequence DEF NoneMissing, SequenceTypes
    <3>4. QED
      BY <1>0, <3>2, <3>3, SameByIndex DEF SoFar, SequenceTypes
  <2>3. BackDone /\ client # "gone" => Len(sendError) = 1
    BY <1>0, <2>1 DEF BackDone, SenderErrors
  <2>4. ended \in {"no", "ok", "error"} /\ sender # "unborn" /\ result = None
    BY <1>0, <2>1 DEF ControlTypes, HandlerErrors
  <2>5. CASE handler' = "select"
    <3>1. err' # None /\ (err' \in {"ok", "error"} => err' = ended)
      BY <2>1, <2>4, <2>5, RelayAssumption
    <3>2. err' = "ok" => delivered' = produced'
      BY <2>1, <2>2, <2>5
    <3>3. err' = "canceled" /\ client' # "gone" => Len(sendError') = 1
      BY <2>1, <2>3, <2>4, <2>5
    <3>4. QED
      BY <2>1, <2>4, <2>5, <3>1, <3>2, <3>3 DEF HandlerErrors
  <2>6. CASE handler' # "select"
    BY <2>1, <2>4, <2>6 DEF HandlerErrors
  <2>7. QED  BY <2>5, <2>6
<1>7. CASE Select
  <2>1. handler = "select" /\ handler' = "done" /\ cancelled' = TRUE /\ sender' = sender
    BY <1>7 DEF Select, senderVars
  <2>2. QED
    BY <1>0, <2>1 DEF HandlerErrors
<1>8. QED
  BY <1>1, <1>2, <1>3, <1>4, <1>5, <1>6, <1>7 DEF Next, SenderStep, HandlerStep

\* The verdict on a call is reached by Select, or when the backend's stream
\* cannot be opened, and does not change after that.
LEMMA VerdictStep ==
  ASSUME RelayInv, Next
  PROVE  OKIsComplete' /\ ErrorsAreExplained'
<1>0. ControlTypes /\ SequenceTypes /\ SenderErrors /\ HandlerErrors /\ OKIsComplete
      /\ ErrorsAreExplained /\ RequestsAreAsked
  BY DEF RelayInv
<1>1. CASE handler = "done"
  <2>1. cancelled \/ ended # "no"
    BY <1>0, <1>1 DEF HandlerErrors
  <2>2. /\ UNCHANGED <<result, ended, produced, delivered, handler>>
        /\ client' # "gone" => client # "gone"
        /\ asked' = asked
    BY <1>1, <2>1
       DEF Next, SenderStep, HandlerStep, ClientSend, ClientHalfClose, ClientGoes,
           BackendSends, BackendEnds, BackDone, SenderRecv, SenderSend, Fail, Open,
           Header, HandlerTakes, HandlerRecvEnds, HandlerSend, Select, clientVars,
           backVars, handlerVars
  <2>3. QED
    BY <1>0, <2>2 DEF OKIsComplete, ErrorsAreExplained
<1>2. CASE Select
  <2>1. /\ handler = "select" /\ UNCHANGED <<client, asked, ended, produced, delivered>>
        /\ result' = IF sendError # <<>> THEN Head(sendError) ELSE err
    BY <1>2 DEF Select, clientVars, backVars
  <2>2. CASE sendError # <<>>
    <3>1. Len(sendError) = 1 /\ Head(sendError) = sendError[1]
      <4>1. sendError \in Seq({"canceled", "rejected"}) /\ Len(sendError) <= 1
        BY <1>0 DEF SequenceTypes
      <4>2. QED  BY <2>2, <4>1, OnlyElement
    <3>2. result' = failure /\ failure \in {"canceled", "rejected"}
      BY <1>0, <2>1, <2>2, <3>1 DEF SenderErrors, ControlTypes
    <3>3. client # "gone" => failure = "rejected"
      BY <1>0, <2>1, <3>2 DEF SenderErrors
    <3>4. QED
      BY <1>0, <2>1, <3>2, <3>3 DEF OKIsComplete, ErrorsAreExplained, RequestsAreAsked
  <2>3. CASE sendError = <<>>
    <3>1. Len(sendError) = 0
      BY <2>3, EmptySequence
    <3>2. /\ err \in {"ok", "error", "canceled"}
          /\ err \in {"ok", "error"} => err = ended
          /\ err = "ok" => delivered = produced
          /\ client # "gone" => err # "canceled"
      BY <1>0, <2>1, <3>1 DEF HandlerErrors, ControlTypes
    <3>3. result' = err
      BY <2>1, <2>3
    <3>4. QED
      BY <2>1, <3>2, <3>3 DEF OKIsComplete, ErrorsAreExplained
  <2>4. QED  BY <2>2, <2>3
<1>3. CASE Open
  <2>1. \/ handler' = "done" /\ ended' = "error" /\ result' = "error"
        \/ handler' # "done" /\ result' = result
    BY <1>3 DEF Open
  <2>2. result = None
    BY <1>0, <1>3 DEF HandlerErrors, Open
  <2>3. QED
    BY <2>1, <2>2, RelayAssumption DEF OKIsComplete, ErrorsAreExplained
<1>4. CASE handler # "done" /\ ~Select /\ ~Open
  <2>1. result' = result /\ handler' # "done"
    BY <1>4
       DEF Next, SenderStep, HandlerStep, ClientSend, ClientHalfClose, ClientGoes,
           BackendSends, BackendEnds, SenderRecv, SenderSend, Fail, Header,
           HandlerTakes, HandlerRecvEnds, HandlerSend, Stop, handlerVars
  <2>2. result = None
    BY <1>0, <1>4 DEF HandlerErrors
  <2>3. QED
    BY <2>1, <2>2, RelayAssumption DEF OKIsComplete, ErrorsAreExplained
<1>5. QED  BY <1>1, <1>2, <1>3, <1>4

LEMMA RelayInvStep == RelayInv /\ [Next]_vars => RelayInv'
<1>1. ASSUME RelayInv, Next PROVE RelayInv'
  BY <1>1, ControlTypesStep, SequenceTypesStep, ResponsesStep, RequestsStep, AskedStep,
     SenderErrorsStep, HandlerErrorsStep, VerdictStep DEF RelayInv
<1>2. ASSUME RelayInv, UNCHANGED vars PROVE RelayInv'
  <2>1. UNCHANGED <<client, asked, inbox, sender, held, failure, sendError, cancelled,
                    arrived, backClosed, produced, outbox, ended, handler, response, err,
                    delivered, result>>
    BY <1>2, Zenon DEF vars
  <2>2. InSend' = InSend /\ InHeld' = InHeld
    BY <2>1, Zenon DEF InSend, InHeld
  <2>3. ControlTypes' /\ SequenceTypes'
    <3>1. ControlTypes'
      <4>1. ControlTypes
        BY <1>2, Zenon DEF RelayInv
      <4>2. QED  BY <2>1, <4>1 DEF ControlTypes
    <3>2. SequenceTypes'
      BY <1>2, <2>1, Zenon DEF RelayInv, SequenceTypes
    <3>3. QED  BY <3>1, <3>2, Zenon
  <2>4. ResponsesInOrder' /\ RequestsInOrder'
    BY <1>2, <2>1, <2>2, Zenon DEF RelayInv, ResponsesInOrder, RequestsInOrder
  <2>5. RequestsAreAsked'
    BY <1>2, <2>1, Zenon DEF RelayInv, RequestsAreAsked, Asked
  <2>6. SenderErrors' /\ HandlerErrors'
    BY <1>2, <2>1, Zenon DEF RelayInv, SenderErrors, HandlerErrors
  <2>7. OKIsComplete' /\ ErrorsAreExplained'
    BY <1>2, <2>1, Zenon DEF RelayInv, OKIsComplete, ErrorsAreExplained
  <2>8. QED  BY <2>3, <2>4, <2>5, <2>6, <2>7, Zenon DEF RelayInv
<1>3. QED  BY <1>1, <1>2

LEMMA RelayInvHolds == Spec => []RelayInv
  BY RelayInvInit, RelayInvStep, PTL DEF Spec
-----------------------------------------------------------------------------
\* forwardBidi and forwardResponses pass requests and responses on without
\* reordering, repeating or skipping any, for any number of them.
THEOREM StreamsRelayInOrder == Spec => []RelaysInOrder
<1>1. RelayInv => RelaysInOrder
  <2>1. SUFFICES ASSUME RelayInv PROVE RelaysInOrder
    OBVIOUS
  <2>2. SequenceTypes /\ SoFar(delivered, produced) /\ SoFar(arrived, asked)
    BY <2>1 DEF RelayInv, ResponsesInOrder, RequestsInOrder
  <2>3. Prefix(delivered, produced) /\ Prefix(arrived, asked)
    BY <2>2, PrefixByIndex DEF SoFar, SequenceTypes
  <2>4. QED  BY <2>3 DEF RelaysInOrder
<1>2. QED  BY RelayInvHolds, <1>1, PTL

\* A stream that ends with OK has delivered everything that the backend sent
\* before its own OK.
THEOREM StreamOKIsComplete == Spec => []OKIsComplete
<1>1. RelayInv => OKIsComplete
  BY DEF RelayInv
<1>2. QED  BY RelayInvHolds, <1>1, PTL

\* The select of forwardBidi never shows the client a cancellation that the proxy
\* caused: it is told the backend's status, or why its request was refused.
THEOREM StreamErrorsAreExplained == Spec => []ErrorsAreExplained
<1>1. RelayInv => ErrorsAreExplained
  BY DEF RelayInv
<1>2. QED  BY RelayInvHolds, <1>1, PTL
=============================================================================
