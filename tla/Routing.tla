------------------------------ MODULE Routing ------------------------------
(***************************************************************************)
(* Key ranges and static shard routing: the pure functions of              *)
(* pkg/config (Validate), cmd/proxy (buildBackends), pkg/server/shard.go,  *)
(* pkg/server/sharding.go and the routing half of coordinated_proxy.go.    *)
(*                                                                         *)
(* The code only ever compares keys (bytes.Compare, bytes.Equal, len), so  *)
(* a byte string is abstracted to its rank: 0 is the empty string, 1 is    *)
(* []byte{0}, the smallest non-empty one.  A sequence of shards is indexed *)
(* from 1; the code indexes from 0.                                        *)
(***************************************************************************)
EXTENDS Integers, Sequences

Empty == 0
NoEnd == 1

\* config.Shard gives each boundary as a string or as bytes; the bytes are
\* "only used when start is empty".
Bound(str, bytes) == IF str # Empty THEN str ELSE bytes

\* "start key of first shard & end key of last shard are ignored."
StartOf(shards, i) ==
  IF i = 1 THEN Empty ELSE Bound(shards[i].start, shards[i].startBytes)

EndOf(shards, i) == Bound(shards[i].end, shards[i].endBytes)

\* Mutant: a shard may be empty.
ValidBoundaries_EmptyShard(shards) ==
  \A i \in 1..Len(shards) :
     /\ i > 1 => StartOf(shards, i) = EndOf(shards, i - 1)
     /\ i < Len(shards) => /\ EndOf(shards, i) \notin {Empty, NoEnd}
                           /\ StartOf(shards, i) <= EndOf(shards, i)

\* The boundary checks of Configurations.Validate.  The end of the last shard
\* is not looked at.
ValidBoundaries(shards) ==
  \A i \in 1..Len(shards) :
     /\ i > 1 => StartOf(shards, i) = EndOf(shards, i - 1)
     /\ i < Len(shards) => /\ EndOf(shards, i) \notin {Empty, NoEnd}
                           /\ StartOf(shards, i) < EndOf(shards, i)

\* The []CoordinatedShard that buildBackends passes to NewCoordinatedProxy.
CoordinatedShards(shards) ==
  [i \in 1..Len(shards) |->
     [start    |-> StartOf(shards, i),
      end      |-> IF i = Len(shards) THEN Empty ELSE EndOf(shards, i),
      endpoint |-> shards[i].address]]

\* The ShardImpls that NewShardImpl makes of the same configuration: here the
\* last shard's end is noEnd.
LegacyShards(shards) ==
  [i \in 1..Len(shards) |->
     [start |-> StartOf(shards, i),
      end   |-> IF i = Len(shards) THEN NoEnd ELSE EndOf(shards, i)]]

\* NewCoordinatedProxy: "contiguous ordered ranges covering all keys".
Contiguous(routes) ==
  \A i \in 1..Len(routes) :
     /\ i = 1 => routes[i].start = Empty
     /\ i > 1 => routes[i - 1].end = routes[i].start
     /\ i < Len(routes) => /\ routes[i].end # Empty
                           /\ routes[i].start < routes[i].end
     /\ i = Len(routes) => routes[i].end = Empty

\* NewCoordinatedProxy: "coordinator and shard endpoints must be distinct".
DistinctEndpoints(routes, coordinator) ==
  \A i \in 1..Len(routes) :
     /\ routes[i].endpoint # coordinator
     /\ \A j \in 1..(i - 1) : routes[j].endpoint # routes[i].endpoint

\* CoordinatedProxy.shard: the first shard whose end is beyond the key.
BelowEnd(route, key) == route.end = Empty \/ key < route.end

ShardOf(routes, key) ==
  CHOOSE i \in 1..Len(routes) :
     /\ BelowEnd(routes[i], key)
     /\ \A j \in 1..(i - 1) : ~BelowEnd(routes[j], key)

\* Mutant: the end "\0" is compared like any other key.
MutationAllowed_NoEndAsKey(routes, key, end) ==
  LET shardEnd == routes[ShardOf(routes, key)].end
  IN  key # Empty /\ (end = Empty \/ shardEnd = Empty \/ end <= shardEnd)

\* Mutant: a delete up to the very end of the shard is refused.
MutationAllowed_StrictEnd(routes, key, end) ==
  LET shardEnd == routes[ShardOf(routes, key)].end
  IN  /\ key # Empty
      /\ \/ end = Empty
         \/ shardEnd = Empty
         \/ end # NoEnd /\ end < shardEnd

\* CoordinatedProxy.mutationShard succeeds; the shard is then ShardOf(key).
MutationAllowed(routes, key, end) ==
  LET shardEnd == routes[ShardOf(routes, key)].end
  IN  /\ key # Empty
      /\ \/ end = Empty
         \/ shardEnd = Empty
         \/ end # NoEnd /\ end <= shardEnd

\* Mutant: the end of a shard is taken to be inclusive.
ContainsRange_InclusiveEnd(shard, key, end) ==
  /\ shard.end # NoEnd => key <= shard.end
  /\ key >= shard.start \/ end = NoEnd \/ (end # Empty /\ end > shard.start)

\* Mutant: a range without end is not special.
ContainsRange_NoEndAsKey(shard, key, end) ==
  /\ shard.end # NoEnd => key < shard.end
  /\ key >= shard.start \/ (end # Empty /\ end > shard.start)

\* ShardImpl.Contains of the legacy mode.
ContainsRange(shard, key, end) ==
  /\ shard.end # NoEnd => key < shard.end
  /\ \/ key >= shard.start
     \/ end = NoEnd
     \/ end # Empty /\ end > shard.start

\* DefaultShardingConfigs.GetShardClis: the first run of shards that contain
\* the range; the loop stops at the first miss after a hit.
GetShardClis(shards, key, end) ==
  {i \in 1..Len(shards) :
     /\ ContainsRange(shards[i], key, end)
     /\ \A j \in 1..(i - 1) : ContainsRange(shards[j], key, end) =>
           \A m \in j..i : ContainsRange(shards[m], key, end)}
-----------------------------------------------------------------------------
(***************************************************************************)
(* What the functions above are for, stated without them: shard i owns the *)
(* keys of its half-open range, and a request for [key, end) is about the  *)
(* keys etcd says it is about.                                             *)
(***************************************************************************)
Owns(route, key) == route.start <= key /\ BelowEnd(route, key)

InRange(k, key, end) ==
  IF end = Empty THEN k = key ELSE k >= key /\ (end = NoEnd \/ k < end)
=============================================================================
