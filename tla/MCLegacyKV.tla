----------------------------- MODULE MCLegacyKV -----------------------------
(***************************************************************************)
(* LegacyKV for TLC.  Two shards divide the keys 1..3 at 3, so that one of *)
(* them may hold more keys than a limit of 1; three divide 1..4.           *)
(***************************************************************************)
EXTENDS LegacyKV, TLC

Shard(s, e) == [start |-> s, startBytes |-> Empty, end |-> e, endBytes |-> Empty]

ThreeShards == <<Shard(Empty, 2), Shard(2, 4), Shard(4, Empty)>>

TwoShards == <<Shard(Empty, 3), Shard(3, Empty)>>

HandlerSymmetry == Permutations(Procs)

List(k, end, limit) == [op |-> "range", key |-> k, end |-> end, limit |-> limit]
Del(k, end) == [op |-> "delete", key |-> k, end |-> end]
PutOp(k) == [op |-> "put", key |-> k]
Txn(cmps, success, failure) ==
  [op |-> "txn", cmps |-> cmps, success |-> success, failure |-> failure]
Exists(k) == [key |-> k, exists |-> TRUE]
Missing(k) == [key |-> k, exists |-> FALSE]

\* A list, a page and a delete of both shards, and single-shard writes: a put and
\* transactions whose keys belong to one shard each.
MCRequests ==
  {List(1, NoEnd, 0), List(1, NoEnd, 1), Del(2, NoEnd), PutOp(2),
   Txn({Exists(3)}, <<>>, <<List(3, Empty, 0)>>),
   Txn({Missing(3)}, <<Txn({}, <<PutOp(3)>>, <<>>)>>, <<Del(3, Empty)>>)}

\* A Range of everything and one of two shards.
ListRequests == {List(1, NoEnd, 0), List(1, 4, 0)}
=============================================================================
