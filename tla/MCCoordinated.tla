--------------------------- MODULE MCCoordinated ---------------------------
(***************************************************************************)
(* Instances of CoordinatedProxy and ClientView for TLC: keys 1..4, a      *)
(* shard boundary at 3, and small sets of requests, one per question.      *)
(***************************************************************************)
EXTENDS ClientView, TLC

MCRoutes == <<[start |-> Empty, end |-> 3, endpoint |-> "s1"],
              [start |-> 3, end |-> Empty, endpoint |-> "s2"]>>

\* Tokens are only compared for equality: it is enough to look at behaviours
\* that draw them in order.
TokensInOrder == \A t, u \in Tokens : t < u /\ Fresh(t) => Fresh(u)

HandlerSymmetry == Permutations(Procs)

CONSTANTS v1, v2

Op(op, key, end) ==
  [op |-> op, key |-> key, end |-> end, val |-> EmptyValue, lease |-> NoLease,
   ignoreValue |-> FALSE, ignoreLease |-> FALSE, prevKv |-> FALSE,
   keysOnly |-> FALSE, sortByValue |-> FALSE, rev |-> 0, limit |-> 0]

PutOp(k, v) == [Op("put", k, Empty) EXCEPT !.val = v]
PrevPut(k, v) == [PutOp(k, v) EXCEPT !.prevKv = TRUE]
List(k, end) == Op("range", k, end)
Del(k, end) == [Op("delete", k, end) EXCEPT !.prevKv = TRUE]

Txn(cmps, success, failure) ==
  [cmps |-> cmps, success |-> success, failure |-> failure]

One(o) == Txn({}, <<o>>, <<>>)

If(target, k, result, n) ==
  [target |-> target, key |-> k, end |-> Empty, result |-> result,
   operand |-> n]

\* Puts that attach a lease, keep a value or keep a lease, and a Txn that reads
\* everything and stages a value in both branches.
KVRequests ==
  {One([PutOp(2, v1) EXCEPT !.lease = 1]),
   One([PrevPut(2, EmptyValue) EXCEPT !.ignoreValue = TRUE]),
   One([PutOp(2, EmptyValue) EXCEPT !.ignoreLease = TRUE]),
   Txn({If("lease", 2, "#", 1)}, <<List(1, NoEnd), PutOp(2, v2)>>,
       <<Del(2, 3), PutOp(1, v1)>>)}

\* Requests in and out of the supported scope, writers of both shards, a
\* compare-and-swap and readers of everything.
ScopeRequests ==
  {One(PutOp(2, v1)), One(PutOp(3, v2)),
   One(Del(2, NoEnd)), One(Del(3, NoEnd)), One(Del(1, 3)), One(Del(2, 4)),
   One(Del(4, 2)),
   One(PutOp(Empty, v1)), One(List(Empty, NoEnd)),
   One([List(1, NoEnd) EXCEPT !.sortByValue = TRUE]),
   One([PutOp(2, v1) EXCEPT !.ignoreValue = TRUE]),
   One([PutOp(2, v1) EXCEPT !.ignoreLease = TRUE, !.lease = 1]),
   One(Op("txn", 2, Empty)),
   Txn({}, <<PutOp(2, v1), PutOp(3, v2)>>, <<>>),
   Txn({If("version", 2, "=", 0)}, <<PutOp(2, v1)>>, <<Del(3, Empty)>>),
   Txn({If("value", 2, "=", 0)}, <<List(2, Empty)>>, <<>>),
   Txn({If("version", Empty, "=", 0)}, <<>>, <<List(2, Empty)>>),
   Txn({If("mod", 3, ">", 2)}, <<List(1, NoEnd), Del(3, Empty)>>,
       <<PutOp(4, v1), PutOp(4, v2)>>),
   One(List(1, NoEnd)),
   Txn({If("version", 2, "=", 0)}, <<PutOp(2, v2)>>,
       <<List(2, 4), PutOp(1, v1)>>)}

\* Reads of the past, whole, in pages and keys only, while it is overwritten
\* and compacted.
Past == [List(1, NoEnd) EXCEPT !.rev = 3]

HistoryRequests ==
  {One(PutOp(2, v1)), One(PrevPut(2, v2)), One(PutOp(3, v2)), One(Past),
   Txn({}, <<[Past EXCEPT !.limit = 1], [Past EXCEPT !.keysOnly = TRUE],
             Del(2, 3)>>, <<>>)}

\* Blobs are lost in behaviours without compaction and abandoned commits.
LostOrCompacted == lost = {} \/ (compacted = 0 /\ late = {})
=============================================================================
