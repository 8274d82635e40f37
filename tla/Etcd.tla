-------------------------------- MODULE Etcd --------------------------------
(***************************************************************************)
(* What one etcd cluster does with a request: MVCC snapshots, transactions *)
(* and leases, as far as the proxy uses and exposes them.  etcd is not     *)
(* part of this repository; these operators follow the comments of its     *)
(* protobuf API quoted in pkg/server/proxy_kv.go ("A delete request        *)
(* increments the revision of the key-value store", "It is not allowed to  *)
(* modify the same key several times within one txn") and the requests     *)
(* that coordinated_proxy.go sends.                                        *)
(*                                                                         *)
(* A snapshot maps every key to its KeyValue; version 0 means the key does *)
(* not exist.  The operators do not look at values, so they serve for a    *)
(* store of references and for a store of user values alike.               *)
(***************************************************************************)
EXTENDS Routing, FiniteSets

CONSTANT NoVal          \* no value: an absent key, or KeysOnly

NoLease == 0

Absent == [val |-> NoVal, create |-> 0, mod |-> 0, version |-> 0,
           lease |-> NoLease]

Live(kv) == kv.version > 0

Last(hist) == hist[Len(hist)]

\* The existing keys of [key, end).
Hits(snap, key, end) == {k \in DOMAIN snap : InRange(k, key, end) /\ Live(snap[k])}

PutKV(old, o, r) ==
  [val     |-> IF o.ignoreValue THEN old.val ELSE o.val,
   create  |-> IF Live(old) THEN old.create ELSE r,
   mod     |-> r,
   version |-> old.version + 1,
   lease   |-> IF o.ignoreLease THEN old.lease ELSE o.lease]

\* snap after the first n operations of ops, executed at revision r.  No two of
\* them may write one key, so their order does not matter.
PutsOf(ops, n, k) == {i \in 1..n : ops[i].op = "put" /\ ops[i].key = k}

Deletes(ops, n, k) ==
  \E i \in 1..n : ops[i].op = "delete" /\ InRange(k, ops[i].key, ops[i].end)

After(snap, ops, n, r) ==
  [k \in DOMAIN snap |->
     IF PutsOf(ops, n, k) # {}
     THEN PutKV(snap[k], ops[CHOOSE i \in PutsOf(ops, n, k) : TRUE], r)
     ELSE IF Deletes(ops, n, k) THEN Absent ELSE snap[k]]

\* "ErrDuplicateKey": a put overlaps another put or a delete of its branch.
DuplicateKey(ops) ==
  \E i, j \in 1..Len(ops) :
     /\ i # j /\ ops[i].op = "put"
     /\ \/ ops[j].op = "put" /\ ops[j].key = ops[i].key
        \/ ops[j].op = "delete" /\ InRange(ops[i].key, ops[j].key, ops[j].end)

\* An operation etcd refuses: nothing to keep the value or lease of, an unknown
\* lease, a revision of the future or one that was compacted.
BadOp(hist, compacted, leases, o) ==
  \/ /\ o.op = "put"
     /\ \/ (o.ignoreValue \/ o.ignoreLease) /\ ~Live(Last(hist)[o.key])
        \/ o.lease # NoLease /\ o.lease \notin leases
  \/ /\ o.op = "range"
     /\ o.rev # 0
     /\ o.rev < compacted \/ o.rev > Len(hist)

\* A comparison over a range holds if it holds for each key in it; over no key
\* it looks at the zero KeyValue.
Field(kv, target) ==
  CASE target = "version" -> kv.version
    [] target = "create"  -> kv.create
    [] target = "mod"     -> kv.mod
    [] target = "lease"   -> kv.lease

Holds(snap, c) ==
  LET hits == Hits(snap, c.key, c.end)
      kvs  == IF hits = {} THEN {Absent} ELSE {snap[k] : k \in hits}
  IN  \A kv \in kvs :
         CASE c.result = "="  -> Field(kv, c.target) = c.operand
           [] c.result = "#"  -> Field(kv, c.target) # c.operand
           [] c.result = "<"  -> Field(kv, c.target) < c.operand
           [] c.result = ">"  -> Field(kv, c.target) > c.operand

Succeeds(hist, t) == \A c \in t.cmps : Holds(Last(hist), c)

Branch(hist, t) == IF Succeeds(hist, t) THEN t.success ELSE t.failure

Refuses(hist, compacted, leases, t) ==
  \/ DuplicateKey(t.success)
  \/ DuplicateKey(t.failure)
  \/ \E i \in 1..Len(Branch(hist, t)) :
        BadOp(hist, compacted, leases, Branch(hist, t)[i])

\* A transaction that writes makes one new revision.
Writes(snap, ops) ==
  \E i \in 1..Len(ops) :
     \/ ops[i].op = "put"
     \/ ops[i].op = "delete" /\ Hits(snap, ops[i].key, ops[i].end) # {}

Commit(hist, t) ==
  LET ops == Branch(hist, t)
  IN  IF Writes(Last(hist), ops)
      THEN Append(hist, After(Last(hist), ops, Len(ops), Len(hist) + 1))
      ELSE hist

\* The KeyValues of the response to the i-th operation: found, or previous.
Limited(keys, limit) ==
  {k \in keys : limit = 0 \/ Cardinality({j \in keys : j < k}) < limit}

ViewOf(hist, ops, i) ==
  IF ops[i].op = "range" /\ ops[i].rev # 0
  THEN hist[ops[i].rev]
  ELSE After(Last(hist), ops, i - 1, Len(hist) + 1)

KeysOf(hist, ops, i) ==
  LET hits == Hits(ViewOf(hist, ops, i), ops[i].key, ops[i].end)
  IN  IF ops[i].op = "range" THEN Limited(hits, ops[i].limit)
      ELSE IF ops[i].prevKv THEN hits ELSE {}

KVOf(hist, ops, i, k) ==
  LET kv == ViewOf(hist, ops, i)[k]
  IN  IF ops[i].keysOnly THEN [kv EXCEPT !.val = NoVal] ELSE kv

Answer(hist, t) ==
  LET ops == Branch(hist, t)
  IN  UNION {{[op |-> i, key |-> k, keysOnly |-> ops[i].keysOnly,
               kv |-> KVOf(hist, ops, i, k)] : k \in KeysOf(hist, ops, i)} :
              i \in 1..Len(ops)}

\* Revoking or expiring a lease deletes its keys in one revision.
LeaseKeys(snap, l) == {k \in DOMAIN snap : Live(snap[k]) /\ snap[k].lease = l}

DropLease(hist, l) ==
  IF LeaseKeys(Last(hist), l) = {} THEN hist
  ELSE Append(hist, [k \in DOMAIN Last(hist) |->
                       IF k \in LeaseKeys(Last(hist), l) THEN Absent
                       ELSE Last(hist)[k]])
=============================================================================
