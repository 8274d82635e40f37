----------------------------- MODULE ClientView -----------------------------
(***************************************************************************)
(* What clients see of coordinated mode: CoordinatedProxy implements       *)
(* AtomicKV, one etcd that stores user values itself.                      *)
(***************************************************************************)
EXTENDS CoordinatedProxy

\* The scope of docs/coordinated-sharding.md, "Supported scope and limits",
\* without reference to how the proxy checks it.
Touches(o, k) == k = o.key \/ InRange(k, o.key, o.end)

InScope(q) ==
  /\ \A c \in q.cmps : c.target # "value" /\ c.key # Empty
  /\ \A i \in 1..Len(Ops(q)) :
       LET o == Ops(q)[i]
       IN  /\ o.op \in {"range", "put", "delete"} /\ o.key # Empty
           /\ o.op = "range" => ~o.sortByValue
           /\ o.op = "put" => /\ o.ignoreValue => o.val = EmptyValue
                              /\ o.ignoreLease => o.lease = NoLease
  /\ \E s \in Shards : \A i \in 1..Len(Ops(q)), k \in 1..MaxKey :
       IsMutation(Ops(q)[i]) /\ Touches(Ops(q)[i], k) => Owns(Routes[s], k)

\* The state of that etcd, beside UserHist: a KeyValue still to be decoded is
\* already part of the answer, and DataLoss is one of the errors.
UserItem(x) == [x EXCEPT !.key = StripPrefix(@), !.kv.val = Resolve(@)]

UserPC == [p \in Procs |-> CASE pc[p] = "idle"   -> "idle"
                             [] pc[p] = "stage"  -> "pending"
                             [] pc[p] = "decode" -> "executed"]

UserOut == [p \in Procs |-> out[p] \cup {UserItem(x) : x \in reply[p]}]

UserStatus == [p \in Procs |-> IF status[p] = "dataloss" THEN "error" ELSE status[p]]

UserLate == {[id |-> m.id, req |-> m.req] : m \in late}

Abs == INSTANCE AtomicKV WITH
  Initial <- [r \in 1..2 |-> [k \in 1..MaxKey |-> Absent]],
  hist <- UserHist, pc <- UserPC, out <- UserOut, status <- UserStatus,
  late <- UserLate

\* The whole of KV in coordinated mode (staging, publishing, decoding, both
\* branches of a Txn, errors at any point, late commits, lost blobs) behaves
\* like one etcd that stores the values itself: AtomicKV.
ImplementsAtomicKV == Abs!Spec
=============================================================================
