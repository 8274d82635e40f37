----------------------- MODULE CoordinatedProxyProofs -----------------------
(***************************************************************************)
(* CoordinatedProxy for any number of handlers, shards, keys and tokens    *)
(* and requests of any shape: what a request that was validated and staged *)
(* does to the coordinator, the inductive invariant and the invariants     *)
(* that follow from it, and how the coordinator's history may change from  *)
(* one step to the next.                                                   *)
(***************************************************************************)
EXTENDS CoordinatedProxy, RoutingProofs

LEMMA RoutesAreGood == GoodRoutes(Routes)
  BY RoutesAssumption, BoundsAssumption DEF GoodRoutes, Shards

\* CoordinatedProxy.shard stays within p.clients.
LEMMA ShardOfType == \A k \in Nat : ShardOf(Routes, k) \in Shards
  BY RoutesAreGood, ShardOfExists DEF Shards

LEMMA MetadataKeys ==
  /\ ConfigKey \in RawKeys
  /\ \A k \in 1..MaxKey : /\ MetadataKey(k) \in RawKeys
                          /\ MetadataKey(k) # ConfigKey
                          /\ StripPrefix(MetadataKey(k)) = k
  /\ \A k, j \in 0..MaxKey : MetadataKey(k) = MetadataKey(j) => k = j
  /\ RawKeys \subseteq Nat
  /\ \A raw \in RawKeys : raw > MetadataPrefix =>
        HasPrefix(raw) /\ \E k \in 1..MaxKey : raw = MetadataKey(k)
  BY BoundsAssumption DEF RawKeys, MetadataKey, ConfigKey, MetadataPrefix,
     StripPrefix, HasPrefix, MetadataEnd

-----------------------------------------------------------------------------
(***************************************************************************)
(* One snapshot of the coordinator.                                        *)
(***************************************************************************)
\* Resolves, for the blobs b.
Reaches(b, key, v) ==
  v \in Refs /\ v.shard = ShardOf(Routes, key) /\ b[v.shard][v.token] # NoVal

SnapOK(b, snap) ==
  /\ snap \in [RawKeys -> KVs]
  /\ \A raw \in RawKeys : ~Live(snap[raw]) => snap[raw].val = NoVal
  /\ \A k \in 1..MaxKey :
        Live(snap[MetadataKey(k)]) => Reaches(b, k, snap[MetadataKey(k)].val)

\* A put as the proxy sends it: its key prefixed, its value a reference.
GoodPut(b, o, snap) ==
  /\ o.key \in RawKeys
  /\ o.ignoreValue \in BOOLEAN /\ o.ignoreLease \in BOOLEAN
  /\ o.ignoreValue \/ o.ignoreLease => Live(snap[o.key])
  /\ ~o.ignoreValue => \E k \in 1..MaxKey : o.key = MetadataKey(k) /\ Reaches(b, k, o.val)
  /\ ~o.ignoreLease => o.lease \in Leases \cup {NoLease}

LEMMA AbsentOK == Absent \in KVs /\ ~Live(Absent) /\ Absent.val = NoVal
  BY DEF Absent, KVs, Live, NoLease

LEMMA PutKVOK ==
  ASSUME NEW b, NEW snap, SnapOK(b, snap), NEW o, GoodPut(b, o, snap), NEW r \in Nat
  PROVE  LET kv == PutKV(snap[o.key], o, r)
         IN  /\ kv \in KVs /\ Live(kv)
             /\ \A k \in 1..MaxKey : o.key = MetadataKey(k) => Reaches(b, k, kv.val)
<1> DEFINE old == snap[o.key]
           kv  == PutKV(old, o, r)
<1>1. old \in KVs
  BY DEF SnapOK, GoodPut
<1>2. /\ kv.val = IF o.ignoreValue THEN old.val ELSE o.val
      /\ kv.version = old.version + 1
  BY DEF PutKV
<1>3. Live(kv)
  BY <1>1, <1>2 DEF Live, KVs
<1>4. \A k \in 1..MaxKey : o.key = MetadataKey(k) => Reaches(b, k, kv.val)
  <2> SUFFICES ASSUME NEW k \in 1..MaxKey, o.key = MetadataKey(k)
               PROVE  Reaches(b, k, kv.val)
    OBVIOUS
  <2>1. CASE o.ignoreValue
    BY <1>2, <2>1 DEF GoodPut, SnapOK
  <2>2. CASE ~o.ignoreValue
    <3>1. PICK j \in 1..MaxKey : o.key = MetadataKey(j) /\ Reaches(b, j, o.val)
      BY <2>2 DEF GoodPut
    <3>2. j = k
      BY <3>1, MetadataKeys, BoundsAssumption, Zenon
    <3> QED
      BY <1>2, <2>2, <3>1, <3>2
  <2> QED
    BY <2>1, <2>2 DEF GoodPut
<1>5. kv.val \in Refs \cup {Fingerprint, NoVal}
  BY <1>1, <1>2, Zenon DEF GoodPut, KVs, Reaches
<1>6. kv \in KVs
  BY <1>1, <1>5 DEF PutKV, KVs, GoodPut, Live
<1> QED
  BY <1>3, <1>4, <1>6

\* The operations of a branch keep a snapshot well formed.
LEMMA AfterOK ==
  ASSUME NEW b, NEW snap, SnapOK(b, snap), NEW ops, NEW n \in Nat, NEW r \in Nat,
         \A i \in 1..n : ops[i].op = "put" => GoodPut(b, ops[i], snap)
  PROVE  SnapOK(b, After(snap, ops, n, r))
<1> DEFINE new == After(snap, ops, n, r)
<1>1. DOMAIN snap = RawKeys
  BY DEF SnapOK
<1>2. ASSUME NEW raw \in RawKeys
      PROVE  /\ new[raw] \in KVs
             /\ ~Live(new[raw]) => new[raw].val = NoVal
             /\ \A k \in 1..MaxKey : raw = MetadataKey(k) /\ Live(new[raw])
                                       => Reaches(b, k, new[raw].val)
  <2>1. CASE PutsOf(ops, n, raw) # {}
    <3>1. PICK i \in 1..n : /\ new[raw] = PutKV(snap[raw], ops[i], r)
                            /\ ops[i].op = "put" /\ ops[i].key = raw
      BY <1>1, <2>1, Zenon DEF After, PutsOf
    <3> QED
      BY <3>1, PutKVOK
  <2>2. CASE PutsOf(ops, n, raw) = {} /\ Deletes(ops, n, raw)
    <3>1. new[raw] = Absent
      BY <1>1, <2>2 DEF After
    <3> QED
      BY <3>1, AbsentOK
  <2>3. CASE PutsOf(ops, n, raw) = {} /\ ~Deletes(ops, n, raw)
    <3>1. new[raw] = snap[raw]
      BY <1>1, <2>3 DEF After
    <3> QED
      BY <3>1 DEF SnapOK
  <2> QED
    BY <2>1, <2>2, <2>3
<1>3. new \in [RawKeys -> KVs]
  BY <1>1, <1>2 DEF After
<1> HIDE DEF new
<1> QED
  BY <1>2, <1>3, MetadataKeys DEF SnapOK, new

-----------------------------------------------------------------------------
(***************************************************************************)
(* What is sent to the coordinator.                                        *)
(***************************************************************************)
\* The references of a request lead to blobs of its keys.
StagedOK(b, q, refs) ==
  /\ q \in Requests /\ Valid(q)
  /\ refs \in [1..MaxOps -> Refs \cup {NoVal}]
  /\ \A i \in 1..Len(Ops(q)) : refs[i] # NoVal => Reaches(b, Ops(q)[i].key, refs[i])

AllStaged(q, refs) ==
  \A i \in 1..Len(Ops(q)) : NeedsBlob(Ops(q)[i]) => refs[i] # NoVal

\* An operation whose key is prefixed and whose value is a reference.
GoodOp(b, e) ==
  /\ \E k \in 1..MaxKey : /\ e.key = MetadataKey(k)
                          /\ e.op = "put" /\ ~e.ignoreValue => Reaches(b, k, e.val)
  /\ e.ignoreValue \in BOOLEAN /\ e.ignoreLease \in BOOLEAN /\ e.keysOnly \in BOOLEAN
  /\ e.rev \in Nat

LEMMA ConcatParts ==
  ASSUME NEW S, NEW a \in Seq(S), NEW b \in Seq(S)
  PROVE  /\ Len(a) \in Nat /\ Len(b) \in Nat
         /\ Len(a \o b) = Len(a) + Len(b)
         /\ \A i \in 1..Len(a) : (a \o b)[i] = a[i]
         /\ \A i \in 1..Len(b) : (a \o b)[Len(a) + i] = b[i]
         /\ \A i \in 1..Len(a \o b) : (a \o b)[i] \in S
<1> DEFINE m == Len(a)
           n == Len(b)
           c == a \o b
<1>1. /\ c \in Seq(S) /\ Len(c) = m + n
      /\ \A i \in 1..(m + n) : c[i] = IF i <= m THEN a[i] ELSE b[i - m]
  OBVIOUS
<1>2. m \in Nat /\ n \in Nat
  OBVIOUS
<1>3. \A i \in 1..Len(c) : c[i] \in S
  <2> HIDE DEF c
  <2> QED BY <1>1
<1> HIDE DEF m, n, c
<1>4. /\ \A i \in 1..m : c[i] = a[i]
      /\ \A i \in 1..n : c[m + i] = b[i]
  BY <1>1, <1>2
<1> QED
  BY <1>1, <1>2, <1>3, <1>4, Zenon DEF m, n, c

LEMMA OpsOf ==
  ASSUME NEW q \in Requests
  PROVE  /\ Len(q.success) \in Nat /\ Len(q.failure) \in Nat
         /\ Len(Ops(q)) = Len(q.success) + Len(q.failure)
         /\ Len(Ops(q)) \in Nat
         /\ \A i \in 1..Len(Ops(q)) : i \in 1..MaxOps
         /\ \A i \in 1..Len(q.success) : Ops(q)[i] = q.success[i]
         /\ \A i \in 1..Len(q.failure) : Ops(q)[Len(q.success) + i] = q.failure[i]
         /\ \A i \in 1..Len(Ops(q)) : Ops(q)[i] \in OpType
<1>1. q.success \in Seq(OpType) /\ q.failure \in Seq(OpType)
      /\ Len(q.success) + Len(q.failure) <= MaxOps
  BY RequestsAssumption, Zenon
<1>2. /\ Len(q.success) \in Nat /\ Len(q.failure) \in Nat
      /\ Len(Ops(q)) = Len(q.success) + Len(q.failure)
      /\ \A i \in 1..Len(q.success) : Ops(q)[i] = q.success[i]
      /\ \A i \in 1..Len(q.failure) : Ops(q)[Len(q.success) + i] = q.failure[i]
      /\ \A i \in 1..Len(Ops(q)) : Ops(q)[i] \in OpType
  BY <1>1, ConcatParts, Zenon DEF Ops
<1> DEFINE n == Len(Ops(q))
           k == Len(q.success)
           j == Len(q.failure)
<1>3. n \in Nat /\ n <= MaxOps
  <2>1. n = k + j /\ k \in Nat /\ j \in Nat /\ k + j <= MaxOps
    BY <1>1, <1>2, Zenon
  <2> HIDE DEF n, k, j
  <2> QED
    BY <2>1
<1> HIDE DEF n
<1>4. \A i \in 1..n : i \in 1..MaxOps
  BY <1>3, BoundsAssumption
<1> QED
  BY <1>2, <1>3, <1>4, Zenon DEF n

LEMMA EncodeOpGood ==
  ASSUME NEW b, NEW o \in OpType, ValidOp(o), NEW ref,
         NeedsBlob(o) => Reaches(b, o.key, ref)
  PROVE  GoodOp(b, EncodeOp(o, ref))
<1>1. o.key \in 1..MaxKey
  BY BoundsAssumption
     DEF ValidOp, ValidRange, ValidPut, MutationAllowed, OpType, Empty
<1>2. /\ EncodeOp(o, ref).key = MetadataKey(o.key)
      /\ EncodeOp(o, ref).val = IF NeedsBlob(o) THEN ref ELSE o.val
      /\ EncodeOp(o, ref).op = o.op
      /\ EncodeOp(o, ref).ignoreValue = o.ignoreValue
      /\ EncodeOp(o, ref).ignoreLease = o.ignoreLease
      /\ EncodeOp(o, ref).keysOnly = o.keysOnly
      /\ EncodeOp(o, ref).rev = o.rev
  BY DEF EncodeOp, OpType
<1>3. /\ o.ignoreValue \in BOOLEAN /\ o.ignoreLease \in BOOLEAN /\ o.keysOnly \in BOOLEAN
      /\ o.rev \in Nat
  BY DEF OpType
<1> QED
  BY <1>1, <1>2, <1>3, Zenon DEF GoodOp, NeedsBlob

\* A branch of what is sent holds encoded operations of the request.
LEMMA BranchOps ==
  ASSUME NEW q \in Requests, NEW refs, NEW h
  PROVE  LET ops == Branch(h, Encode(q, refs))
         IN  /\ Len(ops) \in Nat
             /\ \A i \in 1..Len(ops) : \E j \in 1..Len(Ops(q)) :
                   ops[i] = EncodeOp(Ops(q)[j], refs[j])
<1> DEFINE t == Encode(q, refs)
           m == Len(q.success)
           n == Len(q.failure)
<1>1. /\ m \in Nat /\ n \in Nat /\ Len(Ops(q)) = m + n
      /\ \A i \in 1..m : Ops(q)[i] = q.success[i]
      /\ \A i \in 1..n : Ops(q)[m + i] = q.failure[i]
  BY OpsOf, Zenon
<1>2. /\ t.success = [i \in 1..m |-> EncodeOp(q.success[i], refs[i])]
      /\ t.failure = [i \in 1..n |-> EncodeOp(q.failure[i], refs[m + i])]
  BY DEF Encode
<1> HIDE DEF t, m, n
<1>3. /\ Len(t.success) = m
      /\ \A i \in 1..m : i \in 1..(m + n) /\ t.success[i] = EncodeOp(Ops(q)[i], refs[i])
  BY <1>1, <1>2, LenOfFunction
<1>4. /\ Len(t.failure) = n
      /\ \A i \in 1..n : /\ m + i \in 1..(m + n)
                         /\ t.failure[i] = EncodeOp(Ops(q)[m + i], refs[m + i])
  BY <1>1, <1>2, LenOfFunction
<1>5. Branch(h, t) = t.success \/ Branch(h, t) = t.failure
  BY DEF Branch
<1> DEFINE Encoded(ops) == /\ Len(ops) \in Nat
                           /\ \A i \in 1..Len(ops) : \E j \in 1..Len(Ops(q)) :
                                 ops[i] = EncodeOp(Ops(q)[j], refs[j])
<1>6. Encoded(t.success)
  BY <1>1, <1>3
<1>7. Encoded(t.failure)
  BY <1>1, <1>4
<1>8. Encoded(Branch(h, t))
  BY <1>5, <1>6, <1>7, Zenon
<1> QED
  BY <1>8 DEF t

LEMMA EncodeGood ==
  ASSUME NEW b, NEW q, NEW refs, StagedOK(b, q, refs), AllStaged(q, refs), NEW h
  PROVE  LET ops == Branch(h, Encode(q, refs))
         IN  Len(ops) \in Nat /\ \A i \in 1..Len(ops) : GoodOp(b, ops[i])
<1>1. q \in Requests /\ Valid(q)
  BY DEF StagedOK
<1>2. \A j \in 1..Len(Ops(q)) : GoodOp(b, EncodeOp(Ops(q)[j], refs[j]))
  BY <1>1, OpsOf, EncodeOpGood, Zenon DEF StagedOK, AllStaged, Valid
<1> QED
  BY <1>1, <1>2, BranchOps

-----------------------------------------------------------------------------
(***************************************************************************)
(* What the coordinator makes of it.                                       *)
(***************************************************************************)
HistOK(b, h) ==
  /\ h \in Seq([RawKeys -> KVs]) /\ Len(h) >= 2
  /\ \A r \in 1..Len(h) : SnapOK(b, h[r])

\* h grew, and nothing that was in it changed.
Extends(h, old) == Len(h) >= Len(old) /\ \A r \in 1..Len(old) : h[r] = old[r]

LEMMA LastOK ==
  ASSUME NEW b, NEW h, HistOK(b, h)
  PROVE  Len(h) \in Nat /\ Len(h) \in 1..Len(h) /\ SnapOK(b, Last(h))
<1>1. Len(h) \in Nat /\ Len(h) >= 2
  BY DEF HistOK
<1> QED
  BY <1>1 DEF HistOK, Last

LEMMA AppendOK ==
  ASSUME NEW b, NEW h, HistOK(b, h), NEW snap, SnapOK(b, snap)
  PROVE  HistOK(b, Append(h, snap)) /\ Extends(Append(h, snap), h)
<1> DEFINE n == Append(h, snap)
           S == [RawKeys -> KVs]
<1>1. h \in Seq(S) /\ Len(h) \in Nat /\ Len(h) >= 2 /\ snap \in S
  BY DEF HistOK, SnapOK
<1>2. /\ n \in Seq(S) /\ Len(n) = Len(h) + 1
      /\ \A r \in 1..Len(h) : n[r] = h[r]
      /\ n[Len(h) + 1] = snap
  <2> HIDE DEF S
  <2> QED
    BY <1>1
<1> HIDE DEF n
<1>3. \A r \in 1..Len(n) : r = Len(h) + 1 \/ r \in 1..Len(h)
  BY <1>1, <1>2
<1>4. \A r \in 1..Len(n) : SnapOK(b, n[r])
  BY <1>2, <1>3, Zenon DEF HistOK
<1>5. Len(n) >= 2 /\ Len(n) >= Len(h)
  BY <1>1, <1>2
<1> QED
  BY <1>2, <1>4, <1>5, Zenon DEF HistOK, Extends, n

LEMMA NotRefused ==
  ASSUME NEW b, NEW h, NEW c, NEW ls, HistOK(b, h), ls \subseteq Leases,
         NEW q, NEW refs, StagedOK(b, q, refs), AllStaged(q, refs),
         ~Refuses(h, c, ls, Encode(q, refs))
  PROVE  LET ops == Branch(h, Encode(q, refs))
         IN  \A i \in 1..Len(ops) :
               /\ ops[i].op = "put" => GoodPut(b, ops[i], Last(h))
               /\ ops[i].op = "range" => ops[i].rev \in 0..Len(h)
<1> DEFINE ops == Branch(h, Encode(q, refs))
<1>1. \A i \in 1..Len(ops) : GoodOp(b, ops[i])
  BY EncodeGood, Zenon
<1>2. \A i \in 1..Len(ops) : ~BadOp(h, c, ls, ops[i])
  BY Zenon DEF Refuses
<1> HIDE DEF ops
<1>3. ASSUME NEW i \in 1..Len(ops)
      PROVE  /\ ops[i].op = "put" => GoodPut(b, ops[i], Last(h))
             /\ ops[i].op = "range" => ops[i].rev \in 0..Len(h)
  <2> DEFINE e == ops[i]
  <2>1. GoodOp(b, e) /\ ~BadOp(h, c, ls, e)
    BY <1>1, <1>2, Zenon
  <2> HIDE DEF e
  <2>2. ASSUME e.op = "put" PROVE GoodPut(b, e, Last(h))
    <3>1. e.key \in RawKeys
      BY <2>1, MetadataKeys, Zenon DEF GoodOp
    <3>2. e.ignoreValue \/ e.ignoreLease => Live(Last(h)[e.key])
      BY <2>1, <2>2, Zenon DEF BadOp
    <3>3. e.lease \in Leases \cup {NoLease}
      BY <2>1, <2>2 DEF BadOp
    <3>4. e.ignoreValue \in BOOLEAN /\ e.ignoreLease \in BOOLEAN
      BY <2>1 DEF GoodOp
    <3>5. ~e.ignoreValue => \E k \in 1..MaxKey : e.key = MetadataKey(k) /\ Reaches(b, k, e.val)
      BY <2>1, <2>2, Zenon DEF GoodOp
    <3> QED
      BY <3>1, <3>2, <3>3, <3>4, <3>5 DEF GoodPut
  <2>3. ASSUME e.op = "range" PROVE e.rev \in 0..Len(h)
    BY <2>1, <2>3, LastOK DEF GoodOp, BadOp
  <2> QED
    BY <2>2, <2>3 DEF e
<1> QED
  BY <1>3 DEF ops

\* A request whose blobs are all in place keeps the coordinator well formed.
LEMMA CommitOK ==
  ASSUME NEW b, NEW h, NEW c, NEW ls, HistOK(b, h), ls \subseteq Leases,
         NEW q, NEW refs, StagedOK(b, q, refs), AllStaged(q, refs),
         ~Refuses(h, c, ls, Encode(q, refs))
  PROVE  LET new == Commit(h, Encode(q, refs)) IN HistOK(b, new) /\ Extends(new, h)
<1> DEFINE ops == Branch(h, Encode(q, refs))
           new == After(Last(h), ops, Len(ops), Len(h) + 1)
<1>1. Len(ops) \in Nat /\ \A i \in 1..Len(ops) : ops[i].op = "put" => GoodPut(b, ops[i], Last(h))
  BY EncodeGood, NotRefused
<1>2. Len(h) + 1 \in Nat /\ SnapOK(b, Last(h))
  BY LastOK
<1>3. SnapOK(b, new)
  BY <1>1, <1>2, AfterOK
<1>4. HistOK(b, Append(h, new)) /\ Extends(Append(h, new), h)
  BY <1>3, AppendOK
<1>5. Extends(h, h)
  BY LastOK DEF Extends
<1>6. Commit(h, Encode(q, refs)) = IF Writes(Last(h), ops) THEN Append(h, new) ELSE h
  BY DEF Commit
<1> QED
  BY <1>4, <1>5, <1>6, SMTT(20)

LEMMA DropLeaseOK ==
  ASSUME NEW b, NEW h, HistOK(b, h), NEW l
  PROVE  HistOK(b, DropLease(h, l)) /\ Extends(DropLease(h, l), h)
<1> DEFINE snap == Last(h)
           new  == [k \in DOMAIN snap |-> IF k \in LeaseKeys(snap, l) THEN Absent ELSE snap[k]]
<1>1. Len(h) \in Nat /\ SnapOK(b, snap)
  BY LastOK
<1>2. DropLease(h, l) = h \/ DropLease(h, l) = Append(h, new)
  BY DEF DropLease
<1> HIDE DEF snap
<1>3. DOMAIN snap = RawKeys
  BY <1>1 DEF SnapOK
<1>4. \A raw \in RawKeys : new[raw] = Absent \/ new[raw] = snap[raw]
  BY <1>3
<1>5. new \in [RawKeys -> KVs]
  BY <1>1, <1>3, AbsentOK DEF SnapOK
<1> HIDE DEF new
<1>6. SnapOK(b, new)
  BY <1>1, <1>4, <1>5, AbsentOK, MetadataKeys, ZenonT(30) DEF SnapOK
<1>7. HistOK(b, Append(h, new)) /\ Extends(Append(h, new), h)
  BY <1>6, AppendOK
<1>8. Extends(h, h)
  BY <1>1 DEF Extends
<1> QED
  BY <1>2, <1>7, <1>8, Zenon

\* A KeyValue decodeKV can decode while its blob is there.
GoodItem(b, x) ==
  /\ HasPrefix(x.key)
  /\ x.keysOnly \/ \E k \in 1..MaxKey : Reaches(b, k, x.kv.val)

\* What an operation of a branch reads is a well-formed snapshot.
LEMMA ViewOK ==
  ASSUME NEW b, NEW h, NEW c, NEW ls, HistOK(b, h), ls \subseteq Leases,
         NEW q, NEW refs, StagedOK(b, q, refs), AllStaged(q, refs),
         ~Refuses(h, c, ls, Encode(q, refs)),
         NEW i \in 1..Len(Branch(h, Encode(q, refs)))
  PROVE  LET ops == Branch(h, Encode(q, refs))
         IN  /\ ops[i].op = "range" /\ ops[i].rev # 0 => ops[i].rev \in 1..Len(h)
             /\ SnapOK(b, ViewOf(h, ops, i))
<1> DEFINE ops == Branch(h, Encode(q, refs))
<1>1. /\ Len(ops) \in Nat
      /\ \A j \in 1..Len(ops) : /\ ops[j].op = "put" => GoodPut(b, ops[j], Last(h))
                                /\ ops[j].op = "range" => ops[j].rev \in 0..Len(h)
  BY EncodeGood, NotRefused
<1> HIDE DEF ops
<1>2. Len(h) \in Nat /\ SnapOK(b, Last(h))
  BY LastOK
<1>3. i \in 1..Len(ops)
  BY Zenon DEF ops
<1>4. ops[i].op = "range" /\ ops[i].rev # 0 => ops[i].rev \in 1..Len(h)
  BY <1>1, <1>2, <1>3, SMTT(20)
<1>5. CASE ops[i].op = "range" /\ ops[i].rev # 0
  BY <1>4, <1>5 DEF ViewOf, HistOK, ops
<1>6. CASE ~(ops[i].op = "range" /\ ops[i].rev # 0)
  <2>1. i - 1 \in Nat /\ Len(h) + 1 \in Nat /\ \A j \in 1..(i - 1) : j \in 1..Len(ops)
    BY <1>1, <1>2, <1>3, SMTT(20)
  <2>2. SnapOK(b, After(Last(h), ops, i - 1, Len(h) + 1))
    BY <1>1, <1>2, <2>1, AfterOK
  <2> QED
    BY <1>4, <1>6, <2>2, Zenon DEF ViewOf, ops
<1> QED
  BY <1>5, <1>6, Zenon

LEMMA AnswerOK ==
  ASSUME NEW b, NEW h, NEW c, NEW ls, HistOK(b, h), ls \subseteq Leases,
         NEW q, NEW refs, StagedOK(b, q, refs), AllStaged(q, refs),
         ~Refuses(h, c, ls, Encode(q, refs)),
         NEW x \in Answer(h, Encode(q, refs))
  PROVE  GoodItem(b, x)
<1> DEFINE ops == Branch(h, Encode(q, refs))
<1>1. PICK i \in 1..Len(ops) :
         x \in {[op |-> i, key |-> k, keysOnly |-> ops[i].keysOnly,
                 kv |-> KVOf(h, ops, i, k)] : k \in KeysOf(h, ops, i)}
  BY SMTT(20) DEF Answer
<1>2. PICK raw \in KeysOf(h, ops, i) :
         x = [op |-> i, key |-> raw, keysOnly |-> ops[i].keysOnly,
              kv |-> KVOf(h, ops, i, raw)]
  BY <1>1, Zenon
<1>3. \A j \in 1..Len(ops) : GoodOp(b, ops[j])
  BY EncodeGood
<1> DEFINE view == ViewOf(h, ops, i)
<1>4. SnapOK(b, view)
  BY ViewOK, ZenonT(30)
<1> HIDE DEF ops
<1>5. raw \in DOMAIN view /\ InRange(raw, ops[i].key, ops[i].end) /\ Live(view[raw])
  BY Zenon DEF KeysOf, Limited, Hits
<1>6. x.key = raw /\ x.keysOnly = ops[i].keysOnly /\ (~x.keysOnly => x.kv = view[raw])
  BY <1>2, <1>3, Zenon DEF KVOf, GoodOp
<1> HIDE DEF view
<1>7. raw \in RawKeys
  BY <1>4, <1>5, Zenon DEF SnapOK
<1>8. PICK j \in 1..MaxKey : ops[i].key = MetadataKey(j)
  BY <1>3, SMTT(20) DEF GoodOp
<1>9. raw \in Nat /\ MetadataKey(j) \in Nat /\ raw >= MetadataKey(j)
  <2>1. raw \in Nat /\ MetadataKey(j) \in Nat
    BY <1>7, MetadataKeys, Zenon
  <2> QED
    BY <1>5, <1>8, <2>1 DEF InRange
<1>10. raw > MetadataPrefix
  BY <1>9 DEF MetadataKey, MetadataPrefix
<1>11. PICK k \in 1..MaxKey : HasPrefix(raw) /\ raw = MetadataKey(k)
  BY <1>7, <1>10, MetadataKeys, Zenon
<1>12. Reaches(b, k, view[raw].val)
  BY <1>4, <1>5, <1>11, Zenon DEF SnapOK
<1>13. x.keysOnly \in BOOLEAN
  BY <1>3, <1>6 DEF GoodOp
<1> QED
  BY <1>6, <1>11, <1>12, <1>13, ZenonT(30) DEF GoodItem

-----------------------------------------------------------------------------
(***************************************************************************)
(* The inductive invariant.  What the coordinator holds resolves because   *)
(* whatever may still reach it (the request of a handler that is staging,  *)
(* and the requests of handlers that are gone) has its blobs already.      *)
(***************************************************************************)
CoordTypes == /\ hist \in Seq([RawKeys -> KVs])
              /\ Len(hist) >= 2 /\ compacted \in 0..Len(hist) /\ leases \subseteq Leases

ShardTypes == /\ blobs \in [Shards -> [Tokens -> Values \cup {NoVal}]]
              /\ lost \subseteq Refs

HandlerTypes == /\ pc \in [Procs -> {"idle", "stage", "decode"}]
                /\ req \in [Procs -> Requests \cup {NoVal}]
                /\ staged \in [Procs -> [1..MaxOps -> Refs \cup {NoVal}]]
                /\ status \in [Procs -> {"none", "ok", "invalid", "refused", "error",
                                         "dataloss"}]

CounterTypes == /\ id \in [Procs -> Nat] /\ issued \in Nat
                /\ succeeded \in [Procs -> BOOLEAN]

LateTypes == \A m \in late : /\ m.req \in Requests
                             /\ m.staged \in [1..MaxOps -> Refs \cup {NoVal}]

LEMMA TypeParts ==
  TypeOK <=> CoordTypes /\ ShardTypes /\ HandlerTypes /\ CounterTypes /\ LateTypes
  BY Zenon DEF TypeOK, CoordTypes, ShardTypes, HandlerTypes, CounterTypes, LateTypes

StagingOK ==
  \A p \in Procs :
     /\ pc[p] = "stage" => StagedOK(blobs, req[p], staged[p])
     /\ pc[p] = "idle" => staged[p] = [i \in 1..MaxOps |-> NoVal]

LateOK ==
  \A m \in late : StagedOK(blobs, m.req, m.staged) /\ AllStaged(m.req, m.staged)

ReplyOK ==
  /\ DOMAIN reply = Procs
  /\ \A p \in Procs : \A x \in reply[p] : GoodItem(blobs, x)

IInv == /\ CoordTypes /\ ShardTypes /\ HandlerTypes /\ CounterTypes /\ LateTypes
        /\ HistOK(blobs, hist) /\ StagingOK /\ LateOK /\ ReplyOK /\ DataLossIsReal

LEMMA InitOK == Init => IInv
<1> SUFFICES ASSUME Init PROVE IInv
  BY Zenon
<1> USE DEF Init
<1> DEFINE conf == [val |-> Fingerprint, create |-> 2, mod |-> 2, version |-> 1,
                    lease |-> NoLease]
           second == [EmptySnapshot EXCEPT ![ConfigKey] = conf]
<1>1. SnapOK(blobs, EmptySnapshot)
  BY AbsentOK, MetadataKeys, Zenon DEF SnapOK, EmptySnapshot
<1>2. conf \in KVs /\ Live(conf)
  BY DEF KVs, Live
<1>3. SnapOK(blobs, second)
  <2>1. EmptySnapshot \in [RawKeys -> KVs]
    BY <1>1, Zenon DEF SnapOK
  <2>2. second \in [RawKeys -> KVs]
    BY <1>2, <2>1, MetadataKeys, Zenon
  <2>3. \A raw \in RawKeys : second[raw] = IF raw = ConfigKey THEN conf ELSE EmptySnapshot[raw]
    BY <2>1
  <2> HIDE DEF second, conf
  <2> QED
    BY <1>1, <1>2, <2>2, <2>3, MetadataKeys, Zenon DEF SnapOK
<1>4. HistOK(blobs, hist)
  <2>1. hist = <<EmptySnapshot, second>>
    BY Zenon
  <2> HIDE DEF second, Init
  <2>2. EmptySnapshot \in [RawKeys -> KVs] /\ second \in [RawKeys -> KVs]
    BY <1>1, <1>3 DEF SnapOK
  <2>3. /\ hist \in Seq([RawKeys -> KVs]) /\ Len(hist) = 2
        /\ \A r \in 1..Len(hist) : hist[r] = EmptySnapshot \/ hist[r] = second
    BY <2>1, <2>2, SMTT(20)
  <2> QED
    BY <1>1, <1>3, <2>3 DEF HistOK
<1>5. CoordTypes /\ ShardTypes /\ HandlerTypes /\ CounterTypes /\ LateTypes
  BY <1>4, BoundsAssumption
     DEF CoordTypes, ShardTypes, HandlerTypes, CounterTypes, LateTypes, HistOK
<1> QED
  BY <1>4, <1>5 DEF IInv, StagingOK, LateOK, ReplyOK, DataLossIsReal

LEMMA UnchangedOK == IInv /\ UNCHANGED vars => IInv'
  BY Zenon DEF IInv, vars, CoordTypes, ShardTypes, HandlerTypes, CounterTypes, LateTypes,
         StagingOK, LateOK, ReplyOK, DataLossIsReal

\* A handler that returns leaves nothing behind.
LEMMA FinishOK ==
  ASSUME IInv, NEW p \in Procs, NEW s \in {"ok", "invalid", "refused", "error", "dataloss"},
         s = "dataloss" => lost # {},
         Finish(p, s), UNCHANGED <<blobs, lost>>,
         req' \in [Procs -> Requests \cup {NoVal}],
         \A r \in Procs : r # p => req'[r] = req[r]
  PROVE  StagingOK' /\ ReplyOK' /\ DataLossIsReal' /\ HandlerTypes' /\ ShardTypes'
<1> USE DEF Finish
<1>1. StagingOK'
  BY DEF IInv, HandlerTypes, StagingOK
<1>2. ReplyOK'
  BY Zenon DEF IInv, ReplyOK
<1>3. DataLossIsReal'
  BY Zenon DEF IInv, HandlerTypes, DataLossIsReal
<1>4. HandlerTypes' /\ ShardTypes'
  BY Zenon DEF IInv, HandlerTypes, ShardTypes
<1> QED
  BY <1>1, <1>2, <1>3, <1>4, Zenon

LEMMA BeginOK ==
  ASSUME IInv, NEW p \in Procs, NEW q \in Requests, Begin(p, q)
  PROVE  IInv'
<1>1. /\ CoordTypes' /\ ShardTypes' /\ LateTypes' /\ LateOK' /\ HistOK(blobs', hist')
  BY DEF Begin, coordinator, shards, IInv, CoordTypes, ShardTypes, LateTypes, LateOK
<1>2. CounterTypes'
  BY DEF Begin, IInv, CounterTypes
<1>3. CASE ~Valid(q)
  <2>1. Finish(p, "invalid") /\ UNCHANGED <<blobs, lost>>
    BY <1>3, Zenon DEF Begin, shards
  <2>2. /\ req' \in [Procs -> Requests \cup {NoVal}]
        /\ \A r \in Procs : r # p => req'[r] = req[r]
    BY Zenon DEF Begin, IInv, HandlerTypes
  <2>3. StagingOK' /\ ReplyOK' /\ DataLossIsReal' /\ HandlerTypes'
    BY <2>1, <2>2, FinishOK, Zenon
  <2> QED
    BY <1>1, <1>2, <2>3 DEF IInv
<1>4. CASE Valid(q)
  <2>1. /\ pc' = [pc EXCEPT ![p] = "stage"] /\ req' = [req EXCEPT ![p] = q]
        /\ status' = [status EXCEPT ![p] = "none"]
        /\ UNCHANGED <<staged, reply, blobs, lost>> /\ pc[p] = "idle"
    BY <1>4, Zenon DEF Begin, shards
  <2>2. StagedOK(blobs, q, staged[p])
    <3>1. /\ staged[p] = [i \in 1..MaxOps |-> NoVal]
          /\ staged[p] \in [1..MaxOps -> Refs \cup {NoVal}]
      BY <2>1 DEF IInv, StagingOK, HandlerTypes
    <3>2. \A i \in 1..Len(Ops(q)) : i \in 1..MaxOps
      BY OpsOf, Zenon
    <3> QED
      BY <1>4, <3>1, <3>2, Zenon DEF StagedOK
  <2>3. StagingOK'
    BY <2>1, <2>2, Zenon DEF IInv, StagingOK, HandlerTypes
  <2>4. ReplyOK' /\ DataLossIsReal' /\ HandlerTypes'
    BY <2>1 DEF IInv, ReplyOK, DataLossIsReal, HandlerTypes
  <2> QED
    BY <1>1, <1>2, <2>3, <2>4, Zenon DEF IInv
<1> QED
  BY <1>3, <1>4

\* Blobs are only ever added, so nothing stops resolving.
Grows(b, c) == \A s \in Shards, t \in Tokens : b[s][t] # NoVal => c[s][t] # NoVal

LEMMA ReachesGrows ==
  ASSUME NEW b, NEW c, Grows(b, c)
  PROVE  /\ \A k, v : Reaches(b, k, v) => Reaches(c, k, v)
         /\ \A snap : SnapOK(b, snap) => SnapOK(c, snap)
         /\ \A h : HistOK(b, h) => HistOK(c, h)
         /\ \A q, refs : StagedOK(b, q, refs) => StagedOK(c, q, refs)
         /\ \A x : GoodItem(b, x) => GoodItem(c, x)
<1>1. \A k, v : Reaches(b, k, v) => Reaches(c, k, v)
  BY Zenon DEF Reaches, Grows, Refs
<1>2. \A snap : SnapOK(b, snap) => SnapOK(c, snap)
  BY <1>1 DEF SnapOK
<1>3. \A h : HistOK(b, h) => HistOK(c, h)
  BY <1>2, Zenon DEF HistOK
<1>4. \A q, refs : StagedOK(b, q, refs) => StagedOK(c, q, refs)
  BY <1>1, Zenon DEF StagedOK
<1>5. \A x : GoodItem(b, x) => GoodItem(c, x)
  BY <1>1, Zenon DEF GoodItem
<1> QED
  BY <1>1, <1>2, <1>3, <1>4, <1>5, Zenon

LEMMA StagePutOK ==
  ASSUME IInv, NEW p \in Procs, StagePut(p)
  PROVE  IInv'
<1>1. /\ pc[p] = "stage"
      /\ UNCHANGED <<hist, compacted, leases, lost, pc, req, id, issued, reply, status,
                     succeeded, late>>
  BY SMTT(20) DEF StagePut, coordinator
<1>2. PICK i \in Unstaged(p), t \in Tokens :
        LET o == Ops(req[p])[i]
            s == ShardOf(Routes, o.key)
        IN  /\ Fresh(t)
            /\ blobs' = [blobs EXCEPT ![s][t] = o.val]
            /\ staged' = [staged EXCEPT ![p][i] = [shard |-> s, token |-> t]]
  BY Zenon DEF StagePut
<1> DEFINE o == Ops(req[p])[i]
           s == ShardOf(Routes, o.key)
           ref == [shard |-> s, token |-> t]
<1>3. StagedOK(blobs, req[p], staged[p])
  BY <1>1 DEF IInv, StagingOK
<1>4. i \in 1..Len(Ops(req[p])) /\ i \in 1..MaxOps /\ o \in OpType
  BY <1>3, OpsOf, Zenon DEF Unstaged, StagedOK
<1>5. o.key \in Nat /\ o.val \in Values
  BY <1>4, BoundsAssumption DEF OpType
<1>6. s \in Shards
  BY <1>5, ShardOfType, Zenon
<1>7. blobs' = [blobs EXCEPT ![s][t] = o.val] /\ staged' = [staged EXCEPT ![p][i] = ref]
      /\ blobs[s][t] = NoVal
  BY <1>2, <1>6, Zenon DEF Fresh
<1> HIDE DEF o, s
<1>8. ref \in Refs
  BY <1>6, Zenon DEF Refs
<1>9. /\ blobs' \in [Shards -> [Tokens -> Values \cup {NoVal}]]
      /\ Grows(blobs, blobs') /\ blobs'[s][t] = o.val
  BY <1>5, <1>6, <1>7, SMTT(20) DEF IInv, ShardTypes, Grows
<1>10. Reaches(blobs', o.key, ref)
  BY <1>5, <1>8, <1>9, ValuesAssumption, Zenon DEF Reaches, s
<1>11. /\ HistOK(blobs', hist) /\ \A q, refs : StagedOK(blobs, q, refs) => StagedOK(blobs', q, refs)
       /\ \A x : GoodItem(blobs, x) => GoodItem(blobs', x)
  BY <1>9, ReachesGrows DEF IInv
<1>12. StagedOK(blobs', req[p], [staged[p] EXCEPT ![i] = ref])
  <2> DEFINE q == req[p]
             new == [staged[p] EXCEPT ![i] = ref]
  <2>1. StagedOK(blobs', q, staged[p])
    BY <1>3, <1>11, Zenon
  <2>2. /\ staged[p] \in [1..MaxOps -> Refs \cup {NoVal}]
        /\ \A j \in 1..Len(Ops(q)) :
              staged[p][j] # NoVal => Reaches(blobs', Ops(q)[j].key, staged[p][j])
        /\ q \in Requests /\ Valid(q)
    BY <2>1, Zenon DEF StagedOK
  <2>3. new \in [1..MaxOps -> Refs \cup {NoVal}]
    BY <1>8, <2>2, Zenon
  <2>4. \A j \in 1..Len(Ops(q)) : j \in 1..MaxOps
    BY <2>2, OpsOf, Zenon
  <2>5. \A j \in 1..Len(Ops(q)) : new[j] = IF j = i THEN ref ELSE staged[p][j]
    BY <2>2, <2>4, Zenon
  <2>6. Ops(q)[i].key = o.key
    BY Zenon DEF o
  <2> HIDE DEF new, q, ref
  <2>7. \A j \in 1..Len(Ops(q)) : new[j] # NoVal => Reaches(blobs', Ops(q)[j].key, new[j])
    BY <1>10, <2>2, <2>5, <2>6, Zenon
  <2> QED
    BY <2>2, <2>3, <2>7, Zenon DEF StagedOK, q, new
<1> HIDE DEF ref
<1>13. StagingOK'
  BY <1>1, <1>7, <1>11, <1>12, Zenon DEF IInv, StagingOK, HandlerTypes
<1>14. LateOK' /\ ReplyOK'
  BY <1>1, <1>11, Zenon DEF IInv, LateOK, ReplyOK
<1>15. ShardTypes' /\ CoordTypes' /\ LateTypes' /\ CounterTypes' /\ DataLossIsReal'
  BY <1>1, <1>9 DEF IInv, ShardTypes, CoordTypes, LateTypes, CounterTypes, DataLossIsReal
<1>16. HandlerTypes'
  BY <1>1, <1>4, <1>7, <1>8, Zenon DEF IInv, HandlerTypes
<1> QED
  BY <1>1, <1>11, <1>13, <1>14, <1>15, <1>16, Zenon DEF IInv

\* Every put of the request a handler sends has its blob.
LEMMA NothingUnstaged ==
  ASSUME NEW p, Unstaged(p) = {}
  PROVE  AllStaged(req[p], staged[p])
  BY Zenon DEF Unstaged, AllStaged

LEMMA ExtendsTypes ==
  ASSUME IInv, HistOK(blobs, hist'), Extends(hist', hist),
         compacted' = compacted, leases' \subseteq leases
  PROVE  CoordTypes'
  BY DEF IInv, CoordTypes, HistOK, Extends

LEMMA PublishOK ==
  ASSUME IInv, NEW p \in Procs, Publish(p)
  PROVE  IInv'
<1>1. /\ pc[p] = "stage" /\ Unstaged(p) = {}
      /\ UNCHANGED <<compacted, leases, blobs, lost, req, id, issued, late>>
  BY DEF Publish, shards
<1>2. /\ StagedOK(blobs, req[p], staged[p]) /\ AllStaged(req[p], staged[p])
      /\ HistOK(blobs, hist) /\ leases \subseteq Leases
  BY <1>1, NothingUnstaged, Zenon DEF IInv, StagingOK, CoordTypes
<1>3. LateOK' /\ LateTypes' /\ ShardTypes'
  BY <1>1, Zenon DEF IInv, LateOK, LateTypes, ShardTypes
<1>4. CASE Refuses(hist, compacted, leases, Sent(p))
  <2>1. Finish(p, "refused") /\ UNCHANGED <<hist, succeeded>>
    BY <1>4, Zenon DEF Publish
  <2>2. StagingOK' /\ ReplyOK' /\ DataLossIsReal' /\ HandlerTypes'
    BY <1>1, <2>1, FinishOK, Zenon DEF IInv, HandlerTypes
  <2>3. CoordTypes' /\ CounterTypes' /\ HistOK(blobs', hist')
    BY <1>1, <2>1, Zenon DEF IInv, CoordTypes, CounterTypes
  <2> QED
    BY <1>3, <2>2, <2>3, Zenon DEF IInv
<1>5. CASE ~Refuses(hist, compacted, leases, Sent(p))
  <2>1. /\ hist' = Commit(hist, Sent(p))
        /\ succeeded' = [succeeded EXCEPT ![p] = Succeeds(hist, Sent(p))]
        /\ reply' = [reply EXCEPT ![p] = Answer(hist, Sent(p))]
        /\ pc' = [pc EXCEPT ![p] = "decode"]
        /\ UNCHANGED <<staged, status>>
    BY <1>5 DEF Publish
  <2>2. HistOK(blobs, hist') /\ Extends(hist', hist)
    BY <1>2, <1>5, <2>1, CommitOK, Zenon DEF Sent
  <2>3. CoordTypes'
    BY <1>1, <2>2, ExtendsTypes, SMTT(20)
  <2>4. Succeeds(hist, Sent(p)) \in BOOLEAN
    BY Zenon DEF Succeeds
  <2>5. CounterTypes'
    BY <1>1, <2>1, <2>4, Zenon DEF IInv, CounterTypes
  <2>6. HandlerTypes' /\ DataLossIsReal'
    BY <1>1, <2>1, Zenon DEF IInv, HandlerTypes, DataLossIsReal
  <2>7. StagingOK'
    BY <1>1, <2>1 DEF IInv, HandlerTypes, StagingOK
  <2>8. \A x \in Answer(hist, Sent(p)) : GoodItem(blobs, x)
    BY <1>2, <1>5, AnswerOK, Zenon DEF Sent
  <2>9. ReplyOK'
    BY <1>1, <2>1, <2>8 DEF IInv, ReplyOK
  <2> QED
    BY <1>1, <1>3, <2>2, <2>3, <2>5, <2>6, <2>7, <2>9, Zenon DEF IInv
<1> QED
  BY <1>4, <1>5, Zenon

\* What decodeKV misses, a data shard has lost.
LEMMA DataLossMeansLost ==
  ASSUME NEW x, GoodItem(blobs, x), DataLoss(x)
  PROVE  lost # {}
  BY Zenon DEF GoodItem, DataLoss, Reaches

LEMMA DecodeKVOK ==
  ASSUME IInv, NEW p \in Procs, DecodeKV(p)
  PROVE  IInv'
<1>1. UNCHANGED <<hist, compacted, leases, blobs, lost, req, id, issued, succeeded, late>>
  BY Zenon DEF DecodeKV, coordinator, shards
<1>2. CoordTypes' /\ ShardTypes' /\ CounterTypes' /\ LateTypes' /\ LateOK' /\ HistOK(blobs', hist')
  BY <1>1, Zenon DEF IInv, CoordTypes, ShardTypes, CounterTypes, LateTypes, LateOK
<1>3. PICK x \in reply[p] :
         IF DataLoss(x) THEN Finish(p, "dataloss")
         ELSE /\ reply' = [reply EXCEPT ![p] = @ \ {x}]
              /\ UNCHANGED <<pc, staged, status>>
  BY Zenon DEF DecodeKV
<1>4. CASE DataLoss(x)
  <2>1. lost # {}
    BY <1>4, DataLossMeansLost, Zenon DEF IInv, ReplyOK
  <2>2. StagingOK' /\ ReplyOK' /\ DataLossIsReal' /\ HandlerTypes'
    BY <1>1, <1>3, <1>4, <2>1, FinishOK DEF IInv, HandlerTypes
  <2> QED
    BY <1>2, <2>2, Zenon DEF IInv
<1>5. CASE ~DataLoss(x)
  <2>1. StagingOK' /\ DataLossIsReal' /\ HandlerTypes'
    BY <1>1, <1>3, <1>5, Zenon DEF IInv, StagingOK, DataLossIsReal, HandlerTypes
  <2>2. ReplyOK'
    BY <1>1, <1>3, <1>5, Zenon DEF IInv, ReplyOK
  <2> QED
    BY <1>2, <2>1, <2>2, Zenon DEF IInv
<1> QED
  BY <1>4, <1>5, Zenon

LEMMA ReturnOK ==
  ASSUME IInv, NEW p \in Procs, Return(p)
  PROVE  IInv'
<1>1. /\ Finish(p, "ok")
      /\ UNCHANGED <<hist, compacted, leases, blobs, lost, req, id, issued, succeeded, late>>
  BY Zenon DEF Return, coordinator, shards
<1>2. StagingOK' /\ ReplyOK' /\ DataLossIsReal' /\ HandlerTypes' /\ ShardTypes'
  BY <1>1, FinishOK DEF IInv, HandlerTypes
<1>3. CoordTypes' /\ CounterTypes' /\ LateTypes' /\ LateOK' /\ HistOK(blobs', hist')
  BY <1>1, Zenon DEF IInv, CoordTypes, CounterTypes, LateTypes, LateOK
<1> QED
  BY <1>2, <1>3, Zenon DEF IInv

LEMMA GiveUpOK ==
  ASSUME IInv, NEW p \in Procs, GiveUp(p)
  PROVE  IInv'
<1>1. /\ Finish(p, "error")
      /\ UNCHANGED <<hist, compacted, leases, blobs, lost, req, id, issued, succeeded>>
  BY Zenon DEF GiveUp, coordinator, shards
<1>2. StagingOK' /\ ReplyOK' /\ DataLossIsReal' /\ HandlerTypes' /\ ShardTypes'
  BY <1>1, FinishOK, Zenon DEF IInv, HandlerTypes
<1>3. CoordTypes' /\ CounterTypes' /\ HistOK(blobs', hist')
  BY <1>1, SMTT(20) DEF IInv, CoordTypes, CounterTypes
<1>4. LateTypes' /\ LateOK'
  <2>1. CASE late' = late
    BY <1>1, <2>1, Zenon DEF IInv, LateTypes, LateOK
  <2>2. CASE /\ pc[p] = "stage" /\ Unstaged(p) = {}
             /\ late' = late \cup {[id |-> id[p], req |-> req[p], staged |-> staged[p]]}
    <3>1. /\ StagedOK(blobs, req[p], staged[p]) /\ AllStaged(req[p], staged[p])
          /\ req[p] \in Requests /\ staged[p] \in [1..MaxOps -> Refs \cup {NoVal}]
      BY <2>2, NothingUnstaged, Zenon DEF IInv, StagingOK, StagedOK
    <3> DEFINE sent == [id |-> id[p], req |-> req[p], staged |-> staged[p]]
    <3>2. sent.req = req[p] /\ sent.staged = staged[p] /\ late' = late \cup {sent}
      BY <2>2, Zenon
    <3> HIDE DEF sent
    <3>3. ASSUME NEW m \in late'
          PROVE  /\ m.req \in Requests /\ m.staged \in [1..MaxOps -> Refs \cup {NoVal}]
                 /\ StagedOK(blobs, m.req, m.staged) /\ AllStaged(m.req, m.staged)
      <4>1. CASE m \in late
        BY <4>1, Zenon DEF IInv, LateTypes, LateOK
      <4>2. CASE m = sent
        BY <3>1, <3>2, <4>2, Zenon
      <4> QED
        BY <3>2, <3>3, <4>1, <4>2, SMTT(20)
    <3> QED
      BY <1>1, <3>3, Zenon DEF LateTypes, LateOK
  <2> QED
    BY <2>1, <2>2, Zenon DEF GiveUp
<1> QED
  BY <1>2, <1>3, <1>4 DEF IInv

LEMMA PublishLateOK ==
  ASSUME IInv, NEW m \in late, PublishLate(m)
  PROVE  IInv'
<1>1. /\ hist' = IF Refuses(hist, compacted, leases, Encode(m.req, m.staged))
                 THEN hist ELSE Commit(hist, Encode(m.req, m.staged))
      /\ late' = late \ {m}
      /\ UNCHANGED <<compacted, leases, blobs, lost, pc, req, id, issued, staged, reply,
                     succeeded, status>>
  BY Zenon DEF PublishLate, shards
<1>2. /\ StagedOK(blobs, m.req, m.staged) /\ AllStaged(m.req, m.staged)
      /\ HistOK(blobs, hist) /\ leases \subseteq Leases
  BY Zenon DEF IInv, LateOK, CoordTypes
<1>3. HistOK(blobs, hist') /\ Extends(hist', hist)
  <2>1. Extends(hist, hist)
    BY <1>2, LastOK DEF Extends
  <2> QED
    BY <1>1, <1>2, <2>1, CommitOK, Zenon
<1>4. CoordTypes'
  BY <1>1, <1>3, ExtendsTypes
<1>5. /\ ShardTypes' /\ CounterTypes' /\ HandlerTypes' /\ LateTypes' /\ LateOK'
      /\ StagingOK' /\ ReplyOK' /\ DataLossIsReal'
  BY <1>1, Zenon DEF IInv, ShardTypes, CounterTypes, HandlerTypes, LateTypes, LateOK,
              StagingOK, ReplyOK, DataLossIsReal
<1> QED
  BY <1>1, <1>3, <1>4, <1>5, Zenon DEF IInv

LEMMA DropOK ==
  ASSUME IInv, NEW m \in late, Drop(m)
  PROVE  IInv'
  BY Zenon DEF IInv, Drop, coordinator, shards, CoordTypes, ShardTypes, CounterTypes,
         HandlerTypes, LateTypes, LateOK, StagingOK, ReplyOK, DataLossIsReal

LEMMA CompactOK ==
  ASSUME IInv, NEW r \in CompactRevs, Compact(r)
  PROVE  IInv'
<1>1. CoordTypes'
  BY BoundsAssumption DEF IInv, Compact, CoordTypes
<1> QED
  BY <1>1, Zenon DEF IInv, Compact, shards, handlers, ShardTypes, CounterTypes,
              HandlerTypes, LateTypes, LateOK, StagingOK, ReplyOK, DataLossIsReal

LEMMA LeaseGrantOK ==
  ASSUME IInv, NEW l \in Leases, LeaseGrant(l)
  PROVE  IInv'
<1>1. CoordTypes'
  BY DEF IInv, LeaseGrant, CoordTypes
<1> QED
  BY <1>1, Zenon DEF IInv, LeaseGrant, shards, handlers, ShardTypes, CounterTypes,
              HandlerTypes, LateTypes, LateOK, StagingOK, ReplyOK, DataLossIsReal

LEMMA LeaseEndOK ==
  ASSUME IInv, NEW l \in Leases, LeaseEnd(l)
  PROVE  IInv'
<1>1. HistOK(blobs, hist') /\ Extends(hist', hist)
  BY DropLeaseOK, Zenon DEF IInv, LeaseEnd
<1>2. CoordTypes'
  BY <1>1, ExtendsTypes DEF LeaseEnd
<1> QED
  BY <1>1, <1>2, Zenon DEF IInv, LeaseEnd, shards, handlers, ShardTypes, CounterTypes,
                    HandlerTypes, LateTypes, LateOK, StagingOK, ReplyOK, DataLossIsReal

LEMMA LoseBlobOK ==
  ASSUME IInv, NEW s \in Shards, NEW t \in Tokens, LoseBlob(s, t)
  PROVE  IInv'
<1>1. /\ lost' = lost \cup {[shard |-> s, token |-> t]}
      /\ UNCHANGED <<hist, compacted, leases, blobs>> /\ UNCHANGED handlers
  BY Zenon DEF LoseBlob, coordinator
<1>2. ShardTypes'
  BY <1>1 DEF IInv, ShardTypes, Refs
<1>3. DataLossIsReal'
  BY <1>1, Zenon DEF DataLossIsReal
<1> QED
  BY <1>1, <1>2, <1>3, Zenon DEF IInv, handlers, CoordTypes, CounterTypes, HandlerTypes,
                          LateTypes, LateOK, StagingOK, ReplyOK

LEMMA NextOK == IInv /\ [Next]_vars => IInv'
<1> SUFFICES ASSUME IInv, [Next]_vars PROVE IInv'
  OBVIOUS
<1>1. CASE \E p \in Procs : (\E q \in Requests : Begin(p, q)) \/ Step(p) \/ GiveUp(p)
  BY <1>1, BeginOK, StagePutOK, PublishOK, DecodeKVOK, ReturnOK, GiveUpOK DEF Step
<1>2. CASE \E m \in late : PublishLate(m) \/ Drop(m)
  BY <1>2, PublishLateOK, DropOK
<1>3. CASE \E r \in CompactRevs : Compact(r)
  BY <1>3, CompactOK, Zenon
<1>4. CASE \E l \in Leases : LeaseGrant(l) \/ LeaseEnd(l)
  BY <1>4, LeaseGrantOK, LeaseEndOK, Zenon
<1>5. CASE \E s \in Shards, t \in Tokens : LoseBlob(s, t)
  BY <1>5, LoseBlobOK, Zenon
<1>6. CASE UNCHANGED vars
  BY <1>6, UnchangedOK
<1> QED
  BY <1>1, <1>2, <1>3, <1>4, <1>5, <1>6, Zenon DEF Next

LEMMA InvariantHolds == Spec => []IInv
  BY InitOK, NextOK, PTL DEF Spec
-----------------------------------------------------------------------------
(***************************************************************************)
(* Theorems.                                                               *)
(***************************************************************************)
\* Coordinated mode stays within its types: in particular only references and
\* the fingerprint are ever stored in the coordinator, never a user's value.
THEOREM TypesHold == Spec => []TypeOK
<1>1. IInv => TypeOK
  BY TypeParts DEF IInv
<1> QED
  BY <1>1, InvariantHolds, PTL

\* stagePut before forwardUnary: whatever handlers crash, time out or are
\* overtaken by late commits, every reference published has its blob, in the
\* data shard its key is routed to.
THEOREM ReferencesAlwaysResolve == Spec => []ReferencesResolve
<1>1. IInv => ReferencesResolve
  BY Zenon DEF IInv, HistOK, SnapOK, Reaches, ReferencesResolve, Resolves
<1> QED
  BY <1>1, InvariantHolds, PTL

\* decodeKV returns codes.DataLoss only if a data shard lost a blob.
THEOREM DataLossIsAlwaysReal == Spec => []DataLossIsReal
<1>1. IInv => DataLossIsReal
  BY Zenon DEF IInv
<1> QED
  BY <1>1, InvariantHolds, PTL
-----------------------------------------------------------------------------
(***************************************************************************)
(* How the history kept by the coordinator may change.                     *)
(***************************************************************************)
\* The coordinator commits a request that was validated and staged in full.
Commits(q, refs) ==
  /\ StagedOK(blobs, q, refs) /\ AllStaged(q, refs)
  /\ ~Refuses(hist, compacted, leases, Encode(q, refs))
  /\ hist' = Commit(hist, Encode(q, refs))

\* The three ways the coordinator can change in one step.
LEMMA CoordinatorSteps ==
  ASSUME IInv, [Next]_vars
  PROVE  \/ hist' = hist
         \/ \E q, refs : Commits(q, refs)
         \/ \E l \in leases : leases' = leases \ {l} /\ hist' = DropLease(hist, l)
<1>1. ASSUME NEW p \in Procs, Publish(p)
      PROVE  hist' = hist \/ \E q, refs : Commits(q, refs)
  <2>1. /\ StagedOK(blobs, req[p], staged[p]) /\ AllStaged(req[p], staged[p])
    BY <1>1, NothingUnstaged, Zenon DEF IInv, StagingOK, Publish
  <2>2. \/ hist' = hist
        \/ /\ ~Refuses(hist, compacted, leases, Encode(req[p], staged[p]))
           /\ hist' = Commit(hist, Encode(req[p], staged[p]))
    BY <1>1, Zenon DEF Publish, Sent
  <2> QED
    BY <2>1, <2>2, Zenon DEF Commits
<1>2. ASSUME NEW m \in late, PublishLate(m)
      PROVE  hist' = hist \/ \E q, refs : Commits(q, refs)
  <2>1. /\ StagedOK(blobs, m.req, m.staged) /\ AllStaged(m.req, m.staged)
    BY Zenon DEF IInv, LateOK
  <2>2. \/ hist' = hist
        \/ /\ ~Refuses(hist, compacted, leases, Encode(m.req, m.staged))
           /\ hist' = Commit(hist, Encode(m.req, m.staged))
    BY <1>2, Zenon DEF PublishLate
  <2> QED
    BY <2>1, <2>2, Zenon DEF Commits
<1>3. ASSUME NEW l \in Leases, LeaseEnd(l)
      PROVE  \E k \in leases : leases' = leases \ {k} /\ hist' = DropLease(hist, k)
  BY <1>3 DEF LeaseEnd
<1>4. ASSUME NEW p \in Procs,
             \/ \E q \in Requests : Begin(p, q)
             \/ StagePut(p) \/ DecodeKV(p) \/ Return(p) \/ GiveUp(p)
      PROVE  hist' = hist
  BY <1>4, Zenon DEF Begin, StagePut, DecodeKV, Return, GiveUp, coordinator
<1>5. ASSUME \/ \E m \in late : Drop(m)
             \/ \E r \in CompactRevs : Compact(r)
             \/ \E l \in Leases : LeaseGrant(l)
             \/ \E s \in Shards, t \in Tokens : LoseBlob(s, t)
             \/ UNCHANGED vars
      PROVE  hist' = hist
  BY <1>5, Zenon DEF Drop, Compact, LeaseGrant, LoseBlob, coordinator, vars
<1> QED
  BY <1>1, <1>2, <1>3, <1>4, <1>5 DEF Next, Step

\* A blob, once written, is never overwritten.
LEMMA BlobsKept ==
  ASSUME IInv, [Next]_vars
  PROVE  \A s \in Shards, t \in Tokens : blobs[s][t] # NoVal => blobs'[s][t] = blobs[s][t]
<1>1. ASSUME NEW p \in Procs, StagePut(p)
      PROVE  \A s \in Shards, t \in Tokens : blobs[s][t] # NoVal => blobs'[s][t] = blobs[s][t]
  <2>1. PICK i \in Unstaged(p), t \in Tokens :
          /\ Fresh(t)
          /\ blobs' = [blobs EXCEPT ![ShardOf(Routes, Ops(req[p])[i].key)][t] = Ops(req[p])[i].val]
    BY <1>1, Zenon DEF StagePut
  <2> QED
    BY <2>1 DEF Fresh, IInv, ShardTypes
<1>2. ASSUME NEW p \in Procs,
             \/ \E q \in Requests : Begin(p, q)
             \/ Publish(p) \/ DecodeKV(p) \/ Return(p) \/ GiveUp(p)
      PROVE  blobs' = blobs
  BY <1>2, ZenonT(30) DEF Begin, Publish, DecodeKV, Return, GiveUp, shards
<1>3. ASSUME \/ \E m \in late : PublishLate(m) \/ Drop(m)
             \/ \E r \in CompactRevs : Compact(r)
             \/ \E l \in Leases : LeaseGrant(l) \/ LeaseEnd(l)
             \/ \E s \in Shards, t \in Tokens : LoseBlob(s, t)
             \/ UNCHANGED vars
      PROVE  blobs' = blobs
  BY <1>3 DEF PublishLate, Drop, Compact, LeaseGrant, LeaseEnd, LoseBlob, shards, vars
<1> QED
  BY <1>1, <1>2, <1>3, Zenon DEF Next, Step

\* What a user sees of a KeyValue.
LEMMA UserKVFacts ==
  ASSUME NEW kv \in KVs
  PROVE  LET u == UserKV(kv)
         IN  /\ u = [val |-> Resolve(kv.val), create |-> kv.create, mod |-> kv.mod,
                     version |-> kv.version, lease |-> kv.lease]
             /\ Live(u) <=> Live(kv)
  BY DEF UserKV, KVs, Live

\* Neither the coordinator's history nor a blob it refers to ever changes.
LEMMA PastKept ==
  ASSUME IInv, [Next]_vars
  PROVE  \A r \in 1..Len(hist) : UserHist'[r] = UserHist[r]
<1>1. HistOK(blobs, hist) /\ leases \subseteq Leases
  BY Zenon DEF IInv, CoordTypes
<1>2. Extends(hist', hist)
  <2>1. Extends(hist, hist)
    BY <1>1, LastOK DEF Extends
  <2>2. ASSUME NEW q, NEW refs, Commits(q, refs) PROVE Extends(hist', hist)
    BY <1>1, <2>2, CommitOK, Zenon DEF Commits
  <2> QED
    BY <1>1, <2>1, <2>2, CoordinatorSteps, DropLeaseOK, Zenon
<1>3. Len(hist) \in Nat /\ Len(hist') \in Nat
  <2>1. hist \in Seq([RawKeys -> KVs]) /\ hist' \in Seq([RawKeys -> KVs])
    BY NextOK, Zenon DEF IInv, HistOK
  <2> QED
    BY <2>1
<1>4. ASSUME NEW r \in 1..Len(hist), NEW k \in 1..MaxKey
      PROVE  UserKV(hist[r][MetadataKey(k)])' = UserKV(hist[r][MetadataKey(k)])
  <2> DEFINE kv == hist[r][MetadataKey(k)]
  <2>1. hist'[r] = hist[r]
    BY <1>2, SMTT(20) DEF Extends
  <2>2. kv.val \in Refs => Reaches(blobs, k, kv.val)
    BY <1>1, MetadataKeys, ValuesAssumption, Zenon DEF HistOK, SnapOK
  <2>3. kv.val \in Refs =>
          blobs'[kv.val.shard][kv.val.token] = blobs[kv.val.shard][kv.val.token]
    BY <2>2, BlobsKept, Zenon DEF Reaches, Refs
  <2> QED
    BY <2>1, <2>3, Zenon DEF UserKV, Resolve
<1>5. \A r \in 1..Len(hist) : r \in 1..Len(hist')
  <2>1. Len(hist') >= Len(hist)
    BY <1>2, Zenon DEF Extends
  <2> QED
    BY <1>3, <2>1
<1> QED
  BY <1>4, <1>5, Zenon DEF UserHist

\* A historical read of a revision gives the same answer whenever it is made.
THEOREM PastIsAlwaysImmutable == Spec => PastIsImmutable
  BY PastKept, InvariantHolds, PTL DEF Spec, PastIsImmutable

-----------------------------------------------------------------------------
\* Prefixing the keys of a range keeps what is in it.
LEMMA MetadataRange ==
  ASSUME NEW k \in 1..MaxKey, NEW key \in 1..MaxKey, NEW end \in 0..MaxKey
  PROVE  InRange(MetadataKey(k), MetadataKey(key), MetadataRangeEnd(end)) <=> InRange(k, key, end)
  BY BoundsAssumption, SMTT(20)
     DEF InRange, MetadataKey, MetadataRangeEnd, MetadataPrefix, MetadataEnd, Empty, NoEnd

\* A key a branch changes is put by it or deleted by it.
LEMMA ChangedBy ==
  ASSUME NEW snap, NEW ops, NEW n, NEW r, NEW raw \in DOMAIN snap,
         After(snap, ops, n, r)[raw] # snap[raw]
  PROVE  \E i \in 1..n : \/ ops[i].op = "put" /\ ops[i].key = raw
                         \/ ops[i].op = "delete" /\ InRange(raw, ops[i].key, ops[i].end)
  BY DEF After, PutsOf, Deletes

LEMMA LastOfCommit ==
  ASSUME NEW b, NEW h, HistOK(b, h), NEW t,
         NEW raw \in RawKeys, Last(Commit(h, t))[raw] # Last(h)[raw]
  PROVE  LET ops == Branch(h, t)
         IN  \E i \in 1..Len(ops) : \/ ops[i].op = "put" /\ ops[i].key = raw
                                    \/ /\ ops[i].op = "delete"
                                       /\ InRange(raw, ops[i].key, ops[i].end)
<1> DEFINE ops == Branch(h, t)
           new == After(Last(h), ops, Len(ops), Len(h) + 1)
<1>1. h \in Seq([RawKeys -> KVs]) /\ Len(h) \in Nat /\ SnapOK(b, Last(h))
  BY LastOK, Zenon DEF HistOK
<1>2. Commit(h, t) = Append(h, new) \/ Commit(h, t) = h
  BY Zenon DEF Commit
<1> HIDE DEF new
<1>3. Last(Append(h, new)) = new
  BY <1>1 DEF Last
<1>4. new[raw] # Last(h)[raw] /\ raw \in DOMAIN Last(h)
  BY <1>1, <1>2, <1>3, Zenon DEF SnapOK
<1>5. After(Last(h), ops, Len(ops), Len(h) + 1)[raw] # Last(h)[raw]
  BY <1>4, Zenon DEF new
<1> HIDE DEF ops
<1>6. \E i \in 1..Len(ops) : \/ ops[i].op = "put" /\ ops[i].key = raw
                             \/ ops[i].op = "delete" /\ InRange(raw, ops[i].key, ops[i].end)
  BY <1>4, <1>5, ChangedBy, Zenon
<1> QED
  BY <1>6, Zenon DEF ops

\* A mutation of a valid request stays in the shard of its key.
LEMMA MutationInShard ==
  ASSUME NEW q \in Requests, Valid(q), NEW ref, NEW j \in 1..Len(Ops(q)), NEW k \in 1..MaxKey,
         LET e == EncodeOp(Ops(q)[j], ref)
         IN  \/ e.op = "put" /\ e.key = MetadataKey(k)
             \/ e.op = "delete" /\ InRange(MetadataKey(k), e.key, e.end)
  PROVE  IsMutation(Ops(q)[j]) /\ Owns(Routes[ShardOf(Routes, Ops(q)[j].key)], k)
<1> DEFINE o == Ops(q)[j]
           e == EncodeOp(o, ref)
<1>1. o \in OpType /\ ValidOp(o)
  BY OpsOf, Zenon DEF Valid
<1> HIDE DEF o
<1>2. e.op = o.op /\ e.key = MetadataKey(o.key) /\ e.end = MetadataRangeEnd(o.end)
  BY <1>1, Zenon DEF EncodeOp, OpType
<1>3. o.key \in 0..MaxKey /\ o.end \in 0..MaxKey /\ (o.op \in {"put", "delete"} => o.key # 0)
  BY <1>1 DEF OpType, ValidOp, ValidPut, MutationAllowed, Empty
<1>4. \/ o.op = "put" /\ MetadataKey(o.key) = MetadataKey(k)
      \/ o.op = "delete" /\ InRange(MetadataKey(k), MetadataKey(o.key), MetadataRangeEnd(o.end))
  BY <1>2, Zenon DEF o
<1>5. o.key \in 1..MaxKey /\ o.key \in Nat \ {0} /\ o.end \in Nat /\ k \in Nat
  BY <1>3, <1>4, BoundsAssumption
<1>6. ShardOf(Routes, o.key) \in 1..Len(Routes)
  BY <1>5, ShardOfType, Zenon DEF Shards
<1>7. CASE o.op = "put" /\ MetadataKey(o.key) = MetadataKey(k)
  <2>1. o.key = k
    BY <1>5, <1>7 DEF MetadataKey, MetadataPrefix
  <2> QED
    BY <1>5, <1>6, <1>7, <2>1, RoutesAreGood, OneOwner, Zenon DEF IsMutation, o
<1>8. CASE o.op = "delete" /\ InRange(MetadataKey(k), MetadataKey(o.key), MetadataRangeEnd(o.end))
  <2>1. InRange(k, o.key, o.end)
    BY <1>3, <1>5, <1>8, MetadataRange, Zenon
  <2>2. MutationAllowed(Routes, o.key, o.end)
    BY <1>1, <1>8, Zenon DEF ValidOp
  <2> QED
    BY <1>5, <1>8, <2>1, <2>2, RoutesAreGood, MutationAllowedIsExact, Zenon DEF IsMutation, o
<1> QED
  BY <1>4, <1>7, <1>8, Zenon

LEMMA CommitInOneShard ==
  ASSUME NEW b, NEW h, HistOK(b, h), NEW q, NEW refs, StagedOK(b, q, refs)
  PROVE  \E s \in Shards : \A k \in 1..MaxKey :
            Last(Commit(h, Encode(q, refs)))[MetadataKey(k)] # Last(h)[MetadataKey(k)]
              => Owns(Routes[s], k)
<1> DEFINE n == Len(Ops(q))
           new == Last(Commit(h, Encode(q, refs)))
<1>1. q \in Requests /\ Valid(q)
  BY Zenon DEF StagedOK
<1>2. ASSUME NEW k \in 1..MaxKey, new[MetadataKey(k)] # Last(h)[MetadataKey(k)]
      PROVE  \E j \in 1..n : /\ IsMutation(Ops(q)[j])
                             /\ Owns(Routes[ShardOf(Routes, Ops(q)[j].key)], k)
  <2> DEFINE ops == Branch(h, Encode(q, refs))
             Changes(e) == \/ e.op = "put" /\ e.key = MetadataKey(k)
                           \/ e.op = "delete" /\ InRange(MetadataKey(k), e.key, e.end)
  <2>1. MetadataKey(k) \in RawKeys
    BY MetadataKeys
  <2>2. PICK i \in 1..Len(ops) : Changes(ops[i])
    BY <1>2, <2>1, LastOfCommit, Zenon
  <2>3. PICK j \in 1..n : ops[i] = EncodeOp(Ops(q)[j], refs[j])
    BY <1>1, BranchOps
  <2>4. Changes(EncodeOp(Ops(q)[j], refs[j]))
    BY <2>2, <2>3, ZenonT(30)
  <2>5. IsMutation(Ops(q)[j]) /\ Owns(Routes[ShardOf(Routes, Ops(q)[j].key)], k)
    BY <1>1, <2>4, MutationInShard, Zenon
  <2> QED
    BY <2>5, Zenon
<1> HIDE DEF new
<1>3. CASE \E i \in 1..n : IsMutation(Ops(q)[i])
  <2>1. PICK i \in 1..n : IsMutation(Ops(q)[i])
    BY <1>3
  <2> DEFINE s == ShardOf(Routes, Ops(q)[i].key)
  <2>2. Ops(q)[i] \in OpType
    BY <1>1, OpsOf, Zenon
  <2>3. Ops(q)[i].key \in Nat
    BY <2>2, BoundsAssumption DEF OpType
  <2>4. s \in Shards
    BY <2>3, ShardOfType
  <2>5. \A j \in 1..n : IsMutation(Ops(q)[j]) => ShardOf(Routes, Ops(q)[j].key) = s
    BY <1>1, <2>1, Zenon DEF Valid, SameShard
  <2> HIDE DEF n, s
  <2>6. \A k \in 1..MaxKey : new[MetadataKey(k)] # Last(h)[MetadataKey(k)] => Owns(Routes[s], k)
    BY <1>2, <2>5, Zenon
  <2> QED
    BY <2>4, <2>6, Zenon DEF new
<1>4. CASE ~\E i \in 1..n : IsMutation(Ops(q)[i])
  <2>1. 1 \in Shards
    BY RoutesAssumption DEF Shards
  <2> QED
    BY <1>2, <1>4, <2>1, Zenon DEF new
<1> QED
  BY <1>3, <1>4, Zenon

\* mutationShard and the shard check of Txn: one revision never mixes changes
\* of two shards, unless a lease ended.
THEOREM RevisionsAlwaysChangeOneShard == Spec => RevisionsChangeOneShard
<1> DEFINE P == leases' = leases /\ Len(hist') > Len(hist) =>
                  \E i \in Shards : \A k \in 1..MaxKey :
                     Last(hist')[MetadataKey(k)] # Last(hist)[MetadataKey(k)]
                       => Owns(Routes[i], k)
<1>1. ASSUME IInv, [Next]_vars PROVE P
  <2>1. HistOK(blobs, hist) /\ Len(hist) \in Nat
    BY <1>1, LastOK, Zenon DEF IInv
  <2>2. CASE hist' = hist
    BY <2>1, <2>2
  <2>3. ASSUME NEW q, NEW refs, Commits(q, refs) PROVE P
    BY <2>1, <2>3, CommitInOneShard DEF Commits
  <2>4. CASE \E l \in leases : leases' = leases \ {l} /\ hist' = DropLease(hist, l)
    BY <2>4, SMTT(20)
  <2> QED
    BY <1>1, <2>2, <2>3, <2>4, CoordinatorSteps, Zenon
<1> QED
  BY <1>1, InvariantHolds, PTL DEF Spec, RevisionsChangeOneShard

\* Keys under CoordinatedMetadataPrefix do not reach the fingerprint.
LEMMA CommitKeepsConfig ==
  ASSUME NEW b, NEW h, HistOK(b, h), NEW q, NEW refs, StagedOK(b, q, refs), AllStaged(q, refs)
  PROVE  Last(Commit(h, Encode(q, refs)))[ConfigKey] = Last(h)[ConfigKey]
<1> DEFINE ops == Branch(h, Encode(q, refs))
<1> SUFFICES ASSUME Last(Commit(h, Encode(q, refs)))[ConfigKey] # Last(h)[ConfigKey]
             PROVE  FALSE
  OBVIOUS
<1>1. PICK i \in 1..Len(ops) : \/ ops[i].op = "put" /\ ops[i].key = ConfigKey
                               \/ /\ ops[i].op = "delete"
                                  /\ InRange(ConfigKey, ops[i].key, ops[i].end)
  BY MetadataKeys, LastOfCommit, Zenon
<1>2. \A j \in 1..Len(ops) : GoodOp(b, ops[j])
  BY EncodeGood, Zenon
<1> HIDE DEF ops
<1>3. PICK k \in 1..MaxKey : ops[i].key = MetadataKey(k)
  BY <1>2, Zenon DEF GoodOp
<1> QED
  BY <1>1, <1>3, BoundsAssumption DEF InRange, MetadataKey, MetadataPrefix, ConfigKey

LEMMA DropLeaseKeepsConfig ==
  ASSUME NEW b, NEW h, HistOK(b, h), Last(h)[ConfigKey].lease = NoLease, NEW l \in Leases
  PROVE  Last(DropLease(h, l))[ConfigKey] = Last(h)[ConfigKey]
<1> DEFINE snap == Last(h)
           new  == [k \in DOMAIN snap |-> IF k \in LeaseKeys(snap, l) THEN Absent ELSE snap[k]]
<1>1. /\ h \in Seq([RawKeys -> KVs]) /\ Len(h) \in Nat /\ ConfigKey \in DOMAIN snap
  BY LastOK, MetadataKeys, Zenon DEF HistOK, SnapOK
<1>2. ConfigKey \notin LeaseKeys(snap, l)
  BY BoundsAssumption, Zenon DEF LeaseKeys
<1>3. new[ConfigKey] = snap[ConfigKey]
  BY <1>1, <1>2
<1>4. DropLease(h, l) = h \/ DropLease(h, l) = Append(h, new)
  BY DEF DropLease
<1> HIDE DEF new
<1>5. Last(Append(h, new)) = new
  BY <1>1 DEF Last
<1> QED
  BY <1>3, <1>4, <1>5, Zenon

\* The fingerprint is attached to no lease, so that none takes it away.
NotLeased == Last(hist)[ConfigKey].lease = NoLease

LEMMA ConfigKept ==
  ASSUME IInv, NotLeased, [Next]_vars
  PROVE  Last(hist')[ConfigKey] = Last(hist)[ConfigKey]
<1>1. HistOK(blobs, hist) /\ leases \subseteq Leases
  BY Zenon DEF IInv, CoordTypes
<1>2. ASSUME NEW q, NEW refs, Commits(q, refs)
      PROVE  Last(hist')[ConfigKey] = Last(hist)[ConfigKey]
  BY <1>1, <1>2, CommitKeepsConfig DEF Commits
<1>3. ASSUME NEW l \in leases, hist' = DropLease(hist, l)
      PROVE  Last(hist')[ConfigKey] = Last(hist)[ConfigKey]
  BY <1>1, <1>3, DropLeaseKeepsConfig DEF NotLeased
<1> QED
  BY <1>2, <1>3, CoordinatorSteps, Zenon

LEMMA NeverLeased == Spec => []NotLeased
<1>1. Init => NotLeased
  BY MetadataKeys DEF Init, Last, EmptySnapshot, NotLeased
<1>2. IInv /\ NotLeased /\ [Next]_vars => NotLeased'
  BY ConfigKept DEF NotLeased
<1> QED
  BY <1>1, <1>2, InvariantHolds, PTL DEF Spec

\* No request, of whatever range, and no lease reaches the routing fingerprint
\* that NewCoordinatedProxy of the next replica will compare with.
THEOREM FingerprintAlwaysUntouched == Spec => FingerprintUntouched
  BY ConfigKept, InvariantHolds, NeverLeased, PTL DEF Spec, FingerprintUntouched
=============================================================================
