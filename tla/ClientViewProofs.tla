-------------------------- MODULE ClientViewProofs --------------------------
(***************************************************************************)
(* CoordinatedProxy implements AtomicKV, for any number of handlers,       *)
(* shards, keys and tokens and requests of any shape.                      *)
(*                                                                         *)
(* The coordinator executes the encoded request on prefixed keys and       *)
(* references; AtomicKV executes the user's request on user keys and       *)
(* values.  The first part shows that the two commute with the view of a   *)
(* user, operator by operator of Etcd; the second that every step of       *)
(* CoordinatedProxy is a step of AtomicKV, or none.                        *)
(***************************************************************************)
EXTENDS ClientView, CoordinatedProxyProofs, FiniteSetTheorems

\* What a user sees of a snapshot.
UserSnap(snap) == [k \in 1..MaxKey |-> UserKV(snap[MetadataKey(k)])]

UserView(h) == [r \in 1..Len(h) |-> UserSnap(h[r])]

\* e is what the proxy sends for the operation o.
Mirrors(e, o) ==
  /\ o \in OpType /\ o.key \in 1..MaxKey
  /\ e.op = o.op /\ e.key = MetadataKey(o.key) /\ e.end = MetadataRangeEnd(o.end)
  /\ e.lease = o.lease /\ e.ignoreValue = o.ignoreValue
  /\ e.ignoreLease = o.ignoreLease /\ e.prevKv = o.prevKv
  /\ e.keysOnly = o.keysOnly /\ e.rev = o.rev /\ e.limit = o.limit
  /\ NeedsBlob(o) => Resolve(e.val) = o.val

AllMirror(es, os) ==
  Len(os) \in Nat /\ Len(es) = Len(os) /\ \A i \in 1..Len(os) : Mirrors(es[i], os[i])

LEMMA UserAbsent == UserKV(Absent) = Absent
  BY ValuesAssumption, Zenon DEF UserKV, Absent, Resolve

\* The keys that a range finds, for the coordinator and for the user.
LEMMA HitsMirror ==
  ASSUME NEW snap \in [RawKeys -> KVs], NEW key \in 1..MaxKey, NEW end \in 0..MaxKey
  PROVE  /\ Hits(UserSnap(snap), key, end) \subseteq 1..MaxKey
         /\ Hits(snap, MetadataKey(key), MetadataRangeEnd(end))
              = {MetadataKey(k) : k \in Hits(UserSnap(snap), key, end)}
<1> DEFINE user == UserSnap(snap)
<1>1. DOMAIN user = 1..MaxKey /\ DOMAIN snap = RawKeys
  BY Zenon DEF UserSnap
<1>2. ASSUME NEW k \in 1..MaxKey
      PROVE  /\ MetadataKey(k) \in RawKeys
             /\ Live(user[k]) <=> Live(snap[MetadataKey(k)])
             /\ InRange(MetadataKey(k), MetadataKey(key), MetadataRangeEnd(end))
                  <=> InRange(k, key, end)
  <2>1. MetadataKey(k) \in RawKeys /\ snap[MetadataKey(k)] \in KVs
    BY MetadataKeys, Zenon
  <2>2. user[k] = UserKV(snap[MetadataKey(k)])
    BY Zenon DEF UserSnap
  <2> QED
    BY <2>1, <2>2, UserKVFacts, MetadataRange
<1>3. ASSUME NEW raw \in RawKeys, InRange(raw, MetadataKey(key), MetadataRangeEnd(end))
      PROVE  \E k \in 1..MaxKey : raw = MetadataKey(k)
  <2>1. raw \in Nat /\ MetadataKey(key) \in Nat /\ MetadataKey(key) > MetadataPrefix
    BY MetadataKeys, BoundsAssumption DEF MetadataKey, MetadataPrefix
  <2>2. raw >= MetadataKey(key)
    BY <1>3, <2>1 DEF InRange
  <2>3. raw > MetadataPrefix
    BY <2>1, <2>2 DEF MetadataPrefix
  <2> QED
    BY <2>3, MetadataKeys, Zenon
<1> HIDE DEF user
<1>4. Hits(user, key, end) \subseteq 1..MaxKey
  BY <1>1, Zenon DEF Hits
<1>5. Hits(snap, MetadataKey(key), MetadataRangeEnd(end))
        = {MetadataKey(k) : k \in Hits(user, key, end)}
  BY <1>1, <1>2, <1>3, Zenon DEF Hits
<1> QED
  BY <1>4, <1>5, Zenon DEF user

LEMMA PutsMirror ==
  ASSUME NEW es, NEW os, AllMirror(es, os), NEW n \in 0..Len(os), NEW k \in 1..MaxKey
  PROVE  /\ PutsOf(es, n, MetadataKey(k)) = PutsOf(os, n, k)
         /\ Deletes(es, n, MetadataKey(k)) <=> Deletes(os, n, k)
<1>1. \A i \in 1..n : i \in 1..Len(os)
  BY DEF AllMirror
<1>2. ASSUME NEW i \in 1..n
      PROVE  /\ es[i].op = os[i].op
             /\ es[i].key = MetadataKey(k) <=> os[i].key = k
             /\ InRange(MetadataKey(k), es[i].key, es[i].end) <=> InRange(k, os[i].key, os[i].end)
  <2>1. Mirrors(es[i], os[i])
    BY <1>1, Zenon DEF AllMirror
  <2>2. os[i].key \in 1..MaxKey /\ os[i].end \in 0..MaxKey
    BY <2>1, Zenon DEF Mirrors, OpType
  <2>3. es[i].key = MetadataKey(os[i].key) /\ es[i].end = MetadataRangeEnd(os[i].end)
    BY <2>1, Zenon DEF Mirrors
  <2>4. MetadataKey(os[i].key) = MetadataKey(k) <=> os[i].key = k
    BY <2>2, BoundsAssumption DEF MetadataKey, MetadataPrefix
  <2> QED
    BY <2>1, <2>2, <2>3, <2>4, MetadataRange DEF Mirrors
<1> QED
  BY <1>2, Zenon DEF PutsOf, Deletes

\* A put of a reference is the put of the value it stands for.
LEMMA PutMirror ==
  ASSUME NEW old \in KVs, NEW e, NEW o, Mirrors(e, o), o.op = "put", NEW r
  PROVE  UserKV(PutKV(old, e, r)) = PutKV(UserKV(old), o, r)
<1>1. /\ UserKV(old) = [val |-> Resolve(old.val), create |-> old.create, mod |-> old.mod,
                        version |-> old.version, lease |-> old.lease]
      /\ Live(UserKV(old)) <=> Live(old)
  BY UserKVFacts, Zenon
<1>2. /\ e.ignoreValue = o.ignoreValue /\ e.ignoreLease = o.ignoreLease /\ e.lease = o.lease
      /\ o.ignoreValue \in BOOLEAN /\ (~o.ignoreValue => Resolve(e.val) = o.val)
  BY Zenon DEF Mirrors, NeedsBlob, OpType
<1>3. UserKV(PutKV(old, e, r)) =
        [val     |-> Resolve(IF e.ignoreValue THEN old.val ELSE e.val),
         create  |-> IF Live(old) THEN old.create ELSE r,
         mod     |-> r,
         version |-> old.version + 1,
         lease   |-> IF e.ignoreLease THEN old.lease ELSE e.lease]
  BY DEF UserKV, PutKV
<1>4. Resolve(IF e.ignoreValue THEN old.val ELSE e.val)
        = IF o.ignoreValue THEN Resolve(old.val) ELSE o.val
  BY <1>2, Zenon
<1> QED
  BY <1>1, <1>2, <1>3, <1>4 DEF PutKV

LEMMA AfterMirror ==
  ASSUME NEW snap \in [RawKeys -> KVs], NEW es, NEW os, AllMirror(es, os),
         NEW n \in 0..Len(os), NEW r
  PROVE  UserSnap(After(snap, es, n, r)) = After(UserSnap(snap), os, n, r)
<1> DEFINE user == UserSnap(snap)
           new  == After(snap, es, n, r)
<1>1. DOMAIN user = 1..MaxKey /\ DOMAIN snap = RawKeys
  BY Zenon DEF UserSnap
<1>2. ASSUME NEW k \in 1..MaxKey
      PROVE  UserKV(new[MetadataKey(k)]) = After(user, os, n, r)[k]
  <2> DEFINE raw == MetadataKey(k)
             S == PutsOf(os, n, k)
  <2>1. raw \in RawKeys /\ snap[raw] \in KVs /\ user[k] = UserKV(snap[raw])
    BY MetadataKeys, Zenon DEF UserSnap
  <2>2. PutsOf(es, n, raw) = S /\ (Deletes(es, n, raw) <=> Deletes(os, n, k))
    BY PutsMirror, Zenon
  <2>3. new[raw] = IF S # {} THEN PutKV(snap[raw], es[CHOOSE i \in S : TRUE], r)
                   ELSE IF Deletes(os, n, k) THEN Absent ELSE snap[raw]
    BY <1>1, <2>1, <2>2 DEF After
  <2>4. After(user, os, n, r)[k] =
          IF S # {} THEN PutKV(user[k], os[CHOOSE i \in S : TRUE], r)
          ELSE IF Deletes(os, n, k) THEN Absent ELSE user[k]
    BY <1>1, Zenon DEF After
  <2>5. CASE S # {}
    <3> DEFINE i == CHOOSE i \in S : TRUE
    <3>1. i \in S
      BY <2>5, Zenon
    <3>2. i \in 1..Len(os) /\ os[i].op = "put"
      BY <3>1 DEF PutsOf, AllMirror
    <3>3. Mirrors(es[i], os[i])
      BY <3>2, Zenon DEF AllMirror
    <3> HIDE DEF i
    <3>4. UserKV(PutKV(snap[raw], es[i], r)) = PutKV(user[k], os[i], r)
      BY <2>1, <3>2, <3>3, PutMirror
    <3> QED
      BY <2>3, <2>4, <2>5, <3>4, Zenon DEF i
  <2>6. CASE S = {}
    BY <2>1, <2>3, <2>4, <2>6, UserAbsent, Zenon
  <2> QED
    BY <2>5, <2>6, Zenon
<1>3. After(user, os, n, r) = [k \in 1..MaxKey |-> After(user, os, n, r)[k]]
  BY <1>1 DEF After
<1>4. UserSnap(new) = [k \in 1..MaxKey |-> UserKV(new[MetadataKey(k)])]
  BY Zenon DEF UserSnap
<1> HIDE DEF user, new
<1>5. UserSnap(new) = After(user, os, n, r)
  BY <1>2, <1>3, <1>4, Zenon
<1> QED
  BY <1>5, Zenon DEF user, new

\* Equal counts: prefixing the keys of a set keeps their number and order.
LEMMA LimitedMirror ==
  ASSUME NEW K \in SUBSET (1..MaxKey), NEW limit \in Nat
  PROVE  Limited({MetadataKey(k) : k \in K}, limit) = {MetadataKey(k) : k \in Limited(K, limit)}
<1> DEFINE M == {MetadataKey(k) : k \in K}
<1>1. ASSUME NEW k \in K
      PROVE  Cardinality({j \in M : j < MetadataKey(k)}) = Cardinality({j \in K : j < k})
  <2> DEFINE S == {j \in K : j < k}
             T == {j \in M : j < MetadataKey(k)}
             f == [j \in S |-> MetadataKey(j)]
  <2>1. \A i, j \in K : /\ MetadataKey(i) < MetadataKey(j) <=> i < j
                        /\ MetadataKey(i) = MetadataKey(j) <=> i = j
    BY BoundsAssumption DEF MetadataKey, MetadataPrefix
  <2>2. T = {MetadataKey(j) : j \in S}
    BY <2>1
  <2> HIDE DEF T
  <2>3. f \in Bijection(S, T)
    <3>1. f \in [S -> T]
      BY <2>2, Zenon
    <3>2. \A a, b \in S : f[a] = f[b] => a = b
      BY <2>1, Zenon
    <3>3. \A t \in T : \E s \in S : f[s] = t
      BY <2>2, Zenon
    <3> HIDE DEF f, S
    <3> QED
      BY <3>1, <3>2, <3>3, Zenon DEF Bijection, Injection, Surjection, IsInjective
  <2>4. ExistsBijection(S, T)
    BY <2>3, Zenon DEF ExistsBijection
  <2>5. IsFiniteSet(S)
    <3>1. IsFiniteSet(1..MaxKey)
      BY BoundsAssumption, FS_Interval
    <3>2. S \subseteq 1..MaxKey
      BY Zenon
    <3> HIDE DEF S
    <3> QED
      BY <3>1, <3>2, FS_Subset, Zenon
  <2> HIDE DEF S
  <2>6. Cardinality(T) = Cardinality(S)
    BY <2>4, <2>5, FS_Bijection, Zenon
  <2> QED
    BY <2>6, Zenon DEF S, T
<1>2. \A raw \in M : raw \in Limited(M, limit) <=>
         (limit = 0 \/ Cardinality({j \in M : j < raw}) < limit)
  BY Zenon DEF Limited
<1>3. \A k \in K : k \in Limited(K, limit) <=>
         (limit = 0 \/ Cardinality({j \in K : j < k}) < limit)
  BY Zenon DEF Limited
<1>4. \A k \in K : MetadataKey(k) \in Limited(M, limit) <=> k \in Limited(K, limit)
  <2> SUFFICES ASSUME NEW k \in K
               PROVE  MetadataKey(k) \in Limited(M, limit) <=> k \in Limited(K, limit)
    BY Zenon
  <2>1. MetadataKey(k) \in M
    BY Zenon
  <2> HIDE DEF M
  <2> QED
    BY <1>1, <1>2, <1>3, <2>1, Zenon
<1>5. Limited(M, limit) \subseteq M /\ Limited(K, limit) \subseteq K
  BY Zenon DEF Limited
<1> QED
  BY <1>4, <1>5, Zenon

\* A comparison, for the coordinator and for the user.
LEMMA HoldsMirror ==
  ASSUME NEW snap \in [RawKeys -> KVs], NEW c \in CompareType, ValidCompare(c)
  PROVE  Holds(snap, EncodeCompare(c)) <=> Holds(UserSnap(snap), c)
<1> DEFINE e == EncodeCompare(c)
           user == UserSnap(snap)
           Raw == Hits(snap, e.key, e.end)
           Hit == Hits(user, c.key, c.end)
           Test(kv) == CASE c.result = "="  -> Field(kv, c.target) = c.operand
                         [] c.result = "#"  -> Field(kv, c.target) # c.operand
                         [] c.result = "<"  -> Field(kv, c.target) < c.operand
                         [] c.result = ">"  -> Field(kv, c.target) > c.operand
<1>1. /\ e.key = MetadataKey(c.key) /\ e.end = MetadataRangeEnd(c.end)
      /\ e.target = c.target /\ e.result = c.result /\ e.operand = c.operand
  BY Zenon DEF EncodeCompare, CompareType
<1>2. /\ c.key \in 1..MaxKey /\ c.end \in 0..MaxKey
      /\ c.target \in {"version", "create", "mod", "lease"}
      /\ c.result \in {"=", "#", "<", ">"} /\ c.operand \in Nat
  BY DEF ValidCompare, CompareType, Empty
<1>3. Raw = {MetadataKey(k) : k \in Hit} /\ Hit \subseteq 1..MaxKey
  BY <1>1, <1>2, HitsMirror, Zenon
<1>4. \A k \in Hit : user[k] = UserKV(snap[MetadataKey(k)]) /\ snap[MetadataKey(k)] \in KVs
  BY <1>3, MetadataKeys, Zenon DEF UserSnap
<1> HIDE DEF Raw, Hit, user
<1>5. \A kv \in KVs : Field(UserKV(kv), c.target) = Field(kv, c.target)
  BY <1>2, UserKVFacts DEF Field
<1>6. \A k \in Hit : Test(user[k]) <=> Test(snap[MetadataKey(k)])
  BY <1>4, <1>5, Zenon
<1>7. Holds(snap, e) <=> \A kv \in (IF Raw = {} THEN {Absent} ELSE {snap[k] : k \in Raw}) : Test(kv)
  BY <1>1, Zenon DEF Holds, Raw
<1>8. Holds(user, c) <=> \A kv \in (IF Hit = {} THEN {Absent} ELSE {user[k] : k \in Hit}) : Test(kv)
  BY Zenon DEF Holds, Hit
<1> HIDE DEF Test
<1> QED
  BY <1>3, <1>6, <1>7, <1>8, Zenon DEF user

-----------------------------------------------------------------------------
(***************************************************************************)
(* Requests and histories.                                                 *)
(***************************************************************************)
\* t is what the proxy sends for the request q.
SentFor(t, q) ==
  /\ AllMirror(t.success, q.success) /\ AllMirror(t.failure, q.failure)
  /\ t.cmps = {EncodeCompare(c) : c \in q.cmps}
  /\ \A c \in q.cmps : c \in CompareType /\ ValidCompare(c)

LEMMA EncodeMirrors ==
  ASSUME NEW o \in OpType, ValidOp(o), NEW ref, NeedsBlob(o) => Resolve(ref) = o.val
  PROVE  Mirrors(EncodeOp(o, ref), o)
<1>1. o.key \in 1..MaxKey
  BY BoundsAssumption
     DEF ValidOp, ValidRange, ValidPut, MutationAllowed, OpType, Empty
<1>2. EncodeOp(o, ref) = [o EXCEPT !.key = MetadataKey(o.key), !.end = MetadataRangeEnd(o.end),
                                   !.val = IF NeedsBlob(o) THEN ref ELSE o.val]
  BY Zenon DEF EncodeOp, OpType
<1> QED
  BY <1>1, <1>2, Zenon DEF Mirrors, OpType

\* The references of a request lead to the values they replace.
Exact(b, q, refs) ==
  \A i \in 1..Len(Ops(q)) : refs[i] # NoVal =>
     refs[i] \in Refs /\ b[refs[i].shard][refs[i].token] = Ops(q)[i].val

LEMMA EncodeIsSentFor ==
  ASSUME NEW q \in Requests, Valid(q), NEW refs, AllStaged(q, refs), Exact(blobs, q, refs)
  PROVE  SentFor(Encode(q, refs), q)
<1> DEFINE t == Encode(q, refs)
           m == Len(q.success)
           n == Len(q.failure)
<1>1. /\ m \in Nat /\ n \in Nat /\ Len(Ops(q)) = m + n
      /\ \A i \in 1..m : Ops(q)[i] = q.success[i]
      /\ \A i \in 1..n : Ops(q)[m + i] = q.failure[i]
  BY OpsOf, Zenon
<1>2. /\ t.success = [i \in 1..m |-> EncodeOp(q.success[i], refs[i])]
      /\ t.failure = [i \in 1..n |-> EncodeOp(q.failure[i], refs[m + i])]
      /\ t.cmps = {EncodeCompare(c) : c \in q.cmps}
  BY Zenon DEF Encode
<1>3. \A i \in 1..Len(Ops(q)) : Mirrors(EncodeOp(Ops(q)[i], refs[i]), Ops(q)[i])
  <2> SUFFICES ASSUME NEW i \in 1..Len(Ops(q))
               PROVE  Mirrors(EncodeOp(Ops(q)[i], refs[i]), Ops(q)[i])
    BY Zenon
  <2>1. Ops(q)[i] \in OpType /\ ValidOp(Ops(q)[i])
    BY OpsOf, Zenon DEF Valid
  <2>2. NeedsBlob(Ops(q)[i]) => Resolve(refs[i]) = Ops(q)[i].val
    BY Zenon DEF AllStaged, Exact, Resolve
  <2> QED
    BY <2>1, <2>2, EncodeMirrors, Zenon
<1>4. \A c \in q.cmps : c \in CompareType /\ ValidCompare(c)
  BY RequestsAssumption, Zenon DEF Valid
<1> HIDE DEF t, m, n
<1>5. AllMirror(t.success, q.success)
  <2>1. Len(t.success) = m
    BY <1>1, <1>2, LenOfFunction
  <2>2. \A i \in 1..m : i \in 1..Len(Ops(q)) /\ t.success[i] = EncodeOp(Ops(q)[i], refs[i])
    BY <1>1, <1>2
  <2> QED
    BY <1>1, <1>3, <2>1, <2>2, Zenon DEF AllMirror, m
<1>6. AllMirror(t.failure, q.failure)
  <2>1. Len(t.failure) = n
    BY <1>1, <1>2, LenOfFunction
  <2>2. \A i \in 1..n : /\ m + i \in 1..Len(Ops(q))
                        /\ t.failure[i] = EncodeOp(Ops(q)[m + i], refs[m + i])
    BY <1>1, <1>2
  <2> QED
    BY <1>1, <1>3, <2>1, <2>2, Zenon DEF AllMirror, n
<1> QED
  BY <1>2, <1>4, <1>5, <1>6, Zenon DEF SentFor, t

\* What users see of a history.
LEMMA ViewOfHistory ==
  ASSUME NEW h \in Seq([RawKeys -> KVs]), Len(h) >= 2
  PROVE  /\ Len(h) \in Nat /\ Len(UserView(h)) = Len(h)
         /\ \A r \in 1..Len(h) : UserView(h)[r] = UserSnap(h[r]) /\ h[r] \in [RawKeys -> KVs]
         /\ Last(h) \in [RawKeys -> KVs]
         /\ Last(UserView(h)) = UserSnap(Last(h))
<1> DEFINE S == {UserSnap(h[r]) : r \in 1..Len(h)}
<1>1. Len(h) \in Nat /\ \A r \in 1..Len(h) : h[r] \in [RawKeys -> KVs]
  OBVIOUS
<1>2. UserView(h) \in [1..Len(h) -> S] /\ \A r \in 1..Len(h) : UserView(h)[r] = UserSnap(h[r])
  BY Zenon DEF UserView
<1> HIDE DEF S
<1>3. Len(UserView(h)) = Len(h)
  BY <1>1, <1>2, LenOfFunction, Zenon
<1>4. Len(h) \in 1..Len(h)
  BY <1>1
<1> QED
  BY <1>1, <1>2, <1>3, <1>4, Zenon DEF Last

LEMMA ViewOfAppend ==
  ASSUME NEW h \in Seq([RawKeys -> KVs]), NEW snap \in [RawKeys -> KVs]
  PROVE  UserView(Append(h, snap)) = Append(UserView(h), UserSnap(snap))
<1> DEFINE n == Len(h)
           S == {UserSnap(h[r]) : r \in 1..n} \cup {UserSnap(snap)}
           u == UserView(h)
           a == Append(h, snap)
           T == [RawKeys -> KVs]
<1>1. n \in Nat /\ Len(a) = n + 1 /\ a[n + 1] = snap /\ \A r \in 1..n : a[r] = h[r]
  <2> HIDE DEF T
  <2> QED
    OBVIOUS
<1>2. u \in [1..n -> S] /\ \A r \in 1..n : u[r] = UserSnap(h[r])
  BY Zenon DEF UserView
<1>4. UserView(a) = [r \in 1..(n + 1) |-> UserSnap(a[r])]
  BY <1>1, Zenon DEF UserView
<1>5. UserSnap(snap) \in S
  BY Zenon
<1> HIDE DEF n, S, u, a
<1>3. u \in Seq(S) /\ Len(u) = n
  BY <1>1, <1>2, LenOfFunction, Zenon
<1> DEFINE v == Append(u, UserSnap(snap))
<1>6. /\ v \in Seq(S) /\ Len(v) = n + 1 /\ v[n + 1] = UserSnap(snap)
      /\ \A r \in 1..n : v[r] = u[r]
  BY <1>1, <1>3, <1>5
<1> HIDE DEF v
<1>7. v = [r \in 1..(n + 1) |-> v[r]]
  BY <1>6
<1>8. \A r \in 1..(n + 1) : v[r] = UserSnap(a[r])
  <2> SUFFICES ASSUME NEW r \in 1..(n + 1) PROVE v[r] = UserSnap(a[r])
    BY Zenon
  <2>1. r = n + 1 \/ r \in 1..n
    BY <1>1
  <2> QED
    BY <1>1, <1>2, <1>6, <2>1, Zenon
<1>9. UserView(a) = v
  BY <1>4, <1>7, <1>8, Zenon
<1> QED
  BY <1>9, Zenon DEF a, v, u

LEMMA SucceedsMirror ==
  ASSUME NEW h \in Seq([RawKeys -> KVs]), Len(h) >= 2, NEW t, NEW q, SentFor(t, q)
  PROVE  /\ Succeeds(h, t) = Succeeds(UserView(h), q)
         /\ AllMirror(Branch(h, t), Branch(UserView(h), q))
<1>1. Last(h) \in [RawKeys -> KVs] /\ Last(UserView(h)) = UserSnap(Last(h))
  BY ViewOfHistory, Zenon
<1>2. \A c \in q.cmps : Holds(Last(h), EncodeCompare(c)) <=> Holds(UserSnap(Last(h)), c)
  BY <1>1, HoldsMirror, Zenon DEF SentFor
<1>3. t.cmps = {EncodeCompare(c) : c \in q.cmps}
  BY Zenon DEF SentFor
<1>4. Succeeds(h, t) <=> \A c \in q.cmps : Holds(Last(h), EncodeCompare(c))
  BY <1>3, Zenon DEF Succeeds
<1>5. Succeeds(UserView(h), q) <=> \A c \in q.cmps : Holds(UserSnap(Last(h)), c)
  BY <1>1, Zenon DEF Succeeds
<1>6. Succeeds(h, t) \in BOOLEAN /\ Succeeds(UserView(h), q) \in BOOLEAN
  BY Zenon DEF Succeeds
<1>7. Succeeds(h, t) = Succeeds(UserView(h), q)
  BY <1>2, <1>4, <1>5, <1>6
<1> QED
  BY <1>7, Zenon DEF Branch, SentFor

LEMMA DuplicateKeyMirror ==
  ASSUME NEW es, NEW os, AllMirror(es, os)
  PROVE  DuplicateKey(es) <=> DuplicateKey(os)
<1> DEFINE n == Len(os)
<1>1. Len(es) = n /\ \A i \in 1..n : Mirrors(es[i], os[i])
  BY Zenon DEF AllMirror
<1>2. ASSUME NEW i \in 1..n, NEW j \in 1..n
      PROVE  /\ es[i].op = os[i].op
             /\ es[j].key = es[i].key <=> os[j].key = os[i].key
             /\ InRange(es[i].key, es[j].key, es[j].end)
                  <=> InRange(os[i].key, os[j].key, os[j].end)
  <2>1. Mirrors(es[i], os[i]) /\ Mirrors(es[j], os[j])
    BY <1>1, Zenon
  <2>2. os[i].key \in 1..MaxKey /\ os[j].key \in 1..MaxKey /\ os[j].end \in 0..MaxKey
    BY <2>1, Zenon DEF Mirrors, OpType
  <2>3. /\ es[i].key = MetadataKey(os[i].key) /\ es[j].key = MetadataKey(os[j].key)
        /\ es[j].end = MetadataRangeEnd(os[j].end) /\ es[i].op = os[i].op
    BY <2>1, Zenon DEF Mirrors
  <2>4. MetadataKey(os[j].key) = MetadataKey(os[i].key) <=> os[j].key = os[i].key
    BY <2>2, BoundsAssumption DEF MetadataKey, MetadataPrefix
  <2> QED
    BY <2>2, <2>3, <2>4, MetadataRange
<1> QED
  BY <1>1, <1>2 DEF DuplicateKey

LEMMA BadOpMirror ==
  ASSUME NEW h \in Seq([RawKeys -> KVs]), Len(h) >= 2, NEW c, NEW ls, NEW e, NEW o,
         Mirrors(e, o)
  PROVE  BadOp(h, c, ls, e) <=> BadOp(UserView(h), c, ls, o)
<1>1. /\ Len(UserView(h)) = Len(h)
      /\ Last(h) \in [RawKeys -> KVs] /\ Last(UserView(h)) = UserSnap(Last(h))
  BY ViewOfHistory, Zenon
<1>2. o.key \in 1..MaxKey /\ e.key = MetadataKey(o.key) /\ MetadataKey(o.key) \in RawKeys
  BY MetadataKeys, Zenon DEF Mirrors
<1>3. Last(UserView(h))[o.key] = UserKV(Last(h)[e.key]) /\ Last(h)[e.key] \in KVs
  BY <1>1, <1>2, Zenon DEF UserSnap
<1>4. Live(Last(UserView(h))[o.key]) <=> Live(Last(h)[e.key])
  BY <1>3, UserKVFacts, Zenon
<1>5. /\ e.op = o.op /\ e.ignoreValue = o.ignoreValue /\ e.ignoreLease = o.ignoreLease
      /\ e.lease = o.lease /\ e.rev = o.rev
  BY Zenon DEF Mirrors
<1> QED
  BY <1>1, <1>4, <1>5, Zenon DEF BadOp

LEMMA RefusesMirror ==
  ASSUME NEW h \in Seq([RawKeys -> KVs]), Len(h) >= 2, NEW c, NEW ls,
         NEW t, NEW q, SentFor(t, q)
  PROVE  Refuses(h, c, ls, t) <=> Refuses(UserView(h), c, ls, q)
<1> DEFINE es == Branch(h, t)
           os == Branch(UserView(h), q)
<1>1. AllMirror(es, os)
  BY SucceedsMirror, Zenon
<1> HIDE DEF es, os
<1>2. Len(es) = Len(os) /\ \A i \in 1..Len(os) : Mirrors(es[i], os[i])
  BY <1>1, Zenon DEF AllMirror
<1>3. \A i \in 1..Len(os) : BadOp(h, c, ls, es[i]) <=> BadOp(UserView(h), c, ls, os[i])
  BY <1>2, BadOpMirror, Zenon
<1>4. /\ DuplicateKey(t.success) <=> DuplicateKey(q.success)
      /\ DuplicateKey(t.failure) <=> DuplicateKey(q.failure)
  BY DuplicateKeyMirror, Zenon DEF SentFor
<1> QED
  BY <1>2, <1>3, <1>4, Zenon DEF Refuses, es, os

LEMMA WritesMirror ==
  ASSUME NEW snap \in [RawKeys -> KVs], NEW es, NEW os, AllMirror(es, os)
  PROVE  Writes(snap, es) <=> Writes(UserSnap(snap), os)
<1>1. Len(es) = Len(os) /\ \A i \in 1..Len(os) : Mirrors(es[i], os[i])
  BY Zenon DEF AllMirror
<1>2. ASSUME NEW i \in 1..Len(os)
      PROVE  /\ es[i].op = os[i].op
             /\ Hits(snap, es[i].key, es[i].end) = {}
                  <=> Hits(UserSnap(snap), os[i].key, os[i].end) = {}
  <2>1. /\ os[i].key \in 1..MaxKey /\ os[i].end \in 0..MaxKey /\ es[i].op = os[i].op
        /\ es[i].key = MetadataKey(os[i].key) /\ es[i].end = MetadataRangeEnd(os[i].end)
    BY <1>1, Zenon DEF Mirrors, OpType
  <2>2. Hits(snap, es[i].key, es[i].end)
          = {MetadataKey(k) : k \in Hits(UserSnap(snap), os[i].key, os[i].end)}
    BY <2>1, HitsMirror, Zenon
  <2> QED
    BY <2>1, <2>2, Zenon
<1> QED
  BY <1>1, <1>2, Zenon DEF Writes

\* The coordinator's commit of what the proxy sent is the commit of the request.
LEMMA CommitMirror ==
  ASSUME NEW h \in Seq([RawKeys -> KVs]), Len(h) >= 2, NEW t, NEW q, SentFor(t, q),
         After(Last(h), Branch(h, t), Len(Branch(h, t)), Len(h) + 1) \in [RawKeys -> KVs]
  PROVE  UserView(Commit(h, t)) = Commit(UserView(h), q)
<1> DEFINE es == Branch(h, t)
           os == Branch(UserView(h), q)
           new == After(Last(h), es, Len(es), Len(h) + 1)
<1>1. AllMirror(es, os)
  BY SucceedsMirror, Zenon
<1>2. /\ Len(UserView(h)) = Len(h)
      /\ Last(h) \in [RawKeys -> KVs] /\ Last(UserView(h)) = UserSnap(Last(h))
  BY ViewOfHistory, Zenon
<1>3. new \in [RawKeys -> KVs]
  BY Zenon
<1>4. Commit(h, t) = IF Writes(Last(h), es) THEN Append(h, new) ELSE h
  BY Zenon DEF Commit
<1>5. Commit(UserView(h), q) =
        IF Writes(UserSnap(Last(h)), os)
        THEN Append(UserView(h), After(UserSnap(Last(h)), os, Len(os), Len(h) + 1))
        ELSE UserView(h)
  BY <1>2, Zenon DEF Commit
<1> HIDE DEF es, os
<1>6. Len(es) = Len(os) /\ Len(os) \in 0..Len(os)
  BY <1>1 DEF AllMirror
<1>7. UserSnap(new) = After(UserSnap(Last(h)), os, Len(os), Len(h) + 1)
  BY <1>1, <1>2, <1>6, AfterMirror
<1> HIDE DEF new
<1>8. UserView(Append(h, new)) = Append(UserView(h), UserSnap(new))
  BY <1>3, ViewOfAppend, Zenon
<1>9. Writes(Last(h), es) <=> Writes(UserSnap(Last(h)), os)
  BY <1>1, <1>2, WritesMirror, Zenon
<1> QED
  BY <1>4, <1>5, <1>7, <1>8, <1>9, Zenon

-----------------------------------------------------------------------------
(***************************************************************************)
(* Answers and leases.                                                     *)
(***************************************************************************)
\* What the i-th operation reads exists, and holds KeyValues.
Readable(h, es, i) ==
  /\ es[i].op = "range" /\ es[i].rev # 0 => es[i].rev \in 1..Len(h)
  /\ ViewOf(h, es, i) \in [RawKeys -> KVs]

LEMMA ViewMirror ==
  ASSUME NEW h \in Seq([RawKeys -> KVs]), Len(h) >= 2, NEW es, NEW os, AllMirror(es, os),
         NEW i \in 1..Len(os), Readable(h, es, i)
  PROVE  ViewOf(UserView(h), os, i) = UserSnap(ViewOf(h, es, i))
<1>1. /\ Len(UserView(h)) = Len(h)
      /\ Last(h) \in [RawKeys -> KVs] /\ Last(UserView(h)) = UserSnap(Last(h))
      /\ \A r \in 1..Len(h) : UserView(h)[r] = UserSnap(h[r])
  BY ViewOfHistory, Zenon
<1>2. es[i].op = os[i].op /\ es[i].rev = os[i].rev
  BY Zenon DEF AllMirror, Mirrors
<1>3. CASE es[i].op = "range" /\ es[i].rev # 0
  BY <1>1, <1>2, <1>3, Zenon DEF ViewOf, Readable
<1>4. CASE ~(es[i].op = "range" /\ es[i].rev # 0)
  <2>1. i - 1 \in 0..Len(os)
    BY DEF AllMirror
  <2>2. UserSnap(After(Last(h), es, i - 1, Len(h) + 1))
          = After(UserSnap(Last(h)), os, i - 1, Len(h) + 1)
    BY <1>1, <2>1, AfterMirror
  <2> QED
    BY <1>1, <1>2, <1>4, <2>2, Zenon DEF ViewOf
<1> QED
  BY <1>3, <1>4, Zenon

LEMMA KeysMirror ==
  ASSUME NEW h \in Seq([RawKeys -> KVs]), Len(h) >= 2, NEW es, NEW os, AllMirror(es, os),
         NEW i \in 1..Len(os), Readable(h, es, i)
  PROVE  /\ KeysOf(UserView(h), os, i) \subseteq 1..MaxKey
         /\ KeysOf(h, es, i) = {MetadataKey(k) : k \in KeysOf(UserView(h), os, i)}
<1> DEFINE e == es[i]
           o == os[i]
           view == ViewOf(h, es, i)
           Hit == Hits(UserSnap(view), o.key, o.end)
           Raw == Hits(view, e.key, e.end)
<1>1. ViewOf(UserView(h), os, i) = UserSnap(view) /\ view \in [RawKeys -> KVs]
  BY ViewMirror, Zenon DEF Readable
<1>2. /\ o.key \in 1..MaxKey /\ o.end \in 0..MaxKey /\ o.limit \in Nat
      /\ e.key = MetadataKey(o.key) /\ e.end = MetadataRangeEnd(o.end)
      /\ e.op = o.op /\ e.limit = o.limit /\ e.prevKv = o.prevKv
  BY Zenon DEF AllMirror, Mirrors, OpType
<1>3. KeysOf(h, es, i) = IF e.op = "range" THEN Limited(Raw, e.limit)
                         ELSE IF e.prevKv THEN Raw ELSE {}
  BY Zenon DEF KeysOf
<1>4. KeysOf(UserView(h), os, i) = IF o.op = "range" THEN Limited(Hit, o.limit)
                                   ELSE IF o.prevKv THEN Hit ELSE {}
  BY <1>1, Zenon DEF KeysOf
<1> HIDE DEF e, o, view
<1>5. Hit \subseteq 1..MaxKey /\ Raw = {MetadataKey(k) : k \in Hit}
  BY <1>1, <1>2, HitsMirror
<1> HIDE DEF Hit, Raw
<1>6. Limited(Raw, o.limit) = {MetadataKey(k) : k \in Limited(Hit, o.limit)}
  BY <1>2, <1>5, LimitedMirror, Zenon
<1>7. Limited(Hit, o.limit) \subseteq Hit
  BY Zenon DEF Limited
<1> QED
  BY <1>2, <1>3, <1>4, <1>5, <1>6, <1>7, Zenon

LEMMA KVMirror ==
  ASSUME NEW h \in Seq([RawKeys -> KVs]), Len(h) >= 2, NEW es, NEW os, AllMirror(es, os),
         NEW i \in 1..Len(os), Readable(h, es, i), NEW k \in 1..MaxKey
  PROVE  LET kv == KVOf(h, es, i, MetadataKey(k))
         IN  /\ kv \in KVs
             /\ es[i].keysOnly => kv.val = NoVal
             /\ KVOf(UserView(h), os, i, k) = UserKV(kv)
<1> DEFINE view == ViewOf(h, es, i)
           kv == view[MetadataKey(k)]
<1>1. ViewOf(UserView(h), os, i) = UserSnap(view) /\ view \in [RawKeys -> KVs]
  BY ViewMirror, Zenon DEF Readable
<1>2. es[i].keysOnly = os[i].keysOnly /\ os[i].keysOnly \in BOOLEAN
  BY Zenon DEF AllMirror, Mirrors, OpType
<1>3. kv \in KVs /\ UserSnap(view)[k] = UserKV(kv)
  BY <1>1, MetadataKeys, Zenon DEF UserSnap
<1>4. /\ KVOf(h, es, i, MetadataKey(k)) = IF es[i].keysOnly THEN [kv EXCEPT !.val = NoVal] ELSE kv
      /\ KVOf(UserView(h), os, i, k) =
           IF os[i].keysOnly THEN [UserKV(kv) EXCEPT !.val = NoVal] ELSE UserKV(kv)
  BY <1>1, <1>3, Zenon DEF KVOf
<1> HIDE DEF kv, view
<1>5. /\ [kv EXCEPT !.val = NoVal] \in KVs /\ [kv EXCEPT !.val = NoVal].val = NoVal
      /\ UserKV([kv EXCEPT !.val = NoVal]) = [UserKV(kv) EXCEPT !.val = NoVal]
  BY <1>3, ValuesAssumption, Zenon DEF KVs, UserKV, Resolve
<1> QED
  BY <1>2, <1>3, <1>4, <1>5, Zenon

LEMMA UserItemOf ==
  ASSUME NEW i, NEW key, NEW keysOnly, NEW kv \in KVs
  PROVE  UserItem([op |-> i, key |-> key, keysOnly |-> keysOnly, kv |-> kv])
           = [op |-> i, key |-> StripPrefix(key), keysOnly |-> keysOnly, kv |-> UserKV(kv)]
<1> DEFINE x == [op |-> i, key |-> key, keysOnly |-> keysOnly, kv |-> kv]
<1>1. UserItem(x) = [x EXCEPT !.key = StripPrefix(key), !.kv = UserKV(kv)]
  BY Zenon DEF UserItem, UserKV
<1> QED
  BY <1>1, Zenon

\* The answer to the request is what decoding makes of the coordinator's answer.
LEMMA AnswerMirror ==
  ASSUME NEW h \in Seq([RawKeys -> KVs]), Len(h) >= 2, NEW t, NEW q, SentFor(t, q),
         \A i \in 1..Len(Branch(h, t)) : Readable(h, Branch(h, t), i)
  PROVE  /\ Answer(UserView(h), q) = {UserItem(x) : x \in Answer(h, t)}
         /\ \A x \in Answer(h, t) : x.keysOnly => x.kv.val = NoVal
<1> DEFINE es == Branch(h, t)
           os == Branch(UserView(h), q)
           Raw(i) == {[op |-> i, key |-> k, keysOnly |-> es[i].keysOnly,
                       kv |-> KVOf(h, es, i, k)] : k \in KeysOf(h, es, i)}
           User(i) == {[op |-> i, key |-> k, keysOnly |-> os[i].keysOnly,
                        kv |-> KVOf(UserView(h), os, i, k)] : k \in KeysOf(UserView(h), os, i)}
<1>1. AllMirror(es, os) /\ \A i \in 1..Len(es) : Readable(h, es, i)
  BY SucceedsMirror, Zenon
<1>2. /\ Answer(h, t) = UNION {Raw(i) : i \in 1..Len(es)}
      /\ Answer(UserView(h), q) = UNION {User(i) : i \in 1..Len(os)}
  BY Zenon DEF Answer
<1> HIDE DEF es, os
<1>3. Len(es) = Len(os)
  BY <1>1, Zenon DEF AllMirror
<1>4. ASSUME NEW i \in 1..Len(os)
      PROVE  /\ User(i) = {UserItem(x) : x \in Raw(i)}
             /\ \A x \in Raw(i) : x.keysOnly => x.kv.val = NoVal
  <2> DEFINE K == KeysOf(UserView(h), os, i)
             Item(k) == [op |-> i, key |-> MetadataKey(k), keysOnly |-> es[i].keysOnly,
                         kv |-> KVOf(h, es, i, MetadataKey(k))]
             Seen(k) == [op |-> i, key |-> k, keysOnly |-> os[i].keysOnly,
                         kv |-> KVOf(UserView(h), os, i, k)]
  <2>1. K \subseteq 1..MaxKey /\ KeysOf(h, es, i) = {MetadataKey(k) : k \in K}
    BY <1>1, <1>3, KeysMirror
  <2>2. Raw(i) = {Item(k) : k \in K} /\ User(i) = {Seen(k) : k \in K}
    BY <2>1, Zenon
  <2>3. es[i].keysOnly = os[i].keysOnly
    BY <1>1, Zenon DEF AllMirror, Mirrors
  <2>4. ASSUME NEW k \in K
        PROVE  UserItem(Item(k)) = Seen(k) /\ (Item(k).keysOnly => Item(k).kv.val = NoVal)
    <3> DEFINE kv == KVOf(h, es, i, MetadataKey(k))
    <3>1. /\ kv \in KVs /\ (es[i].keysOnly => kv.val = NoVal)
          /\ KVOf(UserView(h), os, i, k) = UserKV(kv)
      BY <1>1, <1>3, <2>1, KVMirror, Zenon
    <3>2. StripPrefix(MetadataKey(k)) = k
      BY <2>1, MetadataKeys, Zenon
    <3> HIDE DEF kv
    <3> DEFINE x == [op |-> i, key |-> MetadataKey(k), keysOnly |-> es[i].keysOnly, kv |-> kv]
    <3>3. UserItem(x) = [op |-> i, key |-> StripPrefix(MetadataKey(k)),
                         keysOnly |-> es[i].keysOnly, kv |-> UserKV(kv)]
      BY <3>1, UserItemOf, Zenon
    <3>4. UserItem(x) = Seen(k)
      BY <2>3, <3>1, <3>2, <3>3, Zenon
    <3> QED
      BY <3>1, <3>4, Zenon DEF kv
  <2> HIDE DEF K, Item, Seen, Raw, User
  <2> QED
    BY <2>2, <2>4
<1> HIDE DEF Raw, User
<1>5. Answer(UserView(h), q) = {UserItem(x) : x \in Answer(h, t)}
  BY <1>2, <1>3, <1>4
<1>6. \A x \in Answer(h, t) : x.keysOnly => x.kv.val = NoVal
  BY <1>2, <1>3, <1>4, Zenon
<1> QED
  BY <1>5, <1>6, Zenon

\* The keys of a lease are user keys: the fingerprint is attached to none.
LEMMA LeaseKeysMirror ==
  ASSUME NEW snap \in [RawKeys -> KVs], snap[ConfigKey].lease = NoLease, NEW l \in Leases
  PROVE  /\ LeaseKeys(UserSnap(snap), l) \subseteq 1..MaxKey
         /\ LeaseKeys(snap, l) = {MetadataKey(k) : k \in LeaseKeys(UserSnap(snap), l)}
<1>1. DOMAIN snap = RawKeys /\ DOMAIN UserSnap(snap) = 1..MaxKey /\ l # NoLease
  BY BoundsAssumption, Zenon DEF UserSnap
<1>2. ASSUME NEW k \in 1..MaxKey
      PROVE  /\ MetadataKey(k) \in RawKeys
             /\ Live(UserSnap(snap)[k]) <=> Live(snap[MetadataKey(k)])
             /\ UserSnap(snap)[k].lease = snap[MetadataKey(k)].lease
  <2>1. MetadataKey(k) \in RawKeys /\ snap[MetadataKey(k)] \in KVs
    BY MetadataKeys, Zenon
  <2>2. UserSnap(snap)[k] = UserKV(snap[MetadataKey(k)])
    BY Zenon DEF UserSnap
  <2> QED
    BY <2>1, <2>2, UserKVFacts
<1>3. \A raw \in RawKeys : raw = ConfigKey \/ \E k \in 1..MaxKey : raw = MetadataKey(k)
  BY Zenon DEF RawKeys
<1> QED
  BY <1>1, <1>2, <1>3 DEF LeaseKeys

LEMMA DropLeaseMirror ==
  ASSUME NEW h \in Seq([RawKeys -> KVs]), Len(h) >= 2, Last(h)[ConfigKey].lease = NoLease,
         NEW l \in Leases
  PROVE  UserView(DropLease(h, l)) = DropLease(UserView(h), l)
<1> DEFINE snap == Last(h)
           user == UserSnap(snap)
           Raw == LeaseKeys(snap, l)
           Keys == LeaseKeys(user, l)
           new == [k \in DOMAIN snap |-> IF k \in Raw THEN Absent ELSE snap[k]]
           seen == [k \in DOMAIN user |-> IF k \in Keys THEN Absent ELSE user[k]]
<1>1. snap \in [RawKeys -> KVs] /\ Last(UserView(h)) = user
  BY ViewOfHistory, Zenon
<1>2. Keys \subseteq 1..MaxKey /\ Raw = {MetadataKey(k) : k \in Keys}
  BY <1>1, LeaseKeysMirror, Zenon
<1>3. /\ DropLease(h, l) = IF Raw = {} THEN h ELSE Append(h, new)
      /\ DropLease(UserView(h), l) = IF Keys = {} THEN UserView(h) ELSE Append(UserView(h), seen)
  BY <1>1, Zenon DEF DropLease
<1> HIDE DEF snap, Raw, Keys
<1>4. new \in [RawKeys -> KVs]
  BY <1>1, AbsentOK, Zenon
<1>5. UserSnap(new) = seen
  <2>1. \A k \in 1..MaxKey : UserKV(new[MetadataKey(k)]) = seen[k]
    <3> SUFFICES ASSUME NEW k \in 1..MaxKey
                 PROVE  UserKV(new[MetadataKey(k)]) = seen[k]
      BY Zenon
    <3>1. MetadataKey(k) \in RawKeys /\ \A j \in 1..MaxKey : MetadataKey(k) = MetadataKey(j) => k = j
      BY MetadataKeys, BoundsAssumption, Zenon
    <3>2. MetadataKey(k) \in Raw <=> k \in Keys
      BY <1>2, <3>1, Zenon
    <3>3. user[k] = UserKV(snap[MetadataKey(k)]) /\ k \in DOMAIN user
      BY Zenon DEF UserSnap
    <3>4. new[MetadataKey(k)] = IF k \in Keys THEN Absent ELSE snap[MetadataKey(k)]
      BY <1>1, <3>1, <3>2, Zenon
    <3>5. seen[k] = IF k \in Keys THEN Absent ELSE user[k]
      BY <3>3, Zenon
    <3> HIDE DEF new, seen, user
    <3> QED
      BY <3>3, <3>4, <3>5, UserAbsent, Zenon
  <2>2. UserSnap(new) = [k \in 1..MaxKey |-> UserKV(new[MetadataKey(k)])]
    BY Zenon DEF UserSnap
  <2>3. seen = [k \in 1..MaxKey |-> seen[k]]
    BY Zenon DEF UserSnap
  <2> HIDE DEF new, seen
  <2> QED
    BY <2>1, <2>2, <2>3, Zenon
<1> HIDE DEF new, seen, user
<1>6. UserView(Append(h, new)) = Append(UserView(h), seen)
  BY <1>4, <1>5, ViewOfAppend, Zenon
<1> QED
  BY <1>2, <1>3, <1>6, Zenon

\* CoordinatedProxy.LeaseTimeToLive strips the prefix of every key the
\* coordinator attaches to the lease and never finds one without it: the answer
\* is the keys a client attached, of all shards, at any time.
THEOREM LeaseTimeToLiveIsAlwaysExact == Spec => []LeaseTimeToLiveIsExact
<1>1. ASSUME IInv, NotLeased PROVE LeaseTimeToLiveIsExact
  <2> SUFFICES ASSUME NEW l \in Leases
               PROVE  LeaseTimeToLive(l) =
                        [dataloss |-> FALSE, keys |-> LeaseKeys(Last(UserHist), l)]
    BY Zenon DEF LeaseTimeToLiveIsExact
  <2> DEFINE Raw == LeaseKeys(Last(hist), l)
             Keys == LeaseKeys(Last(UserHist), l)
  <2>1. Last(hist) \in [RawKeys -> KVs] /\ Last(UserView(hist)) = UserSnap(Last(hist))
    BY <1>1, ViewOfHistory, Zenon DEF IInv, CoordTypes
  <2>2. UserHist = UserView(hist)
    BY Zenon DEF UserHist, UserView, UserSnap
  <2>3. Keys \subseteq 1..MaxKey /\ Raw = {MetadataKey(k) : k \in Keys}
    BY <1>1, <2>1, <2>2, LeaseKeysMirror, Zenon DEF NotLeased
  <2>4. LeaseTimeToLive(l) = [dataloss |-> \E k \in Raw : ~HasPrefix(k),
                              keys |-> {StripPrefix(k) : k \in Raw}]
    BY Zenon DEF LeaseTimeToLive
  <2> HIDE DEF Raw, Keys
  <2>5. \A k \in Keys : HasPrefix(MetadataKey(k)) /\ StripPrefix(MetadataKey(k)) = k
    BY <2>3, BoundsAssumption
       DEF HasPrefix, StripPrefix, MetadataKey, MetadataPrefix, MetadataEnd
  <2>6. {StripPrefix(k) : k \in Raw} = Keys /\ ~\E k \in Raw : ~HasPrefix(k)
    BY <2>3, <2>5, ZenonT(30)
  <2> QED
    BY <2>4, <2>6, Zenon DEF Keys
<1> QED
  BY <1>1, InvariantHolds, NeverLeased, PTL

-----------------------------------------------------------------------------
(***************************************************************************)
(* The etcd of AtomicKV.                                                   *)
(***************************************************************************)
\* AtomicKV has its own copy of the operators of Etcd.
LEMMA SameRefuses ==
  ASSUME NEW h, NEW c, NEW ls, NEW t
  PROVE  Abs!Refuses(h, c, ls, t) = Refuses(h, c, ls, t)
  BY Zenon DEF Refuses, Branch, Succeeds, Holds, Field, Hits, Live, Last, BadOp,
     DuplicateKey, InRange, Absent, NoLease, Empty, NoEnd,
     Abs!Refuses, Abs!Branch, Abs!Succeeds, Abs!Holds, Abs!Field, Abs!Hits, Abs!Live,
     Abs!Last, Abs!BadOp, Abs!DuplicateKey, Abs!InRange, Abs!Absent, Abs!NoLease,
     Abs!Empty, Abs!NoEnd

LEMMA SameBranch ==
  ASSUME NEW h, NEW t
  PROVE  Abs!Succeeds(h, t) = Succeeds(h, t) /\ Abs!Branch(h, t) = Branch(h, t)
  BY Zenon DEF Branch, Succeeds, Holds, Field, Hits, Live, Last, InRange, Absent, NoLease,
     Empty, NoEnd,
     Abs!Branch, Abs!Succeeds, Abs!Holds, Abs!Field, Abs!Hits, Abs!Live,
     Abs!Last, Abs!InRange, Abs!Absent, Abs!NoLease, Abs!Empty, Abs!NoEnd

LEMMA SameAfter ==
  ASSUME NEW snap, NEW ops, NEW n, NEW r
  PROVE  Abs!After(snap, ops, n, r) = After(snap, ops, n, r)
  BY Zenon DEF After, PutsOf, Deletes, PutKV, Live, InRange, Absent, NoLease, Empty, NoEnd,
     Abs!After, Abs!PutsOf, Abs!Deletes, Abs!PutKV, Abs!Live,
     Abs!InRange, Abs!Absent, Abs!NoLease, Abs!Empty, Abs!NoEnd

LEMMA SameHits ==
  ASSUME NEW snap, NEW key, NEW end
  PROVE  Abs!Hits(snap, key, end) = Hits(snap, key, end)
  BY Zenon DEF Hits, Live, InRange, Empty, NoEnd,
     Abs!Hits, Abs!Live, Abs!InRange, Abs!Empty, Abs!NoEnd

LEMMA SameLimited ==
  ASSUME NEW keys, NEW limit
  PROVE  Abs!Limited(keys, limit) = Limited(keys, limit)
  BY Zenon DEF Limited, Cardinality, Abs!Limited, Abs!Cardinality

LEMMA SameItems ==
  ASSUME NEW h, NEW ops, NEW i
  PROVE  /\ Abs!KeysOf(h, ops, i) = KeysOf(h, ops, i)
         /\ \A k : Abs!KVOf(h, ops, i, k) = KVOf(h, ops, i, k)
<1>1. Abs!ViewOf(h, ops, i) = ViewOf(h, ops, i)
  BY SameAfter, Zenon DEF ViewOf, Last, Abs!ViewOf, Abs!Last
<1>2. Abs!KeysOf(h, ops, i) = KeysOf(h, ops, i)
  BY <1>1, SameHits, SameLimited, Zenon DEF KeysOf, Abs!KeysOf
<1>3. \A k : Abs!KVOf(h, ops, i, k) = KVOf(h, ops, i, k)
  BY <1>1, Zenon DEF KVOf, Abs!KVOf
<1> QED
  BY <1>2, <1>3, Zenon

LEMMA SameAnswer ==
  ASSUME NEW h, NEW t
  PROVE  Abs!Answer(h, t) = Answer(h, t)
<1> DEFINE All(ops) == UNION {{[op |-> i, key |-> k, keysOnly |-> ops[i].keysOnly,
                                kv |-> KVOf(h, ops, i, k)] : k \in KeysOf(h, ops, i)} :
                              i \in 1..Len(ops)}
           AbsAll(ops) == UNION {{[op |-> i, key |-> k, keysOnly |-> ops[i].keysOnly,
                                   kv |-> Abs!KVOf(h, ops, i, k)] : k \in Abs!KeysOf(h, ops, i)} :
                                 i \in 1..Len(ops)}
<1>1. Answer(h, t) = All(Branch(h, t)) /\ Abs!Answer(h, t) = AbsAll(Abs!Branch(h, t))
  BY Zenon DEF Answer, Abs!Answer
<1>2. \A ops : AbsAll(ops) = All(ops)
  BY SameItems
<1> HIDE DEF All, AbsAll
<1> QED
  BY <1>1, <1>2, SameBranch, Zenon

LEMMA SameCommit ==
  ASSUME NEW h, NEW t
  PROVE  Abs!Commit(h, t) = Commit(h, t)
<1>1. \A snap, ops : Abs!Writes(snap, ops) = Writes(snap, ops)
  BY SameHits, Zenon DEF Writes, Abs!Writes
<1> QED
  BY <1>1, SameAfter, SameBranch, Zenon DEF Commit, Last, Abs!Commit, Abs!Last

LEMMA SameDropLease ==
  ASSUME NEW h, NEW l
  PROVE  Abs!DropLease(h, l) = DropLease(h, l)
  BY Zenon DEF DropLease, LeaseKeys, Live, Last, Absent, NoLease,
     Abs!DropLease, Abs!LeaseKeys, Abs!Live, Abs!Last, Abs!Absent, Abs!NoLease

-----------------------------------------------------------------------------
(***************************************************************************)
(* Validation admits the documented scope, no less and no more.            *)
(***************************************************************************)
LEMMA PutsHaveNoEnd ==
  ASSUME NEW q \in Requests, NEW i \in 1..Len(Ops(q)), Ops(q)[i].op = "put"
  PROVE  Ops(q)[i].end = Empty
<1> DEFINE m == Len(q.success)
           n == Len(q.failure)
<1>1. /\ m \in Nat /\ n \in Nat /\ Len(Ops(q)) = m + n
      /\ \A j \in 1..m : Ops(q)[j] = q.success[j]
      /\ \A j \in 1..n : Ops(q)[m + j] = q.failure[j]
  BY OpsOf, Zenon
<1>2. /\ \A j \in 1..m : q.success[j].op = "put" => q.success[j].end = Empty
      /\ \A j \in 1..n : q.failure[j].op = "put" => q.failure[j].end = Empty
  BY RequestsAssumption, Zenon
<1> HIDE DEF m, n
<1>3. CASE i \in 1..m
  BY <1>1, <1>2, <1>3, Zenon
<1>4. CASE i - m \in 1..n
  <2>1. i = m + (i - m)
    BY <1>1
  <2> QED
    BY <1>1, <1>2, <1>4, <2>1, Zenon
<1> QED
  BY <1>1, <1>3, <1>4

\* A mutation touches keys of one shard only if mutationShard admits it.
LEMMA MutationOwned ==
  ASSUME NEW o \in OpType, o.key # Empty, o.op = "put" => o.end = Empty, NEW s \in Shards
  PROVE  (\A k \in 1..MaxKey : Touches(o, k) => Owns(Routes[s], k))
           <=> (s = ShardOf(Routes, o.key) /\ MutationAllowed(Routes, o.key, o.end))
<1> DEFINE key == o.key
           end == o.end
           t == ShardOf(Routes, key)
           e == Routes[t].end
<1>1. key \in 1..MaxKey /\ key \in Nat \ {0} /\ end \in Nat
  BY BoundsAssumption DEF OpType, Empty
<1>2. t \in Shards /\ e \in 0..MaxKey /\ s \in 1..Len(Routes) /\ BelowEnd(Routes[t], key)
  BY <1>1, ShardOfType, ShardOfExists, RoutesAreGood, RoutesAssumption, Zenon DEF Shards
<1>3. \A i \in 1..Len(Routes) : Owns(Routes[i], key) <=> i = t
  BY <1>1, RoutesAreGood, OneOwner, Zenon
<1>4. \A k : Touches(o, k) <=> k = key \/ InRange(k, key, end)
  BY Zenon DEF Touches
<1>5. MutationAllowed(Routes, key, end) <=>
         \A k \in Nat : InRange(k, key, end) => Owns(Routes[t], k)
  BY <1>1, RoutesAreGood, MutationAllowedIsExact, Zenon
<1>6. MutationAllowed(Routes, key, end) <=>
         (end = Empty \/ e = Empty \/ (end # NoEnd /\ end <= e))
  BY <1>1, Zenon DEF MutationAllowed, Empty
<1> HIDE DEF key, end, t
<1>7. ASSUME \A k \in 1..MaxKey : k = key \/ InRange(k, key, end) => Owns(Routes[s], k)
      PROVE  s = t /\ MutationAllowed(Routes, key, end)
  <2>1. s = t
    BY <1>1, <1>2, <1>3, <1>7, Zenon
  <2>2. SUFFICES ASSUME end # Empty, e # Empty, end = NoEnd \/ ~(end <= e)
                 PROVE  FALSE
    BY <1>6, <2>1, Zenon
  <2>3. e \in 1..MaxKey /\ key < e /\ e \in Nat
    BY <1>2, <2>2, BoundsAssumption DEF BelowEnd, Empty
  <2>4. InRange(e, key, end)
    BY <1>1, <2>2, <2>3 DEF InRange
  <2>5. Owns(Routes[t], e)
    BY <1>7, <2>1, <2>3, <2>4, Zenon
  <2> QED
    BY <2>2, <2>3, <2>5 DEF Owns, BelowEnd
<1>8. ASSUME s = t, MutationAllowed(Routes, key, end)
      PROVE  \A k \in 1..MaxKey : k = key \/ InRange(k, key, end) => Owns(Routes[s], k)
  BY <1>2, <1>3, <1>5, <1>8, BoundsAssumption
<1> QED
  BY <1>4, <1>7, <1>8, Zenon DEF key, end, t

\* What one operation has to satisfy, apart from the shard of the others.
LEMMA ValidOpScope ==
  ASSUME NEW o \in OpType, o.op = "put" => o.end = Empty
  PROVE  ValidOp(o) <=>
           /\ o.op \in {"range", "put", "delete"} /\ o.key # Empty
           /\ o.op = "range" => ~o.sortByValue
           /\ o.op = "put" => /\ o.ignoreValue => o.val = EmptyValue
                              /\ o.ignoreLease => o.lease = NoLease
           /\ IsMutation(o) => MutationAllowed(Routes, o.key, o.end)
<1>1. MutationAllowed(Routes, o.key, o.end) => o.key # Empty
  BY Zenon DEF MutationAllowed
<1>2. CASE o.op = "range"
  BY <1>2, Zenon DEF ValidOp, ValidRange, IsMutation
<1>3. CASE o.op = "put"
  BY <1>3, Zenon DEF ValidOp, ValidPut, IsMutation
<1>4. CASE o.op = "delete"
  BY <1>1, <1>4, Zenon DEF ValidOp, IsMutation
<1>5. CASE o.op = "txn"
  BY <1>5, Zenon DEF ValidOp
<1> QED
  BY <1>2, <1>3, <1>4, <1>5, Zenon DEF OpType

\* validatePut, validateRange, mutationShard and the loop of Txn together admit
\* exactly the requests docs/coordinated-sharding.md says are supported.
THEOREM ValidationIsTheScope ==
  ASSUME NEW q \in Requests
  PROVE  Valid(q) <=> InScope(q)
<1> DEFINE n == Len(Ops(q))
           Op(i) == Ops(q)[i]
           Plain(o) == /\ o.op \in {"range", "put", "delete"} /\ o.key # Empty
                       /\ o.op = "range" => ~o.sortByValue
                       /\ o.op = "put" => /\ o.ignoreValue => o.val = EmptyValue
                                          /\ o.ignoreLease => o.lease = NoLease
           Home(o) == ShardOf(Routes, o.key)
           Allowed(o) == MutationAllowed(Routes, o.key, o.end)
           Inside(o, s) == \A k \in 1..MaxKey : Touches(o, k) => Owns(Routes[s], k)
<1>1. \A i \in 1..n : /\ Op(i) \in OpType /\ (Op(i).op = "put" => Op(i).end = Empty)
  BY OpsOf, PutsHaveNoEnd, Zenon
<1>2. \A i \in 1..n : Plain(Op(i)) => Home(Op(i)) \in Shards
  BY <1>1, ShardOfType, BoundsAssumption DEF OpType
<1>3. \A i \in 1..n, s \in Shards :
         Plain(Op(i)) => (Inside(Op(i), s) <=> s = Home(Op(i)) /\ Allowed(Op(i)))
  BY <1>1, MutationOwned, Zenon
<1>4. \A i \in 1..n : ValidOp(Op(i)) <=> Plain(Op(i)) /\ (IsMutation(Op(i)) => Allowed(Op(i)))
  BY <1>1, ValidOpScope, Zenon
<1>5. Valid(q) <=> /\ \A c \in q.cmps : c.target # "value" /\ c.key # Empty
                   /\ \A i \in 1..n : ValidOp(Op(i))
                   /\ \A i, j \in 1..n : IsMutation(Op(i)) /\ IsMutation(Op(j))
                                           => Home(Op(i)) = Home(Op(j))
  BY Zenon DEF Valid, ValidCompare, SameShard
<1>6. InScope(q) <=> /\ \A c \in q.cmps : c.target # "value" /\ c.key # Empty
                     /\ \A i \in 1..n : Plain(Op(i))
                     /\ \E s \in Shards : \A i \in 1..n : IsMutation(Op(i)) => Inside(Op(i), s)
  BY Zenon DEF InScope
<1>7. 1 \in Shards
  BY RoutesAssumption DEF Shards
<1> HIDE DEF n, Op, Plain, Home, Allowed, Inside
<1>8. ASSUME Valid(q) PROVE InScope(q)
  <2>1. /\ \A i \in 1..n : Plain(Op(i)) /\ (IsMutation(Op(i)) => Allowed(Op(i)))
        /\ \A i, j \in 1..n : IsMutation(Op(i)) /\ IsMutation(Op(j)) => Home(Op(i)) = Home(Op(j))
    BY <1>4, <1>5, <1>8, Zenon
  <2>2. CASE \E i \in 1..n : IsMutation(Op(i))
    BY <1>2, <1>3, <1>5, <1>6, <1>8, <2>1, <2>2, Zenon
  <2>3. CASE ~\E i \in 1..n : IsMutation(Op(i))
    BY <1>5, <1>6, <1>7, <1>8, <2>1, <2>3, Zenon
  <2> QED
    BY <2>2, <2>3, Zenon
<1>9. ASSUME InScope(q) PROVE Valid(q)
  <2>1. PICK s \in Shards : \A i \in 1..n : IsMutation(Op(i)) => Inside(Op(i), s)
    BY <1>6, <1>9, Zenon
  <2>2. \A i \in 1..n : Plain(Op(i))
    BY <1>6, <1>9, Zenon
  <2>3. \A i \in 1..n : IsMutation(Op(i)) => s = Home(Op(i)) /\ Allowed(Op(i))
    BY <1>3, <2>1, <2>2, Zenon
  <2> QED
    BY <1>4, <1>5, <1>6, <1>9, <2>2, <2>3, Zenon
<1> QED
  BY <1>8, <1>9, Zenon

-----------------------------------------------------------------------------
(***************************************************************************)
(* What the simulation needs beside IInv: references stand for the values  *)
(* of the request they were made for, an answer is held only while it is   *)
(* being decoded, and a request that may come late is told from the others *)
(* by its number.                                                          *)
(***************************************************************************)
StageExact ==
  \A p \in Procs : pc[p] = "stage" => Exact(blobs, req[p], staged[p]) /\ out[p] = {}

ReplyExact ==
  /\ DOMAIN out = Procs
  /\ \A p \in Procs : /\ pc[p] # "decode" => reply[p] = {}
                      /\ \A x \in reply[p] : x.keysOnly => x.kv.val = NoVal

LateExact == \A m \in late : Exact(blobs, m.req, m.staged)

IdsOK ==
  /\ \A p \in Procs : id[p] <= issued
  /\ \A m \in late : m.id \in Nat /\ m.id <= issued
  /\ \A m, n \in late : m.id = n.id => m = n
  /\ \A p \in Procs : pc[p] = "stage" =>
        /\ \A m \in late : m.id # id[p]
        /\ \A q \in Procs \ {p} : id[q] # id[p]

UInv == StageExact /\ ReplyExact /\ LateExact /\ IdsOK

LEMMA InitUser == Init => UInv
  BY DEF Init, UInv, StageExact, ReplyExact, LateExact, IdsOK

LEMMA ExactKept ==
  ASSUME IInv, [Next]_vars
  PROVE  \A q \in Requests : \A refs : Exact(blobs, q, refs) => Exact(blobs', q, refs)
<1> SUFFICES ASSUME NEW q \in Requests, NEW refs, Exact(blobs, q, refs),
                    NEW i \in 1..Len(Ops(q)), refs[i] # NoVal
             PROVE  /\ refs[i] \in Refs
                    /\ blobs'[refs[i].shard][refs[i].token] = Ops(q)[i].val
  BY Zenon DEF Exact
<1>1. refs[i] \in Refs /\ blobs[refs[i].shard][refs[i].token] = Ops(q)[i].val
  BY Zenon DEF Exact
<1>2. Ops(q)[i].val # NoVal
  <2>1. Ops(q)[i] \in OpType
    BY OpsOf, Zenon
  <2> QED
    BY <2>1, ValuesAssumption, Zenon DEF OpType
<1>3. refs[i].shard \in Shards /\ refs[i].token \in Tokens
  BY <1>1, Zenon DEF Refs
<1> QED
  BY <1>1, <1>2, <1>3, BlobsKept, Zenon

LEMMA FinishUser ==
  ASSUME IInv, UInv, NEW p \in Procs, NEW s, Finish(p, s), UNCHANGED blobs,
         \A r \in Procs : r # p => req'[r] = req[r] /\ out'[r] = out[r],
         DOMAIN out' = Procs
  PROVE  StageExact' /\ ReplyExact'
<1>1. StageExact'
  BY Zenon DEF UInv, StageExact, IInv, HandlerTypes, Finish
<1>2. ReplyExact'
  BY Zenon DEF UInv, ReplyExact, IInv, HandlerTypes, ReplyOK, Finish
<1> QED
  BY <1>1, <1>2, Zenon

LEMMA BeginUser ==
  ASSUME IInv, UInv, NEW p \in Procs, NEW q \in Requests, Begin(p, q)
  PROVE  UInv'
<1>1. /\ UNCHANGED <<blobs, late>> /\ req' = [req EXCEPT ![p] = q]
      /\ out' = [out EXCEPT ![p] = {}] /\ pc[p] = "idle"
      /\ issued' = issued + 1 /\ id' = [id EXCEPT ![p] = issued + 1]
  BY Zenon DEF Begin, shards
<1>2. LateExact'
  BY <1>1, Zenon DEF UInv, LateExact
<1>3. /\ DOMAIN out' = Procs
      /\ \A r \in Procs : r # p => req'[r] = req[r] /\ out'[r] = out[r]
      /\ out'[p] = {} /\ req'[p] = q
  BY <1>1, Zenon DEF IInv, HandlerTypes, UInv, ReplyExact
<1>4. /\ pc' \in [Procs -> {"idle", "stage", "decode"}]
      /\ \A r \in Procs : r # p => pc'[r] = pc[r]
  BY Zenon DEF Begin, Finish, IInv, HandlerTypes
<1>5. IdsOK'
  <2>1. issued \in Nat /\ id \in [Procs -> Nat] /\ id' \in [Procs -> Nat]
    BY <1>1 DEF IInv, CounterTypes
  <2>2. \A r \in Procs : id'[r] = IF r = p THEN issued + 1 ELSE id[r]
    BY <1>1, <2>1, Zenon
  <2>3. /\ \A r \in Procs : id[r] <= issued /\ id[r] \in Nat
        /\ \A m \in late : m.id \in Nat /\ m.id <= issued
        /\ \A m, n \in late : m.id = n.id => m = n
        /\ \A r \in Procs : pc[r] = "stage" =>
              /\ \A m \in late : m.id # id[r]
              /\ \A o \in Procs \ {r} : id[o] # id[r]
    BY <2>1, Zenon DEF UInv, IdsOK
  <2>4. /\ \A r \in Procs : id'[r] <= issued'
        /\ \A m \in late : m.id \in Nat /\ m.id <= issued'
    BY <1>1, <2>1, <2>2, <2>3
  <2>5. ASSUME NEW r \in Procs, pc'[r] = "stage"
        PROVE  /\ \A m \in late : m.id # id'[r]
               /\ \A o \in Procs \ {r} : id'[o] # id'[r]
    <3>1. CASE r = p
      BY <2>1, <2>2, <2>3, <3>1
    <3>2. CASE r # p
      <4>1. pc[r] = "stage" /\ id'[r] = id[r]
        BY <1>4, <2>2, <2>5, <3>2, Zenon
      <4> QED
        BY <2>1, <2>2, <2>3, <4>1
    <3> QED
      BY <3>1, <3>2, Zenon
  <2> QED
    BY <1>1, <2>3, <2>4, <2>5, Zenon DEF IdsOK
<1>6. CASE ~Valid(q)
  <2>1. Finish(p, "invalid")
    BY <1>6, Zenon DEF Begin
  <2>2. StageExact' /\ ReplyExact'
    BY <1>1, <1>3, <2>1, FinishUser, Zenon
  <2> QED
    BY <1>2, <1>5, <2>2, Zenon DEF UInv
<1>7. CASE Valid(q)
  <2>1. pc' = [pc EXCEPT ![p] = "stage"] /\ UNCHANGED <<staged, reply>>
    BY <1>7, Zenon DEF Begin
  <2>2. Exact(blobs, q, staged[p])
    <3>1. staged[p] = [i \in 1..MaxOps |-> NoVal]
      BY <1>1, Zenon DEF IInv, StagingOK
    <3>2. \A i \in 1..Len(Ops(q)) : i \in 1..MaxOps
      BY OpsOf, Zenon
    <3> QED
      BY <3>1, <3>2, Zenon DEF Exact
  <2>3. StageExact'
    BY <1>1, <1>3, <2>1, <2>2, Zenon DEF UInv, StageExact, IInv, HandlerTypes
  <2>4. ReplyExact'
    BY <1>1, <1>3, <2>1, Zenon DEF UInv, ReplyExact, IInv, HandlerTypes
  <2> QED
    BY <1>2, <1>5, <2>3, <2>4, Zenon DEF UInv
<1> QED
  BY <1>6, <1>7, Zenon

LEMMA IdsKept ==
  ASSUME UInv, UNCHANGED <<id, issued>>, late' \subseteq late,
         \A r \in Procs : pc'[r] = "stage" => pc[r] = "stage"
  PROVE  IdsOK'
  BY Zenon DEF UInv, IdsOK

LEMMA LateKept ==
  ASSUME UInv, UNCHANGED blobs, late' \subseteq late
  PROVE  LateExact'
  BY Zenon DEF UInv, LateExact

LEMMA StagePutUser ==
  ASSUME IInv, UInv, NEW p \in Procs, StagePut(p)
  PROVE  UInv'
<1>1. pc[p] = "stage" /\ UNCHANGED <<pc, req, id, issued, reply, out, late>>
  BY Zenon DEF StagePut
<1>2. PICK i \in Unstaged(p), t \in Tokens :
        LET o == Ops(req[p])[i]
            s == ShardOf(Routes, o.key)
        IN  /\ blobs' = [blobs EXCEPT ![s][t] = o.val]
            /\ staged' = [staged EXCEPT ![p][i] = [shard |-> s, token |-> t]]
  BY Zenon DEF StagePut
<1> DEFINE q == req[p]
           o == Ops(q)[i]
           s == ShardOf(Routes, o.key)
           ref == [shard |-> s, token |-> t]
           new == [staged[p] EXCEPT ![i] = ref]
<1>3. q \in Requests /\ staged[p] \in [1..MaxOps -> Refs \cup {NoVal}]
  BY <1>1, Zenon DEF IInv, StagingOK, StagedOK
<1>4. i \in 1..Len(Ops(q)) /\ i \in 1..MaxOps /\ o \in OpType
  BY <1>3, OpsOf, Zenon DEF Unstaged
<1>5. s \in Shards
  BY <1>4, ShardOfType, BoundsAssumption DEF OpType
<1>6. ref \in Refs /\ blobs'[ref.shard][ref.token] = o.val
  BY <1>2, <1>5, Zenon DEF Refs, IInv, ShardTypes
<1>7. \A r \in Requests : \A refs : Exact(blobs, r, refs) => Exact(blobs', r, refs)
  <2>1. [Next]_vars
    BY Zenon DEF Next, Step
  <2> QED
    BY <2>1, ExactKept, Zenon
<1>8. Exact(blobs', q, staged[p])
  BY <1>1, <1>3, <1>7, Zenon DEF UInv, StageExact
<1>9. staged' = [staged EXCEPT ![p] = new] /\ \A j \in 1..MaxOps : new[j] = IF j = i THEN ref ELSE staged[p][j]
  BY <1>2, <1>3, Zenon
<1>10. \A j \in 1..Len(Ops(q)) : j \in 1..MaxOps
  BY <1>3, OpsOf, Zenon
<1>11. Exact(blobs', q, new)
  <2> HIDE DEF new, ref, q
  <2> QED
    BY <1>6, <1>8, <1>9, <1>10, Zenon DEF Exact
<1> HIDE DEF new
<1>12. StageExact'
  <2> SUFFICES ASSUME NEW r \in Procs, pc[r] = "stage"
               PROVE  Exact(blobs', req[r], staged'[r]) /\ out[r] = {}
    BY <1>1, Zenon DEF StageExact
  <2>1. Exact(blobs, req[r], staged[r]) /\ out[r] = {} /\ req[r] \in Requests
    BY Zenon DEF UInv, StageExact, IInv, StagingOK, StagedOK
  <2>2. Exact(blobs', req[r], staged[r])
    BY <1>7, <2>1, Zenon
  <2>3. staged'[r] = IF r = p THEN new ELSE staged[r]
    BY <1>9, Zenon DEF IInv, HandlerTypes
  <2> QED
    BY <1>11, <2>1, <2>2, <2>3, Zenon
<1>13. ReplyExact'
  BY <1>1, Zenon DEF UInv, ReplyExact
<1>14. LateExact'
  BY <1>1, <1>7, Zenon DEF UInv, LateExact, IInv, LateTypes
<1>15. IdsOK'
  BY <1>1, IdsKept, Zenon
<1> QED
  BY <1>12, <1>13, <1>14, <1>15, Zenon DEF UInv

\* The answer of the coordinator to a request sent, and what commits with it.
LEMMA SentReadable ==
  ASSUME IInv, NEW q, NEW refs, StagedOK(blobs, q, refs), AllStaged(q, refs),
         Exact(blobs, q, refs), ~Refuses(hist, compacted, leases, Encode(q, refs))
  PROVE  LET t == Encode(q, refs)
         IN  /\ \A i \in 1..Len(Branch(hist, t)) : Readable(hist, Branch(hist, t), i)
             /\ After(Last(hist), Branch(hist, t), Len(Branch(hist, t)), Len(hist) + 1)
                  \in [RawKeys -> KVs]
<1> DEFINE t == Encode(q, refs)
           ops == Branch(hist, t)
<1>1. HistOK(blobs, hist) /\ leases \subseteq Leases
  BY Zenon DEF IInv, CoordTypes
<1>2. \A i \in 1..Len(ops) : Readable(hist, ops, i)
  BY <1>1, ViewOK, Zenon DEF Readable, SnapOK
<1>3. Len(ops) \in Nat /\ \A i \in 1..Len(ops) : ops[i].op = "put" => GoodPut(blobs, ops[i], Last(hist))
  BY <1>1, EncodeGood, NotRefused, Zenon
<1>4. Len(hist) + 1 \in Nat /\ SnapOK(blobs, Last(hist))
  BY <1>1, LastOK
<1>5. SnapOK(blobs, After(Last(hist), ops, Len(ops), Len(hist) + 1))
  BY <1>3, <1>4, AfterOK, Zenon
<1> QED
  BY <1>2, <1>5, Zenon DEF SnapOK

LEMMA PublishUser ==
  ASSUME IInv, UInv, NEW p \in Procs, Publish(p)
  PROVE  UInv'
<1>1. /\ pc[p] = "stage" /\ Unstaged(p) = {}
      /\ UNCHANGED <<blobs, req, id, issued, out, late>>
  BY Zenon DEF Publish, shards
<1>2. /\ StagedOK(blobs, req[p], staged[p]) /\ AllStaged(req[p], staged[p])
      /\ Exact(blobs, req[p], staged[p])
  BY <1>1, NothingUnstaged, Zenon DEF IInv, StagingOK, UInv, StageExact
<1>3. \A r \in Procs : pc'[r] = "stage" => pc[r] = "stage"
  BY <1>1, Zenon DEF Publish, Finish, IInv, HandlerTypes
<1>4. LateExact' /\ IdsOK'
  BY <1>1, <1>3, LateKept, IdsKept, Zenon
<1>5. CASE Refuses(hist, compacted, leases, Sent(p))
  <2>1. Finish(p, "refused") /\ DOMAIN out' = Procs
    BY <1>1, <1>5, Zenon DEF Publish, UInv, ReplyExact
  <2>2. StageExact' /\ ReplyExact'
    BY <1>1, <2>1, FinishUser, Zenon
  <2> QED
    BY <1>4, <2>2, Zenon DEF UInv
<1>6. CASE ~Refuses(hist, compacted, leases, Sent(p))
  <2>1. /\ reply' = [reply EXCEPT ![p] = Answer(hist, Sent(p))]
        /\ pc' = [pc EXCEPT ![p] = "decode"] /\ UNCHANGED staged
    BY <1>6, Zenon DEF Publish
  <2>2. SentFor(Sent(p), req[p])
    BY <1>2, EncodeIsSentFor, Zenon DEF StagedOK, Sent
  <2>3. \A i \in 1..Len(Branch(hist, Sent(p))) : Readable(hist, Branch(hist, Sent(p)), i)
    BY <1>2, <1>6, SentReadable, Zenon DEF Sent
  <2>4. hist \in Seq([RawKeys -> KVs]) /\ Len(hist) >= 2
    BY Zenon DEF IInv, CoordTypes
  <2>5. \A x \in Answer(hist, Sent(p)) : x.keysOnly => x.kv.val = NoVal
    BY <2>2, <2>3, <2>4, AnswerMirror, Zenon
  <2>6. StageExact'
    BY <1>1, <2>1, Zenon DEF UInv, StageExact, IInv, HandlerTypes
  <2>7. ReplyExact'
    BY <1>1, <2>1, <2>5, Zenon DEF UInv, ReplyExact, IInv, HandlerTypes, ReplyOK
  <2> QED
    BY <1>4, <2>6, <2>7, Zenon DEF UInv
<1> QED
  BY <1>5, <1>6, Zenon

LEMMA DecodeKVUser ==
  ASSUME IInv, UInv, NEW p \in Procs, DecodeKV(p)
  PROVE  UInv'
<1>1. pc[p] = "decode" /\ UNCHANGED <<blobs, req, id, issued, late>>
  BY Zenon DEF DecodeKV, shards
<1>2. PICK x \in reply[p] :
        IF DataLoss(x) THEN Finish(p, "dataloss") /\ out' = [out EXCEPT ![p] = {}]
        ELSE /\ reply' = [reply EXCEPT ![p] = @ \ {x}]
             /\ out' = [out EXCEPT ![p] = @ \cup {Decoded(x)}]
             /\ UNCHANGED <<pc, staged>>
  BY Zenon DEF DecodeKV
<1>3. \A r \in Procs : pc'[r] = "stage" => pc[r] = "stage"
  BY <1>2, Zenon DEF Finish, IInv, HandlerTypes
<1>4. LateExact' /\ IdsOK'
  BY <1>1, <1>3, LateKept, IdsKept, Zenon
<1>5. DOMAIN out' = Procs /\ \A r \in Procs : r # p => out'[r] = out[r]
  BY <1>2, Zenon DEF UInv, ReplyExact
<1>6. CASE DataLoss(x)
  BY <1>1, <1>2, <1>4, <1>5, <1>6, FinishUser, Zenon DEF UInv
<1>7. CASE ~DataLoss(x)
  <2>1. StageExact'
    BY <1>1, <1>2, <1>5, <1>7, Zenon DEF UInv, StageExact
  <2>2. ReplyExact'
    BY <1>1, <1>2, <1>5, <1>7 DEF UInv, ReplyExact, IInv, ReplyOK
  <2> QED
    BY <1>4, <2>1, <2>2, Zenon DEF UInv
<1> QED
  BY <1>6, <1>7, Zenon

LEMMA ReturnUser ==
  ASSUME IInv, UInv, NEW p \in Procs, Return(p)
  PROVE  UInv'
<1>1. Finish(p, "ok") /\ UNCHANGED <<blobs, req, id, issued, out, late>> /\ DOMAIN out' = Procs
  BY Zenon DEF Return, shards, UInv, ReplyExact
<1>2. \A r \in Procs : pc'[r] = "stage" => pc[r] = "stage"
  BY <1>1, Zenon DEF Finish, IInv, HandlerTypes
<1> QED
  BY <1>1, <1>2, FinishUser, LateKept, IdsKept, Zenon DEF UInv

LEMMA GiveUpUser ==
  ASSUME IInv, UInv, NEW p \in Procs, GiveUp(p)
  PROVE  UInv'
<1>1. /\ Finish(p, "error") /\ UNCHANGED <<blobs, req, id, issued>>
      /\ out' = [out EXCEPT ![p] = {}]
  BY Zenon DEF GiveUp, shards
<1>2. DOMAIN out' = Procs /\ \A r \in Procs : r # p => out'[r] = out[r]
  BY <1>1, Zenon DEF UInv, ReplyExact
<1>3. StageExact' /\ ReplyExact'
  BY <1>1, <1>2, FinishUser, Zenon
<1>4. \A r \in Procs : pc'[r] = "stage" => pc[r] = "stage" /\ r # p
  BY <1>1, Zenon DEF Finish, IInv, HandlerTypes
<1>5. CASE late' = late
  BY <1>1, <1>3, <1>4, <1>5, LateKept, IdsKept, Zenon DEF UInv
<1> DEFINE sent == [id |-> id[p], req |-> req[p], staged |-> staged[p]]
<1>6. CASE pc[p] = "stage" /\ late' = late \cup {sent}
  <2>1. sent.id = id[p] /\ sent.req = req[p] /\ sent.staged = staged[p]
    BY Zenon
  <2>2. late' = late \cup {sent}
    BY <1>6, Zenon
  <2> HIDE DEF sent
  <2>3. Exact(blobs, sent.req, sent.staged)
    BY <1>6, <2>1, Zenon DEF UInv, StageExact
  <2>4. LateExact'
    BY <1>1, <2>2, <2>3, Zenon DEF UInv, LateExact
  <2>5. /\ id[p] \in Nat /\ id[p] <= issued
        /\ \A m \in late : m.id # id[p]
        /\ \A r \in Procs \ {p} : id[r] # id[p]
    BY <1>6, Zenon DEF UInv, IdsOK, IInv, CounterTypes
  <2>6. IdsOK'
    BY <1>1, <1>4, <2>1, <2>2, <2>5, Zenon DEF UInv, IdsOK
  <2> QED
    BY <1>3, <2>4, <2>6, Zenon DEF UInv
<1> QED
  BY <1>5, <1>6, Zenon DEF GiveUp

\* Steps that leave the handlers alone.
LEMMA OtherUser ==
  ASSUME UInv, UNCHANGED <<blobs, pc, req, id, issued, staged, reply, out>>,
         late' \subseteq late
  PROVE  UInv'
<1>1. StageExact' /\ ReplyExact'
  BY Zenon DEF UInv, StageExact, ReplyExact
<1> QED
  BY <1>1, LateKept, IdsKept, Zenon DEF UInv

LEMMA NextUser == IInv /\ UInv /\ [Next]_vars => UInv'
<1> SUFFICES ASSUME IInv, UInv, [Next]_vars PROVE UInv'
  BY Zenon
<1>1. CASE \E p \in Procs : (\E q \in Requests : Begin(p, q)) \/ Step(p) \/ GiveUp(p)
  BY <1>1, BeginUser, StagePutUser, PublishUser, DecodeKVUser, ReturnUser, GiveUpUser, Zenon
     DEF Step
<1>2. CASE \E m \in late : PublishLate(m) \/ Drop(m)
  BY <1>2, OtherUser, Zenon DEF PublishLate, Drop, shards
<1>3. CASE \E r \in CompactRevs : Compact(r)
  BY <1>3, OtherUser, Zenon DEF Compact, shards, handlers
<1>4. CASE \E l \in Leases : LeaseGrant(l) \/ LeaseEnd(l)
  BY <1>4, OtherUser, Zenon DEF LeaseGrant, LeaseEnd, shards, handlers
<1>5. CASE \E s \in Shards, t \in Tokens : LoseBlob(s, t)
  BY <1>5, OtherUser, Zenon DEF LoseBlob, handlers
<1>6. CASE UNCHANGED vars
  BY <1>6, OtherUser, Zenon DEF vars
<1> QED
  BY <1>1, <1>2, <1>3, <1>4, <1>5, <1>6, Zenon DEF Next

LEMMA UserInvariant == Spec => []UInv
  BY InitUser, NextUser, InvariantHolds, PTL DEF Spec

-----------------------------------------------------------------------------
(***************************************************************************)
(* The simulation.                                                         *)
(***************************************************************************)
LEMMA ViewIsUserHist == UserHist = UserView(hist)
  BY Zenon DEF UserHist, UserView, UserSnap

\* While no blob is written, what users see changes with hist, out and reply only.
LEMMA SameBlobs ==
  ASSUME UNCHANGED blobs
  PROVE  /\ UserHist' = UserView(hist')
         /\ UserOut' = [r \in Procs |-> out'[r] \cup {UserItem(x) : x \in reply'[r]}]
<1>1. \A v : Resolve(v)' = Resolve(v)
  BY Zenon DEF Resolve
<1>2. \A kv : UserKV(kv)' = UserKV(kv)
  BY <1>1, Zenon DEF UserKV
<1>3. \A x : UserItem(x)' = UserItem(x)
  BY <1>1, Zenon DEF UserItem
<1>4. UserHist' = UserView(hist')
  BY <1>2, Zenon DEF UserHist, UserView, UserSnap
<1>5. UserOut' = [r \in Procs |-> out'[r] \cup {UserItem(x) : x \in reply'[r]}]
  BY <1>3, Zenon DEF UserOut
<1> QED
  BY <1>4, <1>5, Zenon

LEMMA FinishSeen ==
  ASSUME IInv, NEW p \in Procs, NEW s, Finish(p, s)
  PROVE  /\ UserPC' = [UserPC EXCEPT ![p] = "idle"]
         /\ UserStatus' = [UserStatus EXCEPT ![p] = IF s = "dataloss" THEN "error" ELSE s]
<1>1. UserPC' = [UserPC EXCEPT ![p] = "idle"]
  BY Zenon DEF UserPC, Finish, IInv, HandlerTypes
<1>2. UserStatus' = [UserStatus EXCEPT ![p] = IF s = "dataloss" THEN "error" ELSE s]
  BY Zenon DEF UserStatus, Finish, IInv, HandlerTypes
<1> QED
  BY <1>1, <1>2, Zenon

\* A handler that returns an error, or nothing, has returned no KeyValue.
LEMMA OutCleared ==
  ASSUME UInv, NEW p \in Procs, UNCHANGED blobs, out' = [out EXCEPT ![p] = {}],
         \A r \in Procs : reply'[r] = IF r = p THEN {} ELSE reply[r]
  PROVE  UserOut' = [UserOut EXCEPT ![p] = {}]
<1> DEFINE Seen(o, y) == o \cup {UserItem(x) : x \in y}
<1>1. /\ UserOut' = [r \in Procs |-> Seen(out'[r], reply'[r])]
      /\ UserOut = [r \in Procs |-> Seen(out[r], reply[r])]
  BY SameBlobs, Zenon DEF UserOut
<1>2. \A r \in Procs : out'[r] = IF r = p THEN {} ELSE out[r]
  BY Zenon DEF UInv, ReplyExact
<1>3. Seen({}, {}) = {}
  BY Zenon
<1> HIDE DEF Seen
<1> QED
  BY <1>1, <1>2, <1>3

LEMMA BeginSimulates ==
  ASSUME IInv, UInv, NEW p \in Procs, NEW q \in Requests, Begin(p, q)
  PROVE  Abs!Invoke(p, q)
<1>1. /\ UNCHANGED <<hist, compacted, leases, blobs, late, succeeded>> /\ pc[p] = "idle"
      /\ issued < MaxRequests /\ issued' = issued + 1
      /\ id' = [id EXCEPT ![p] = issued + 1] /\ req' = [req EXCEPT ![p] = q]
      /\ out' = [out EXCEPT ![p] = {}]
  BY Zenon DEF Begin, coordinator, shards
<1>2. reply[p] = {} /\ DOMAIN reply = Procs
  BY <1>1, Zenon DEF UInv, ReplyExact, IInv, ReplyOK
<1>3. \A r \in Procs : reply'[r] = IF r = p THEN {} ELSE reply[r]
  BY <1>2, Zenon DEF Begin, Finish
<1>4. UserOut' = [UserOut EXCEPT ![p] = {}]
  BY <1>1, <1>3, OutCleared, Zenon
<1>5. UserHist' = UserHist /\ UserLate' = UserLate
  BY <1>1, SameBlobs, ViewIsUserHist, Zenon DEF UserLate
<1>6. UserPC[p] = "idle"
  BY <1>1, Zenon DEF UserPC
<1>7. CASE ~InScope(q)
  <2>1. Finish(p, "invalid")
    BY <1>7, ValidationIsTheScope, Zenon DEF Begin
  <2>2. UserPC' = [UserPC EXCEPT ![p] = "idle"] /\ UserStatus' = [UserStatus EXCEPT ![p] = "invalid"]
    BY <2>1, FinishSeen, Zenon
  <2> QED
    BY <1>1, <1>4, <1>5, <1>6, <1>7, <2>2, Zenon DEF Abs!Invoke, Abs!Reply
<1>8. CASE InScope(q)
  <2>1. pc' = [pc EXCEPT ![p] = "stage"] /\ status' = [status EXCEPT ![p] = "none"]
    BY <1>8, ValidationIsTheScope, Zenon DEF Begin
  <2>2. UserPC' = [UserPC EXCEPT ![p] = "pending"]
    BY <2>1, Zenon DEF UserPC, IInv, HandlerTypes
  <2>3. UserStatus' = [UserStatus EXCEPT ![p] = "none"]
    BY <2>1, Zenon DEF UserStatus, IInv, HandlerTypes
  <2> QED
    BY <1>1, <1>4, <1>5, <1>6, <1>8, <2>2, <2>3, Zenon DEF Abs!Invoke
<1> QED
  BY <1>7, <1>8, Zenon

\* A blob that is not referred to yet is seen by no one.
LEMMA StagePutSimulates ==
  ASSUME IInv, UInv, NEW p \in Procs, StagePut(p)
  PROVE  UNCHANGED Abs!vars
<1>1. UNCHANGED <<hist, compacted, leases, pc, req, id, issued, reply, out, succeeded, status, late>>
  BY Zenon DEF StagePut, coordinator
<1>2. [Next]_vars
  BY Zenon DEF Next, Step
<1>3. UserHist' = UserHist
  <2>1. \A r \in 1..Len(hist) : UserHist'[r] = UserHist[r]
    BY <1>2, PastKept, Zenon
  <2>2. /\ UserHist = [r \in 1..Len(hist) |-> UserHist[r]]
        /\ UserHist' = [r \in 1..Len(hist) |-> UserHist'[r]]
    BY <1>1, Zenon DEF UserHist
  <2> QED
    BY <2>1, <2>2, Zenon
<1>4. ASSUME NEW r \in Procs, NEW x \in reply[r]
      PROVE  UserItem(x)' = UserItem(x)
  <2>1. x.kv.val \in Refs =>
          /\ x.kv.val.shard \in Shards /\ x.kv.val.token \in Tokens
          /\ blobs[x.kv.val.shard][x.kv.val.token] # NoVal
    BY ValuesAssumption, Zenon DEF IInv, ReplyOK, GoodItem, Reaches, Refs, UInv, ReplyExact
  <2>2. Resolve(x.kv.val)' = Resolve(x.kv.val)
    BY <1>2, <2>1, BlobsKept, Zenon DEF Resolve
  <2> QED
    BY <2>2, Zenon DEF UserItem
<1>5. UserOut' = UserOut
  BY <1>1, <1>4, Zenon DEF UserOut
<1>6. UserPC' = UserPC /\ UserStatus' = UserStatus /\ UserLate' = UserLate
  BY <1>1 DEF UserPC, UserStatus, UserLate
<1> QED
  BY <1>1, <1>3, <1>5, <1>6, Zenon DEF Abs!vars

\* What the coordinator does with a request sent is what etcd would do with the
\* request itself.
LEMMA SentSimulates ==
  ASSUME IInv, NEW q, NEW refs, StagedOK(blobs, q, refs), AllStaged(q, refs),
         Exact(blobs, q, refs)
  PROVE  LET t == Encode(q, refs)
         IN  /\ Refuses(hist, compacted, leases, t) <=> Abs!Refuses(UserHist, compacted, leases, q)
             /\ ~Refuses(hist, compacted, leases, t) =>
                  /\ UserView(Commit(hist, t)) = Abs!Commit(UserHist, q)
                  /\ Succeeds(hist, t) = Abs!Succeeds(UserHist, q)
                  /\ {UserItem(x) : x \in Answer(hist, t)} = Abs!Answer(UserHist, q)
<1> DEFINE t == Encode(q, refs)
<1>1. hist \in Seq([RawKeys -> KVs]) /\ Len(hist) >= 2
  BY Zenon DEF IInv, CoordTypes
<1>2. SentFor(t, q)
  BY EncodeIsSentFor, Zenon DEF StagedOK
<1>3. Refuses(hist, compacted, leases, t) <=> Refuses(UserView(hist), compacted, leases, q)
  BY <1>1, <1>2, RefusesMirror, Zenon
<1>4. Succeeds(hist, t) = Succeeds(UserView(hist), q)
  BY <1>1, <1>2, SucceedsMirror, Zenon
<1>5. ASSUME ~Refuses(hist, compacted, leases, t)
      PROVE  /\ UserView(Commit(hist, t)) = Commit(UserView(hist), q)
             /\ {UserItem(x) : x \in Answer(hist, t)} = Answer(UserView(hist), q)
  <2>1. /\ \A i \in 1..Len(Branch(hist, t)) : Readable(hist, Branch(hist, t), i)
        /\ After(Last(hist), Branch(hist, t), Len(Branch(hist, t)), Len(hist) + 1)
             \in [RawKeys -> KVs]
    BY <1>5, SentReadable, Zenon
  <2> HIDE DEF t
  <2> QED
    BY <1>1, <1>2, <2>1, CommitMirror, AnswerMirror, Zenon
<1> HIDE DEF t
<1>6. /\ Refuses(hist, compacted, leases, t) <=> Abs!Refuses(UserHist, compacted, leases, q)
      /\ ~Refuses(hist, compacted, leases, t) =>
           /\ UserView(Commit(hist, t)) = Abs!Commit(UserHist, q)
           /\ Succeeds(hist, t) = Abs!Succeeds(UserHist, q)
           /\ {UserItem(x) : x \in Answer(hist, t)} = Abs!Answer(UserHist, q)
  BY <1>3, <1>4, <1>5, ViewIsUserHist, SameRefuses, SameBranch, SameCommit, SameAnswer, Zenon
<1> QED
  BY <1>6, Zenon DEF t

LEMMA PublishSimulates ==
  ASSUME IInv, UInv, NEW p \in Procs, Publish(p)
  PROVE  Abs!Execute(p)
<1>1. /\ pc[p] = "stage" /\ Unstaged(p) = {}
      /\ UNCHANGED <<compacted, leases, blobs, req, id, issued, out, late>>
  BY Zenon DEF Publish, shards
<1>2. /\ StagedOK(blobs, req[p], staged[p]) /\ AllStaged(req[p], staged[p])
      /\ Exact(blobs, req[p], staged[p]) /\ out[p] = {} /\ reply[p] = {}
  BY <1>1, NothingUnstaged, Zenon DEF IInv, StagingOK, UInv, StageExact, ReplyExact
<1>3. /\ Refuses(hist, compacted, leases, Sent(p))
           <=> Abs!Refuses(UserHist, compacted, leases, req[p])
      /\ ~Refuses(hist, compacted, leases, Sent(p)) =>
           /\ UserView(Commit(hist, Sent(p))) = Abs!Commit(UserHist, req[p])
           /\ Succeeds(hist, Sent(p)) = Abs!Succeeds(UserHist, req[p])
           /\ {UserItem(x) : x \in Answer(hist, Sent(p))} = Abs!Answer(UserHist, req[p])
  BY <1>2, SentSimulates, Zenon DEF Sent
<1>4. UserPC[p] = "pending" /\ UserLate' = UserLate
  BY <1>1, Zenon DEF UserPC, UserLate
<1>5. CASE Refuses(hist, compacted, leases, Sent(p))
  <2>1. Finish(p, "refused") /\ UNCHANGED <<hist, succeeded>>
    BY <1>5, Zenon DEF Publish
  <2>2. /\ UserPC' = [UserPC EXCEPT ![p] = "idle"]
        /\ UserStatus' = [UserStatus EXCEPT ![p] = "refused"]
    BY <2>1, FinishSeen, Zenon
  <2>3. UserHist' = UserHist
    BY <1>1, <2>1, SameBlobs, ViewIsUserHist, Zenon
  <2>4. UserOut' = UserOut
    <3>1. \A r \in Procs : reply'[r] = reply[r]
      BY <1>2, <2>1, Zenon DEF Finish, IInv, ReplyOK
    <3> QED
      BY <1>1, <3>1, SameBlobs, Zenon DEF UserOut
  <2> QED
    BY <1>1, <1>3, <1>4, <1>5, <2>1, <2>2, <2>3, <2>4, Zenon DEF Abs!Execute, Abs!Reply
<1>6. CASE ~Refuses(hist, compacted, leases, Sent(p))
  <2>1. /\ hist' = Commit(hist, Sent(p))
        /\ succeeded' = [succeeded EXCEPT ![p] = Succeeds(hist, Sent(p))]
        /\ reply' = [reply EXCEPT ![p] = Answer(hist, Sent(p))]
        /\ pc' = [pc EXCEPT ![p] = "decode"] /\ UNCHANGED status
    BY <1>6, Zenon DEF Publish
  <2>2. UserHist' = Abs!Commit(UserHist, req[p])
    BY <1>1, <1>3, <1>6, <2>1, SameBlobs, Zenon
  <2>3. succeeded' = [succeeded EXCEPT ![p] = Abs!Succeeds(UserHist, req[p])]
    BY <1>3, <1>6, <2>1, Zenon
  <2>4. UserPC' = [UserPC EXCEPT ![p] = "executed"] /\ UserStatus' = UserStatus
    BY <2>1, Zenon DEF UserPC, UserStatus, IInv, HandlerTypes
  <2>5. UserOut' = [UserOut EXCEPT ![p] = Abs!Answer(UserHist, req[p])]
    <3> DEFINE Seen(o, y) == o \cup {UserItem(x) : x \in y}
               answer == Answer(hist, Sent(p))
    <3>1. /\ UserOut' = [r \in Procs |-> Seen(out[r], reply'[r])]
          /\ UserOut = [r \in Procs |-> Seen(out[r], reply[r])]
      BY <1>1, SameBlobs, Zenon DEF UserOut
    <3>2. \A r \in Procs : reply'[r] = IF r = p THEN answer ELSE reply[r]
      BY <2>1, Zenon DEF IInv, ReplyOK
    <3>3. Seen(out[p], answer) = Abs!Answer(UserHist, req[p])
      BY <1>2, <1>3, <1>6, Zenon
    <3> HIDE DEF Seen, answer
    <3> QED
      BY <3>1, <3>2, <3>3, Zenon
  <2> QED
    BY <1>1, <1>3, <1>4, <1>6, <2>2, <2>3, <2>4, <2>5, Zenon DEF Abs!Execute
<1> QED
  BY <1>5, <1>6, Zenon

\* Decoding a KeyValue gives the one of the answer, or DataLoss.
LEMMA DecodeKVSimulates ==
  ASSUME IInv, UInv, NEW p \in Procs, DecodeKV(p)
  PROVE  Abs!Fail(p) \/ UNCHANGED Abs!vars
<1>1. /\ pc[p] = "decode"
      /\ UNCHANGED <<hist, compacted, leases, blobs, req, id, issued, succeeded, late>>
  BY Zenon DEF DecodeKV, coordinator, shards
<1>2. PICK x \in reply[p] :
        IF DataLoss(x) THEN Finish(p, "dataloss") /\ out' = [out EXCEPT ![p] = {}]
        ELSE /\ reply' = [reply EXCEPT ![p] = @ \ {x}]
             /\ out' = [out EXCEPT ![p] = @ \cup {Decoded(x)}]
             /\ UNCHANGED <<pc, status>>
  BY Zenon DEF DecodeKV
<1>3. UserHist' = UserHist /\ UserLate' = UserLate /\ UserPC[p] = "executed"
  BY <1>1, SameBlobs, ViewIsUserHist, Zenon DEF UserLate, UserPC
<1>4. CASE DataLoss(x)
  <2>1. /\ UserPC' = [UserPC EXCEPT ![p] = "idle"]
        /\ UserStatus' = [UserStatus EXCEPT ![p] = "error"]
    BY <1>2, <1>4, FinishSeen, Zenon
  <2>2. \A r \in Procs : reply'[r] = IF r = p THEN {} ELSE reply[r]
    BY <1>2, <1>4, Zenon DEF Finish, IInv, ReplyOK
  <2>3. UserOut' = [UserOut EXCEPT ![p] = {}]
    BY <1>1, <1>2, <1>4, <2>2, OutCleared, Zenon
  <2> QED
    BY <1>1, <1>3, <2>1, <2>3, Zenon DEF Abs!Fail, Abs!Reply
<1>5. CASE ~DataLoss(x)
  <2>1. /\ reply' = [reply EXCEPT ![p] = @ \ {x}]
        /\ out' = [out EXCEPT ![p] = @ \cup {Decoded(x)}]
        /\ UNCHANGED <<pc, status>>
    BY <1>2, <1>5, Zenon
  <2>2. Decoded(x) = UserItem(x)
    <3>1. x.keysOnly => x.kv.val = NoVal
      BY Zenon DEF UInv, ReplyExact
    <3>2. Resolve(x.kv.val) = IF x.keysOnly THEN x.kv.val
                              ELSE blobs[x.kv.val.shard][x.kv.val.token]
      BY <1>5, <3>1, ValuesAssumption, Zenon DEF DataLoss, Resolve
    <3> QED
      BY <3>2, Zenon DEF Decoded, UserItem
  <2>3. UserOut' = UserOut
    <3> DEFINE Seen(o, y) == o \cup {UserItem(z) : z \in y}
    <3>1. /\ UserOut' = [r \in Procs |-> Seen(out'[r], reply'[r])]
          /\ UserOut = [r \in Procs |-> Seen(out[r], reply[r])]
      BY <1>1, SameBlobs, Zenon DEF UserOut
    <3>2. \A r \in Procs : /\ reply'[r] = IF r = p THEN reply[p] \ {x} ELSE reply[r]
                           /\ out'[r] = IF r = p THEN out[p] \cup {UserItem(x)} ELSE out[r]
      BY <2>1, <2>2, Zenon DEF IInv, ReplyOK, UInv, ReplyExact
    <3>3. Seen(out[p] \cup {UserItem(x)}, reply[p] \ {x}) = Seen(out[p], reply[p])
      <4> HIDE DEF UserItem
      <4> QED
        BY Zenon
    <3> HIDE DEF Seen
    <3> QED
      BY <3>1, <3>2, <3>3, Zenon
  <2>4. UserPC' = UserPC /\ UserStatus' = UserStatus
    BY <2>1 DEF UserPC, UserStatus
  <2> QED
    BY <1>1, <1>3, <2>3, <2>4, Zenon DEF Abs!vars
<1> QED
  BY <1>4, <1>5, Zenon

LEMMA ReturnSimulates ==
  ASSUME IInv, UInv, NEW p \in Procs, Return(p)
  PROVE  Abs!Return(p)
<1>1. /\ pc[p] = "decode" /\ reply[p] = {} /\ Finish(p, "ok")
      /\ UNCHANGED <<hist, compacted, leases, blobs, req, id, issued, out, succeeded, late>>
  BY Zenon DEF Return, coordinator, shards
<1>2. UserHist' = UserHist /\ UserLate' = UserLate /\ UserPC[p] = "executed"
  BY <1>1, SameBlobs, ViewIsUserHist, Zenon DEF UserLate, UserPC
<1>3. /\ UserPC' = [UserPC EXCEPT ![p] = "idle"]
      /\ UserStatus' = [UserStatus EXCEPT ![p] = "ok"]
  BY <1>1, FinishSeen, Zenon
<1>4. \A r \in Procs : reply'[r] = reply[r]
  BY <1>1, Zenon DEF Finish, IInv, ReplyOK
<1>5. UserOut' = UserOut
  BY <1>1, <1>4, SameBlobs, Zenon DEF UserOut
<1> QED
  BY <1>1, <1>2, <1>3, <1>5, Zenon DEF Abs!Return, Abs!Reply

LEMMA GiveUpSimulates ==
  ASSUME IInv, UInv, NEW p \in Procs, GiveUp(p)
  PROVE  Abs!Fail(p)
<1>1. /\ pc[p] # "idle" /\ Finish(p, "error") /\ out' = [out EXCEPT ![p] = {}]
      /\ UNCHANGED <<hist, compacted, leases, blobs, req, id, issued, succeeded>>
  BY Zenon DEF GiveUp, coordinator, shards
<1>2. UserHist' = UserHist
  BY <1>1, SameBlobs, ViewIsUserHist, Zenon
<1>3. UserPC[p] # "idle" /\ (pc[p] = "stage" => UserPC[p] = "pending")
  BY <1>1, Zenon DEF UserPC, IInv, HandlerTypes
<1>4. /\ UserPC' = [UserPC EXCEPT ![p] = "idle"]
      /\ UserStatus' = [UserStatus EXCEPT ![p] = "error"]
  BY <1>1, FinishSeen, Zenon
<1>5. \A r \in Procs : reply'[r] = IF r = p THEN {} ELSE reply[r]
  BY <1>1, Zenon DEF Finish, IInv, ReplyOK
<1>6. UserOut' = [UserOut EXCEPT ![p] = {}]
  BY <1>1, <1>5, OutCleared, Zenon
<1>7. \/ UserLate' = UserLate
      \/ /\ UserPC[p] = "pending"
         /\ UserLate' = UserLate \cup {[id |-> id[p], req |-> req[p]]}
  <2>1. CASE late' = late
    BY <2>1, Zenon DEF UserLate
  <2>2. CASE /\ pc[p] = "stage"
             /\ late' = late \cup {[id |-> id[p], req |-> req[p], staged |-> staged[p]]}
    <3> DEFINE sent == [id |-> id[p], req |-> req[p], staged |-> staged[p]]
    <3>1. sent.id = id[p] /\ sent.req = req[p] /\ late' = late \cup {sent}
      BY <2>2, Zenon
    <3> HIDE DEF sent
    <3> QED
      BY <1>3, <2>2, <3>1, Zenon DEF UserLate
  <2> QED
    BY <2>1, <2>2, Zenon DEF GiveUp
<1> QED
  BY <1>1, <1>2, <1>3, <1>4, <1>6, <1>7, Zenon DEF Abs!Fail, Abs!Reply

\* Two requests that may still come are never taken for one another.
LEMMA LateLeaves ==
  ASSUME UInv, NEW m \in late, late' = late \ {m}
  PROVE  UserLate' = UserLate \ {[id |-> m.id, req |-> m.req]}
<1>1. \A n \in late : [id |-> n.id, req |-> n.req] = [id |-> m.id, req |-> m.req] => n = m
  BY Zenon DEF UInv, IdsOK
<1> QED
  BY <1>1, Zenon DEF UserLate

\* Steps that leave the handlers alone.
LEMMA HandlersKept ==
  ASSUME UNCHANGED <<blobs, pc, reply, out, status>>
  PROVE  /\ UserHist' = UserView(hist')
         /\ UNCHANGED <<UserPC, UserOut, UserStatus>>
<1>1. UserOut' = UserOut
  BY SameBlobs, Zenon DEF UserOut
<1>2. UserPC' = UserPC /\ UserStatus' = UserStatus
  BY DEF UserPC, UserStatus
<1> QED
  BY <1>1, <1>2, SameBlobs, Zenon

LEMMA LateSimulates ==
  ASSUME IInv, UInv, NEW m \in late, PublishLate(m) \/ Drop(m)
  PROVE  \E n \in UserLate : Abs!ExecuteLate(n) \/ Abs!Forget(n)
<1> DEFINE n == [id |-> m.id, req |-> m.req]
<1>1. /\ late' = late \ {m}
      /\ UNCHANGED <<compacted, leases, blobs, pc, req, id, issued, reply, out, succeeded, status>>
  BY Zenon DEF PublishLate, Drop, coordinator, shards
<1>2. n \in UserLate /\ n.req = m.req /\ UserLate' = UserLate \ {n}
  BY <1>1, LateLeaves, Zenon DEF UserLate
<1> HIDE DEF n
<1>3. UserHist' = UserView(hist') /\ UNCHANGED <<UserPC, UserOut, UserStatus>>
  BY <1>1, HandlersKept, Zenon
<1>4. CASE PublishLate(m)
  <2>1. /\ StagedOK(blobs, m.req, m.staged) /\ AllStaged(m.req, m.staged)
        /\ Exact(blobs, m.req, m.staged)
    BY Zenon DEF IInv, LateOK, UInv, LateExact
  <2> DEFINE t == Encode(m.req, m.staged)
  <2>2. hist' = IF Refuses(hist, compacted, leases, t) THEN hist ELSE Commit(hist, t)
    BY <1>4, Zenon DEF PublishLate
  <2>3. /\ Refuses(hist, compacted, leases, t) <=> Abs!Refuses(UserHist, compacted, leases, m.req)
        /\ ~Refuses(hist, compacted, leases, t) =>
              UserView(Commit(hist, t)) = Abs!Commit(UserHist, m.req)
    BY <2>1, SentSimulates, Zenon
  <2> HIDE DEF t
  <2>4. UserHist' = IF Abs!Refuses(UserHist, compacted, leases, n.req) THEN UserHist
                    ELSE Abs!Commit(UserHist, n.req)
    BY <1>2, <1>3, <2>2, <2>3, ViewIsUserHist, Zenon
  <2>5. Abs!ExecuteLate(n)
    BY <1>1, <1>2, <1>3, <2>4, Zenon DEF Abs!ExecuteLate
  <2> QED
    BY <1>2, <2>5, Zenon
<1>5. CASE Drop(m)
  <2>1. UserHist' = UserHist
    BY <1>3, <1>5, ViewIsUserHist, Zenon DEF Drop, coordinator
  <2>2. Abs!Forget(n)
    BY <1>1, <1>2, <1>3, <2>1, Zenon DEF Abs!Forget
  <2> QED
    BY <1>2, <2>2, Zenon
<1> QED
  BY <1>4, <1>5, Zenon

\* Compact and leases are forwarded: the coordinator's are the user's.
LEMMA ForwardedSimulates ==
  ASSUME IInv, NotLeased
  PROVE  /\ \A r \in CompactRevs : Compact(r) => Abs!Compact(r)
         /\ \A l \in Leases : LeaseGrant(l) => Abs!LeaseGrant(l)
         /\ \A l \in Leases : LeaseEnd(l) => Abs!LeaseEnd(l)
<1> DEFINE Kept == UserHist' = UserView(hist') /\ UNCHANGED <<UserPC, UserOut, UserStatus, UserLate>>
<1>1. hist \in Seq([RawKeys -> KVs]) /\ Len(hist) >= 2 /\ Len(UserHist) = Len(hist)
  BY ViewOfHistory, ViewIsUserHist, Zenon DEF IInv, CoordTypes
<1>2. ASSUME UNCHANGED shards, UNCHANGED handlers PROVE Kept
  BY <1>2, HandlersKept, Zenon DEF shards, handlers, UserLate
<1>3. ASSUME NEW r \in CompactRevs, Compact(r) PROVE Abs!Compact(r)
  <2>1. Kept /\ UNCHANGED <<hist, leases, req, id, issued, succeeded>>
    BY <1>2, <1>3, Zenon DEF Compact, handlers
  <2> QED
    BY <1>1, <1>3, <2>1, ViewIsUserHist, Zenon DEF Compact, Abs!Compact
<1>4. ASSUME NEW l \in Leases, LeaseGrant(l) PROVE Abs!LeaseGrant(l)
  <2>1. Kept /\ UNCHANGED <<hist, compacted, req, id, issued, succeeded>>
    BY <1>2, <1>4, Zenon DEF LeaseGrant, handlers
  <2> QED
    BY <1>4, <2>1, ViewIsUserHist, Zenon DEF LeaseGrant, Abs!LeaseGrant
<1>5. ASSUME NEW l \in Leases, LeaseEnd(l) PROVE Abs!LeaseEnd(l)
  <2>1. Kept /\ UNCHANGED <<compacted, req, id, issued, succeeded>>
    BY <1>2, <1>5, Zenon DEF LeaseEnd, handlers
  <2>2. UserHist' = Abs!DropLease(UserHist, l)
    BY <1>1, <1>5, <2>1, DropLeaseMirror, SameDropLease, ViewIsUserHist, Zenon
       DEF LeaseEnd, NotLeased
  <2> QED
    BY <1>5, <2>1, <2>2, Zenon DEF LeaseEnd, Abs!LeaseEnd
<1> QED
  BY <1>3, <1>4, <1>5, Zenon

LEMMA StepSimulates ==
  ASSUME IInv, UInv, NotLeased, [Next]_vars
  PROVE  [Abs!Next]_(Abs!vars)
<1>1. CASE \E p \in Procs : (\E q \in Requests : Begin(p, q)) \/ Step(p) \/ GiveUp(p)
  BY <1>1, BeginSimulates, StagePutSimulates, PublishSimulates, DecodeKVSimulates,
     ReturnSimulates, GiveUpSimulates, Zenon DEF Step, Abs!Next
<1>2. CASE \E m \in late : PublishLate(m) \/ Drop(m)
  BY <1>2, LateSimulates, Zenon DEF Abs!Next
<1>3. CASE \E r \in CompactRevs : Compact(r)
  BY <1>3, ForwardedSimulates, Zenon DEF Abs!Next
<1>4. CASE \E l \in Leases : LeaseGrant(l) \/ LeaseEnd(l)
  BY <1>4, ForwardedSimulates, Zenon DEF Abs!Next
<1>5. CASE (\E s \in Shards, t \in Tokens : LoseBlob(s, t)) \/ UNCHANGED vars
  <2>1. UNCHANGED <<hist, compacted, leases, blobs>> /\ UNCHANGED handlers
    BY <1>5, Zenon DEF LoseBlob, coordinator, handlers, vars
  <2>2. UserHist' = UserHist /\ UNCHANGED <<UserPC, UserOut, UserStatus, UserLate>>
    BY <2>1, HandlersKept, ViewIsUserHist, Zenon DEF handlers, UserLate
  <2> QED
    BY <2>1, <2>2, Zenon DEF Abs!vars, handlers
<1> QED
  BY <1>1, <1>2, <1>3, <1>4, <1>5, Zenon DEF Next

LEMMA InitSimulates == Init => Abs!Init
<1> SUFFICES ASSUME Init PROVE Abs!Init
  BY Zenon
<1> DEFINE conf == [val |-> Fingerprint, create |-> 2, mod |-> 2, version |-> 1, lease |-> NoLease]
           second == [EmptySnapshot EXCEPT ![ConfigKey] = conf]
<1>1. Len(hist) = 2 /\ \A r \in 1..2, k \in 1..MaxKey : hist[r][MetadataKey(k)] = Absent
  <2>1. \A k \in 1..MaxKey :
          EmptySnapshot[MetadataKey(k)] = Absent /\ second[MetadataKey(k)] = Absent
    BY MetadataKeys, Zenon DEF EmptySnapshot
  <2>2. hist = <<EmptySnapshot, second>>
    BY Zenon DEF Init
  <2> HIDE DEF second
  <2> QED
    BY <2>1, <2>2
<1>2. UserHist = [r \in 1..2 |-> [k \in 1..MaxKey |-> Absent]]
  BY <1>1, UserAbsent, Zenon DEF UserHist
<1>3. UserPC = [p \in Procs |-> "idle"] /\ UserStatus = [p \in Procs |-> "none"]
  BY Zenon DEF Init, UserPC, UserStatus
<1>4. UserOut = [p \in Procs |-> {}] /\ UserLate = {}
  BY Zenon DEF Init, UserOut, UserLate
<1> QED
  BY <1>2, <1>3, <1>4, Zenon DEF Init, Abs!Init

\* Put, Range, DeleteRange, Txn, Compact and the leases of coordinated mode, with
\* blobs staged and fetched by calls of their own, requests that time out or come
\* late and replicas that crash, are those of one etcd that stores the values
\* itself, refuses what is out of scope, and may answer with an error.
THEOREM CoordinatedProxyImplementsAtomicKV == Spec => ImplementsAtomicKV
  BY InitSimulates, StepSimulates, InvariantHolds, UserInvariant, NeverLeased, PTL
     DEF Spec, ImplementsAtomicKV, Abs!Spec
=============================================================================
