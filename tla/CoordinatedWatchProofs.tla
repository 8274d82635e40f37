----------------------- MODULE CoordinatedWatchProofs -----------------------
(***************************************************************************)
(* Watch in coordinated mode is exact, for any number of handlers, shards, *)
(* keys and responses, any requests and any create requests.               *)
(***************************************************************************)
EXTENDS CoordinatedWatch, CoordinatedProxyProofs

\* The steps of a stream and those of the KV handlers leave each other alone.
LEMMA HandlersAsBefore == WatchSpec => Spec
<1>1. WatchInit => Init
  BY Zenon DEF WatchInit
<1>2. [WatchNext]_allVars => [Next]_vars
  <2>1. ASSUME ClientStep \/ WatchSenderStep \/ RelayHandlerStep PROVE UNCHANGED vars
    BY <2>1, Zenon DEF ClientStep, WatchSenderStep, RelayHandlerStep
  <2>2. ASSUME CoordinatorStep PROVE UNCHANGED vars
    BY <2>2, Zenon DEF CoordinatorStep, CoordinatorCreates, CoordinatorNotifies,
       CoordinatorProgresses, CoordinatorSends
  <2>3. ASSUME WatchRecv \/ WatchDecode \/ WatchDecoded \/ WatchDecodeFails
        PROVE  UNCHANGED vars
    BY <2>3, Zenon DEF WatchRecv, WatchDecode, WatchDecoded, WatchDecodeFails
  <2> QED
    BY <2>1, <2>2, <2>3, Zenon DEF WatchNext, WatchHandlerStep, allVars
<1> QED
  BY <1>1, <1>2, PTL DEF WatchSpec, Spec
-----------------------------------------------------------------------------
(***************************************************************************)
(* Sequences of anything.                                                  *)
(***************************************************************************)
IsSequence(s) == \E S : s \in Seq(S)

LEMMA AppendAny ==
  ASSUME NEW s, IsSequence(s), NEW x
  PROVE  /\ IsSequence(Append(s, x))
         /\ Len(s) \in Nat /\ Len(Append(s, x)) = Len(s) + 1
         /\ \A i \in 1..Len(s) : Append(s, x)[i] = s[i]
         /\ Append(s, x)[Len(s) + 1] = x
         /\ Append(s, x) # <<>>
<1>1. PICK S : s \in Seq(S)
  BY Zenon DEF IsSequence
<1> DEFINE T == S \cup {x}
<1>2. s \in Seq(T) /\ x \in T
  BY <1>1
<1> HIDE DEF T
<1>3. Append(s, x) \in Seq(T)
  BY <1>2
<1> QED
  BY <1>2, <1>3 DEF IsSequence

LEMMA TailAny ==
  ASSUME NEW s, IsSequence(s), s # <<>>
  PROVE  /\ IsSequence(Tail(s))
         /\ Len(s) \in Nat \ {0} /\ Len(Tail(s)) = Len(s) - 1
         /\ \A i \in 1..(Len(s) - 1) : Tail(s)[i] = s[i + 1]
         /\ Head(s) = s[1]
<1>1. PICK S : s \in Seq(S)
  BY Zenon DEF IsSequence
<1> QED
  BY <1>1 DEF IsSequence

LEMMA EmptyAny == IsSequence(<<>>) /\ Len(<<>>) = 0
<1>1. <<>> \in Seq({}) /\ Len(<<>>) = 0
  OBVIOUS
<1> QED
  BY <1>1, Zenon DEF IsSequence

LEMMA LenAny ==
  ASSUME NEW s, IsSequence(s)
  PROVE  Len(s) \in Nat /\ (s = <<>> <=> Len(s) = 0)
  BY DEF IsSequence
-----------------------------------------------------------------------------
(***************************************************************************)
(* Every version that the coordinator has stored of a key is dated by the  *)
(* revision that made it, so that two of them are told apart without       *)
(* looking at their references.                                            *)
(***************************************************************************)
DatedAt(kv, r) == Live(kv) /\ kv.mod = r

Dated(h) ==
  \A r \in 1..Len(h), raw \in RawKeys :
     /\ h[r][raw].mod <= r
     /\ ~Live(h[r][raw]) => h[r][raw] = Absent
     /\ r > 1 /\ h[r][raw] # h[r - 1][raw] => h[r][raw] = Absent \/ DatedAt(h[r][raw], r)

LEMMA DatedAppend ==
  ASSUME NEW b, NEW h, HistOK(b, h), Dated(h), NEW snap \in [RawKeys -> KVs],
         \A raw \in RawKeys : \/ snap[raw] = Last(h)[raw] \/ snap[raw] = Absent
                              \/ DatedAt(snap[raw], Len(h) + 1)
  PROVE  Dated(Append(h, snap))
<1> DEFINE n == Append(h, snap)
           S == [RawKeys -> KVs]
<1>1. h \in Seq(S) /\ Len(h) \in Nat /\ Len(h) >= 2
  BY DEF HistOK
<1>2. /\ Len(n) = Len(h) + 1 /\ n[Len(h) + 1] = snap
      /\ \A r \in 1..Len(h) : n[r] = h[r]
  <2> HIDE DEF S
  <2> QED
    BY <1>1
<1> HIDE DEF n
<1>3. Absent.mod = 0 /\ ~Live(Absent)
  BY DEF Absent, Live
<1>4. ASSUME NEW r \in 1..Len(h), NEW raw \in RawKeys
      PROVE  /\ n[r][raw].mod <= r
             /\ ~Live(n[r][raw]) => n[r][raw] = Absent
             /\ r > 1 /\ n[r][raw] # n[r - 1][raw] => n[r][raw] = Absent \/ DatedAt(n[r][raw], r)
  <2>1. n[r] = h[r]
    BY <1>2, Zenon
  <2>2. r > 1 => r - 1 \in 1..Len(h)
    BY <1>1
  <2>3. r > 1 => n[r - 1] = h[r - 1]
    BY <1>2, <2>2, Zenon
  <2> QED
    BY <2>1, <2>3, Zenon DEF Dated
<1>5. ASSUME NEW raw \in RawKeys
      PROVE  LET r == Len(h) + 1
             IN  /\ n[r][raw].mod <= r
                 /\ ~Live(n[r][raw]) => n[r][raw] = Absent
                 /\ n[r][raw] # n[r - 1][raw] => n[r][raw] = Absent \/ DatedAt(n[r][raw], r)
  <2>1. n[Len(h) + 1] = snap /\ n[(Len(h) + 1) - 1] = h[Len(h)] /\ Last(h) = h[Len(h)]
    BY <1>1, <1>2 DEF Last
  <2>2. h[Len(h)][raw].mod <= Len(h) /\ (~Live(h[Len(h)][raw]) => h[Len(h)][raw] = Absent)
    BY <1>1 DEF Dated
  <2>3. h[Len(h)][raw].mod \in Nat
    BY <1>1 DEF KVs
  <2> QED
    BY <1>1, <1>3, <2>1, <2>2, <2>3 DEF DatedAt
<1>6. \A r \in 1..Len(n) : r = Len(h) + 1 \/ r \in 1..Len(h)
  BY <1>1, <1>2
<1> QED
  BY <1>4, <1>5, <1>6, Zenon DEF Dated, n

LEMMA DatedCommit ==
  ASSUME NEW b, NEW h, NEW c, NEW ls, HistOK(b, h), Dated(h), ls \subseteq Leases,
         NEW q, NEW refs, StagedOK(b, q, refs), AllStaged(q, refs),
         ~Refuses(h, c, ls, Encode(q, refs))
  PROVE  Dated(Commit(h, Encode(q, refs)))
<1> DEFINE ops == Branch(h, Encode(q, refs))
           snap == Last(h)
           new == After(snap, ops, Len(ops), Len(h) + 1)
<1>1. Len(ops) \in Nat /\ \A i \in 1..Len(ops) : ops[i].op = "put" => GoodPut(b, ops[i], snap)
  BY EncodeGood, NotRefused, Zenon
<1>2. Len(h) + 1 \in Nat /\ SnapOK(b, snap)
  BY LastOK
<1>3. SnapOK(b, new)
  BY <1>1, <1>2, AfterOK, Zenon
<1> HIDE DEF ops, snap
<1>4. ASSUME NEW raw \in RawKeys
      PROVE  new[raw] = snap[raw] \/ new[raw] = Absent \/ DatedAt(new[raw], Len(h) + 1)
  <2>1. snap[raw].version \in Nat /\ DOMAIN snap = RawKeys
    BY <1>2, Zenon DEF SnapOK, KVs
  <2>2. \A o : DatedAt(PutKV(snap[raw], o, Len(h) + 1), Len(h) + 1)
    BY <2>1 DEF PutKV, DatedAt, Live
  <2> QED
    BY <2>1, <2>2, Zenon DEF After
<1>5. Commit(h, Encode(q, refs)) = Append(h, new) \/ Commit(h, Encode(q, refs)) = h
  BY Zenon DEF Commit, ops, snap
<1> HIDE DEF new
<1>6. Dated(Append(h, new))
  BY <1>3, <1>4, DatedAppend, Zenon DEF SnapOK, snap
<1> QED
  BY <1>5, <1>6, Zenon

LEMMA DatedDropLease ==
  ASSUME NEW b, NEW h, HistOK(b, h), Dated(h), NEW l
  PROVE  Dated(DropLease(h, l))
<1> DEFINE snap == Last(h)
           new  == [k \in DOMAIN snap |-> IF k \in LeaseKeys(snap, l) THEN Absent ELSE snap[k]]
<1>1. SnapOK(b, snap)
  BY LastOK, Zenon
<1>2. DropLease(h, l) = h \/ DropLease(h, l) = Append(h, new)
  BY Zenon DEF DropLease
<1> HIDE DEF snap
<1>3. DOMAIN snap = RawKeys /\ new \in [RawKeys -> KVs]
  BY <1>1, AbsentOK, Zenon DEF SnapOK
<1>4. \A raw \in RawKeys : new[raw] = snap[raw] \/ new[raw] = Absent
  BY <1>3, Zenon
<1> HIDE DEF new
<1>5. Dated(Append(h, new))
  BY <1>3, <1>4, DatedAppend, Zenon DEF snap
<1> QED
  BY <1>2, <1>5, Zenon

HistDated == Dated(hist)

LEMMA AlwaysDated == Spec => []HistDated
<1>1. Init => HistDated
  <2> SUFFICES ASSUME Init PROVE Dated(hist)
    BY Zenon DEF HistDated
  <2> DEFINE conf == [val |-> Fingerprint, create |-> 2, mod |-> 2, version |-> 1, lease |-> NoLease]
             second == [EmptySnapshot EXCEPT ![ConfigKey] = conf]
  <2>1. DatedAt(conf, 2) /\ ~Live(Absent) /\ Absent.mod = 0
    BY DEF DatedAt, Live, Absent
  <2>2. \A raw \in RawKeys : EmptySnapshot[raw] = Absent /\ second[raw] \in {Absent, conf}
    BY Zenon DEF EmptySnapshot
  <2>3. hist = <<EmptySnapshot, second>>
    BY Zenon DEF Init
  <2> HIDE DEF conf, second
  <2>4. Len(hist) = 2 /\ hist[1] = EmptySnapshot /\ hist[2] = second
    BY <2>3, Zenon
  <2>5. \A r \in 1..Len(hist) : r = 1 \/ r = 2
    BY <2>4
  <2>6. conf.mod = 2
    BY Zenon DEF conf
  <2> QED
    BY <2>1, <2>2, <2>4, <2>5, <2>6 DEF Dated, DatedAt
<1>2. IInv /\ HistDated /\ [Next]_vars => HistDated'
  <2> SUFFICES ASSUME IInv, Dated(hist), [Next]_vars PROVE Dated(hist')
    BY Zenon DEF HistDated
  <2>1. HistOK(blobs, hist) /\ leases \subseteq Leases
    BY Zenon DEF IInv, CoordTypes
  <2>2. ASSUME NEW q, NEW refs, Commits(q, refs) PROVE Dated(hist')
    BY <2>1, <2>2, DatedCommit, Zenon DEF Commits
  <2> QED
    BY <2>1, <2>2, CoordinatorSteps, DatedDropLease, Zenon
<1> QED
  BY <1>1, <1>2, InvariantHolds, PTL DEF Spec
-----------------------------------------------------------------------------
(***************************************************************************)
(* The events of a revision.                                               *)
(***************************************************************************)
Accepted == {c \in Creates : c.key # Empty}

\* A version of a key is another one for the client just when it is one for the
\* coordinator.
LEMMA SameChanges ==
  ASSUME IInv, HistDated, NEW r \in 2..Len(hist), NEW k \in 1..MaxKey
  PROVE  LET raw == MetadataKey(k)
         IN  /\ UserHist[r][k] = UserKV(hist[r][raw])
             /\ UserHist[r - 1][k] = UserKV(hist[r - 1][raw])
             /\ UserHist[r][k] # UserHist[r - 1][k] <=> hist[r][raw] # hist[r - 1][raw]
<1> DEFINE raw == MetadataKey(k)
           now == hist[r][raw]
           old == hist[r - 1][raw]
<1>1. /\ Len(hist) \in Nat /\ r \in 1..Len(hist) /\ r - 1 \in 1..Len(hist) /\ r > 1
      /\ raw \in RawKeys
  BY MetadataKeys DEF IInv, CoordTypes
<1>2. now \in KVs /\ old \in KVs
  BY <1>1 DEF IInv, CoordTypes
<1>3. /\ old.mod <= r - 1 /\ (~Live(now) => now = Absent) /\ (~Live(old) => old = Absent)
      /\ now # old => now = Absent \/ DatedAt(now, r)
  BY <1>1, Zenon DEF HistDated, Dated
<1>4. UserHist[r][k] = UserKV(now) /\ UserHist[r - 1][k] = UserKV(old)
  BY <1>1, Zenon DEF UserHist
<1> HIDE DEF raw, now, old
<1>5. ASSUME now # old PROVE UserKV(now) # UserKV(old)
  <2>1. CASE DatedAt(now, r)
    <3>1. now.mod = r /\ old.mod \in Nat /\ now.mod # old.mod
      BY <1>2, <1>3, <2>1 DEF DatedAt, KVs
    <3>2. UserKV(now).mod = now.mod /\ UserKV(old).mod = old.mod
      BY <1>2, UserKVFacts
    <3> QED
      BY <3>1, <3>2, Zenon
  <2>2. CASE now = Absent
    <3>1. Live(old) /\ ~Live(now)
      BY <1>3, <1>5, <2>2, AbsentOK, Zenon
    <3> QED
      BY <1>2, <3>1, UserKVFacts, Zenon
  <2> QED
    BY <1>3, <1>5, <2>1, <2>2, Zenon
<1> QED
  BY <1>4, <1>5, Zenon DEF raw, now, old

LEMMA AcceptedRange ==
  ASSUME NEW c \in Accepted
  PROVE  /\ c \in Creates /\ c.key \in 1..MaxKey /\ c.end \in 0..MaxKey /\ c.start \in Nat
         /\ Encoded(c).key = MetadataKey(c.key) /\ Encoded(c).end = MetadataRangeEnd(c.end)
         /\ Encoded(c).prevKv = c.prevKv /\ Encoded(c).start = c.start
<1>1. c \in [key : 0..MaxKey, end : 0..MaxKey, start : Nat, prevKv : BOOLEAN] /\ c.key # Empty
  BY CreatesAssumption, Zenon DEF Accepted
<1> QED
  BY <1>1, BoundsAssumption DEF Encoded, Accepted, Empty

LEMMA ChangesMirror ==
  ASSUME IInv, HistDated, arrived # <<>>, arrived \in Seq(Accepted), NEW r \in 1..Len(hist)
  PROVE  Affected(r) = {MetadataKey(k) : k \in {j \in 1..MaxKey :
             r > 1 /\ Watched(j) /\ UserHist[r][j] # UserHist[r - 1][j]}}
<1>1. /\ arrived[1] \in Creates /\ arrived[1].key \in 1..MaxKey /\ arrived[1].end \in 0..MaxKey
      /\ Watcher.key = MetadataKey(arrived[1].key)
      /\ Watcher.end = MetadataRangeEnd(arrived[1].end)
      /\ Watcher.prevKv = arrived[1].prevKv
  <2>1. arrived[1] \in Accepted
    OBVIOUS
  <2> QED
    BY <2>1, AcceptedRange, Zenon DEF Watcher
<1>2. ASSUME NEW k \in 1..MaxKey
      PROVE  InRange(MetadataKey(k), Watcher.key, Watcher.end) <=> Watched(k)
  BY <1>1, MetadataRange DEF Watched
<1>3. ASSUME NEW raw \in RawKeys, InRange(raw, Watcher.key, Watcher.end)
      PROVE  \E k \in 1..MaxKey : raw = MetadataKey(k)
  <2>1. /\ raw \in Nat /\ MetadataKey(arrived[1].key) \in Nat
        /\ MetadataKey(arrived[1].key) > MetadataPrefix
    BY <1>1, MetadataKeys, BoundsAssumption DEF MetadataKey, MetadataPrefix
  <2>2. raw >= MetadataKey(arrived[1].key)
    BY <1>1, <1>3, <2>1 DEF InRange
  <2>3. raw > MetadataPrefix
    BY <2>1, <2>2 DEF MetadataPrefix
  <2> QED
    BY <2>3, MetadataKeys, Zenon
<1>4. ASSUME NEW k \in 1..MaxKey
      PROVE  Changed(r, MetadataKey(k)) <=> r > 1 /\ UserHist[r][k] # UserHist[r - 1][k]
  <2>1. CASE r = 1
    BY <2>1 DEF Changed
  <2>2. CASE r # 1
    <3>1. r \in 2..Len(hist) /\ r > 1
      BY <2>2 DEF IInv, CoordTypes
    <3> QED
      BY <3>1, SameChanges, Zenon DEF Changed
  <2> QED
    BY <2>1, <2>2, Zenon
<1> DEFINE Seen(k) == r > 1 /\ Watched(k) /\ UserHist[r][k] # UserHist[r - 1][k]
<1>5. \A k \in 1..MaxKey :
        /\ MetadataKey(k) \in RawKeys
        /\ InRange(MetadataKey(k), Watcher.key, Watcher.end) /\ Changed(r, MetadataKey(k)) <=> Seen(k)
  BY <1>2, <1>4, MetadataKeys, Zenon
<1>6. Affected(r) = {MetadataKey(k) : k \in {j \in 1..MaxKey : Seen(j)}}
  <2> HIDE DEF Seen
  <2> QED
    BY <1>3, <1>5, Zenon DEF Affected
<1> QED
  BY <1>6, Zenon

\* What RecvMsg makes of a KeyValue of a live key.
LEMMA DecodedLive ==
  ASSUME IInv, NEW r \in 1..Len(hist), NEW k \in 1..MaxKey, Live(hist[r][MetadataKey(k)]),
         NEW q, NEW part
  PROVE  LET x == [rev |-> q, key |-> MetadataKey(k), part |-> part, keysOnly |-> FALSE,
                   kv |-> hist[r][MetadataKey(k)]]
         IN  /\ GoodItem(blobs, x)
             /\ Decoded(x) = [rev |-> q, key |-> k, part |-> part, keysOnly |-> FALSE,
                              kv |-> UserKV(hist[r][MetadataKey(k)])]
<1> DEFINE kv == hist[r][MetadataKey(k)]
           x == [rev |-> q, key |-> MetadataKey(k), part |-> part, keysOnly |-> FALSE, kv |-> kv]
<1>1. kv \in KVs /\ Reaches(blobs, k, kv.val)
  BY MetadataKeys, Zenon DEF IInv, HistOK, SnapOK
<1> HIDE DEF kv
<1>2. HasPrefix(MetadataKey(k)) /\ StripPrefix(MetadataKey(k)) = k
  BY BoundsAssumption DEF HasPrefix, StripPrefix, MetadataKey, MetadataPrefix, MetadataEnd
<1>3. GoodItem(blobs, x)
  BY <1>1, <1>2, Zenon DEF GoodItem
<1>4. [kv EXCEPT !.val = blobs[kv.val.shard][kv.val.token]] = UserKV(kv)
  BY <1>1, Zenon DEF UserKV, Resolve, Reaches
<1>5. Decoded(x) = [rev |-> q, key |-> k, part |-> part, keysOnly |-> FALSE, kv |-> UserKV(kv)]
  <2> DEFINE u == UserKV(kv)
  <2>1. Decoded(x) = [x EXCEPT !.key = k, !.kv = u]
    BY <1>2, <1>4, Zenon DEF Decoded
  <2> HIDE DEF u
  <2>2. Decoded(x) = [rev |-> q, key |-> k, part |-> part, keysOnly |-> FALSE, kv |-> u]
    BY <2>1, Zenon
  <2> QED
    BY <2>2, Zenon DEF u
<1> QED
  BY <1>3, <1>5, Zenon DEF kv

\* What it makes of the KeyValue of a deletion.
LEMMA DecodedDeletion ==
  ASSUME NEW k \in 1..MaxKey, NEW q \in Nat, NEW part
  PROVE  LET kv == [Absent EXCEPT !.mod = q]
             x == [rev |-> q, key |-> MetadataKey(k), part |-> part, keysOnly |-> TRUE, kv |-> kv]
         IN  /\ GoodItem(blobs, x)
             /\ Decoded(x) = [rev |-> q, key |-> k, part |-> part, keysOnly |-> TRUE, kv |-> kv]
<1> DEFINE kv == [Absent EXCEPT !.mod = q]
           x == [rev |-> q, key |-> MetadataKey(k), part |-> part, keysOnly |-> TRUE, kv |-> kv]
<1>1. kv \in KVs
  BY Zenon DEF Absent, KVs
<1> HIDE DEF kv
<1>2. HasPrefix(MetadataKey(k)) /\ StripPrefix(MetadataKey(k)) = k
  BY BoundsAssumption DEF HasPrefix, StripPrefix, MetadataKey, MetadataPrefix, MetadataEnd
<1>3. GoodItem(blobs, x)
  BY <1>2, Zenon DEF GoodItem
<1>4. [kv EXCEPT !.val = kv.val] = kv
  BY <1>1, Zenon DEF KVs
<1>5. Decoded(x) = [rev |-> q, key |-> k, part |-> part, keysOnly |-> TRUE, kv |-> kv]
  <2>1. Decoded(x) = [x EXCEPT !.key = k, !.kv = kv]
    BY <1>2, <1>4, Zenon DEF Decoded
  <2> QED
    BY <2>1, Zenon
<1> QED
  BY <1>3, <1>5, Zenon DEF kv

\* The events of a revision are decoded to those of the client's own history, and
\* every one of them can be decoded while its blob is there.
LEMMA EventsMirror ==
  ASSUME IInv, HistDated, arrived # <<>>, arrived \in Seq(Accepted), NEW r \in 1..Len(hist)
  PROVE  /\ {Decoded(x) : x \in EventsAt(r)} = UserEventsAt(r)
         /\ \A x \in EventsAt(r) : GoodItem(blobs, x)
<1> DEFINE C == {j \in 1..MaxKey : r > 1 /\ Watched(j) /\ UserHist[r][j] # UserHist[r - 1][j]}
           P == {j \in C : arrived[1].prevKv /\ Live(UserHist[r - 1][j])}
           A == Affected(r)
           Kv(raw) == [rev |-> r, key |-> raw, part |-> "kv", keysOnly |-> KeysOnlyEvent(r, raw),
                       kv |-> EventKV(r, raw)]
           Prev(raw) == [rev |-> r, key |-> raw, part |-> "prev", keysOnly |-> FALSE,
                         kv |-> hist[r - 1][raw]]
           UKv(k) == [rev |-> r, key |-> k, part |-> "kv", keysOnly |-> ~Live(UserHist[r][k]),
                      kv |-> IF Live(UserHist[r][k]) THEN UserHist[r][k]
                             ELSE [Absent EXCEPT !.mod = r]]
           UPrev(k) == [rev |-> r, key |-> k, part |-> "prev", keysOnly |-> FALSE,
                        kv |-> UserHist[r - 1][k]]
           HasPrev(raw) == Watcher.prevKv /\ Live(hist[r - 1][raw])
<1>1. A = {MetadataKey(k) : k \in C}
  BY ChangesMirror, Zenon
<1>2. EventsAt(r) = {Kv(raw) : raw \in A} \cup {Prev(raw) : raw \in {j \in A : HasPrev(j)}}
  BY Zenon DEF EventsAt
<1>3. UserEventsAt(r) = {UKv(k) : k \in C} \cup {UPrev(k) : k \in P}
  BY Zenon DEF UserEventsAt
<1>4. Watcher.prevKv = arrived[1].prevKv
  <2>1. arrived[1] \in Accepted
    OBVIOUS
  <2> QED
    BY <2>1, AcceptedRange, Zenon DEF Watcher
<1>5. ASSUME NEW k \in C
      PROVE  /\ GoodItem(blobs, Kv(MetadataKey(k))) /\ Decoded(Kv(MetadataKey(k))) = UKv(k)
             /\ HasPrev(MetadataKey(k)) <=> k \in P
             /\ HasPrev(MetadataKey(k)) =>
                  GoodItem(blobs, Prev(MetadataKey(k))) /\ Decoded(Prev(MetadataKey(k))) = UPrev(k)
  <2> DEFINE raw == MetadataKey(k)
  <2>1. k \in 1..MaxKey /\ r \in 2..Len(hist) /\ r - 1 \in 1..Len(hist) /\ r \in Nat
    BY DEF IInv, CoordTypes
  <2>2. UserHist[r][k] = UserKV(hist[r][raw]) /\ UserHist[r - 1][k] = UserKV(hist[r - 1][raw])
    BY <2>1, SameChanges, Zenon
  <2>3. hist[r][raw] \in KVs /\ hist[r - 1][raw] \in KVs
    BY <2>1, MetadataKeys, Zenon DEF IInv, HistOK, SnapOK
  <2>4. /\ Live(UserHist[r][k]) <=> Live(hist[r][raw])
        /\ Live(UserHist[r - 1][k]) <=> Live(hist[r - 1][raw])
    BY <2>2, <2>3, UserKVFacts
  <2>5. GoodItem(blobs, Kv(raw)) /\ Decoded(Kv(raw)) = UKv(k)
    <3>1. CASE Live(hist[r][raw])
      <4>1. Kv(raw) = [rev |-> r, key |-> raw, part |-> "kv", keysOnly |-> FALSE, kv |-> hist[r][raw]]
        BY <3>1, Zenon DEF KeysOnlyEvent, IsDelete, EventKV
      <4>2. UKv(k) = [rev |-> r, key |-> k, part |-> "kv", keysOnly |-> FALSE, kv |-> UserKV(hist[r][raw])]
        BY <3>1, <2>2, <2>4, Zenon
      <4> QED
        BY <2>1, <3>1, <4>1, <4>2, DecodedLive
    <3>2. CASE ~Live(hist[r][raw])
      <4>1. Kv(raw) = [rev |-> r, key |-> raw, part |-> "kv", keysOnly |-> TRUE,
                       kv |-> [Absent EXCEPT !.mod = r]]
        BY <3>2, Zenon DEF KeysOnlyEvent, IsDelete, EventKV
      <4>2. UKv(k) = [rev |-> r, key |-> k, part |-> "kv", keysOnly |-> TRUE,
                      kv |-> [Absent EXCEPT !.mod = r]]
        BY <3>2, <2>4, Zenon
      <4> QED
        BY <2>1, <4>1, <4>2, DecodedDeletion, Zenon
    <3> QED
      BY <3>1, <3>2, Zenon
  <2>6. HasPrev(raw) <=> k \in P
    BY <1>4, <2>4, Zenon
  <2>7. ASSUME HasPrev(raw) PROVE GoodItem(blobs, Prev(raw)) /\ Decoded(Prev(raw)) = UPrev(k)
    BY <2>1, <2>2, <2>7, DecodedLive
  <2> QED
    BY <2>5, <2>6, <2>7, Zenon
<1>6. P \subseteq C
  BY Zenon
<1> HIDE DEF A, C, P, Kv, Prev, UKv, UPrev, HasPrev
<1>7. \A x \in EventsAt(r) : GoodItem(blobs, x)
  BY <1>1, <1>2, <1>5, Zenon
<1>8. EventsAt(r) = {Kv(MetadataKey(k)) : k \in C} \cup {Prev(MetadataKey(k)) : k \in P}
  BY <1>1, <1>2, <1>5, <1>6
<1>9. {Decoded(x) : x \in EventsAt(r)} = {UKv(k) : k \in C} \cup {UPrev(k) : k \in P}
  BY <1>5, <1>6, <1>8
<1> QED
  BY <1>3, <1>7, <1>9, Zenon
-----------------------------------------------------------------------------
(***************************************************************************)
(* The inductive invariant: what the coordinator has sent, how far it got  *)
(* and what became of it.                                                  *)
(***************************************************************************)
StreamTypes ==
  /\ inbox \in Seq(Creates) /\ arrived \in Seq(Accepted)
  /\ sender = "send" => held \in Creates
  /\ ended \in {"no", "ok", "error"}
  /\ handler \in {"open", "header", "recv", "decode", "send", "select", "done"}
  /\ handler = "decode" =>
       decoding = [upto |-> decoding.upto, todo |-> decoding.todo, done |-> decoding.done]

Sequences == IsSequence(produced) /\ IsSequence(outbox) /\ IsSequence(delivered)

\* Every response after the first continues where the one before it ended.
ProducedOK ==
  /\ produced # <<>> =>
       arrived # <<>> /\ upto = produced[Len(produced)].upto /\ produced[1].events = {}
  /\ \A i \in 1..Len(produced) : produced[i].upto \in Nat
  /\ \A i \in 2..Len(produced) :
        /\ produced[i].upto <= Len(hist)
        /\ produced[i].events = Events(produced[i - 1].upto + 1, produced[i].upto)

\* The response that the handler has in hand.
Taken == IF handler \in {"decode", "send"} THEN 1 ELSE 0

OnTheWay ==
  handler \notin {"select", "done"} =>
     /\ Len(delivered) + Taken + Len(outbox) <= Len(produced)
     /\ ended = "no" => Len(delivered) + Taken + Len(outbox) = Len(produced)
     /\ \A i \in 1..Len(outbox) : outbox[i] = produced[Len(delivered) + Taken + i]

\* d is the response p with its events decoded.
Passes(d, p) == d.upto = p.upto /\ d.events = {Decoded(x) : x \in p.events}

InHand ==
  LET p == produced[Len(delivered) + 1]
  IN  /\ handler = "send" => Passes(response, p)
      /\ handler = "decode" =>
           /\ decoding.upto = p.upto /\ decoding.todo \subseteq p.events
           /\ decoding.done = {Decoded(x) : x \in p.events \ decoding.todo}

DeliveredOK ==
  /\ Len(delivered) <= Len(produced)
  /\ \A i \in 1..Len(delivered) : Passes(delivered[i], produced[i])

WInv == /\ StreamTypes /\ Sequences /\ ProducedOK /\ OnTheWay /\ InHand
        /\ DeliveredOK /\ WatchDataLossIsReal

LEMMA EventsDecoded ==
  ASSUME IInv, HistDated, arrived # <<>>, arrived \in Seq(Accepted),
         NEW from \in Nat \ {0}, NEW to \in Nat, to <= Len(hist)
  PROVE  /\ {Decoded(x) : x \in Events(from, to)} = UNION {UserEventsAt(r) : r \in from..to}
         /\ \A x \in Events(from, to) : GoodItem(blobs, x)
<1>1. \A r \in from..to : r \in 1..Len(hist)
  BY DEF IInv, CoordTypes
<1>2. \A r \in from..to : /\ {Decoded(x) : x \in EventsAt(r)} = UserEventsAt(r)
                          /\ \A x \in EventsAt(r) : GoodItem(blobs, x)
  BY <1>1, EventsMirror, Zenon
<1> QED
  BY <1>2 DEF Events

LEMMA AllGood ==
  ASSUME IInv, HistDated, StreamTypes, Sequences, ProducedOK
  PROVE  \A i \in 1..Len(produced) : \A x \in produced[i].events : GoodItem(blobs, x)
<1>1. Len(produced) \in Nat /\ (Len(produced) > 0 => arrived # <<>> /\ produced[1].events = {})
  BY LenAny DEF Sequences, ProducedOK
<1>2. ASSUME NEW i \in 2..Len(produced)
      PROVE  \A x \in produced[i].events : GoodItem(blobs, x)
  <2>1. /\ produced[i - 1].upto + 1 \in Nat \ {0} /\ produced[i].upto \in Nat
        /\ produced[i].upto <= Len(hist)
        /\ produced[i].events = Events(produced[i - 1].upto + 1, produced[i].upto)
    BY <1>1 DEF ProducedOK
  <2> QED
    BY <1>1, <2>1, EventsDecoded DEF StreamTypes
<1>3. \A i \in 1..Len(produced) : i = 1 \/ i \in 2..Len(produced)
  BY <1>1
<1> QED
  BY <1>1, <1>2, <1>3

\* Events that were sent are those that would be sent now.
LEMMA EventsKept ==
  ASSUME IInv, Extends(hist', hist), arrived'[1] = arrived[1],
         NEW from \in Nat \ {0}, NEW to \in Nat, to <= Len(hist)
  PROVE  Events(from, to)' = Events(from, to)
<1>1. \A r \in from..to : r \in 1..Len(hist) /\ (r > 1 => r - 1 \in 1..Len(hist))
  BY DEF IInv, CoordTypes
<1>2. Watcher' = Watcher
  BY Zenon DEF Watcher
<1>3. ASSUME NEW r \in from..to PROVE EventsAt(r)' = EventsAt(r)
  <2>1. hist'[r] = hist[r] /\ (r > 1 => hist'[r - 1] = hist[r - 1])
    BY <1>1, Zenon DEF Extends
  <2>2. CASE r > 1
    <3>1. Affected(r)' = Affected(r)
      BY <1>2, <2>1, <2>2, Zenon DEF Affected, Changed
    <3>2. \A k : KeysOnlyEvent(r, k)' = KeysOnlyEvent(r, k) /\ EventKV(r, k)' = EventKV(r, k)
      BY <2>1, Zenon DEF KeysOnlyEvent, IsDelete, EventKV
    <3> QED
      BY <1>2, <2>1, <2>2, <3>1, <3>2 DEF EventsAt
  <2>3. CASE ~(r > 1)
    <3>1. Affected(r)' = {} /\ Affected(r) = {}
      BY <2>3, Zenon DEF Affected, Changed
    <3> QED
      BY <3>1, Zenon DEF EventsAt
  <2> QED
    BY <2>2, <2>3, Zenon
<1> QED
  BY <1>3, Zenon DEF Events

LEMMA DecodedKept ==
  ASSUME IInv, [Next]_vars, NEW x, GoodItem(blobs, x)
  PROVE  Decoded(x)' = Decoded(x)
<1>1. CASE x.keysOnly
  BY <1>1, Zenon DEF Decoded
<1>2. CASE ~x.keysOnly
  <2>1. blobs'[x.kv.val.shard][x.kv.val.token] = blobs[x.kv.val.shard][x.kv.val.token]
    BY <1>2, BlobsKept, Zenon DEF GoodItem, Reaches, Refs
  <2> QED
    BY <2>1, Zenon DEF Decoded
<1> QED
  BY <1>1, <1>2, Zenon

LEMMA HistoryGrows ==
  ASSUME IInv, [Next]_vars
  PROVE  Extends(hist', hist) /\ Len(hist) \in Nat /\ Len(hist') \in Nat /\ lost \subseteq lost'
<1>1. HistOK(blobs, hist) /\ leases \subseteq Leases
  BY Zenon DEF IInv, CoordTypes
<1>2. Extends(hist, hist)
  BY <1>1, LastOK DEF Extends
<1>3. ASSUME NEW q, NEW refs, Commits(q, refs) PROVE Extends(hist', hist)
  BY <1>1, <1>3, CommitOK, Zenon DEF Commits
<1>4. Extends(hist', hist)
  BY <1>1, <1>2, <1>3, CoordinatorSteps, DropLeaseOK, Zenon
<1>5. lost \subseteq lost'
  <2>1. ASSUME NEW p \in Procs, (\E q \in Requests : Begin(p, q)) \/ Step(p) \/ GiveUp(p)
        PROVE  lost' = lost
    BY <2>1, Zenon DEF Begin, Step, StagePut, Publish, DecodeKV, Return, GiveUp, shards
  <2>2. ASSUME \/ \E m \in late : PublishLate(m) \/ Drop(m)
               \/ \E r \in CompactRevs : Compact(r)
               \/ \E l \in Leases : LeaseGrant(l) \/ LeaseEnd(l)
               \/ UNCHANGED vars
        PROVE  lost' = lost
    BY <2>2, Zenon DEF PublishLate, Drop, Compact, LeaseGrant, LeaseEnd, shards, vars
  <2>3. ASSUME \E s \in Shards, t \in Tokens : LoseBlob(s, t) PROVE lost \subseteq lost'
    BY <2>3, Zenon DEF LoseBlob
  <2> QED
    BY <2>1, <2>2, <2>3, Zenon DEF Next
<1> QED
  BY <1>4, <1>5, NextOK DEF IInv, HistOK
-----------------------------------------------------------------------------
LEMMA InitStream == WatchInit => WInv
<1> SUFFICES ASSUME WatchInit PROVE WInv
  BY Zenon
<1>1. /\ inbox = <<>> /\ arrived = <<>> /\ produced = <<>> /\ outbox = <<>> /\ delivered = <<>>
      /\ sender = "unborn" /\ ended = "no" /\ handler = "open" /\ err = NoVal
  BY Zenon DEF WatchInit, R!Init
<1>2. StreamTypes
  BY <1>1 DEF StreamTypes
<1>3. Sequences /\ Len(<<>>) = 0
  BY <1>1, EmptyAny, Zenon DEF Sequences
<1>4. ProducedOK /\ OnTheWay /\ InHand /\ DeliveredOK
  BY <1>1, <1>3 DEF ProducedOK, OnTheWay, InHand, DeliveredOK, Taken
<1>5. WatchDataLossIsReal
  BY <1>1, ErrorsAssumption, Zenon DEF WatchDataLossIsReal
<1> QED
  BY <1>2, <1>3, <1>4, <1>5, Zenon DEF WInv

\* What handlers write and data shards lose changes nothing for the stream.
LEMMA HandlersKeepStream ==
  ASSUME IInv, HistDated, WInv, [Next]_vars, UNCHANGED watchVars
  PROVE  WInv'
<1>1. /\ UNCHANGED <<inbox, arrived, sender, held, ended, handler, decoding, produced, outbox,
                     delivered, response, err, upto>>
  BY Zenon DEF watchVars, relayVars
<1>2. /\ Extends(hist', hist) /\ Len(hist) \in Nat /\ Len(hist') \in Nat /\ lost \subseteq lost'
  BY HistoryGrows, Zenon
<1>3. \A i \in 1..Len(produced) : \A x \in produced[i].events : Decoded(x)' = Decoded(x)
  BY AllGood, DecodedKept, Zenon DEF WInv
<1>4. Len(produced) \in Nat /\ Len(delivered) \in Nat /\ Len(outbox) \in Nat
  BY LenAny, Zenon DEF WInv, Sequences
<1>5. StreamTypes' /\ Sequences' /\ OnTheWay' /\ WatchDataLossIsReal'
  BY <1>1, <1>2, Zenon DEF WInv, StreamTypes, Sequences, OnTheWay, Taken, WatchDataLossIsReal
<1>6. ProducedOK'
  <2>1. ASSUME NEW i \in 2..Len(produced)
        PROVE  /\ produced[i].upto <= Len(hist')
               /\ produced[i].events = Events(produced[i - 1].upto + 1, produced[i].upto)'
    <3>1. /\ produced[i - 1].upto + 1 \in Nat \ {0} /\ produced[i].upto \in Nat
          /\ produced[i].upto <= Len(hist)
          /\ produced[i].events = Events(produced[i - 1].upto + 1, produced[i].upto)
      BY <1>4 DEF WInv, ProducedOK
    <3>2. Len(hist') >= Len(hist)
      BY <1>2, Zenon DEF Extends
    <3>3. \A from \in Nat \ {0}, to \in Nat : to <= Len(hist) => Events(from, to)' = Events(from, to)
      BY <1>1, <1>2, EventsKept, Zenon
    <3> QED
      BY <1>1, <1>2, <3>1, <3>2, <3>3
  <2> QED
    BY <1>1, <2>1, Zenon DEF WInv, ProducedOK
<1>7. DeliveredOK'
  <2>1. \A i \in 1..Len(delivered) : i \in 1..Len(produced)
    BY <1>4 DEF WInv, DeliveredOK
  <2> QED
    BY <1>1, <1>3, <2>1, Zenon DEF WInv, DeliveredOK, Passes
<1>8. InHand'
  <2>1. handler \in {"decode", "send"} => Len(delivered) + 1 \in 1..Len(produced)
    BY <1>4 DEF WInv, OnTheWay, Taken
  <2> QED
    BY <1>1, <1>3, <2>1, Zenon DEF WInv, InHand, Passes
<1> QED
  BY <1>5, <1>6, <1>7, <1>8, Zenon DEF WInv

LEMMA ProducedKept ==
  ASSUME IInv, WInv, UNCHANGED <<vars, produced, upto>>,
         produced # <<>> => arrived' # <<>> /\ arrived'[1] = arrived[1]
  PROVE  ProducedOK'
<1>1. Len(produced) \in Nat /\ (produced = <<>> <=> Len(produced) = 0)
  BY LenAny, Zenon DEF WInv, Sequences
<1>2. hist' = hist /\ Extends(hist', hist)
  BY DEF vars, Extends, IInv, CoordTypes
<1>3. ASSUME NEW i \in 2..Len(produced)
      PROVE  produced[i].events = Events(produced[i - 1].upto + 1, produced[i].upto)'
  <2>1. /\ produced[i - 1].upto + 1 \in Nat \ {0} /\ produced[i].upto \in Nat
        /\ produced[i].upto <= Len(hist)
        /\ produced[i].events = Events(produced[i - 1].upto + 1, produced[i].upto)
    BY <1>1 DEF WInv, ProducedOK
  <2>2. arrived'[1] = arrived[1]
    BY <1>1
  <2>3. \A from \in Nat \ {0}, to \in Nat : to <= Len(hist) => Events(from, to)' = Events(from, to)
    BY <1>2, <2>2, EventsKept, Zenon
  <2> QED
    BY <2>1, <2>3, Zenon
<1> QED
  BY <1>2, <1>3, Zenon DEF WInv, ProducedOK

\* Steps that leave the responses where they are, or lose some on the way.
LEMMA ResponsesKept ==
  ASSUME IInv, WInv, UNCHANGED <<vars, produced, upto, delivered, response, handler, decoding, err>>,
         outbox' = outbox \/ outbox' = <<>>, StreamTypes',
         ended' = "no" => ended = "no" /\ outbox' = outbox,
         produced # <<>> => arrived' # <<>> /\ arrived'[1] = arrived[1]
  PROVE  WInv'
<1>1. /\ Len(produced) \in Nat /\ Len(delivered) \in Nat /\ Len(outbox) \in Nat
      /\ IsSequence(<<>>) /\ Len(<<>>) = 0
  BY LenAny, EmptyAny, Zenon DEF WInv, Sequences
<1>2. Sequences' /\ OnTheWay'
  BY <1>1 DEF WInv, Sequences, OnTheWay, Taken
<1>3. blobs' = blobs /\ lost' = lost
  BY Zenon DEF vars
<1>4. InHand' /\ DeliveredOK' /\ WatchDataLossIsReal'
  <2>1. \A x : Decoded(x)' = Decoded(x)
    BY <1>3, Zenon DEF Decoded
  <2> QED
    BY <1>3, <2>1, Zenon DEF WInv, InHand, DeliveredOK, Passes, WatchDataLossIsReal
<1> QED
  BY <1>2, <1>4, ProducedKept, Zenon DEF WInv

LEMMA ClientKeeps ==
  ASSUME IInv, WInv, ClientStep \/ WatchSenderStep
  PROVE  WInv'
<1>1. inbox \in Seq(Creates) /\ arrived \in Seq(Accepted)
  BY Zenon DEF WInv, StreamTypes
<1>2. ProducedOK
  BY Zenon DEF WInv
<1>3. CASE ClientStep
  <2>1. /\ UNCHANGED <<vars, upto, decoding, arrived, sender, held, produced, delivered, response,
                       handler, err>>
        /\ outbox' = outbox \/ outbox' = <<>>
        /\ inbox' = inbox \/ \E c \in Creates : inbox' = Append(inbox, c)
        /\ (ended' = ended /\ outbox' = outbox) \/ ended' \in {"ok", "error"}
    BY <1>3, Zenon DEF ClientStep, R!ClientSend, R!ClientHalfClose, R!ClientGoes, R!BackendEnds,
       R!clientVars, R!senderVars, R!backVars, R!handlerVars
  <2>2. inbox' \in Seq(Creates)
    BY <1>1, <2>1
  <2>3. StreamTypes'
    BY <2>1, <2>2, Zenon DEF WInv, StreamTypes
  <2> QED
    BY <1>2, <2>1, <2>3, ResponsesKept, Zenon DEF ProducedOK
<1>4. CASE WatchSenderStep
  <2>1. /\ UNCHANGED <<vars, upto, decoding, produced, delivered, response, handler, err, outbox, ended>>
        /\ \/ inbox' = inbox /\ held' = held
           \/ inbox # <<>> /\ inbox' = Tail(inbox) /\ held' = Head(inbox)
        /\ sender' = "send" => inbox # <<>> /\ held' = Head(inbox)
        /\ \/ arrived' = arrived
           \/ sender = "send" /\ held \notin {c \in Creates : c.key = Empty} /\ arrived' = Append(arrived, held)
    BY <1>4, Zenon
       DEF WatchSenderStep, R!SenderStep, R!SenderRecv, R!SenderSend, R!Fail, R!AfterSend,
       R!AfterEOF, R!Cancel, R!CloseSend, R!clientVars, R!senderVars, R!backVars, R!handlerVars
  <2>2. inbox' \in Seq(Creates) /\ (sender' = "send" => held' \in Creates)
    BY <1>1, <2>1
  <2>3. /\ arrived' \in Seq(Accepted)
        /\ arrived # <<>> => arrived' # <<>> /\ arrived'[1] = arrived[1]
    <3>1. CASE arrived' = arrived
      BY <1>1, <3>1, Zenon
    <3>2. CASE arrived' # arrived
      <4>1. held \in Accepted /\ arrived' = Append(arrived, held)
        BY <2>1, <3>2, Zenon DEF WInv, StreamTypes, Accepted
      <4> HIDE DEF Accepted
      <4> QED
        BY <1>1, <4>1
    <3> QED
      BY <3>1, <3>2, Zenon
  <2>4. StreamTypes'
    BY <2>1, <2>2, <2>3, Zenon DEF WInv, StreamTypes
  <2> QED
    BY <1>2, <2>1, <2>3, <2>4, ResponsesKept, Zenon DEF ProducedOK
<1> QED
  BY <1>3, <1>4, Zenon

LEMMA SequencesKept ==
  ASSUME WInv
  PROVE  /\ Len(produced) \in Nat /\ Len(delivered) \in Nat /\ Len(outbox) \in Nat
         /\ produced = <<>> <=> Len(produced) = 0
  BY LenAny, Zenon DEF WInv, Sequences

\* One more response, which covers the revisions from upto + 1 to n.
LEMMA SendsKeeps ==
  ASSUME IInv, WInv, NEW n \in Nat, NEW events, CoordinatorSends(n, events), arrived # <<>>,
         IF produced = <<>> THEN events = {} ELSE n <= Len(hist) /\ events = Events(upto + 1, n)
  PROVE  WInv'
<1> DEFINE m == [upto |-> n, events |-> events]
<1>1. /\ UNCHANGED <<vars, decoding, arrived, inbox, sender, held, ended, handler, response, err, delivered>>
      /\ upto' = n /\ produced' = Append(produced, m) /\ outbox' = Append(outbox, m)
  BY Zenon DEF CoordinatorSends, R!BackendSends, R!clientVars, R!senderVars, R!handlerVars
<1>2. m.upto = n /\ m.events = events
  BY Zenon
<1> HIDE DEF m
<1>3. /\ Len(produced) \in Nat /\ Len(delivered) \in Nat /\ Len(outbox) \in Nat
      /\ produced = <<>> <=> Len(produced) = 0
  BY SequencesKept, Zenon
<1>4. /\ IsSequence(produced') /\ produced' # <<>> /\ Len(produced') = Len(produced) + 1
      /\ \A i \in 1..Len(produced) : produced'[i] = produced[i]
      /\ produced'[Len(produced) + 1] = m
      /\ IsSequence(outbox') /\ Len(outbox') = Len(outbox) + 1
      /\ \A i \in 1..Len(outbox) : outbox'[i] = outbox[i]
      /\ outbox'[Len(outbox) + 1] = m
  BY <1>1, AppendAny, Zenon DEF WInv, Sequences
<1> PICK P, O : P = produced' /\ O = outbox'
  BY Zenon
<1>5. StreamTypes' /\ Sequences' /\ WatchDataLossIsReal'
  BY <1>1, <1>4, Zenon DEF WInv, StreamTypes, Sequences, WatchDataLossIsReal, vars
<1>6. \A from \in Nat \ {0}, to \in Nat : to <= Len(hist) => Events(from, to)' = Events(from, to)
  <2>1. Extends(hist', hist)
    BY <1>1 DEF vars, Extends, IInv, CoordTypes
  <2> QED
    BY <1>1, <2>1, EventsKept, Zenon
<1>7. \A x : Decoded(x)' = Decoded(x)
  BY <1>1, Zenon DEF vars, Decoded
<1>8. ProducedOK'
  <2>1. hist' = hist
    BY <1>1, Zenon DEF vars
  <2>2. /\ \A i \in 1..Len(P) : P[i].upto \in Nat
        /\ P # <<>> /\ P[1].events = {} /\ n = P[Len(P)].upto
    BY <1>1, <1>2, <1>3, <1>4 DEF WInv, ProducedOK
  <2>3. ASSUME NEW i \in 2..Len(P)
        PROVE  /\ P[i].upto <= Len(hist)
               /\ P[i].events = Events(P[i - 1].upto + 1, P[i].upto)
    <3>1. Len(P) = Len(produced) + 1
      BY <1>4, Zenon
    <3>2. CASE i = Len(produced) + 1
      <4>1. i - 1 = Len(produced) /\ i - 1 \in 1..Len(produced) /\ Len(produced) # 0
        BY <1>3, <3>2
      <4>2. produced # <<>> /\ P[i] = m /\ P[i - 1] = produced[Len(produced)]
        BY <1>3, <1>4, <3>2, <4>1, Zenon
      <4> QED
        BY <1>2, <4>2, Zenon DEF WInv, ProducedOK
    <3>3. CASE i # Len(produced) + 1
      <4>1. i \in 2..Len(produced) /\ i \in 1..Len(produced) /\ i - 1 \in 1..Len(produced)
        BY <1>3, <3>1, <3>3
      <4>2. P[i] = produced[i] /\ P[i - 1] = produced[i - 1]
        BY <1>4, <4>1, Zenon
      <4> QED
        BY <4>1, <4>2, Zenon DEF WInv, ProducedOK
    <3> QED
      BY <3>2, <3>3, Zenon
  <2>4. ASSUME NEW i \in 2..Len(P)
        PROVE  P[i].events = Events(P[i - 1].upto + 1, P[i].upto)'
    <3>1. P[i - 1].upto + 1 \in Nat \ {0} /\ P[i].upto \in Nat
      <4>1. Len(P) = Len(produced) + 1
        BY <1>4, Zenon
      <4>2. i - 1 \in 1..Len(P) /\ i \in 1..Len(P)
        BY <1>3, <4>1
      <4>3. P[i - 1].upto \in Nat /\ P[i].upto \in Nat
        BY <2>2, <4>2, Zenon
      <4> QED
        BY <4>3
    <3> QED
      BY <1>6, <2>3, <3>1, Zenon
  <2> QED
    BY <1>1, <2>1, <2>2, <2>3, <2>4, Zenon DEF ProducedOK
<1>9. OnTheWay'
  <2>1. /\ Taken' = Taken /\ Taken \in {0, 1} /\ ended = "no" /\ ended' = ended
        /\ handler' = handler /\ delivered' = delivered
    BY <1>1, Zenon DEF Taken, CoordinatorSends, R!BackendSends
  <2>2. SUFFICES ASSUME handler \notin {"select", "done"}
                 PROVE  /\ Len(delivered) + Taken + Len(O) = Len(P)
                        /\ \A i \in 1..Len(O) : O[i] = P[Len(delivered) + Taken + i]
    <3>1. Len(delivered) + Taken + Len(O) \in Nat
      BY <1>3, <1>4, <2>1
    <3> QED
      BY <2>1, <2>2, <3>1 DEF OnTheWay
  <2>3. /\ Len(delivered) + Taken + Len(outbox) = Len(produced)
        /\ \A i \in 1..Len(outbox) : outbox[i] = produced[Len(delivered) + Taken + i]
    BY <2>1, <2>2, Zenon DEF WInv, OnTheWay
  <2>4. ASSUME NEW i \in 1..Len(O) PROVE O[i] = P[Len(delivered) + Taken + i]
    <3>1. CASE i = Len(outbox) + 1
      BY <1>3, <1>4, <2>1, <2>3, <3>1
    <3>2. CASE i # Len(outbox) + 1
      <4>1. i \in 1..Len(outbox) /\ Len(delivered) + Taken + i \in 1..Len(produced)
        BY <1>3, <1>4, <2>1, <2>3, <3>2
      <4> QED
        BY <1>4, <2>3, <4>1, Zenon
    <3> QED
      BY <3>1, <3>2, Zenon
  <2> QED
    BY <1>3, <1>4, <2>1, <2>3, <2>4
<1>10. DeliveredOK'
  <2>1. \A i \in 1..Len(delivered) : i \in 1..Len(produced) /\ produced'[i] = produced[i]
    BY <1>3, <1>4 DEF WInv, DeliveredOK
  <2>2. Len(delivered) <= Len(produced')
    BY <1>3, <1>4 DEF WInv, DeliveredOK
  <2> QED
    BY <1>1, <1>7, <2>1, <2>2, Zenon DEF WInv, DeliveredOK, Passes
<1>11. InHand'
  <2>1. handler \in {"decode", "send"} => produced'[Len(delivered) + 1] = produced[Len(delivered) + 1]
    BY <1>3, <1>4 DEF WInv, OnTheWay, Taken
  <2> QED
    BY <1>1, <1>7, <2>1, Zenon DEF WInv, InHand, Passes
<1> QED
  BY <1>5, <1>8, <1>9, <1>10, <1>11, Zenon DEF WInv

LEMMA CoordinatorKeeps ==
  ASSUME IInv, WInv, CoordinatorStep
  PROVE  WInv'
<1>1. Len(hist) \in Nat /\ arrived \in Seq(Accepted)
  BY DEF IInv, CoordTypes, WInv, StreamTypes
<1>2. produced # <<>> => arrived # <<>> /\ upto \in Nat
  <2>1. produced # <<>> => Len(produced) \in 1..Len(produced)
    BY SequencesKept
  <2> QED
    BY <2>1, Zenon DEF WInv, ProducedOK
<1>3. CASE CoordinatorCreates
  <2>1. arrived # <<>> /\ produced = <<>>
    BY <1>3, Zenon DEF CoordinatorCreates
  <2>2. Watcher.start \in Nat
    <3>1. arrived[1] \in Accepted
      BY <1>1, <2>1
    <3> QED
      BY <3>1, AcceptedRange, Zenon DEF Watcher
  <2> DEFINE n == IF Watcher.start = 0 THEN Len(hist) ELSE Watcher.start - 1
  <2>3. n \in Nat
    BY <1>1, <2>2
  <2>4. CoordinatorSends(n, {})
    BY <1>3, Zenon DEF CoordinatorCreates
  <2> HIDE DEF n
  <2> QED
    BY <2>1, <2>3, <2>4, SendsKeeps, Zenon
<1>4. ASSUME NEW n \in 1..Len(hist), CoordinatorNotifies(n) PROVE WInv'
  <2>1. produced # <<>> /\ CoordinatorSends(n, Events(upto + 1, n))
    BY <1>4, Zenon DEF CoordinatorNotifies
  <2>2. n \in Nat /\ n <= Len(hist)
    BY <1>1
  <2> QED
    BY <1>2, <2>1, <2>2, SendsKeeps, Zenon
<1>5. CASE CoordinatorProgresses
  <2>1. produced # <<>> /\ CoordinatorSends(Len(hist), {}) /\ Quiet(upto + 1, Len(hist))
    BY <1>5, Zenon DEF CoordinatorProgresses
  <2>2. Events(upto + 1, Len(hist)) = {}
    BY <2>1, Zenon DEF Quiet, Events, EventsAt
  <2>3. PICK n, E : n = Len(hist) /\ E = {}
    BY Zenon
  <2>4. n \in Nat /\ n <= Len(hist) /\ E = Events(upto + 1, n) /\ CoordinatorSends(n, E)
    BY <1>1, <2>1, <2>2, <2>3
  <2> QED
    BY <1>2, <2>1, <2>4, SendsKeeps, Zenon
<1> QED
  BY <1>3, <1>4, <1>5, Zenon DEF CoordinatorStep

\* The handler is done with the responses.
LEMMA StopKeeps ==
  ASSUME IInv, WInv, UNCHANGED <<vars, produced, upto, delivered, arrived, inbox, outbox>>,
         handler' \in {"select", "done"}, ended' \in {"no", "ok", "error"},
         sender' = "send" => held' \in Creates, err' = "dataloss" => lost # {}
  PROVE  WInv'
<1>1. StreamTypes' /\ Sequences' /\ OnTheWay' /\ InHand'
  BY Zenon DEF WInv, StreamTypes, Sequences, OnTheWay, InHand
<1>2. DeliveredOK' /\ WatchDataLossIsReal'
  <2>1. (\A x : Decoded(x)' = Decoded(x)) /\ lost' = lost
    BY Zenon DEF vars, Decoded
  <2> QED
    BY <2>1, Zenon DEF WInv, DeliveredOK, Passes, WatchDataLossIsReal
<1>3. produced # <<>> => arrived # <<>>
  BY Zenon DEF WInv, ProducedOK
<1>4. ProducedOK'
  BY <1>3, ProducedKept, Zenon
<1> QED
  BY <1>1, <1>2, <1>4, Zenon DEF WInv

\* The handler goes on, with the responses where they were.
LEMMA GoesOnKeeps ==
  ASSUME IInv, WInv, UNCHANGED <<vars, produced, upto, arrived, inbox, ended, err>>,
         sender' = "send" => held' \in Creates,
         handler' \in {"header", "recv", "decode", "send"}, Sequences', OnTheWay', InHand', DeliveredOK',
         handler' = "decode" =>
           decoding' = [upto |-> decoding'.upto, todo |-> decoding'.todo, done |-> decoding'.done]
  PROVE  WInv'
<1>1. StreamTypes' /\ WatchDataLossIsReal'
  BY Zenon DEF WInv, StreamTypes, WatchDataLossIsReal, vars
<1>2. produced # <<>> => arrived # <<>>
  BY Zenon DEF WInv, ProducedOK
<1>3. ProducedOK'
  BY <1>2, ProducedKept, Zenon
<1> QED
  BY <1>1, <1>3, Zenon DEF WInv

LEMMA RelayHandlerKeeps ==
  ASSUME IInv, WInv, RelayHandlerStep
  PROVE  WInv'
<1>1. UNCHANGED <<vars, upto, decoding>>
  BY Zenon DEF RelayHandlerStep
<1>2. \A x : Decoded(x)' = Decoded(x)
  BY <1>1, Zenon DEF vars, Decoded
<1>3. Len(produced) \in Nat /\ Len(delivered) \in Nat /\ Len(outbox) \in Nat
  BY SequencesKept, Zenon
<1>4. ended \in {"no", "ok", "error"} /\ (sender = "send" => held \in Creates)
  BY Zenon DEF WInv, StreamTypes
<1>5. CASE R!Open
  <2>1. /\ UNCHANGED <<produced, delivered, arrived, inbox, outbox, err>> /\ handler = "open"
        /\ sender' # "send"
        /\ (handler' = "header" /\ ended' = ended) \/ (handler' = "done" /\ ended' = "error")
    BY <1>5, Zenon DEF R!Open, R!clientVars
  <2>2. CASE handler' = "done"
    <3>1. err' = "dataloss" => lost # {}
      BY <2>1, Zenon DEF WInv, WatchDataLossIsReal
    <3> QED
      BY <1>1, <1>4, <2>1, <2>2, <3>1, StopKeeps, Zenon
  <2>3. CASE handler' = "header" /\ ended' = ended
    <3>1. OnTheWay' /\ InHand' /\ DeliveredOK' /\ Sequences'
      BY <1>2, <2>1, <2>3 DEF WInv, OnTheWay, InHand, DeliveredOK, Passes, Taken, Sequences
    <3> QED
      BY <1>1, <2>1, <2>3, <3>1, GoesOnKeeps, Zenon
  <2> QED
    BY <2>1, <2>2, <2>3, Zenon
<1>6. CASE R!Header \/ R!HandlerRecvEnds
  <2>1. /\ UNCHANGED <<produced, delivered, arrived, inbox, outbox, sender, held, ended>>
        /\ \/ handler = "header" /\ handler' = "recv" /\ UNCHANGED err
           \/ handler' = "select" /\ (err' = "canceled" \/ (err' = ended /\ ended # "no"))
    BY <1>6, Zenon
       DEF R!Header, R!HandlerRecvEnds, R!Stop, R!Status, R!clientVars, R!senderVars, R!backVars
  <2>2. CASE handler' = "select"
    BY <1>1, <1>4, <2>1, <2>2, StopKeeps, Zenon
  <2>3. CASE handler = "header" /\ handler' = "recv" /\ UNCHANGED err
    <3>1. OnTheWay' /\ InHand' /\ DeliveredOK' /\ Sequences'
      BY <1>2, <2>1, <2>3 DEF WInv, OnTheWay, InHand, DeliveredOK, Passes, Taken, Sequences
    <3> QED
      BY <1>1, <1>4, <2>1, <2>3, <3>1, GoesOnKeeps, Zenon
  <2> QED
    BY <2>1, <2>2, <2>3, Zenon
<1>7. CASE R!Select
  <2>1. /\ UNCHANGED <<produced, delivered, arrived, inbox, outbox, sender, held, ended, err>>
        /\ handler' = "done"
    BY <1>7, Zenon DEF R!Select, R!clientVars, R!senderVars, R!backVars
  <2>2. err' = "dataloss" => lost # {}
    BY <2>1, Zenon DEF WInv, WatchDataLossIsReal
  <2> QED
    BY <1>1, <1>4, <2>1, <2>2, StopKeeps, Zenon
<1>8. CASE R!HandlerSend
  <2>1. /\ UNCHANGED <<produced, arrived, inbox, outbox, sender, held, ended>> /\ handler = "send"
        /\ \/ delivered' = Append(delivered, response) /\ handler' = "recv" /\ UNCHANGED err
           \/ delivered' = delivered /\ handler' = "select" /\ err' = "canceled"
    BY <1>8, Zenon DEF R!HandlerSend, R!Stop, R!clientVars, R!senderVars, R!backVars
  <2>2. CASE handler' = "select"
    BY <1>1, <1>4, <2>1, <2>2, StopKeeps, Zenon
  <2>3. CASE delivered' = Append(delivered, response) /\ handler' = "recv" /\ UNCHANGED err
    <3>1. /\ Len(delivered) + 1 + Len(outbox) <= Len(produced)
          /\ ended = "no" => Len(delivered) + 1 + Len(outbox) = Len(produced)
          /\ \A i \in 1..Len(outbox) : outbox[i] = produced[Len(delivered) + 1 + i]
          /\ Passes(response, produced[Len(delivered) + 1])
      BY <2>1, Zenon DEF WInv, OnTheWay, InHand, Taken
    <3> PICK D, x : D = delivered' /\ x = response
      BY Zenon
    <3>2. /\ IsSequence(D) /\ Len(D) = Len(delivered) + 1
          /\ \A i \in 1..Len(delivered) : D[i] = delivered[i]
          /\ D[Len(delivered) + 1] = x
      BY <2>3, AppendAny, Zenon DEF WInv, Sequences
    <3>3. \A i \in 1..Len(D) : Passes(D[i], produced[i])
      <4>1. \A i \in 1..Len(D) : i \in 1..Len(delivered) \/ i = Len(delivered) + 1
        BY <1>3, <3>2
      <4> QED
        BY <3>1, <3>2, <4>1, Zenon DEF WInv, DeliveredOK
    <3>4. \A d, p : Passes(d, p) => Passes(d, p)'
      BY <1>2, Zenon DEF Passes
    <3>5. DeliveredOK'
      <4>1. Len(D) <= Len(produced)
        BY <1>3, <3>1, <3>2
      <4> QED
        BY <2>1, <3>3, <3>4, <4>1, Zenon DEF DeliveredOK
    <3>6. OnTheWay' /\ InHand' /\ Sequences'
      BY <1>3, <2>1, <2>3, <3>1, <3>2 DEF WInv, OnTheWay, InHand, Taken, Sequences
    <3> QED
      BY <1>1, <1>4, <2>1, <2>3, <3>5, <3>6, GoesOnKeeps, Zenon
  <2> QED
    BY <2>1, <2>2, <2>3, Zenon
<1> QED
  BY <1>5, <1>6, <1>7, <1>8, Zenon DEF RelayHandlerStep

LEMMA WatchRecvKeeps ==
  ASSUME IInv, WInv, WatchRecv
  PROVE  WInv'
<1>1. /\ UNCHANGED <<vars, upto, produced, delivered, arrived, inbox, sender, held, ended, err>>
      /\ handler = "recv" /\ handler' = "decode" /\ outbox # <<>> /\ outbox' = Tail(outbox)
      /\ decoding' = [upto |-> Head(outbox).upto, todo |-> Head(outbox).events, done |-> {}]
  BY Zenon DEF WatchRecv
<1>2. /\ Len(delivered) + Len(outbox) <= Len(produced)
      /\ ended = "no" => Len(delivered) + Len(outbox) = Len(produced)
      /\ \A i \in 1..Len(outbox) : outbox[i] = produced[Len(delivered) + i]
  <2>1. Len(delivered) \in Nat /\ Len(delivered) + Taken = Len(delivered)
    BY <1>1, SequencesKept DEF Taken
  <2>2. /\ Len(delivered) + Taken + Len(outbox) <= Len(produced)
        /\ ended = "no" => Len(delivered) + Taken + Len(outbox) = Len(produced)
        /\ \A i \in 1..Len(outbox) : outbox[i] = produced[Len(delivered) + Taken + i]
    BY <1>1, Zenon DEF WInv, OnTheWay
  <2> QED
    BY <2>1, <2>2, Zenon
<1> PICK O, h : O = outbox' /\ h = Head(outbox)
  BY Zenon
<1>3. /\ Len(produced) \in Nat /\ Len(delivered) \in Nat /\ Len(outbox) \in Nat
      /\ IsSequence(O) /\ Len(outbox) > 0 /\ Len(O) = Len(outbox) - 1
      /\ \A i \in 1..Len(O) : O[i] = outbox[i + 1]
      /\ h = outbox[1]
  BY <1>1, SequencesKept, TailAny DEF WInv, Sequences
<1>4. h = produced[Len(delivered) + 1]
  BY <1>2, <1>3
<1>5. /\ decoding'.upto = h.upto /\ decoding'.todo = h.events /\ decoding'.done = {}
      /\ decoding' = [upto |-> decoding'.upto, todo |-> decoding'.todo, done |-> decoding'.done]
  BY <1>1, Zenon
<1>6. InHand'
  BY <1>1, <1>4, <1>5, Zenon DEF InHand
<1>7. \A i \in 1..Len(O) : O[i] = produced[Len(delivered) + 1 + i]
  <2>1. \A i \in 1..Len(O) : /\ i + 1 \in 1..Len(outbox) /\ O[i] = outbox[i + 1]
                             /\ Len(delivered) + (i + 1) = Len(delivered) + 1 + i
    BY <1>3
  <2> QED
    BY <1>2, <2>1, Zenon
<1>8. OnTheWay'
  <2>1. Taken' = 1
    BY <1>1, Zenon DEF Taken
  <2>2. /\ Len(delivered) + 1 + Len(O) <= Len(produced)
        /\ ended = "no" => Len(delivered) + 1 + Len(O) = Len(produced)
    <3>1. /\ Len(delivered) + Len(outbox) <= Len(produced)
          /\ ended = "no" => Len(delivered) + Len(outbox) = Len(produced)
      BY <1>2, Zenon
    <3>2. /\ Len(produced) \in Nat /\ Len(delivered) \in Nat /\ Len(outbox) \in Nat
          /\ Len(O) = Len(outbox) - 1
      BY <1>3, Zenon
    <3> QED
      BY <3>1, <3>2
  <2>3. UNCHANGED <<delivered, produced, ended>>
    BY <1>1, Zenon
  <2> QED
    BY <1>7, <2>1, <2>2, <2>3, Zenon DEF OnTheWay
<1>9. Sequences'
  BY <1>1, <1>3, Zenon DEF WInv, Sequences
<1>10. DeliveredOK'
  <2>1. \A x : Decoded(x)' = Decoded(x)
    BY <1>1, Zenon DEF vars, Decoded
  <2> QED
    BY <1>1, <2>1, Zenon DEF WInv, DeliveredOK, Passes
<1>11. sender' = "send" => held' \in Creates
  BY <1>1, Zenon DEF WInv, StreamTypes
<1> QED
  BY <1>1, <1>5, <1>6, <1>8, <1>9, <1>10, <1>11, GoesOnKeeps, Zenon

LEMMA WatchFailsKeeps ==
  ASSUME IInv, WInv, NEW e, WatchFails(e), UNCHANGED <<vars, upto>>, e = "dataloss" => lost # {}
  PROVE  WInv'
<1>1. /\ UNCHANGED <<produced, delivered, arrived, inbox, outbox, ended, sender, held>>
      /\ handler' = "select" /\ err' = e
  BY Zenon DEF WatchFails, R!Stop
<1>2. ended \in {"no", "ok", "error"} /\ (sender = "send" => held \in Creates)
  BY Zenon DEF WInv, StreamTypes
<1> QED
  BY <1>1, <1>2, StopKeeps, Zenon

LEMMA WatchDecodeKeeps ==
  ASSUME IInv, HistDated, WInv, WatchDecode
  PROVE  WInv'
<1> DEFINE p == produced[Len(delivered) + 1]
<1>1. UNCHANGED <<vars, upto>> /\ handler = "decode"
  BY Zenon DEF WatchDecode
<1>2. PICK x \in decoding.todo :
        IF DataLoss(x) THEN WatchFails("dataloss")
        ELSE /\ decoding' = [decoding EXCEPT !.todo = @ \ {x}, !.done = @ \cup {Decoded(x)}]
             /\ UNCHANGED relayVars
  BY Zenon DEF WatchDecode
<1>3. /\ decoding.upto = p.upto /\ decoding.todo \subseteq p.events
      /\ decoding.done = {Decoded(y) : y \in p.events \ decoding.todo}
      /\ decoding = [upto |-> decoding.upto, todo |-> decoding.todo, done |-> decoding.done]
  BY <1>1, Zenon DEF WInv, InHand, StreamTypes
<1>4. Len(delivered) + 1 \in 1..Len(produced)
  BY <1>1, SequencesKept DEF WInv, OnTheWay, Taken
<1>5. GoodItem(blobs, x)
  BY <1>3, <1>4, AllGood, Zenon DEF WInv
<1>6. CASE DataLoss(x)
  <2>1. lost # {}
    BY <1>5, <1>6, DataLossMeansLost, Zenon
  <2> QED
    BY <1>1, <1>2, <1>6, <2>1, WatchFailsKeeps, Zenon
<1>7. CASE ~DataLoss(x)
  <2>1. /\ decoding' = [decoding EXCEPT !.todo = @ \ {x}, !.done = @ \cup {Decoded(x)}]
        /\ UNCHANGED <<produced, delivered, arrived, inbox, outbox, ended, sender, held, handler, err, response>>
    BY <1>2, <1>7, Zenon DEF relayVars
  <2>2. /\ decoding'.upto = decoding.upto /\ decoding'.todo = decoding.todo \ {x}
        /\ decoding'.done = decoding.done \cup {Decoded(x)}
        /\ decoding' = [upto |-> decoding'.upto, todo |-> decoding'.todo, done |-> decoding'.done]
    <3>1. PICK u, t, d : decoding = [upto |-> u, todo |-> t, done |-> d]
      BY <1>3, Zenon
    <3> QED
      BY <2>1, <3>1, Zenon
  <2>3. \A y : Decoded(y)' = Decoded(y)
    BY <1>1, Zenon DEF vars, Decoded
  <2>4. decoding'.todo \subseteq p.events /\ decoding'.done = {Decoded(y) : y \in p.events \ decoding'.todo}
    BY <1>3, <2>2, Zenon
  <2>5. InHand'
    BY <1>1, <1>3, <2>1, <2>2, <2>3, <2>4 DEF InHand
  <2>6. OnTheWay' /\ Sequences' /\ DeliveredOK'
    BY <2>1, <2>3, Zenon DEF WInv, OnTheWay, Taken, Sequences, DeliveredOK, Passes
  <2>7. sender' = "send" => held' \in Creates
    BY <2>1, Zenon DEF WInv, StreamTypes
  <2> QED
    BY <1>1, <2>1, <2>2, <2>5, <2>6, <2>7, GoesOnKeeps, Zenon
<1> QED
  BY <1>6, <1>7, Zenon

LEMMA WatchDecodedKeeps ==
  ASSUME IInv, WInv, WatchDecoded
  PROVE  WInv'
<1>1. /\ UNCHANGED <<vars, upto, produced, delivered, arrived, inbox, outbox, ended, sender, held, err>>
      /\ handler = "decode" /\ handler' = "send" /\ decoding.todo = {}
      /\ response' = [upto |-> decoding.upto, events |-> decoding.done]
  BY Zenon DEF WatchDecoded, AllDecoded
<1>2. \A y : Decoded(y)' = Decoded(y)
  BY <1>1, Zenon DEF vars, Decoded
<1>3. Passes(response', produced[Len(delivered) + 1])
  <2>1. LET p == produced[Len(delivered) + 1]
        IN  decoding.upto = p.upto /\ decoding.done = {Decoded(x) : x \in p.events}
    BY <1>1, Zenon DEF WInv, InHand
  <2>2. response'.upto = decoding.upto /\ response'.events = decoding.done
    BY <1>1, Zenon
  <2> QED
    BY <2>1, <2>2, Zenon DEF Passes
<1>4. InHand'
  BY <1>1, <1>2, <1>3, Zenon DEF InHand, Passes
<1>5. OnTheWay' /\ Sequences' /\ DeliveredOK'
  BY <1>1, <1>2, Zenon DEF WInv, OnTheWay, Taken, Sequences, DeliveredOK, Passes
<1>6. sender' = "send" => held' \in Creates
  BY <1>1, Zenon DEF WInv, StreamTypes
<1> QED
  BY <1>1, <1>4, <1>5, <1>6, GoesOnKeeps, Zenon

LEMMA WatchDecodeFailsKeeps ==
  ASSUME IInv, WInv, WatchDecodeFails
  PROVE  WInv'
  BY WatchFailsKeeps, Zenon DEF WatchDecodeFails

LEMMA NextStream == IInv /\ HistDated /\ WInv /\ [WatchNext]_allVars => WInv'
<1> SUFFICES ASSUME IInv, HistDated, WInv, [WatchNext]_allVars PROVE WInv'
  BY Zenon
<1>1. CASE (Next /\ UNCHANGED watchVars) \/ UNCHANGED allVars
  <2>1. [Next]_vars /\ UNCHANGED watchVars
    BY <1>1, Zenon DEF allVars
  <2> QED
    BY <2>1, HandlersKeepStream, Zenon
<1>2. CASE ClientStep \/ WatchSenderStep
  BY <1>2, ClientKeeps, Zenon
<1>3. CASE CoordinatorStep
  BY <1>3, CoordinatorKeeps, Zenon
<1>4. CASE WatchHandlerStep
  BY <1>4, RelayHandlerKeeps, WatchRecvKeeps, WatchDecodeKeeps, WatchDecodedKeeps, Zenon
     DEF WatchHandlerStep
<1>5. CASE WatchDecodeFails
  BY <1>5, WatchDecodeFailsKeeps, Zenon
<1> QED
  BY <1>1, <1>2, <1>3, <1>4, <1>5, Zenon DEF WatchNext

LEMMA WatchInvariant == WatchSpec => [](IInv /\ HistDated /\ WInv)
  BY InitStream, NextStream, HandlersAsBefore, InvariantHolds, AlwaysDated, PTL DEF WatchSpec

\* decodeKV in RecvMsg, with handlers that write, delete and stage meanwhile: a
\* watch that ends with DataLoss has met a blob that a data shard lost.
THEOREM WatchDataLossIsAlwaysReal == WatchSpec => []WatchDataLossIsReal
  BY WatchInvariant, PTL DEF WInv

\* What a stream delivers, response by response, is the history that reads show:
\* RecvMsg and forwardResponses neither lose, repeat, reorder nor mix anything,
\* whatever handlers write meanwhile.
THEOREM WatchIsAlwaysExact == WatchSpec => []WatchIsExact
<1>1. IInv /\ HistDated /\ WInv => WatchIsExact
  <2> SUFFICES ASSUME IInv, HistDated, WInv, NEW i \in 1..Len(delivered)
               PROVE  IF i = 1 THEN delivered[i].events = {}
                      ELSE delivered[i].events =
                             UNION {UserEventsAt(r) : r \in (delivered[i - 1].upto + 1)..delivered[i].upto}
    BY Zenon DEF WatchIsExact
  <2>1. /\ Len(produced) \in Nat /\ Len(delivered) \in Nat /\ i \in 1..Len(produced)
        /\ produced # <<>>
    BY SequencesKept DEF WInv, DeliveredOK
  <2>2. Passes(delivered[i], produced[i]) /\ (i # 1 => Passes(delivered[i - 1], produced[i - 1]))
    BY <2>1 DEF WInv, DeliveredOK
  <2>3. CASE i = 1
    BY <2>1, <2>2, <2>3, Zenon DEF WInv, ProducedOK, Passes
  <2>4. CASE i # 1
    <3>1. i \in 2..Len(produced) /\ i - 1 \in 1..Len(produced)
      BY <2>1, <2>4
    <3>2. /\ produced[i - 1].upto + 1 \in Nat \ {0} /\ produced[i].upto \in Nat
          /\ produced[i].upto <= Len(hist)
          /\ produced[i].events = Events(produced[i - 1].upto + 1, produced[i].upto)
          /\ arrived # <<>>
      BY <2>1, <3>1 DEF WInv, ProducedOK
    <3>3. {Decoded(x) : x \in produced[i].events}
            = UNION {UserEventsAt(r) : r \in (produced[i - 1].upto + 1)..produced[i].upto}
      BY <3>2, EventsDecoded, Zenon DEF WInv, StreamTypes
    <3> QED
      BY <2>2, <2>4, <3>3, Zenon DEF Passes
  <2> QED
    BY <2>3, <2>4, Zenon
<1> QED
  BY <1>1, WatchInvariant, PTL
=============================================================================
