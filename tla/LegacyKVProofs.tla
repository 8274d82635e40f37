--------------------------- MODULE LegacyKVProofs ---------------------------
(***************************************************************************)
(* LegacyKV for any valid configuration and any number of handlers and     *)
(* requests: keys stay with the shard that owns them, a DeleteRange that   *)
(* reports success has been done by every shard of its range, a Range has  *)
(* listed the keys of every shard of its range, and a Txn is decided by    *)
(* what is stored.                                                         *)
(***************************************************************************)
EXTENDS LegacyKV, RoutingProofs

\* A transaction keeps to the shard it is sent to.
KeepsToShard(q) ==
  /\ GetShardID(q) \in ShardIDs
  /\ \A keys \in SUBSET Keys :
        (\A k \in keys : Home(k) = GetShardID(q)) =>
           /\ ApplyTxn(keys, q) \subseteq Keys
           /\ \A k \in ApplyTxn(keys, q) : Home(k) = GetShardID(q)

\* The configuration is one that Validate accepts.
LEMMA ConfigIsGood == GoodConfig(Config)
  BY KVAssumption DEF GoodConfig

\* What LegacyShards makes of it.
LEMMA ShardFacts ==
  /\ Len(Shards) = Len(Config) /\ Len(Config) \in Nat \ {0}
  /\ \A i \in 1..Len(Config) :
        /\ Shards[i].start = CoordinatedShards(Config)[i].start
        /\ Shards[i].start \in Nat /\ Shards[i].end \in Nat
        /\ Shards[i].end = IF i = Len(Config) THEN NoEnd
                           ELSE CoordinatedShards(Config)[i].end
        /\ CoordinatedShards(Config)[i].end =
              IF i = Len(Config) THEN Empty ELSE Shards[i].end
<1>1. Len(Config) \in Nat
  BY KVAssumption
<1>2. /\ Len(CoordinatedShards(Config)) = Len(Config)
      /\ Len(LegacyShards(Config)) = Len(Config)
      /\ \A i \in 1..Len(Config) :
            /\ CoordinatedShards(Config)[i].start = StartOf(Config, i)
            /\ CoordinatedShards(Config)[i].end =
                 IF i = Len(Config) THEN Empty ELSE EndOf(Config, i)
            /\ LegacyShards(Config)[i].start = StartOf(Config, i)
            /\ LegacyShards(Config)[i].end =
                 IF i = Len(Config) THEN NoEnd ELSE EndOf(Config, i)
  BY <1>1, ShardsOfConfig
<1>3. QED
  BY <1>2, KVAssumption DEF Shards, NoEnd, Empty

\* Every key has a shard.
LEMMA HomeOfKey ==
  ASSUME NEW k \in Keys
  PROVE  Home(k) \in ShardIDs /\ ContainsRange(Shards[Home(k)], k, Empty)
<1>1. k \in Nat /\ k >= 1
  BY KVAssumption DEF Keys
<1>2. PICK i \in 1..Len(CoordinatedShards(Config)) : Owns(CoordinatedShards(Config)[i], k)
  <2>1. GoodRoutes(CoordinatedShards(Config))
    BY ConfigIsGood, ValidConfigIsContiguous
  <2>2. ShardOf(CoordinatedShards(Config), k) \in 1..Len(CoordinatedShards(Config))
    BY <2>1, <1>1, ShardOfExists
  <2>3. QED  BY <2>1, <2>2, <1>1, OneOwner
<1>3. i \in 1..Len(Config)
  BY <1>2, ShardsOfConfig, KVAssumption
<1>4. ContainsRange(Shards[i], k, Empty)
  <2>1. i < Len(Config) => CoordinatedShards(Config)[i].end # Empty
    BY <1>3, ConfigIsGood, ValidConfigIsContiguous, ShardsOfConfig, KVAssumption
       DEF GoodRoutes, Contiguous
  <2>2. QED
    BY <1>1, <1>2, <1>3, <2>1, ShardFacts DEF Owns, BelowEnd, ContainsRange, Empty, NoEnd
<1>5. GetShardClis(Shards, k, Empty)
        = {j \in 1..Len(Config) : ContainsRange(Shards[j], k, Empty)}
  BY <1>1, ConfigIsGood, GetShardClisIsComplete DEF Shards, Empty
<1>6. \E s \in ShardIDs : s \in GetShardClis(Shards, k, Empty)
  BY <1>3, <1>4, <1>5, ShardFacts DEF ShardIDs
<1>7. Home(k) \in ShardIDs /\ Home(k) \in GetShardClis(Shards, k, Empty)
  BY <1>6 DEF Home
<1>8. QED
  BY <1>5, <1>7

\* A range is sent to the shard of each of its keys.
LEMMA RangeReachesHome ==
  ASSUME NEW k \in Keys, NEW key \in Keys, NEW end \in Nat, InRange(k, key, end)
  PROVE  Home(k) \in GetShardClis(Shards, key, end)
<1>1. k \in Nat /\ key \in Nat
  BY KVAssumption DEF Keys
<1>2. Home(k) \in 1..Len(Config) /\ ContainsRange(Shards[Home(k)], k, Empty)
  BY HomeOfKey, ShardFacts DEF ShardIDs
<1>3. PICK h : h = Home(k)
  OBVIOUS
<1>4. Shards[h].start \in Nat /\ Shards[h].end \in Nat
  BY <1>2, <1>3, ShardFacts, Zenon
<1>5. ContainsRange(Shards[h], key, end)
  BY <1>1, <1>2, <1>3, <1>4 DEF ContainsRange, InRange, Empty, NoEnd
<1>6. GetShardClis(Shards, key, end)
        = {j \in 1..Len(Config) : ContainsRange(Shards[j], key, end)}
  BY <1>1, ConfigIsGood, GetShardClisIsComplete DEF Shards
<1>7. QED
  BY <1>2, <1>3, <1>5, <1>6

LEMMA TargetsAreShards ==
  ASSUME NEW q \in Requests, q.op = "txn" => KeepsToShard(q)
  PROVE  Targets(q) \subseteq ShardIDs
<1>1. CASE q.op = "put"
  BY <1>1, KVAssumption, HomeOfKey DEF Targets
<1>2. CASE q.op = "txn"
  BY <1>2 DEF Targets, KeepsToShard
<1>3. CASE q.op \in {"range", "delete"}
  BY <1>3 DEF Targets, GetShardClis, ShardIDs
<1>4. QED
  BY <1>1, <1>2, <1>3, KVAssumption

\* A shard that executes a request sent to it keeps only keys of its own.
LEMMA ApplyKeepsToShard ==
  ASSUME NEW q \in Requests, q.op = "txn" => KeepsToShard(q),
         NEW s \in Targets(q), NEW keys \in SUBSET Keys,
         \A k \in keys : Home(k) = s
  PROVE  /\ Apply(keys, q) \subseteq Keys
         /\ \A k \in Apply(keys, q) : Home(k) = s
<1>1. CASE q.op = "put"
  BY <1>1, KVAssumption DEF Targets, Apply, ApplyOp
<1>2. CASE q.op = "txn"
  BY <1>2 DEF Targets, KeepsToShard, Apply
<1>3. CASE q.op = "range"
  BY <1>3 DEF Apply, ApplyOp
<1>4. CASE q.op = "delete"
  BY <1>4 DEF Apply, ApplyOp
<1>5. QED
  BY <1>1, <1>2, <1>3, <1>4, KVAssumption
-----------------------------------------------------------------------------
(***************************************************************************)
(* The inductive invariant: a shard that has answered a delete holds none  *)
(* of the keys in question that were there when the request began.         *)
(***************************************************************************)
Answers == {Respond(keys, q) : keys \in SUBSET Keys, q \in Requests} \cup {Nil}

KVTypes ==
  /\ store \in [ShardIDs -> SUBSET Keys]
  /\ pc \in [Procs -> {"idle", "run"}]
  /\ req \in [Procs -> Requests \cup {Nil}]
  /\ gor \in [Procs -> [ShardIDs -> {"call", "assign", "check", "wrap", "done"}]]
  /\ rets \in [Procs -> [ShardIDs -> Answers]]
  /\ status \in [Procs -> {"none", "ok", "error"}]
  /\ always \in [Procs -> SUBSET Keys]

LateCallsKeep == \A m \in late : m.req \in Requests /\ m.shard \in Targets(m.req)

GoroutinesKeep ==
  \A p \in Procs :
     /\ pc[p] = "run" => req[p] # Nil
     /\ \A s \in ShardIDs :
           gor[p][s] # "done" => pc[p] = "run" /\ s \in Targets(req[p])

AnsweredDeletes ==
  \A p \in Procs : pc[p] = "run" /\ req[p].op = "delete" =>
     \A s \in ShardIDs : rets[p][s] # Nil =>
        \A k \in always[p] : Home(k) = s => ~InReq(req[p], k)

KVInv ==
  /\ KVTypes /\ KeysAtHome /\ LateCallsKeep /\ GoroutinesKeep
  /\ AnsweredDeletes /\ DeletesAreComplete

\* What the execution of a request by one of its shards does to the store.
LEMMA StoreStep ==
  ASSUME KVInv, NEW q \in Requests, q.op = "txn" => KeepsToShard(q),
         NEW s \in ShardIDs, s \in Targets(q),
         store' = [store EXCEPT ![s] = Apply(@, q)], Track
  PROVE  /\ store' \in [ShardIDs -> SUBSET Keys] /\ KeysAtHome'
         /\ always' \in [Procs -> SUBSET Keys]
         /\ \A p \in Procs : always'[p] \subseteq always[p]
         /\ \A p \in Procs : \A k \in always'[p] : k \in store'[Home(k)]
<1>1. Apply(store[s], q) \subseteq Keys /\ \A k \in Apply(store[s], q) : Home(k) = s
  BY ApplyKeepsToShard DEF KVInv, KVTypes, KeysAtHome
<1>2. store' \in [ShardIDs -> SUBSET Keys]
  BY <1>1 DEF KVInv, KVTypes
<1>3. \A t \in ShardIDs : \A k \in store'[t] : Home(k) = t
  BY <1>1 DEF KVInv, KVTypes, KeysAtHome
<1>4. KeysAtHome'
  BY <1>3 DEF KeysAtHome
<1>5. /\ always' \in [Procs -> SUBSET Keys]
      /\ \A p \in Procs : always'[p] = always[p] \cap UNION {store'[t] : t \in ShardIDs}
  BY Zenon DEF Track, Stored, KVInv, KVTypes
<1>6. QED
  BY <1>2, <1>3, <1>4, <1>5

\* A handler that a step leaves alone, while keys disappear.
LEMMA HandlersStay ==
  ASSUME KVInv, UNCHANGED <<pc, req, rets, status>>, always' \in [Procs -> SUBSET Keys],
         NEW p \in Procs, always'[p] \subseteq always[p]
  PROVE  /\ (pc'[p] = "run" /\ req'[p].op = "delete" =>
                \A s \in ShardIDs : rets'[p][s] # Nil =>
                   \A k \in always'[p] : Home(k) = s => ~InReq(req'[p], k))
         /\ (Done(p, "delete")' => \A k \in always'[p] : ~InReq(req'[p], k))
  BY DEF KVInv, AnsweredDeletes, DeletesAreComplete, Done

LEMMA KVInvInit == Init => KVInv
<1>1. SUFFICES ASSUME Init PROVE KVInv
  OBVIOUS
<1>2. PICK all \in SUBSET Keys : store = [s \in ShardIDs |-> {k \in all : Home(k) = s}]
  BY <1>1, Zenon DEF Init
<1>3. /\ pc = [p \in Procs |-> "idle"] /\ req = [p \in Procs |-> Nil]
      /\ gor = [p \in Procs |-> [s \in ShardIDs |-> "done"]]
      /\ rets = [p \in Procs |-> [s \in ShardIDs |-> Nil]]
      /\ status = [p \in Procs |-> "none"]
      /\ late = {} /\ always = [p \in Procs |-> {}]
  BY <1>1 DEF Init
<1>4. KVTypes
  BY <1>2, <1>3 DEF KVTypes, Answers
<1>5. KeysAtHome
  BY <1>2 DEF KeysAtHome
<1>6. LateCallsKeep /\ GoroutinesKeep
  BY <1>3 DEF LateCallsKeep, GoroutinesKeep
<1>7. AnsweredDeletes /\ DeletesAreComplete
  BY <1>3 DEF AnsweredDeletes, DeletesAreComplete, Done
<1>8. QED  BY <1>4, <1>5, <1>6, <1>7 DEF KVInv

LEMMA BeginKeepsInv ==
  ASSUME KVInv, NEW p \in Procs, NEW q \in Requests, q.op = "txn" => KeepsToShard(q),
         Begin(p, q)
  PROVE  KVInv'
<1>1. \A s \in ShardIDs : store[s] \subseteq Keys
  BY Zenon DEF KVInv, KVTypes
<1>2. Stored \subseteq Keys
  BY <1>1 DEF Stored
<1>3. KVTypes'
  BY <1>2 DEF Begin, KVInv, KVTypes, Answers
<1>4. KeysAtHome' /\ LateCallsKeep'
  BY Zenon DEF Begin, KVInv, KeysAtHome, LateCallsKeep
<1>5. GoroutinesKeep'
  BY KVAssumption DEF Begin, KVInv, KVTypes, GoroutinesKeep
<1>6. AnsweredDeletes'
  BY DEF Begin, KVInv, KVTypes, AnsweredDeletes
<1>7. DeletesAreComplete'
  BY DEF Begin, KVInv, KVTypes, DeletesAreComplete, Done
<1>8. QED  BY <1>3, <1>4, <1>5, <1>6, <1>7 DEF KVInv

LEMMA CallKeepsInv ==
  ASSUME KVInv, NEW p \in Procs, NEW s \in ShardIDs,
         req[p] \in Requests => (req[p].op = "txn" => KeepsToShard(req[p])),
         Call(p, s)
  PROVE  KVInv'
<1>1. pc[p] = "run" /\ req[p] \in Requests /\ s \in Targets(req[p])
  BY DEF Call, KVInv, KVTypes, GoroutinesKeep
<1>2. PICK q \in Requests : q = req[p]
  BY <1>1
<1>3. /\ store' \in [ShardIDs -> SUBSET Keys] /\ KeysAtHome'
      /\ always' \in [Procs -> SUBSET Keys]
      /\ \A r \in Procs : always'[r] \subseteq always[r]
      /\ \A r \in Procs : \A k \in always'[r] : k \in store'[Home(k)]
  BY <1>1, <1>2, StoreStep, Zenon DEF Call
<1>4. Respond(store[s], q) \in Answers
  BY DEF Answers, KVInv, KVTypes
<1>5. KVTypes'
  BY <1>2, <1>3, <1>4, Zenon DEF Call, KVInv, KVTypes
<1>6. LateCallsKeep' /\ GoroutinesKeep'
  BY <1>1 DEF Call, KVInv, KVTypes, LateCallsKeep, GoroutinesKeep
<1>7. AnsweredDeletes'
  <2>1. SUFFICES ASSUME NEW r \in Procs, pc[r] = "run", req[r].op = "delete",
                        NEW t \in ShardIDs, rets'[r][t] # Nil,
                        NEW k \in always'[r], Home(k) = t
                 PROVE  ~InReq(req[r], k)
    BY DEF AnsweredDeletes, Call
  <2>2. CASE r = p /\ t = s
    <3>1. k \in Apply(store[s], q)
      BY <1>3, <2>1, <2>2, <1>2 DEF Call, KVInv, KVTypes
    <3>2. QED
      BY <3>1, <2>1, <2>2, <1>2 DEF Apply, ApplyOp, InReq
  <2>3. CASE ~(r = p /\ t = s)
    <3>1. rets[r][t] # Nil
      BY <2>1, <2>3 DEF Call, KVInv, KVTypes
    <3>2. QED
      BY <3>1, <2>1, <1>3, Zenon DEF KVInv, AnsweredDeletes
  <2>4. QED  BY <2>2, <2>3
<1>8. DeletesAreComplete'
  BY <1>3 DEF Call, KVInv, DeletesAreComplete, Done
<1>9. QED  BY <1>3, <1>5, <1>6, <1>7, <1>8 DEF KVInv

LEMMA CallFailsKeepsInv ==
  ASSUME KVInv, NEW p \in Procs, NEW s \in ShardIDs, CallFails(p, s)
  PROVE  KVInv'
<1>1. pc[p] = "run" /\ req[p] \in Requests /\ s \in Targets(req[p])
  BY DEF CallFails, KVInv, KVTypes, GoroutinesKeep
<1>2. KVTypes'
  BY DEF CallFails, KVInv, KVTypes
<1>3. KeysAtHome' /\ AnsweredDeletes' /\ DeletesAreComplete'
  BY DEF CallFails, KVInv, KeysAtHome, AnsweredDeletes, DeletesAreComplete, Done
<1>4. LateCallsKeep'
  BY <1>1 DEF CallFails, KVInv, LateCallsKeep, Outstanding
<1>5. GoroutinesKeep'
  BY <1>1 DEF CallFails, KVInv, KVTypes, GoroutinesKeep
<1>6. QED  BY <1>2, <1>3, <1>4, <1>5 DEF KVInv

LEMMA CallLateKeepsInv ==
  ASSUME KVInv, \A q \in Requests : q.op = "txn" => KeepsToShard(q),
         NEW m \in late, CallLate(m)
  PROVE  KVInv'
<1>1. m.req \in Requests /\ m.shard \in Targets(m.req)
  BY DEF KVInv, LateCallsKeep
<1>2. m.shard \in ShardIDs
  BY <1>1, TargetsAreShards
<1>3. /\ store' \in [ShardIDs -> SUBSET Keys] /\ KeysAtHome'
      /\ always' \in [Procs -> SUBSET Keys]
      /\ \A r \in Procs : always'[r] \subseteq always[r]
  BY <1>1, <1>2, StoreStep, Zenon DEF CallLate
<1>4. KVTypes'
  BY <1>3 DEF CallLate, KVInv, KVTypes
<1>5. LateCallsKeep' /\ GoroutinesKeep'
  BY DEF CallLate, KVInv, LateCallsKeep, GoroutinesKeep
<1>6. AnsweredDeletes' /\ DeletesAreComplete'
  BY <1>3, HandlersStay DEF CallLate, AnsweredDeletes, DeletesAreComplete
<1>7. QED  BY <1>3, <1>4, <1>5, <1>6 DEF KVInv

\* Assign, Check and Wrap: what the goroutines do with the shared err does not
\* matter here, because the filter looks at the responses.
LEMMA GoroutineKeepsInv ==
  ASSUME KVInv, NEW p \in Procs, NEW s \in ShardIDs,
         Assign(p, s) \/ Check(p, s) \/ Wrap(p, s)
  PROVE  KVInv'
<1>1. /\ UNCHANGED <<store, pc, req, rets, status, late, always>>
      /\ gor[p][s] # "done"
      /\ \E g \in {"check", "wrap", "done"} : gor' = [gor EXCEPT ![p][s] = g]
  BY DEF Assign, Check, Wrap
<1>2. KVTypes'
  BY <1>1 DEF KVInv, KVTypes
<1>3. KeysAtHome' /\ LateCallsKeep' /\ AnsweredDeletes' /\ DeletesAreComplete'
  BY <1>1 DEF KVInv, KeysAtHome, LateCallsKeep, AnsweredDeletes, DeletesAreComplete, Done
<1>4. GoroutinesKeep'
  BY <1>1 DEF KVInv, KVTypes, GoroutinesKeep
<1>5. QED  BY <1>2, <1>3, <1>4, Zenon DEF KVInv

LEMMA CrashKeepsInv ==
  ASSUME KVInv, Crash
  PROVE  KVInv'
<1>1. KVTypes'
  BY Zenon DEF Crash, KVInv, KVTypes
<1>2. KeysAtHome' /\ GoroutinesKeep' /\ AnsweredDeletes'
  BY Zenon DEF Crash, KVInv, KeysAtHome, GoroutinesKeep, AnsweredDeletes
<1>3. LateCallsKeep'
  <2>1. PICK calls \in SUBSET UNION {Outstanding(c[1], c[2]) : c \in UnderWay} :
                late' = late \cup calls
    BY Zenon DEF Crash
  <2>2. SUFFICES ASSUME NEW c \in UnderWay, NEW m \in Outstanding(c[1], c[2])
                 PROVE  m.req \in Requests /\ m.shard \in Targets(m.req)
    BY <2>1 DEF KVInv, LateCallsKeep
  <2>3. PICK p \in Procs, s \in ShardIDs : c = <<p, s>> /\ gor[p][s] = "call"
    BY DEF UnderWay
  <2>4. m \in Outstanding(p, s)
    BY <2>2, <2>3
  <2>5. pc[p] = "run" /\ req[p] \in Requests /\ s \in Targets(req[p])
    BY <2>3, Zenon DEF KVInv, KVTypes, GoroutinesKeep
  <2>6. QED  BY <2>4, <2>5 DEF Outstanding
<1>4. DeletesAreComplete'
  BY Zenon DEF Crash, KVInv, KVTypes, DeletesAreComplete, Done
<1>5. QED  BY <1>1, <1>2, <1>3, <1>4 DEF KVInv

\* The answer to a delete needs a response of every shard of its range, and a
\* key of the range is in one of them.
LEMMA WaitKeepsInv ==
  ASSUME KVInv, NEW p \in Procs, Wait(p)
  PROVE  KVInv'
<1>1. CASE Crash
  BY <1>1, CrashKeepsInv
<1>2. ASSUME NEW st \in {"ok", "error"}, NEW a, Finish(p, st, a),
             st = "ok" => Filter(p) # Panic
      PROVE  KVInv'
  <2>1. pc[p] = "run" /\ req[p] \in Requests /\ \A s \in ShardIDs : gor[p][s] = "done"
    BY DEF Wait, KVInv, KVTypes, GoroutinesKeep
  <2>2. KVTypes'
    BY <1>2 DEF Finish, KVInv, KVTypes
  <2>3. KeysAtHome' /\ LateCallsKeep'
    BY <1>2, Zenon DEF Finish, KVInv, KeysAtHome, LateCallsKeep
  <2>4. GoroutinesKeep' /\ AnsweredDeletes'
    BY <1>2, <2>1, Zenon DEF Finish, KVInv, KVTypes, GoroutinesKeep, AnsweredDeletes
  <2>5. ASSUME st = "ok", req[p].op = "delete", NEW k \in always[p], InReq(req[p], k)
        PROVE  FALSE
    <3>1. PICK q \in Requests : q = req[p] /\ q.op = "delete" /\ q.key \in Keys /\ q.end \in Nat
      BY <2>1, <2>5, KVAssumption
    <3>2. k \in Keys
      BY DEF KVInv, KVTypes
    <3>3. Home(k) \in Targets(q) /\ Home(k) \in ShardIDs
      BY <3>1, <3>2, <2>5, RangeReachesHome, HomeOfKey DEF Targets, InReq
    <3>4. FilterDeleteRange([s \in Targets(q) |-> rets[p][s]]) # Panic
      BY <1>2, <2>5, <3>1 DEF Filter
    <3>5. rets[p][Home(k)] # Nil
      BY <3>3, <3>4, Zenon DEF FilterDeleteRange
    <3>6. QED
      BY <2>1, <2>5, <3>3, <3>5, Zenon DEF KVInv, AnsweredDeletes
  <2>6. DeletesAreComplete'
    BY <1>2, <2>5 DEF Finish, KVInv, KVTypes, DeletesAreComplete, Done
  <2>7. QED  BY <2>2, <2>3, <2>4, <2>6 DEF KVInv
<1>3. QED
  BY <1>1, <1>2 DEF Wait
-----------------------------------------------------------------------------
LEMMA KVInvStep ==
  ASSUME \A q \in Requests : q.op = "txn" => KeepsToShard(q), KVInv, [Next]_vars
  PROVE  KVInv'
<1>1. CASE UNCHANGED vars
  BY <1>1, Zenon DEF vars, KVInv, KVTypes, KeysAtHome, LateCallsKeep, GoroutinesKeep,
              AnsweredDeletes, DeletesAreComplete, Done
<1>2. ASSUME NEW p \in Procs, NEW q \in Requests, Begin(p, q)
      PROVE  KVInv'
  BY <1>2, BeginKeepsInv, Zenon
<1>3. ASSUME NEW p \in Procs, NEW s \in ShardIDs,
             Call(p, s) \/ CallFails(p, s) \/ Assign(p, s) \/ Check(p, s) \/ Wrap(p, s)
      PROVE  KVInv'
  BY <1>3, CallKeepsInv, CallFailsKeepsInv, GoroutineKeepsInv
<1>4. ASSUME NEW p \in Procs, Wait(p)
      PROVE  KVInv'
  BY <1>4, WaitKeepsInv
<1>5. ASSUME NEW m \in late, CallLate(m)
      PROVE  KVInv'
  BY <1>5, CallLateKeepsInv
<1>6. QED  BY <1>1, <1>2, <1>3, <1>4, <1>5 DEF Next

\* Puts, deletes and transactions that keep to one shard, of any number of
\* handlers, leave every key with the shard that a later Range of it asks, even
\* when calls fail, are executed late, or the process ends.
THEOREM KeysStayAtHome ==
  ASSUME \A q \in Requests : q.op = "txn" => KeepsToShard(q)
  PROVE  Spec => []KeysAtHome
<1>1. KVInv /\ [Next]_vars => KVInv'
  BY KVInvStep
<1>2. KVInv => KeysAtHome
  BY DEF KVInv
<1>3. QED  BY KVInvInit, <1>1, <1>2, PTL DEF Spec

\* For every valid configuration, whatever the goroutines of DeleteRange read
\* from the err they share: a delete that is reported as done was done by every
\* shard of its range.
THEOREM ReportedDeletesAreComplete ==
  ASSUME \A q \in Requests : q.op = "txn" => KeepsToShard(q)
  PROVE  Spec => []DeletesAreComplete
<1>1. KVInv /\ [Next]_vars => KVInv'
  BY KVInvStep
<1>2. KVInv => DeletesAreComplete
  BY Zenon DEF KVInv
<1>3. QED  BY KVInvInit, <1>1, <1>2, PTL DEF Spec
-----------------------------------------------------------------------------
(***************************************************************************)
(* Ascending.  A function defined by recursion exists: if not, take the    *)
(* first number up to which it does not, and extend it by one.             *)
(***************************************************************************)
ListTo(S, n, f) ==
  f = [i \in 0..n |-> IF i = 0 THEN <<>>
                      ELSE IF i \in S THEN Append(f[i - 1], i) ELSE f[i - 1]]

\* The list of Ascending exists.
LEMMA ListExists ==
  ASSUME NEW S, NEW n \in Nat
  PROVE  \E f : ListTo(S, n, f)
<1> DEFINE B == {m \in 0..n : ~\E f : ListTo(S, m, f)}
<1>1. SUFFICES ASSUME B # {} PROVE FALSE
  <2>1. n \in 0..n
    OBVIOUS
  <2>2. QED  BY <1>1, <2>1, Zenon
<1>2. B \in SUBSET Nat
  OBVIOUS
<1>3. PICK m \in B : \A i \in B : m <= i
  BY <1>1, <1>2, LeastElement
<1>4. ListTo(S, 0, [i \in 0..0 |-> <<>>])
  BY DEF ListTo
<1>5. m # 0
  BY <1>3, <1>4, Zenon
<1>6. m - 1 \in 0..n /\ ~(m <= m - 1) /\ m \in Nat \ {0}
  BY <1>2, <1>3, <1>5
<1>7. PICK f : ListTo(S, m - 1, f)
  BY <1>3, <1>6, Zenon
<1> DEFINE g == [i \in 0..m |-> IF i = m
                                THEN IF m \in S THEN Append(f[m - 1], m) ELSE f[m - 1]
                                ELSE f[i]]
<1>8. ASSUME NEW i \in 0..m
      PROVE  g[i] = IF i = 0 THEN <<>>
                    ELSE IF i \in S THEN Append(g[i - 1], i) ELSE g[i - 1]
  <2>1. CASE i = m
    <3>1. m - 1 \in 0..m /\ m - 1 # m /\ m \in 0..m
      BY <1>6
    <3>2. g[m - 1] = f[m - 1]
      BY <3>1, Zenon
    <3>3. QED  BY <2>1, <3>1, <3>2, <1>5, Zenon
  <2>2. CASE i # m
    <3>1. i \in 0..(m - 1)
      BY <1>6, <2>2
    <3>2. i # 0 => i - 1 \in 0..m /\ i - 1 # m
      BY <1>6, <2>2
    <3>3. f[i] = IF i = 0 THEN <<>>
                 ELSE IF i \in S THEN Append(f[i - 1], i) ELSE f[i - 1]
      BY <1>7, <3>1, Zenon DEF ListTo
    <3>4. g[i] = f[i]
      BY <2>2, Zenon
    <3>5. i # 0 => g[i - 1] = f[i - 1]
      BY <3>2, Zenon
    <3>6. QED  BY <3>3, <3>4, <3>5, Zenon
  <2>3. QED  BY <2>1, <2>2
<1>9. ListTo(S, m, g)
  BY <1>8, Zenon DEF ListTo
<1>10. QED  BY <1>3, <1>9, Zenon

\* q lists the members of S up to i, in order.
Lists(q, S, i) ==
  /\ q \in Seq(S)
  /\ \A j \in 1..Len(q) : q[j] <= i
  /\ \A k \in S : k <= i => \E j \in 1..Len(q) : q[j] = k
  /\ \A a, b \in 1..Len(q) : a < b => q[a] < q[b]

\* The next number joins the list if it is a member.
LEMMA ListedNext ==
  ASSUME NEW n \in Nat, NEW S \in SUBSET (1..n), NEW i \in 1..n, NEW q,
         Lists(q, S, i - 1)
  PROVE  Lists(IF i \in S THEN Append(q, i) ELSE q, S, i)
<1>0. q \in Seq(S)
  BY Zenon DEF Lists
<1>1. q \in Seq(S) /\ Len(q) \in Nat /\ \A j \in 1..Len(q) : q[j] \in Nat
  <2>1. Len(q) \in Nat /\ \A j \in 1..Len(q) : q[j] \in S
    BY <1>0
  <2>2. S \subseteq Nat
    OBVIOUS
  <2>3. QED  BY <1>0, <2>1, <2>2, Zenon
<1>2. CASE i \notin S
  <2>1. \A j \in 1..Len(q) : q[j] <= i
    BY <1>1 DEF Lists
  <2>2. \A k \in S : k <= i => k <= i - 1
    BY <1>2
  <2>3. QED  BY <1>2, <2>1, <2>2 DEF Lists
<1>3. CASE i \in S
  <2>1. PICK r : r = Append(q, i)
    OBVIOUS
  <2>2. /\ r \in Seq(S) /\ Len(r) = Len(q) + 1 /\ r[Len(q) + 1] = i
        /\ \A j \in 1..Len(q) : r[j] = q[j]
    BY <1>1, <1>3, <2>1
  <2>3. ASSUME NEW j \in 1..Len(r) PROVE r[j] <= i
    BY <1>1, <2>2 DEF Lists
  <2>4. ASSUME NEW k \in S, k <= i PROVE \E j \in 1..Len(r) : r[j] = k
    <3>1. CASE k = i
      <4>1. Len(q) + 1 \in 1..Len(r)
        BY <1>1, <2>2
      <4>2. QED  BY <3>1, <4>1, <2>2, Zenon
    <3>2. CASE k # i
      <4>1. k <= i - 1
        BY <2>4, <3>2
      <4>2. PICK j \in 1..Len(q) : q[j] = k
        BY <4>1, Zenon DEF Lists
      <4>3. j \in 1..Len(r)
        BY <1>1, <2>2
      <4>4. QED  BY <4>2, <4>3, <2>2, Zenon
    <3>3. QED  BY <3>1, <3>2
  <2>5. ASSUME NEW a \in 1..Len(r), NEW b \in 1..Len(r), a < b PROVE r[a] < r[b]
    <3>1. a \in 1..Len(q) /\ (b \in 1..Len(q) \/ b = Len(q) + 1)
      BY <1>1, <2>2, <2>5
    <3>2. CASE b \in 1..Len(q)
      BY <3>1, <3>2, <2>2, <2>5, Zenon DEF Lists
    <3>3. CASE b = Len(q) + 1
      <4>1. q[a] <= i - 1 /\ q[a] \in Nat /\ r[a] = q[a] /\ r[b] = i
        BY <3>1, <3>3, <1>1, <2>2, Zenon DEF Lists
      <4>2. QED  BY <4>1
    <3>4. QED  BY <3>1, <3>2, <3>3, Zenon
  <2>6. Lists(r, S, i)
    BY <2>2, <2>3, <2>4, <2>5, Zenon DEF Lists
  <2>7. QED  BY <1>3, <2>1, <2>6, Zenon
<1>4. QED  BY <1>2, <1>3, Zenon

\* Ascending lists all members of S, in order.
LEMMA AscendingLists ==
  ASSUME NEW n \in Nat, NEW S \in SUBSET (1..n)
  PROVE  Lists(Ascending(S, n), S, n)
<1>1. PICK f : f = CHOOSE g : ListTo(S, n, g)
  OBVIOUS
<1>2. ListTo(S, n, f)
  BY <1>1, ListExists, Zenon
<1>3. Ascending(S, n) = f[n]
  BY <1>1, Zenon DEF Ascending, ListTo
<1>4. \A i \in 0..n : f[i] = IF i = 0 THEN <<>>
                             ELSE IF i \in S THEN Append(f[i - 1], i) ELSE f[i - 1]
  BY <1>2, Zenon DEF ListTo
<1> DEFINE B == {m \in 0..n : ~Lists(f[m], S, m)}
<1>5. SUFFICES ASSUME B # {} PROVE FALSE
  <2>1. n \in 0..n
    OBVIOUS
  <2>2. QED  BY <1>3, <1>5, <2>1, Zenon
<1>6. B \in SUBSET Nat
  OBVIOUS
<1>7. PICK m \in B : \A i \in B : m <= i
  BY <1>5, <1>6, LeastElement
<1>8. Lists(<<>>, S, 0)
  <2>1. <<>> \in Seq(S) /\ Len(<<>>) = 0 /\ \A k \in S : ~(k <= 0)
    OBVIOUS
  <2>2. QED  BY <2>1 DEF Lists
<1>9. m # 0
  <2>1. 0 \in 0..n
    OBVIOUS
  <2>2. QED  BY <2>1, <1>4, <1>7, <1>8, Zenon
<1>10. m \in 1..n /\ m \in 0..n /\ m - 1 \in 0..n /\ ~(m <= m - 1)
  BY <1>6, <1>7, <1>9
<1>11. Lists(f[m - 1], S, m - 1)
  BY <1>7, <1>10, Zenon
<1>12. f[m] = IF m \in S THEN Append(f[m - 1], m) ELSE f[m - 1]
  BY <1>4, <1>9, <1>10, Zenon
<1>13. Lists(f[m], S, m)
  <2>1. PICK q : q = f[m - 1]
    OBVIOUS
  <2>2. m \in 1..n /\ Lists(q, S, m - 1)
    BY <1>10, <1>11, <2>1, Zenon
  <2>3. Lists(IF m \in S THEN Append(q, m) ELSE q, S, m)
    BY <2>2, ListedNext
  <2>4. QED  BY <2>1, <2>3, <1>12, Zenon
<1>14. QED  BY <1>7, <1>13, Zenon

-----------------------------------------------------------------------------
(***************************************************************************)
(* What one shard, or the shards D together, answer to a Range.            *)
(***************************************************************************)
RangeResponses == [kvs : Seq(Keys), count : Nat, more : BOOLEAN]

KeysIn(v) == {v[i] : i \in 1..Len(v)}

KeysOf(r) == KeysIn(r.kvs)

\* The response r to q lists keys of the shards D that are in E, and if it does
\* not say that there are more, all those in A; below a key that it lists, it
\* lists those in A.  More is never set before the limit is reached, which is
\* why FilterRange adds the keys of a shard only to all keys of earlier shards.
Gathered(r, q, A, E, D) ==
  /\ r \in RangeResponses
  /\ \A k \in KeysOf(r) : k \in E /\ InReq(q, k) /\ Home(k) \in D
  /\ r.more => q.limit > 0 /\ r.count >= q.limit
  /\ r.count = 0 => r.kvs = <<>>
  /\ \A j \in A : InReq(q, j) /\ Home(j) \in D =>
        /\ ~r.more => j \in KeysOf(r)
        /\ \A k \in KeysOf(r) : j < k => j \in KeysOf(r)

\* The fields of a response.
LEMMA RecordFacts ==
  ASSUME NEW r \in RangeResponses
  PROVE  r.kvs \in Seq(Keys) /\ r.count \in Nat /\ r.more \in BOOLEAN
  BY DEF RangeResponses

\* Shards are in the order of their keys.
LEMMA HomesAscend ==
  ASSUME NEW j \in Keys, NEW k \in Keys, j < k
  PROVE  Home(j) <= Home(k)
<1>1. j \in Nat /\ k \in Nat
  BY KVAssumption DEF Keys
<1>2. PICK a, b : a = Home(j) /\ b = Home(k)
  OBVIOUS
<1>3. /\ a \in 1..Len(Config) /\ ContainsRange(Shards[a], j, Empty)
      /\ b \in 1..Len(Config) /\ ContainsRange(Shards[b], k, Empty)
  BY <1>2, HomeOfKey, ShardFacts, Zenon DEF ShardIDs
<1>4. /\ Shards[a].start \in Nat /\ Shards[a].start <= j
      /\ Shards[b].end \in Nat
      /\ Shards[b].end # NoEnd => k < Shards[b].end
  BY <1>1, <1>3, ShardFacts DEF ContainsRange, Empty, NoEnd
<1>5. ASSUME b < a PROVE FALSE
  <2>1. GoodRoutes(CoordinatedShards(Config)) /\ Len(CoordinatedShards(Config)) = Len(Config)
    BY ConfigIsGood, ValidConfigIsContiguous, ShardsOfConfig, ShardFacts, Zenon
  <2>2. CoordinatedShards(Config)[b].end <= CoordinatedShards(Config)[a].start
    BY <1>3, <1>5, <2>1, EndsGrow
  <2>3. b < Len(Config)
    BY <1>3, <1>5, ShardFacts
  <2>4. Shards[b].end <= Shards[a].start
    BY <1>3, <2>2, <2>3, ShardFacts
  <2>5. Shards[b].end = EndOf(Config, b) /\ EndOf(Config, b) # NoEnd
    BY <1>3, <2>3, KVAssumption, ShardsOfConfig, ShardFacts DEF ValidBoundaries, Shards
  <2>6. QED  BY <1>1, <1>4, <2>4, <2>5
<1>6. Len(Config) \in Nat
  BY KVAssumption
<1>7. a <= b
  BY <1>3, <1>5, <1>6
<1>8. QED  BY <1>2, <1>7

\* One page of the members of S, up to limit: the first ones.
LEMMA PageFacts ==
  ASSUME NEW S \in SUBSET Keys, NEW limit \in Int, NEW r,
         r = RangeResponse(Ascending(S, MaxKey), limit)
  PROVE  /\ r \in RangeResponses /\ KeysOf(r) \subseteq S
         /\ r.more => limit > 0 /\ r.count >= limit
         /\ r.count = 0 => r.kvs = <<>>
         /\ ~r.more => S \subseteq KeysOf(r)
         /\ \A j \in S, k \in KeysOf(r) : j < k => j \in KeysOf(r)
<1>1. MaxKey \in Nat /\ S \in SUBSET (1..MaxKey) /\ S \subseteq Nat
  BY KVAssumption DEF Keys
<1>2. PICK q : q = Ascending(S, MaxKey)
  OBVIOUS
<1>3. Lists(q, S, MaxKey)
  BY <1>1, <1>2, AscendingLists, Zenon
<1>4. q \in Seq(S) /\ Len(q) \in Nat /\ \A i \in 1..Len(q) : q[i] \in S
  BY <1>3 DEF Lists
<1>5. q \in Seq(Keys)
  BY <1>4
<1>6. \A k \in S : \E i \in 1..Len(q) : q[i] = k
  BY <1>1, <1>3 DEF Lists
<1>7. r = [kvs   |-> IF limit > 0 /\ Len(q) > limit THEN SubSeq(q, 1, limit) ELSE q,
           count |-> Len(q), more |-> limit > 0 /\ Len(q) > limit]
  BY <1>2, Zenon DEF RangeResponse
<1>8. CASE limit > 0 /\ Len(q) > limit
  <2>1. r = [kvs |-> SubSeq(q, 1, limit), count |-> Len(q), more |-> TRUE]
    BY <1>7, <1>8
  <2>2. PICK v : v = SubSeq(q, 1, limit)
    OBVIOUS
  <2>3. v \in Seq(Keys) /\ Len(v) = limit /\ \A i \in 1..limit : v[i] = q[i]
    BY <1>4, <1>5, <1>8, <2>2
  <2>4. r.kvs = v /\ r.count = Len(q) /\ r.more = TRUE /\ r \in RangeResponses
    BY <1>4, <2>1, <2>2, <2>3 DEF RangeResponses
  <2>5. \A i \in 1..limit : i \in 1..Len(q)
    BY <1>4, <1>8
  <2>6. KeysOf(r) = {q[i] : i \in 1..limit}
    <3>1. KeysOf(r) = {v[i] : i \in 1..limit}
      BY <2>3, <2>4 DEF KeysOf, KeysIn
    <3>2. QED  BY <2>3, <3>1
  <2>7. ASSUME NEW j \in S, NEW k \in KeysOf(r), j < k PROVE j \in KeysOf(r)
    <3>1. PICK b \in 1..limit : k = q[b]
      BY <2>6, <2>7, Zenon
    <3>2. PICK a \in 1..Len(q) : q[a] = j
      BY <1>6, <2>7, Zenon
    <3>3. b < a => q[b] < q[a]
      BY <1>3, <2>5, <3>1, <3>2, Zenon DEF Lists
    <3>4. j \in Nat /\ k \in Nat
      BY <1>1, <1>4, <2>5, <2>7, <3>1, Zenon
    <3>5. ~(b < a)
      BY <2>7, <3>1, <3>2, <3>3, <3>4
    <3>6. a \in 1..limit
      BY <1>4, <1>8, <3>1, <3>2, <3>5
    <3>7. QED  BY <2>6, <3>2, <3>6, Zenon
  <2>8. r.count # 0 /\ limit > 0 /\ r.count >= limit
    BY <1>4, <1>8, <2>4
  <2>9. KeysOf(r) \subseteq S
    BY <1>4, <2>5, <2>6, Zenon
  <2>10. QED  BY <2>4, <2>7, <2>8, <2>9, Zenon
<1>9. CASE ~(limit > 0 /\ Len(q) > limit)
  <2>1. r = [kvs |-> q, count |-> Len(q), more |-> FALSE]
    BY <1>7, <1>9
  <2>2. r.kvs = q /\ r.count = Len(q) /\ r.more = FALSE /\ r \in RangeResponses
    BY <1>4, <1>5, <2>1 DEF RangeResponses
  <2>3. KeysOf(r) = S
    <3>1. KeysOf(r) = {q[i] : i \in 1..Len(q)}
      BY <2>2, Zenon DEF KeysOf, KeysIn
    <3>2. QED  BY <1>4, <1>6, <3>1
  <2>4. Len(q) = 0 => q = <<>>
    BY <1>5
  <2>5. QED  BY <2>2, <2>3, <2>4, Zenon
<1>10. QED  BY <1>8, <1>9, Zenon

\* The response of shard s, which holds the keys A of its own and no keys outside E.
LEMMA ShardGathers ==
  ASSUME NEW q \in Requests, q.op = "range", NEW s, NEW keys \in SUBSET Keys,
         \A k \in keys : Home(k) = s, NEW A, NEW E, keys \subseteq E,
         \A k \in A : Home(k) = s => k \in keys
  PROVE  Gathered(Respond(keys, q), q, A, E, {s})
<1>1. PICK S : S = {k \in keys : InReq(q, k)}
  OBVIOUS
<1>2. PICK r : r = RangeResponse(Ascending(S, MaxKey), q.limit)
  OBVIOUS
<1>3. Respond(keys, q) = r
  BY <1>1, <1>2, Zenon DEF Respond
<1>4. S \in SUBSET Keys /\ q.limit \in Int
  BY <1>1, KVAssumption, Zenon
<1>5. /\ r \in RangeResponses /\ KeysOf(r) \subseteq S
      /\ r.more => q.limit > 0 /\ r.count >= q.limit
      /\ r.count = 0 => r.kvs = <<>>
      /\ ~r.more => S \subseteq KeysOf(r)
      /\ \A j \in S, k \in KeysOf(r) : j < k => j \in KeysOf(r)
  BY <1>2, <1>4, PageFacts
<1>6. \A k \in KeysOf(r) : k \in E /\ InReq(q, k) /\ Home(k) \in {s}
  BY <1>1, <1>5, Zenon
<1>7. \A j \in A : InReq(q, j) /\ Home(j) \in {s} => j \in S
  BY <1>1, Zenon
<1>8. Gathered(r, q, A, E, {s})
  BY <1>5, <1>6, <1>7, Zenon DEF Gathered
<1>9. QED  BY <1>3, <1>8, Zenon

\* The keys that an append lists.
LEMMA CatKeys ==
  ASSUME NEW a \in Seq(Keys), NEW b \in Seq(Keys), NEW c, c = a \o b
  PROVE  c \in Seq(Keys) /\ KeysIn(c) = KeysIn(a) \cup KeysIn(b)
<1>1. /\ c \in Seq(Keys) /\ Len(c) = Len(a) + Len(b) /\ Len(a) \in Nat /\ Len(b) \in Nat
      /\ \A i \in 1..Len(c) : c[i] = IF i <= Len(a) THEN a[i] ELSE b[i - Len(a)]
  OBVIOUS
<1>2. ASSUME NEW i \in 1..Len(c)
      PROVE  c[i] \in KeysIn(a) \cup KeysIn(b)
  <2>1. CASE i <= Len(a)
    <3>1. i \in 1..Len(a)
      BY <1>1, <2>1
    <3>2. QED  BY <1>1, <2>1, <3>1, Zenon DEF KeysIn
  <2>2. CASE ~(i <= Len(a))
    <3>1. i - Len(a) \in 1..Len(b)
      BY <1>1, <2>2
    <3>2. QED  BY <1>1, <2>2, <3>1, Zenon DEF KeysIn
  <2>3. QED  BY <2>1, <2>2
<1>3. ASSUME NEW j \in 1..Len(a) PROVE a[j] \in KeysIn(c)
  <2>1. j \in 1..Len(c) /\ j <= Len(a)
    BY <1>1
  <2>2. QED  BY <1>1, <2>1, Zenon DEF KeysIn
<1>4. ASSUME NEW j \in 1..Len(b) PROVE b[j] \in KeysIn(c)
  <2>1. PICK i : i = j + Len(a)
    OBVIOUS
  <2>2. i \in 1..Len(c) /\ ~(i <= Len(a)) /\ i - Len(a) = j
    BY <1>1, <2>1
  <2>3. QED  BY <1>1, <2>2, Zenon DEF KeysIn
<1>5. ASSUME NEW k \in KeysIn(c) PROVE k \in KeysIn(a) \cup KeysIn(b)
  <2>1. PICK i \in 1..Len(c) : k = c[i]
    BY <1>5, Zenon DEF KeysIn
  <2>2. QED  BY <1>2, <2>1, Zenon
<1>6. ASSUME NEW k \in KeysIn(a) PROVE k \in KeysIn(c)
  <2>1. PICK j \in 1..Len(a) : k = a[j]
    BY <1>6, Zenon DEF KeysIn
  <2>2. QED  BY <1>3, <2>1, Zenon
<1>7. ASSUME NEW k \in KeysIn(b) PROVE k \in KeysIn(c)
  <2>1. PICK j \in 1..Len(b) : k = b[j]
    BY <1>7, Zenon DEF KeysIn
  <2>2. QED  BY <1>4, <2>1, Zenon
<1>8. QED  BY <1>1, <1>5, <1>6, <1>7, Zenon

\* The keys in ret.Kvs after the append, repeated or not.
LEMMA AppendedKeys ==
  ASSUME NEW v \in Seq(Keys), NEW w \in Seq(Keys), NEW u, u = Appended(v, w)
  PROVE  u \in Seq(Keys) /\ KeysIn(u) = KeysIn(v) \cup KeysIn(w)
<1>1. CASE v = <<>>
  <2>1. u = w \o w
    BY <1>1, Zenon DEF Appended
  <2>2. KeysIn(v) = {}
    BY <1>1 DEF KeysIn
  <2>3. u \in Seq(Keys) /\ KeysIn(u) = KeysIn(w) \cup KeysIn(w)
    BY <2>1, CatKeys
  <2>4. QED  BY <2>2, <2>3, Zenon
<1>2. CASE v # <<>>
  <2>1. u = v \o w
    BY <1>2, Zenon DEF Appended
  <2>2. QED  BY <2>1, CatKeys
<1>3. QED  BY <1>1, <1>2, Zenon

\* FilterRange has reached the limit before it comes to the shard s.
LEMMA BreakGathers ==
  ASSUME NEW q, NEW A \in SUBSET Keys, NEW E, NEW D \in SUBSET ShardIDs,
         NEW s \in ShardIDs, \A d \in D : d < s,
         NEW r, Gathered(r, q, A, E, D), LimitReached(q.limit, r)
  PROVE  Gathered([r EXCEPT !.more = TRUE], q, A, E, D \cup {s})
<1>1. r \in RangeResponses
  BY Zenon DEF Gathered
<1>2. PICK n : n = [r EXCEPT !.more = TRUE]
  OBVIOUS
<1>3. n \in RangeResponses /\ n.kvs = r.kvs /\ n.count = r.count /\ n.more = TRUE
  BY <1>1, <1>2 DEF RangeResponses
<1>4. KeysOf(n) = KeysOf(r) /\ KeysOf(r) \subseteq Keys
  BY <1>1, <1>3, RecordFacts DEF KeysOf, KeysIn
<1>5. ASSUME NEW j \in A, InReq(q, j), Home(j) \in D \cup {s}, NEW k \in KeysOf(r), j < k
      PROVE  j \in KeysOf(r)
  <2>1. Home(k) \in D /\ k \in Keys /\ j \in Keys
    BY <1>4, Zenon DEF Gathered
  <2>2. PICK a, b : a = Home(j) /\ b = Home(k)
    OBVIOUS
  <2>3. a <= b /\ b < s /\ a \in ShardIDs /\ b \in ShardIDs
    BY <1>5, <2>1, <2>2, HomesAscend, HomeOfKey
  <2>4. Home(j) # s
    BY <2>2, <2>3 DEF ShardIDs
  <2>5. QED  BY <1>5, <2>4, Zenon DEF Gathered
<1>6. q.limit > 0 /\ n.count >= q.limit
  BY <1>3, Zenon DEF LimitReached
<1>7. \A k \in KeysOf(n) : k \in E /\ InReq(q, k) /\ Home(k) \in D \cup {s}
  BY <1>4, Zenon DEF Gathered
<1>8. n.count = 0 => n.kvs = <<>>
  BY <1>3, Zenon DEF Gathered
<1>9. Gathered(n, q, A, E, D \cup {s})
  BY <1>3, <1>4, <1>5, <1>6, <1>7, <1>8, Zenon DEF Gathered
<1>10. QED  BY <1>2, <1>9, Zenon

\* FilterRange adds the response x of the next shard s to those of the shards D.
LEMMA AddGathers ==
  ASSUME NEW q, q.limit \in Int, NEW A \in SUBSET Keys, NEW E, NEW D \in SUBSET ShardIDs,
         NEW s \in ShardIDs, \A d \in D : d < s,
         NEW r, Gathered(r, q, A, E, D), ~LimitReached(q.limit, r),
         NEW x, Gathered(x, q, A, E, {s}),
         NEW n, n = [kvs   |-> IF x.count > 0 THEN Appended(r.kvs, x.kvs) ELSE r.kvs,
                     count |-> r.count + x.count,
                     more  |-> r.more \/ x.more]
  PROVE  Gathered(n, q, A, E, D \cup {s})
<1>1. r \in RangeResponses /\ x \in RangeResponses
  BY Zenon DEF Gathered
<1>2. /\ r.kvs \in Seq(Keys) /\ r.count \in Nat /\ r.more \in BOOLEAN
      /\ x.kvs \in Seq(Keys) /\ x.count \in Nat /\ x.more \in BOOLEAN
  BY <1>1, RecordFacts, Zenon
<1>3. r.more = FALSE
  BY <1>2, Zenon DEF Gathered, LimitReached
<1>4. /\ n.kvs = IF x.count > 0 THEN Appended(r.kvs, x.kvs) ELSE r.kvs
      /\ n.count = r.count + x.count /\ n.more = x.more
  BY <1>2, <1>3
<1>5. n.kvs \in Seq(Keys) /\ KeysOf(n) = KeysOf(r) \cup KeysOf(x)
  <2>1. CASE x.count > 0
    <3>1. n.kvs = Appended(r.kvs, x.kvs)
      BY <1>4, <2>1, Zenon
    <3>2. n.kvs \in Seq(Keys) /\ KeysIn(n.kvs) = KeysIn(r.kvs) \cup KeysIn(x.kvs)
      BY <1>2, <3>1, AppendedKeys
    <3>3. QED  BY <3>2, Zenon DEF KeysOf
  <2>2. CASE ~(x.count > 0)
    <3>1. x.count = 0
      BY <1>2, <2>2
    <3>2. x.kvs = <<>> /\ n.kvs = r.kvs
      BY <1>4, <2>2, <3>1, Zenon DEF Gathered
    <3>3. KeysOf(x) = {}
      <4>1. KeysIn(<<>>) = {}
        BY DEF KeysIn
      <4>2. QED  BY <3>2, <4>1, Zenon DEF KeysOf
    <3>4. KeysOf(n) = KeysOf(r)
      BY <3>2, Zenon DEF KeysOf
    <3>5. QED  BY <1>2, <3>2, <3>3, <3>4, Zenon
  <2>3. QED  BY <2>1, <2>2, Zenon
<1>6. n.count \in Nat
  BY <1>2, <1>4
<1>7. n \in RangeResponses
  <2>1. n = [kvs |-> n.kvs, count |-> n.count, more |-> n.more]
    BY <1>2, <1>3
  <2>2. n.kvs \in Seq(Keys) /\ n.count \in Nat /\ n.more \in BOOLEAN
    BY <1>2, <1>4, <1>5, <1>6, Zenon
  <2>3. [kvs |-> n.kvs, count |-> n.count, more |-> n.more] \in RangeResponses
    BY <2>2, Zenon DEF RangeResponses
  <2>4. QED  BY <2>1, <2>3, Zenon
<1>8. \A k \in KeysOf(n) : k \in E /\ InReq(q, k) /\ Home(k) \in D \cup {s}
  BY <1>5, Zenon DEF Gathered
<1>9. n.more => q.limit > 0 /\ n.count >= q.limit
  <2>1. x.more => q.limit > 0 /\ x.count >= q.limit
    BY Zenon DEF Gathered
  <2>2. QED  BY <1>2, <1>4, <2>1
<1>10. n.count = 0 => n.kvs = <<>>
  <2>1. n.count = 0 => r.count = 0 /\ ~(x.count > 0)
    BY <1>2, <1>4
  <2>2. QED  BY <1>4, <2>1, Zenon DEF Gathered
<1>11. ASSUME NEW j \in A, InReq(q, j), Home(j) \in D \cup {s}
       PROVE  /\ ~n.more => j \in KeysOf(n)
              /\ \A k \in KeysOf(n) : j < k => j \in KeysOf(n)
  <2>1. CASE Home(j) \in D
    BY <1>3, <1>5, <1>11, <2>1, Zenon DEF Gathered
  <2>2. CASE Home(j) = s
    <3>1. ~x.more => j \in KeysOf(x)
      BY <1>11, <2>2, Zenon DEF Gathered
    <3>2. ASSUME NEW k \in KeysOf(x), j < k PROVE j \in KeysOf(x)
      BY <1>11, <2>2, <3>2, Zenon DEF Gathered
    <3>3. ASSUME NEW k \in KeysOf(r), j < k PROVE FALSE
      <4>1. Home(k) \in D /\ k \in Keys /\ j \in Keys
        <5>1. KeysOf(r) \subseteq Keys
          BY <1>2 DEF KeysOf, KeysIn
        <5>2. QED  BY <5>1, <3>3, Zenon DEF Gathered
      <4>2. PICK b : b = Home(k)
        OBVIOUS
      <4>3. s <= b /\ b < s /\ b \in ShardIDs
        BY <2>2, <3>3, <4>1, <4>2, HomesAscend, HomeOfKey
      <4>4. QED  BY <4>3 DEF ShardIDs
    <3>4. QED  BY <1>4, <1>5, <3>1, <3>2, <3>3, Zenon
  <2>3. QED  BY <1>11, <2>1, <2>2, Zenon
<1>12. QED  BY <1>7, <1>8, <1>9, <1>10, <1>11, Zenon DEF Gathered

\* The loop of FilterRange, up to response n.
MergedTo(limit, resps, n, f) ==
  f = [i \in 1..n |-> IF i = 1 THEN resps[1] ELSE MergeRange(limit, f[i - 1], resps[i])]

\* It comes to a result.
LEMMA MergedExists ==
  ASSUME NEW limit, NEW resps, NEW n \in Nat
  PROVE  \E f : MergedTo(limit, resps, n, f)
<1> DEFINE B == {m \in 0..n : ~\E f : MergedTo(limit, resps, m, f)}
<1>1. SUFFICES ASSUME B # {} PROVE FALSE
  <2>1. n \in 0..n
    OBVIOUS
  <2>2. QED  BY <1>1, <2>1, Zenon
<1>2. B \in SUBSET Nat
  OBVIOUS
<1>3. PICK m \in B : \A i \in B : m <= i
  BY <1>1, <1>2, LeastElement
<1>4. MergedTo(limit, resps, 0, [i \in 1..0 |-> 0])
  BY DEF MergedTo
<1>5. m # 0
  BY <1>3, <1>4, Zenon
<1>6. m - 1 \in 0..n /\ ~(m <= m - 1) /\ m \in Nat \ {0}
  BY <1>2, <1>3, <1>5
<1>7. PICK f : MergedTo(limit, resps, m - 1, f)
  BY <1>3, <1>6, Zenon
<1> DEFINE g == [i \in 1..m |-> IF i # m THEN f[i]
                                ELSE IF m = 1 THEN resps[1]
                                ELSE MergeRange(limit, f[m - 1], resps[m])]
<1>8. ASSUME NEW i \in 1..m
      PROVE  g[i] = IF i = 1 THEN resps[1] ELSE MergeRange(limit, g[i - 1], resps[i])
  <2>1. i # 1 => i - 1 \in 1..m /\ i - 1 # m
    BY <1>6
  <2>2. i # 1 => g[i - 1] = f[i - 1]
    BY <2>1, Zenon
  <2>3. CASE i = m
    BY <2>2, <2>3, Zenon
  <2>4. CASE i # m
    <3>1. i \in 1..(m - 1)
      BY <1>6, <2>4
    <3>2. f[i] = IF i = 1 THEN resps[1] ELSE MergeRange(limit, f[i - 1], resps[i])
      BY <1>7, <3>1, Zenon DEF MergedTo
    <3>3. g[i] = f[i]
      BY <2>4, Zenon
    <3>4. QED  BY <2>2, <3>2, <3>3, Zenon
  <2>5. QED  BY <2>3, <2>4
<1>9. MergedTo(limit, resps, m, g)
  BY <1>8, Zenon DEF MergedTo
<1>10. QED  BY <1>3, <1>9, Zenon

\* One iteration: of no use, or what the shards so far have gathered.
LEMMA MergeGathers ==
  ASSUME NEW q, q.limit \in Int, NEW A \in SUBSET Keys, NEW E, NEW D \in SUBSET ShardIDs,
         NEW s \in ShardIDs, \A d \in D : d < s,
         NEW r, r \in {Nil, Panic} \/ Gathered(r, q, A, E, D),
         NEW x, x = Nil \/ Gathered(x, q, A, E, {s}),
         NEW n, n = MergeRange(q.limit, r, x)
  PROVE  n \in {Nil, Panic} \/ Gathered(n, q, A, E, D \cup {s})
<1>1. CASE r \in {Nil, Panic}
  BY <1>1, Zenon DEF MergeRange, NilResponse
<1>2. CASE r \notin {Nil, Panic} /\ LimitReached(q.limit, r)
  <2>1. n = [r EXCEPT !.more = TRUE]
    BY <1>2, Zenon DEF MergeRange
  <2>2. QED  BY <1>2, <2>1, BreakGathers
<1>3. CASE r \notin {Nil, Panic} /\ ~LimitReached(q.limit, r) /\ x = Nil
  BY <1>3, Zenon DEF MergeRange, NilResponse
<1>4. CASE r \notin {Nil, Panic} /\ ~LimitReached(q.limit, r) /\ x # Nil
  <2>1. n = [kvs   |-> IF x.count > 0 THEN Appended(r.kvs, x.kvs) ELSE r.kvs,
             count |-> r.count + x.count,
             more  |-> r.more \/ x.more]
    BY <1>4, Zenon DEF MergeRange
  <2>2. Gathered(r, q, A, E, D) /\ Gathered(x, q, A, E, {s}) /\ ~LimitReached(q.limit, r)
    BY <1>4, Zenon
  <2>3. QED  BY <2>1, <2>2, AddGathers
<1>5. QED  BY <1>1, <1>2, <1>3, <1>4, Zenon

\* resps are what the shards ids, in ascending order, have answered to q.
Collected(resps, ids, n, q, A, E) ==
  /\ Len(resps) = n /\ n \in Nat \ {0}
  /\ \A i \in 1..n : ids[i] \in ShardIDs
  /\ \A i \in 1..n : resps[i] = Nil \/ Gathered(resps[i], q, A, E, {ids[i]})
  /\ \A a, b \in 1..n : a < b => ids[a] < ids[b]

\* FilterRange gives the keys of all of them, or finds that a response is missing.
LEMMA FilterGathers ==
  ASSUME NEW q, q.limit \in Int, NEW A \in SUBSET Keys, NEW E, NEW n, NEW ids, NEW resps,
         Collected(resps, ids, n, q, A, E),
         NEW T, T = {ids[i] : i \in 1..n}, NEW y, y = FilterRange(q.limit, resps)
  PROVE  y \in {Nil, Panic} \/ Gathered(y, q, A, E, T)
<1>0. /\ n \in Nat \ {0} /\ Len(resps) = n
      /\ \A i \in 1..n : ids[i] \in ShardIDs
      /\ \A i \in 1..n : resps[i] = Nil \/ Gathered(resps[i], q, A, E, {ids[i]})
      /\ \A a, b \in 1..n : a < b => ids[a] < ids[b]
  BY Zenon DEF Collected
<1>a. n \in Nat /\ 1 \in 1..n /\ n \in 1..n
  <2>1. n \in Nat \ {0}
    BY <1>0, Zenon
  <2>2. QED  BY <2>1
<1>1. PICK f : f = CHOOSE g : MergedTo(q.limit, resps, n, g)
  OBVIOUS
<1>2. MergedTo(q.limit, resps, n, f)
  BY <1>0, <1>1, MergedExists, Zenon
<1>3. y = f[n]
  BY <1>0, <1>1, Zenon DEF FilterRange, MergedTo
<1>4. \A i \in 1..n : f[i] = IF i = 1 THEN resps[1]
                             ELSE MergeRange(q.limit, f[i - 1], resps[i])
  BY <1>2, Zenon DEF MergedTo
<1> DEFINE D(m) == {ids[i] : i \in 1..m}
           Good(m) == f[m] \in {Nil, Panic} \/ Gathered(f[m], q, A, E, D(m))
           B == {m \in 1..n : ~Good(m)}
<1>5. SUFFICES ASSUME B # {} PROVE FALSE
  <2>1. Good(n)
    BY <1>5, <1>a, Zenon
  <2>2. QED  BY <1>3, <2>1, Zenon
<1>6. B \in SUBSET Nat
  <2>1. 1..n \in SUBSET Nat
    BY <1>a
  <2>2. QED  BY <2>1, Zenon
<1>7. PICK m \in B : \A i \in B : m <= i
  BY <1>5, <1>6, LeastElement
<1>8. m \in 1..n
  BY <1>7, Zenon
<1>9. m # 1
  <2>1. D(1) = {ids[1]}
    OBVIOUS
  <2>2. f[1] = resps[1]
    BY <1>4, <1>a, Zenon
  <2>3. Good(1)
    BY <1>0, <1>a, <2>1, <2>2, Zenon
  <2>4. QED  BY <1>7, <2>3, Zenon
<1>10. m - 1 \in 1..n /\ ~(m <= m - 1)
  BY <1>a, <1>8, <1>9
<1>11. Good(m - 1)
  BY <1>7, <1>10, Zenon
<1>12. f[m] = MergeRange(q.limit, f[m - 1], resps[m])
  BY <1>4, <1>8, <1>9, Zenon
<1>13. D(m) = D(m - 1) \cup {ids[m]}
  <2>1. \A i \in 1..m : i \in 1..(m - 1) \/ i = m
    BY <1>a, <1>8
  <2>2. \A i \in 1..(m - 1) : i \in 1..m
    BY <1>a, <1>8
  <2>3. m \in 1..m
    BY <1>a, <1>8
  <2>4. QED  BY <2>1, <2>2, <2>3, Zenon
<1>14. D(m - 1) \in SUBSET ShardIDs /\ \A d \in D(m - 1) : d < ids[m]
  <2>1. \A i \in 1..(m - 1) : i \in 1..n /\ i < m
    BY <1>a, <1>8
  <2>2. QED  BY <1>0, <1>8, <2>1, Zenon
<1>15. PICK r, x, s, C : r = f[m - 1] /\ x = resps[m] /\ s = ids[m] /\ C = D(m - 1)
  OBVIOUS
<1>16. /\ C \in SUBSET ShardIDs /\ s \in ShardIDs /\ \A d \in C : d < s
       /\ r \in {Nil, Panic} \/ Gathered(r, q, A, E, C)
       /\ x = Nil \/ Gathered(x, q, A, E, {s})
       /\ f[m] = MergeRange(q.limit, r, x)
  BY <1>0, <1>8, <1>11, <1>12, <1>14, <1>15, Zenon
<1>17. f[m] \in {Nil, Panic} \/ Gathered(f[m], q, A, E, C \cup {s})
  <2>1. PICK z : z = f[m]
    OBVIOUS
  <2>2. z = MergeRange(q.limit, r, x)
    BY <1>16, <2>1, Zenon
  <2>3. z \in {Nil, Panic} \/ Gathered(z, q, A, E, C \cup {s})
    BY <1>16, <2>2, MergeGathers
  <2>4. QED  BY <2>1, <2>3, Zenon
<1>18. Good(m)
  BY <1>13, <1>15, <1>17, Zenon
<1>19. QED  BY <1>7, <1>18, Zenon

-----------------------------------------------------------------------------
(***************************************************************************)
(* The answers of Txn and Range.                                           *)
(***************************************************************************)
\* The keys that a transaction compares belong to the shard it is sent to.
ComparesAtHome(q) ==
  \A c \in q.cmps : /\ c.key \in Keys /\ c.exists \in BOOLEAN
                    /\ Home(c.key) = GetShardID(q)

\* What ComparesSeeTheStore says of the answer a to a request q, for the keys A
\* that were there all the time, and E at some time.
Truthful(q, a, A, E) ==
  IF a.succeeded
  THEN \A c \in q.cmps : IF c.exists THEN c.key \in E ELSE c.key \notin A
  ELSE \E c \in q.cmps : IF c.exists THEN c.key \notin A ELSE c.key \in E

\* The answer a to q of the shards D is right.
Right(q, a, A, E, D) ==
  /\ q.op = "txn" /\ ComparesAtHome(q) => Truthful(q, a, A, E)
  /\ q.op = "range" => Gathered(a, q, A, E, D)

Answered(p) == pc[p] = "idle" /\ req[p] # Nil /\ status[p] = "ok"

RightSoFar(p) ==
  /\ pc[p] = "run" => \A s \in ShardIDs : rets[p][s] # Nil =>
                         Right(req[p], rets[p][s], always[p], ever[p], {s})
  /\ Answered(p) => Right(req[p], answer[p], always[p], ever[p], Targets(req[p]))

\* The history is what its comment says, and so far the answers are right.
AnswersInv ==
  /\ answer = [p \in Procs |-> answer[p]] /\ ever \in [Procs -> SUBSET Keys]
  /\ \A p \in Procs :
        /\ always[p] \subseteq Stored
        /\ pc[p] = "run" => Stored \subseteq ever[p]
        /\ RightSoFar(p)

\* Once right, an answer remains so: always shrinks and ever grows.
LEMMA RightStays ==
  ASSUME NEW q, NEW a, NEW A, NEW E, NEW D, NEW B, NEW F, Right(q, a, A, E, D),
         B \subseteq A, E \subseteq F
  PROVE  Right(q, a, B, F, D)
<1>1. Truthful(q, a, A, E) => Truthful(q, a, B, F)
  BY Zenon DEF Truthful
<1>2. Gathered(a, q, A, E, D) => Gathered(a, q, B, F, D)
  BY Zenon DEF Gathered
<1>3. QED  BY <1>1, <1>2, Zenon DEF Right

\* A handler that a step leaves alone.
LEMMA AnswersStay ==
  ASSUME AnswersInv, NEW p \in Procs,
         pc'[p] = pc[p], req'[p] = req[p], rets'[p] = rets[p], status'[p] = status[p],
         answer'[p] = answer[p],
         always'[p] \subseteq always[p], ever[p] \subseteq ever'[p]
  PROVE  RightSoFar(p)'
<1>1. RightSoFar(p)
  BY Zenon DEF AnswersInv
<1>2. ASSUME pc'[p] = "run", NEW s \in ShardIDs, rets'[p][s] # Nil
      PROVE  Right(req'[p], rets'[p][s], always'[p], ever'[p], {s})
  <2>1. Right(req[p], rets[p][s], always[p], ever[p], {s})
    BY <1>1, <1>2, Zenon DEF RightSoFar
  <2>2. Right(req[p], rets[p][s], always'[p], ever'[p], {s})
    BY <2>1, RightStays, Zenon
  <2>3. QED  BY <2>2, Zenon
<1>3. ASSUME Answered(p)'
      PROVE  Right(req'[p], answer'[p], always'[p], ever'[p], Targets(req'[p]))
  <2>1. Right(req[p], answer[p], always[p], ever[p], Targets(req[p]))
    BY <1>1, <1>3, Zenon DEF RightSoFar, Answered
  <2>2. Right(req[p], answer[p], always'[p], ever'[p], Targets(req[p]))
    BY <2>1, RightStays, Zenon
  <2>3. QED  BY <2>2, Zenon
<1>4. QED  BY <1>2, <1>3, Zenon DEF RightSoFar

\* The history across a change of the store.
LEMMA HistoryKept ==
  ASSUME KVInv, KVInv', AnswersInv, Track, UNCHANGED pc
  PROVE  /\ ever' \in [Procs -> SUBSET Keys]
         /\ \A p \in Procs : /\ always'[p] \subseteq always[p] /\ ever[p] \subseteq ever'[p]
                             /\ always'[p] \subseteq Stored'
                             /\ pc'[p] = "run" => Stored' \subseteq ever'[p]
<1>1. \A s \in ShardIDs : store'[s] \subseteq Keys
  BY DEF KVInv, KVTypes
<1>2. Stored' \subseteq Keys
  BY <1>1 DEF Stored
<1>3. \A p \in Procs : /\ always'[p] = always[p] \cap Stored'
                       /\ ever'[p] = ever[p] \cup Stored'
  BY DEF Track
<1>4. ever' \in [Procs -> SUBSET Keys]
  BY <1>2, Zenon DEF Track, AnswersInv
<1>5. QED  BY <1>3, <1>4

\* The shard of a transaction holds the keys it compares, if any shard does.
LEMMA RespondsTruthfully ==
  ASSUME NEW q, q.op = "txn", ComparesAtHome(q), NEW keys, NEW A, NEW E, keys \subseteq E,
         \A k \in A : Home(k) = GetShardID(q) => k \in keys
  PROVE  Truthful(q, Respond(keys, q), A, E)
<1>1. Respond(keys, q) = [succeeded |-> \A c \in q.cmps : Holds(keys, c)]
  BY Zenon DEF Respond
<1>2. ASSUME NEW c \in q.cmps
      PROVE  /\ c.exists \in BOOLEAN
             /\ c.key \in keys => c.key \in E
             /\ c.key \notin keys => c.key \notin A
  BY Zenon DEF ComparesAtHome
<1>3. CASE \A c \in q.cmps : Holds(keys, c)
  BY <1>1, <1>2, <1>3 DEF Truthful, Holds
<1>4. CASE ~ \A c \in q.cmps : Holds(keys, c)
  <2>1. PICK c \in q.cmps : ~Holds(keys, c)
    BY <1>4, Zenon
  <2>2. IF c.exists THEN c.key \notin A ELSE c.key \in E
    BY <1>2, <2>1 DEF Holds
  <2>3. ~Respond(keys, q).succeeded
    BY <1>1, <1>4
  <2>4. QED  BY <2>2, <2>3 DEF Truthful
<1>5. QED  BY <1>3, <1>4

\* A shard answers from its keys, which are those of the store that belong to it.
LEMMA RespondsRight ==
  ASSUME KVInv, AnswersInv, NEW p \in Procs, NEW s \in ShardIDs,
         pc[p] = "run", req[p] \in Requests, s \in Targets(req[p])
  PROVE  Right(req[p], Respond(store[s], req[p]), always[p], ever[p], {s})
<1>1. store[s] \in SUBSET Keys /\ \A k \in store[s] : Home(k) = s
  BY Zenon DEF KVInv, KVTypes, KeysAtHome
<1>2. store[s] \subseteq Stored
  BY DEF Stored
<1>3. store[s] \subseteq ever[p]
  BY <1>2, Zenon DEF AnswersInv
<1>4. ASSUME NEW k \in always[p], Home(k) = s PROVE k \in store[s]
  <2>1. k \in Stored
    BY <1>4, Zenon DEF AnswersInv
  <2>2. PICK t \in ShardIDs : k \in store[t]
    BY <2>1, Zenon DEF Stored
  <2>3. QED  BY <1>4, <2>2, Zenon DEF KVInv, KeysAtHome
<1>5. PICK q, keys, A, E : q = req[p] /\ keys = store[s] /\ A = always[p] /\ E = ever[p]
  OBVIOUS
<1>6. /\ q \in Requests /\ keys \in SUBSET Keys /\ \A k \in keys : Home(k) = s
      /\ keys \subseteq E /\ \A k \in A : Home(k) = s => k \in keys
      /\ s \in Targets(q)
  BY <1>1, <1>3, <1>4, <1>5, Zenon
<1>7. ASSUME q.op = "txn", ComparesAtHome(q) PROVE Truthful(q, Respond(keys, q), A, E)
  <2>1. s = GetShardID(q)
    BY <1>6, <1>7 DEF Targets
  <2>2. QED  BY <1>6, <1>7, <2>1, RespondsTruthfully
<1>8. q.op = "range" => Gathered(Respond(keys, q), q, A, E, {s})
  BY <1>6, ShardGathers
<1>9. Right(q, Respond(keys, q), A, E, {s})
  BY <1>7, <1>8, Zenon DEF Right
<1>10. QED  BY <1>5, <1>9, Zenon

\* A Range is sent to some shard.
LEMMA RangeHasTargets ==
  ASSUME NEW q \in Requests, q.op = "range"
  PROVE  Targets(q) # {} /\ Targets(q) \subseteq 1..Len(Shards) /\ Len(Shards) \in Nat
<1>1. q.key \in Keys /\ q.end \in Nat /\ q.key \in Nat
  BY KVAssumption DEF Keys
<1>2. Targets(q) = GetShardClis(Shards, q.key, q.end)
  BY DEF Targets
<1>3. PICK h : h = Home(q.key)
  OBVIOUS
<1>4. h \in 1..Len(Config) /\ ContainsRange(Shards[h], q.key, Empty)
  BY <1>1, <1>3, HomeOfKey, ShardFacts, Zenon DEF ShardIDs
<1>5. ContainsRange(Shards[h], q.key, q.end)
  BY <1>4 DEF ContainsRange, Empty, NoEnd
<1>6. GetShardClis(Shards, q.key, q.end)
        = {j \in 1..Len(Config) : ContainsRange(Shards[j], q.key, q.end)}
  BY <1>1, ConfigIsGood, GetShardClisIsComplete DEF Shards
<1>7. h \in Targets(q) /\ Targets(q) \subseteq 1..Len(Config)
  BY <1>2, <1>4, <1>5, <1>6, Zenon
<1>8. Len(Config) \in Nat /\ Len(Shards) = Len(Config)
  BY ShardFacts
<1>9. QED  BY <1>7, <1>8, Zenon

\* What the handler returns for a Range is what its shards have gathered.
LEMMA RangeFilterRight ==
  ASSUME KVInv, AnswersInv, NEW p \in Procs, pc[p] = "run", req[p] \in Requests,
         req[p].op = "range", Filter(p) \notin {Nil, Panic}
  PROVE  Gathered(Filter(p), req[p], always[p], ever[p], Targets(req[p]))
<1>1. PICK q, A, E, T, N : /\ q = req[p] /\ A = always[p] /\ E = ever[p]
                           /\ T = Targets(req[p]) /\ N = Len(Shards)
  OBVIOUS
<1>2. /\ q \in Requests /\ q.op = "range" /\ A \in SUBSET Keys
      /\ T # {} /\ T \in SUBSET (1..N) /\ N \in Nat
  BY <1>1, RangeHasTargets, Zenon DEF KVInv, KVTypes
<1>3. PICK ids : ids = Ascending(T, N)
  OBVIOUS
<1>4. Lists(ids, T, N)
  BY <1>2, <1>3, AscendingLists, Zenon
<1>5. PICK n : n = Len(ids)
  OBVIOUS
<1>6. n \in Nat /\ \A i \in 1..n : ids[i] \in T
  BY <1>4, <1>5 DEF Lists
<1>7. \A t \in T : \E i \in 1..n : ids[i] = t
  <2>1. \A t \in T : t <= N
    BY <1>2
  <2>2. QED  BY <1>4, <1>5, <2>1, Zenon DEF Lists
<1>8. \A a, b \in 1..n : a < b => ids[a] < ids[b]
  BY <1>4, <1>5, Zenon DEF Lists
<1>9. n \in Nat \ {0}
  <2>1. \E i : i \in 1..n
    BY <1>2, <1>7, Zenon
  <2>2. QED  BY <1>6, <2>1
<1>10. T = {ids[i] : i \in 1..n}
  BY <1>6, <1>7, Zenon
<1>11. PICK resps : resps = [i \in 1..n |-> rets[p][ids[i]]]
  OBVIOUS
<1>12. Filter(p) = FilterRange(q.limit, resps)
  BY <1>1, <1>2, <1>3, <1>5, <1>11, Zenon DEF Filter
<1>13. Len(resps) = n
  <2>1. resps \in [1..n -> {resps[i] : i \in 1..n}]
    BY <1>11
  <2>2. QED  BY <1>6, <2>1, LenOfFunction
<1>14. \A i \in 1..n : ids[i] \in ShardIDs
  BY <1>1, <1>2, <1>6, Zenon DEF ShardIDs
<1>15. ASSUME NEW i \in 1..n
       PROVE  resps[i] = Nil \/ Gathered(resps[i], q, A, E, {ids[i]})
  <2>1. resps[i] = rets[p][ids[i]]
    BY <1>11, Zenon
  <2>2. rets[p][ids[i]] # Nil => Right(q, rets[p][ids[i]], A, E, {ids[i]})
    BY <1>1, <1>14, Zenon DEF AnswersInv, RightSoFar
  <2>3. QED  BY <1>2, <2>1, <2>2, Zenon DEF Right
<1>16. q.limit \in Int
  BY <1>2, KVAssumption, Zenon
<1>17. A \in SUBSET Keys
  BY <1>2, Zenon
<1>18. PICK y : y = FilterRange(q.limit, resps)
  OBVIOUS
<1>19. Collected(resps, ids, n, q, A, E)
  BY <1>8, <1>9, <1>13, <1>14, <1>15, Zenon DEF Collected
<1>20. y \in {Nil, Panic} \/ Gathered(y, q, A, E, T)
  BY <1>10, <1>16, <1>17, <1>18, <1>19, FilterGathers
<1>21. QED  BY <1>1, <1>12, <1>18, <1>20, Zenon

\* The answer of a Txn is the response of the shard that it was sent to.
LEMMA FilterRight ==
  ASSUME KVInv, AnswersInv, \A q \in Requests : q.op = "txn" => KeepsToShard(q),
         NEW p \in Procs, pc[p] = "run", req[p] \in Requests, Filter(p) \notin {Nil, Panic}
  PROVE  Right(req[p], Filter(p), always[p], ever[p], Targets(req[p]))
<1>1. CASE req[p].op = "txn"
  <2>1. Targets(req[p]) = {GetShardID(req[p])} /\ GetShardID(req[p]) \in ShardIDs
    BY <1>1 DEF Targets, KeepsToShard
  <2>2. PICK s : s = CHOOSE t \in Targets(req[p]) : TRUE
    OBVIOUS
  <2>3. s \in ShardIDs
    BY <2>1, <2>2, Zenon
  <2>4. Filter(p) = rets[p][s]
    BY <1>1, <2>2 DEF Filter
  <2>5. Right(req[p], Filter(p), always[p], ever[p], {s})
    BY <2>3, <2>4, Zenon DEF AnswersInv, RightSoFar
  <2>6. req[p].op # "range"
    BY <1>1
  <2>7. QED  BY <2>5, <2>6, Zenon DEF Right
<1>2. CASE req[p].op = "range"
  <2>1. req[p].op # "txn"
    BY <1>2
  <2>2. QED  BY <1>2, <2>1, RangeFilterRight, Zenon DEF Right
<1>3. CASE req[p].op \notin {"txn", "range"}
  BY <1>3, Zenon DEF Right
<1>4. QED  BY <1>1, <1>2, <1>3, Zenon

\* A shard answers, and the store changes under the other handlers.
LEMMA CallKeepsAnswers ==
  ASSUME KVInv, KVInv', AnswersInv, NEW p \in Procs, NEW s \in ShardIDs, Call(p, s)
  PROVE  AnswersInv'
<1>1. pc[p] = "run" /\ req[p] \in Requests /\ s \in Targets(req[p])
  BY DEF Call, KVInv, KVTypes, GoroutinesKeep
<1>2. /\ ever' \in [Procs -> SUBSET Keys]
      /\ \A r \in Procs : /\ always'[r] \subseteq always[r] /\ ever[r] \subseteq ever'[r]
                          /\ always'[r] \subseteq Stored'
                          /\ pc'[r] = "run" => Stored' \subseteq ever'[r]
  BY HistoryKept, Zenon DEF Call
<1>3. /\ UNCHANGED <<pc, req, answer, status>>
      /\ \A r \in Procs \ {p} : rets'[r] = rets[r]
      /\ \A t \in ShardIDs : rets'[p][t] = IF t = s THEN Respond(store[s], req[p])
                                           ELSE rets[p][t]
  <2>1. UNCHANGED <<pc, req, answer, status>>
    BY Zenon DEF Call
  <2>2. /\ rets' = [rets EXCEPT ![p][s] = Respond(store[s], req[p])]
        /\ DOMAIN rets = Procs /\ DOMAIN rets[p] = ShardIDs
    <3>1. rets' = [rets EXCEPT ![p][s] = Respond(store[s], req[p])]
      BY Zenon DEF Call
    <3>2. rets \in [Procs -> [ShardIDs -> Answers]]
      BY Zenon DEF KVInv, KVTypes
    <3>3. QED  BY <3>1, <3>2, Zenon
  <2>3. PICK z : z = Respond(store[s], req[p])
    OBVIOUS
  <2>4. rets' = [rets EXCEPT ![p][s] = z]
    BY <2>2, <2>3, Zenon
  <2>5. /\ \A r \in Procs \ {p} : rets'[r] = rets[r]
        /\ \A t \in ShardIDs : rets'[p][t] = IF t = s THEN z ELSE rets[p][t]
    BY <2>2, <2>4
  <2>6. QED  BY <2>1, <2>3, <2>5, Zenon
<1>4. ASSUME NEW t \in ShardIDs, rets'[p][t] # Nil
      PROVE  Right(req'[p], rets'[p][t], always'[p], ever'[p], {t})
  <2>1. Right(req[p], rets'[p][t], always[p], ever[p], {t})
    <3>1. CASE t = s
      BY <1>1, <1>3, <3>1, RespondsRight, Zenon
    <3>2. CASE t # s
      <4>1. rets'[p][t] = rets[p][t]
        BY <1>3, <3>2, Zenon
      <4>2. QED  BY <1>1, <1>4, <4>1, Zenon DEF AnswersInv, RightSoFar
    <3>3. QED  BY <3>1, <3>2, Zenon
  <2>2. Right(req[p], rets'[p][t], always'[p], ever'[p], {t})
    BY <1>2, <2>1, RightStays, Zenon
  <2>3. QED  BY <1>3, <2>2, Zenon
<1>5. ~Answered(p)'
  BY <1>1, <1>3 DEF Answered
<1>6. ASSUME NEW r \in Procs PROVE RightSoFar(r)'
  <2>1. CASE r # p
    BY <1>2, <1>3, <2>1, AnswersStay, Zenon
  <2>2. CASE r = p
    BY <1>4, <1>5, <2>2, Zenon DEF RightSoFar
  <2>3. QED  BY <2>1, <2>2, Zenon
<1>7. answer' = [r \in Procs |-> answer'[r]]
  BY <1>3, Zenon DEF AnswersInv
<1>8. QED  BY <1>2, <1>6, <1>7, Zenon DEF AnswersInv

\* The handler returns what the filter gives, or the process ends.
LEMMA WaitKeepsAnswers ==
  ASSUME KVInv, AnswersInv, \A q \in Requests : q.op = "txn" => KeepsToShard(q),
         NEW p \in Procs, Wait(p)
  PROVE  AnswersInv'
<1>1. UNCHANGED <<store, req, rets, always, ever>>
  BY DEF Wait, Finish, Crash
<1>2. Stored' = Stored
  BY <1>1, Zenon DEF Stored
<1>3. CASE Crash
  <2>1. \A r \in Procs : /\ pc'[r] = "idle" /\ answer' = answer
                         /\ status'[r] = "ok" => pc[r] = "idle" /\ status[r] = "ok"
    BY <1>3, Zenon DEF Crash
  <2>2. ASSUME NEW r \in Procs PROVE RightSoFar(r)'
    <3>1. Answered(r)' => Answered(r)
      BY <1>1, <2>1, Zenon DEF Answered
    <3>2. pc'[r] # "run"
      BY <2>1
    <3>3. Answered(r) => Right(req[r], answer[r], always[r], ever[r], Targets(req[r]))
      BY Zenon DEF AnswersInv, RightSoFar
    <3>4. Answered(r)' => Right(req'[r], answer'[r], always'[r], ever'[r], Targets(req'[r]))
      BY <1>1, <2>1, <3>1, <3>3, Zenon
    <3>5. QED  BY <3>2, <3>4, Zenon DEF RightSoFar
  <2>3. \A r \in Procs : pc'[r] # "run"
    BY <2>1
  <2>4. answer' = [r \in Procs |-> answer'[r]]
    BY <1>3, Zenon DEF Crash, AnswersInv
  <2>5. QED  BY <1>1, <1>2, <2>2, <2>3, <2>4, Zenon DEF AnswersInv
<1>4. ASSUME NEW st \in {"ok", "error"}, NEW a, Finish(p, st, a),
             st = "ok" => a = Filter(p) /\ Filter(p) \notin {Nil, Panic}
      PROVE  AnswersInv'
  <2>1. pc[p] = "run" /\ req[p] \in Requests
    BY Zenon DEF Wait, KVInv, KVTypes, GoroutinesKeep
  <2>2. /\ answer' = [r \in Procs |-> IF r = p THEN a ELSE answer[r]]
        /\ status' = [r \in Procs |-> IF r = p THEN st ELSE status[r]]
        /\ pc' = [r \in Procs |-> IF r = p THEN "idle" ELSE pc[r]]
    BY <1>4, Zenon DEF Finish, AnswersInv, KVInv, KVTypes
  <2>3. ASSUME Answered(p)'
        PROVE  Right(req'[p], answer'[p], always'[p], ever'[p], Targets(req'[p]))
    <3>1. st = "ok" /\ answer'[p] = Filter(p) /\ Filter(p) \notin {Nil, Panic}
      BY <1>4, <2>2, <2>3, Zenon DEF Answered
    <3>2. Right(req[p], Filter(p), always[p], ever[p], Targets(req[p]))
      BY <2>1, <3>1, FilterRight, Zenon
    <3>3. QED  BY <1>1, <3>1, <3>2, Zenon
  <2>4. ASSUME NEW r \in Procs \ {p} PROVE RightSoFar(r)'
    BY <1>1, <2>2, AnswersStay, Zenon
  <2>5. pc'[p] = "idle"
    BY <2>2, Zenon DEF KVInv, KVTypes
  <2>6. \A r \in Procs : pc'[r] = "run" => pc[r] = "run"
    BY <2>2, Zenon
  <2>7. RightSoFar(p)'
    BY <2>3, <2>5 DEF RightSoFar
  <2>8. \A r \in Procs : RightSoFar(r)'
    BY <2>4, <2>7, Zenon
  <2>9. answer' = [r \in Procs |-> answer'[r]]
    BY <2>2, Zenon
  <2>10. QED  BY <1>1, <1>2, <2>6, <2>8, <2>9, Zenon DEF AnswersInv
<1>5. QED
  BY <1>3, <1>4, Zenon DEF Wait, Sendable

\* Steps that change neither the store nor what handlers know of it.
LEMMA QuietStepsKeepAnswers ==
  ASSUME AnswersInv, UNCHANGED <<store, pc, req, rets, answer, status, always, ever>>
  PROVE  AnswersInv'
<1>1. Stored' = Stored
  BY DEF Stored
<1>2. \A p \in Procs : RightSoFar(p)'
  BY AnswersStay, Zenon
<1>3. QED  BY <1>1, <1>2, Zenon DEF AnswersInv

\* A request begins with a history of its own.
LEMMA BeginKeepsAnswers ==
  ASSUME KVInv, AnswersInv, NEW p \in Procs, NEW q \in Requests, Begin(p, q)
  PROVE  AnswersInv'
<1>1. \A s \in ShardIDs : store[s] \subseteq Keys
  BY Zenon DEF KVInv, KVTypes
<1>2. Stored \subseteq Keys /\ Stored' = Stored
  BY <1>1, Zenon DEF Stored, Begin
<1>3. /\ pc'[p] = "run" /\ always'[p] = Stored /\ ever'[p] = Stored
      /\ \A s \in ShardIDs : rets'[p][s] = Nil
  BY Zenon DEF Begin, KVInv, KVTypes, AnswersInv
<1>4. \A r \in Procs \ {p} :
         /\ pc'[r] = pc[r] /\ req'[r] = req[r] /\ rets'[r] = rets[r]
         /\ status'[r] = status[r] /\ answer'[r] = answer[r]
         /\ always'[r] = always[r] /\ ever'[r] = ever[r]
  BY Zenon DEF Begin, KVInv, KVTypes, AnswersInv
<1>5. answer' = [r \in Procs |-> answer'[r]] /\ ever' \in [Procs -> SUBSET Keys]
  BY <1>2, Zenon DEF Begin, AnswersInv
<1>6. \A r \in Procs \ {p} : RightSoFar(r)'
  BY <1>4, AnswersStay, Zenon
<1>7. RightSoFar(p)'
  <2>1. pc'[p] # "idle"
    BY <1>3
  <2>2. QED  BY <1>3, <2>1, Zenon DEF RightSoFar, Answered
<1>8. \A r \in Procs : RightSoFar(r)'
  BY <1>6, <1>7, Zenon
<1>9. \A r \in Procs : /\ always'[r] \subseteq Stored'
                       /\ pc'[r] = "run" => Stored' \subseteq ever'[r]
  BY <1>2, <1>3, <1>4 DEF AnswersInv
<1>10. QED  BY <1>5, <1>8, <1>9, Zenon DEF AnswersInv

\* A call that failed is executed late.
LEMMA CallLateKeepsAnswers ==
  ASSUME KVInv, KVInv', AnswersInv, NEW m \in late, CallLate(m)
  PROVE  AnswersInv'
<1>1. UNCHANGED <<pc, req, rets, answer, status>>
  BY Zenon DEF CallLate
<1>2. /\ ever' \in [Procs -> SUBSET Keys]
      /\ \A r \in Procs : /\ always'[r] \subseteq always[r] /\ ever[r] \subseteq ever'[r]
                          /\ always'[r] \subseteq Stored'
                          /\ pc'[r] = "run" => Stored' \subseteq ever'[r]
  BY HistoryKept DEF CallLate
<1>3. \A r \in Procs : RightSoFar(r)'
  BY <1>1, <1>2, AnswersStay, Zenon
<1>4. answer' = [r \in Procs |-> answer'[r]]
  BY <1>1, Zenon DEF AnswersInv
<1>5. QED  BY <1>2, <1>3, <1>4, Zenon DEF AnswersInv

\* Every step.
LEMMA AnswersInvStep ==
  ASSUME \A q \in Requests : q.op = "txn" => KeepsToShard(q),
         KVInv, KVInv', AnswersInv, [Next]_vars
  PROVE  AnswersInv'
<1>1. CASE UNCHANGED vars
  BY <1>1, QuietStepsKeepAnswers DEF vars
<1>2. ASSUME NEW p \in Procs, NEW q \in Requests, Begin(p, q)
      PROVE  AnswersInv'
  BY <1>2, BeginKeepsAnswers, Zenon
<1>3. ASSUME NEW p \in Procs, NEW s \in ShardIDs, Call(p, s)
      PROVE  AnswersInv'
  BY <1>3, CallKeepsAnswers, Zenon
<1>4. ASSUME NEW p \in Procs, NEW s \in ShardIDs,
             CallFails(p, s) \/ Assign(p, s) \/ Check(p, s) \/ Wrap(p, s)
      PROVE  AnswersInv'
  BY <1>4, QuietStepsKeepAnswers DEF CallFails, Assign, Check, Wrap
<1>5. ASSUME NEW p \in Procs, Wait(p)
      PROVE  AnswersInv'
  BY <1>5, WaitKeepsAnswers, Zenon
<1>6. ASSUME NEW m \in late, CallLate(m)
      PROVE  AnswersInv'
  BY <1>6, CallLateKeepsAnswers
<1>7. QED  BY <1>1, <1>2, <1>3, <1>4, <1>5, <1>6 DEF Next

\* Nothing has been answered.
LEMMA AnswersInvInit == Init => AnswersInv
<1>1. SUFFICES ASSUME Init PROVE AnswersInv
  OBVIOUS
<1>2. \A p \in Procs : pc[p] # "run" /\ ~Answered(p) /\ always[p] = {} /\ ever[p] = {}
  BY <1>1 DEF Init, Answered
<1>3. \A p \in Procs : RightSoFar(p)
  BY <1>2, Zenon DEF RightSoFar
<1>4. answer = [p \in Procs |-> answer[p]] /\ ever \in [Procs -> SUBSET Keys]
  BY <1>1, Zenon DEF Init
<1>5. QED  BY <1>2, <1>3, <1>4, Zenon DEF AnswersInv

\* A Range's answer that its shards have gathered is complete.
LEMMA AnswersAreComplete ==
  ASSUME KVInv, AnswersInv
  PROVE  RangesAreComplete
<1>1. SUFFICES ASSUME NEW p \in Procs, Done(p, "range")
               PROVE  /\ AnswerKeys(p) \subseteq {k \in ever[p] : InReq(req[p], k)}
                      /\ ~answer[p].more =>
                            {k \in always[p] : InReq(req[p], k)} \subseteq AnswerKeys(p)
                      /\ \A k \in AnswerKeys(p), j \in always[p] :
                            j < k /\ InReq(req[p], j) => j \in AnswerKeys(p)
  BY Zenon DEF RangesAreComplete
<1>2. Gathered(answer[p], req[p], always[p], ever[p], Targets(req[p]))
  BY <1>1, Zenon DEF Done, Answered, AnswersInv, RightSoFar, Right
<1>3. AnswerKeys(p) = KeysOf(answer[p])
  BY Zenon DEF AnswerKeys, KeysOf, KeysIn
<1>4. ASSUME NEW j \in always[p], InReq(req[p], j) PROVE Home(j) \in Targets(req[p])
  <2>1. req[p] \in Requests /\ req[p].op = "range" /\ j \in Keys
    BY <1>1, <1>4, Zenon DEF Done, KVInv, KVTypes
  <2>2. req[p].key \in Keys /\ req[p].end \in Nat
    BY <2>1, KVAssumption
  <2>3. Home(j) \in GetShardClis(Shards, req[p].key, req[p].end)
    BY <1>4, <2>1, <2>2, RangeReachesHome DEF InReq
  <2>4. QED  BY <2>1, <2>3 DEF Targets
<1>5. AnswerKeys(p) \subseteq {k \in ever[p] : InReq(req[p], k)}
  BY <1>2, <1>3, Zenon DEF Gathered
<1>6. ~answer[p].more => {k \in always[p] : InReq(req[p], k)} \subseteq AnswerKeys(p)
  BY <1>2, <1>3, <1>4, Zenon DEF Gathered
<1>7. \A k \in AnswerKeys(p), j \in always[p] :
         j < k /\ InReq(req[p], j) => j \in AnswerKeys(p)
  BY <1>2, <1>3, <1>4, Zenon DEF Gathered
<1>8. QED  BY <1>5, <1>6, <1>7, Zenon

\* For every valid configuration and any number of handlers: a Range that says there
\* is no more lists every key of its range that was stored while it ran, and a page
\* of it leaves out none below a key that it lists, whatever its goroutines read from
\* the err they share and whichever of its calls failed: FilterRange, which dereferences
\* a missing response, never takes the answers of some shards for all of them.
THEOREM RangesAreAlwaysComplete ==
  ASSUME \A q \in Requests : q.op = "txn" => KeepsToShard(q)
  PROVE  Spec => []RangesAreComplete
<1>1. KVInv /\ [Next]_vars => KVInv'
  BY KVInvStep
<1>2. KVInv /\ KVInv' /\ AnswersInv /\ [Next]_vars => AnswersInv'
  BY AnswersInvStep, Zenon
<1>3. KVInv /\ AnswersInv => RangesAreComplete
  BY AnswersAreComplete, Zenon
<1>4. QED  BY KVInvInit, AnswersInvInit, <1>1, <1>2, <1>3, PTL DEF Spec

\* For every valid configuration and any number of handlers: when the keys a Txn
\* compares and changes belong to one shard, getShardID sends it there, and its
\* comparisons decide by keys that are, or are not, stored while it runs, whatever
\* other handlers, failed calls and restarts do meanwhile.
THEOREM ComparesAlwaysSeeTheStore ==
  ASSUME \A q \in Requests : q.op = "txn" => KeepsToShard(q) /\ ComparesAtHome(q)
  PROVE  Spec => []ComparesSeeTheStore
<1>1. KVInv /\ [Next]_vars => KVInv'
  BY KVInvStep
<1>2. KVInv /\ KVInv' /\ AnswersInv /\ [Next]_vars => AnswersInv'
  BY AnswersInvStep, Zenon
<1>3. KVInv /\ AnswersInv => ComparesSeeTheStore
  <2>1. SUFFICES ASSUME KVInv, AnswersInv, NEW p \in Procs, Done(p, "txn")
                 PROVE  Truthful(req[p], answer[p], always[p], ever[p])
    BY Zenon DEF ComparesSeeTheStore, Truthful
  <2>2. req[p] \in Requests /\ req[p].op = "txn" /\ Answered(p)
    BY <2>1, Zenon DEF Done, Answered, KVInv, KVTypes
  <2>3. QED  BY <2>1, <2>2, Zenon DEF AnswersInv, RightSoFar, Right
<1>4. QED  BY KVInvInit, AnswersInvInit, <1>1, <1>2, <1>3, PTL DEF Spec
=============================================================================
