------------------------------ MODULE LegacyKV ------------------------------
(***************************************************************************)
(* KV in legacy mode: pkg/server/proxy_kv.go and response_filter.go over   *)
(* the shards of Routing, each an etcd of its own.                         *)
(*                                                                         *)
(* A handler asks every shard of a range from a goroutine of its own       *)
(* (errgroup.Group without a context).  All of them assign the handler's   *)
(* variable err and read it back after that: a data race, modelled by      *)
(* their interleaving.  Only the keys of a shard are kept; a Range returns *)
(* keys, their number and whether there are more.                          *)
(*                                                                         *)
(* A nil response that is dereferenced panics and ends the process, with   *)
(* all its handlers; another one takes its place.                          *)
(***************************************************************************)
EXTENDS Routing, SequencesExt

CONSTANTS
  Procs,        \* handlers
  Config,       \* the shards of a configuration
  MaxKey,       \* keys are 1..MaxKey
  Requests,     \* requests clients may send
  MaxRequests,  \* bound on requests issued
  Nil, Panic

Keys == 1..MaxKey

ASSUME KVAssumption ==
  /\ Len(Config) \in Nat \ {0} /\ ValidBoundaries(Config)
  /\ \A i \in 1..Len(Config) : StartOf(Config, i) \in Nat /\ EndOf(Config, i) \in Nat
  /\ MaxKey \in Nat /\ Nil \notin Requests
  /\ \A q \in Requests :
        /\ q.op \in {"put", "range", "delete", "txn"}
        /\ q.op # "txn" => q.key \in Keys
        /\ q.op \in {"range", "delete"} => q.end \in Nat
        /\ q.op = "range" => q.limit \in Int

VARIABLES
  store,        \* the keys of each shard
  pc, req, issued,
  gor,          \* program counters of a handler's goroutines
  rets, err,    \* its variables: responses, and whether err is not nil
  failed,       \* the error that errgroup keeps is not nil
  answer, status,
  late,         \* calls that a shard may still execute although they failed
  always, ever  \* history: keys stored all the time, or at some time, since the
                \* handler's request began

vars == <<store, pc, req, issued, gor, rets, err, failed, answer, status, late,
          always, ever>>

Shards == LegacyShards(Config)

ShardIDs == 1..Len(Shards)

\* The shard that owns a key, and the request's keys.
Home(k) == CHOOSE s \in ShardIDs : s \in GetShardClis(Shards, k, Empty)

InReq(q, k) == InRange(k, q.key, q.end)
-----------------------------------------------------------------------------
(***************************************************************************)
(* Txn.  Its operations are puts, ranges, deletes and nested transactions  *)
(* (here one deep).                                                        *)
(***************************************************************************)
FirstOp(t) == IF t.success # <<>> THEN Head(t.success) ELSE Head(t.failure)

\* Mutant: only the operations of success are looked at.
NoOps_FailureIgnored(t) == t.success = <<>>

NoOps(t) == t.success = <<>> /\ t.failure = <<>>

\* getShardID without and with nested transactions: "empty txn, use first shard".
FlatShardID(t) == IF NoOps(t) THEN 1 ELSE Home(FirstOp(t).key)

\* Mutant: a nested transaction is sent to the first shard.
GetShardID_NestedFirst(t) ==
  IF NoOps(t) \/ FirstOp(t).op = "txn" THEN 1 ELSE Home(FirstOp(t).key)

GetShardID(t) ==
  IF NoOps(t) THEN 1
  ELSE IF FirstOp(t).op = "txn" THEN FlatShardID(FirstOp(t))
  ELSE Home(FirstOp(t).key)

\* What a shard does with the operations of a transaction (external).  A
\* comparison asks whether a key exists.
Holds(keys, c) == (c.key \in keys) = c.exists

Taken(keys, t) == IF \A c \in t.cmps : Holds(keys, c) THEN t.success ELSE t.failure

ApplyOp(keys, o) ==
  CASE o.op = "put"    -> keys \cup {o.key}
    [] o.op = "delete" -> {k \in keys : ~InRange(k, o.key, o.end)}
    [] OTHER           -> keys

ApplyFlat(keys, t) == FoldLeft(ApplyOp, keys, Taken(keys, t))

ApplyNested(keys, o) == IF o.op = "txn" THEN ApplyFlat(keys, o) ELSE ApplyOp(keys, o)

ApplyTxn(keys, t) == FoldLeft(ApplyNested, keys, Taken(keys, t))
-----------------------------------------------------------------------------
\* The shards a request is sent to, and what one of them does (external).
Targets(q) ==
  CASE q.op = "put" -> {Home(q.key)}
    [] q.op = "txn" -> {GetShardID(q)}
    [] OTHER        -> GetShardClis(Shards, q.key, q.end)

Apply(keys, q) == IF q.op = "txn" THEN ApplyTxn(keys, q) ELSE ApplyOp(keys, q)

\* The numbers of S, none of them above n, in ascending order.
Ascending(S, n) ==
  LET list[i \in 0..n] ==
        IF i = 0 THEN <<>>
        ELSE IF i \in S THEN Append(list[i - 1], i) ELSE list[i - 1]
  IN  list[n]

RangeResponse(hits, limit) ==
  LET more == limit > 0 /\ Len(hits) > limit
  IN  [kvs   |-> IF more THEN SubSeq(hits, 1, limit) ELSE hits,
       count |-> Len(hits), more |-> more]

Respond(keys, q) ==
  CASE q.op = "range"  -> RangeResponse(Ascending({k \in keys : InReq(q, k)}, MaxKey),
                                        q.limit)
    [] q.op = "delete" -> [deleted |-> Cardinality({k \in keys : InReq(q, k)})]
    [] q.op = "txn"    -> [succeeded |-> \A c \in q.cmps : Holds(keys, c)]
    [] q.op = "put"    -> [deleted |-> 0]
-----------------------------------------------------------------------------
(***************************************************************************)
(* DefaultResponseFilter.  resps are the responses, in the order of shards *)
(* for FilterRange.                                                        *)
(***************************************************************************)
\* Mutant: the limit is never looked at.
LimitReached_Never(limit, ret) == FALSE

LimitReached(limit, ret) == limit > 0 /\ ret.count >= limit

\* The append to ret.Kvs, which for an empty ret.Kvs follows an assignment of
\* the same keys.
Appended(kvs, more) == IF kvs = <<>> THEN more \o more ELSE kvs \o more

\* resps[i].Count of a nil response.
NilResponse(ret) == Panic

\* One iteration of the loop of FilterRange; a break is that every further one
\* leaves ret as it is.
MergeRange(limit, ret, resp) ==
  IF ret = Panic \/ (ret = Nil /\ limit > 0) THEN Panic
  ELSE IF ret # Nil /\ LimitReached(limit, ret) THEN [ret EXCEPT !.more = TRUE]
  ELSE IF resp = Nil THEN NilResponse(ret)
  ELSE IF ret = Nil THEN IF resp.count > 0 THEN Panic ELSE Nil
  ELSE [kvs   |-> IF resp.count > 0 THEN Appended(ret.kvs, resp.kvs) ELSE ret.kvs,
        count |-> ret.count + resp.count,
        more  |-> ret.more \/ resp.more]

FilterRange(limit, resps) ==
  LET ret[i \in 1..Len(resps)] ==
        IF i = 1 THEN resps[1] ELSE MergeRange(limit, ret[i - 1], resps[i])
  IN  ret[Len(resps)]

\* Mutant: a response that is missing counts as nothing deleted.
FilterDeleteRange_NilIsZero(resps) ==
  [deleted |-> MapThenSumSet(LAMBDA s : IF resps[s] = Nil THEN 0 ELSE resps[s].deleted,
                             DOMAIN resps)]

FilterDeleteRange(resps) ==
  IF \E s \in DOMAIN resps : resps[s] = Nil THEN Panic
  ELSE [deleted |-> MapThenSumSet(LAMBDA s : resps[s].deleted, DOMAIN resps)]

\* What the handler returns; the response of the only shard of a Put or a Txn is
\* returned as it is.
Filter(p) ==
  LET ids == Ascending(Targets(req[p]), Len(Shards))
  IN  CASE req[p].op = "range"  -> FilterRange(req[p].limit,
                                               [i \in 1..Len(ids) |-> rets[p][ids[i]]])
        [] req[p].op = "delete" -> FilterDeleteRange([s \in Targets(req[p]) |-> rets[p][s]])
        [] OTHER                -> rets[p][CHOOSE s \in Targets(req[p]) : TRUE]
-----------------------------------------------------------------------------
\* Any keys may be stored, where they belong.
Init ==
  /\ \E all \in SUBSET Keys :
        store = [s \in ShardIDs |-> {k \in all : Home(k) = s}]
  /\ pc = [p \in Procs |-> "idle"] /\ req = [p \in Procs |-> Nil] /\ issued = 0
  /\ gor = [p \in Procs |-> [s \in ShardIDs |-> "done"]]
  /\ rets = [p \in Procs |-> [s \in ShardIDs |-> Nil]]
  /\ err = [p \in Procs |-> FALSE] /\ failed = [p \in Procs |-> FALSE]
  /\ answer = [p \in Procs |-> Nil] /\ status = [p \in Procs |-> "none"]
  /\ late = {}
  /\ always = [p \in Procs |-> {}] /\ ever = [p \in Procs |-> {}]

Stored == UNION {store[s] : s \in ShardIDs}

\* Every action that changes the store keeps the history.
Track ==
  /\ always' = [p \in Procs |-> always[p] \cap Stored']
  /\ ever' = [p \in Procs |-> ever[p] \cup Stored']

\* Put, Range, DeleteRange and Txn: one goroutine per shard.  For a single shard
\* the call is made by the handler itself, which is the same with one goroutine.
Begin(p, q) ==
  /\ pc[p] = "idle" /\ issued < MaxRequests
  /\ issued' = issued + 1
  /\ pc' = [pc EXCEPT ![p] = "run"] /\ req' = [req EXCEPT ![p] = q]
  /\ gor' = [gor EXCEPT ![p] = [s \in ShardIDs |->
                                  IF s \in Targets(q) THEN "call" ELSE "done"]]
  /\ rets' = [rets EXCEPT ![p] = [s \in ShardIDs |-> Nil]]
  /\ err' = [err EXCEPT ![p] = FALSE] /\ failed' = [failed EXCEPT ![p] = FALSE]
  /\ answer' = [answer EXCEPT ![p] = Nil] /\ status' = [status EXCEPT ![p] = "none"]
  /\ always' = [always EXCEPT ![p] = Stored] /\ ever' = [ever EXCEPT ![p] = Stored]
  /\ UNCHANGED <<store, late>>

\* The shard answers; rets[index] is not read before Wait.
Call(p, s) ==
  /\ gor[p][s] = "call"
  /\ gor' = [gor EXCEPT ![p][s] = "assign"]
  /\ store' = [store EXCEPT ![s] = Apply(@, req[p])]
  /\ rets' = [rets EXCEPT ![p][s] = Respond(store[s], req[p])]
  /\ Track
  /\ UNCHANGED <<pc, req, issued, err, failed, answer, status, late>>

\* The call fails; the shard may execute it all the same, now or later.
Outstanding(p, s) ==
  IF req[p].op = "range" THEN {}
  ELSE {[req |-> req[p], shard |-> s, proc |-> p, issued |-> issued]}

CallFails(p, s) ==
  /\ gor[p][s] = "call"
  /\ gor' = [gor EXCEPT ![p][s] = "assign"]
  /\ late' \in {late, late \cup Outstanding(p, s)}
  /\ UNCHANGED <<store, pc, req, issued, rets, err, failed, answer, status,
                 always, ever>>

CallLate(m) ==
  /\ store' = [store EXCEPT ![m.shard] = Apply(@, m.req)]
  /\ late' = late \ {m}
  /\ Track
  /\ UNCHANGED <<pc, req, issued, gor, rets, err, failed, answer, status>>

\* The assignment to the shared err.
Assign(p, s) ==
  /\ gor[p][s] = "assign"
  /\ gor' = [gor EXCEPT ![p][s] = "check"]
  /\ err' = [err EXCEPT ![p] = rets[p][s] = Nil]
  /\ UNCHANGED <<store, pc, req, issued, rets, failed, answer, status, late,
                 always, ever>>

\* DeleteRange reads err to see whether there is one, and again to wrap it;
\* Range only wraps it.  errors.Wrapf(nil) is nil.
Check(p, s) ==
  /\ gor[p][s] = "check" /\ req[p].op = "delete"
  /\ gor' = [gor EXCEPT ![p][s] = IF err[p] THEN "wrap" ELSE "done"]
  /\ UNCHANGED <<store, pc, req, issued, rets, err, failed, answer, status, late,
                 always, ever>>

Wrap(p, s) ==
  /\ gor[p][s] = "wrap" \/ (gor[p][s] = "check" /\ req[p].op # "delete")
  /\ gor' = [gor EXCEPT ![p][s] = "done"]
  /\ failed' = [failed EXCEPT ![p] = @ \/ err[p]]
  /\ UNCHANGED <<store, pc, req, issued, rets, err, answer, status, late, always,
                 ever>>

Finish(p, st, a) ==
  /\ pc' = [pc EXCEPT ![p] = "idle"]
  /\ status' = [status EXCEPT ![p] = st] /\ answer' = [answer EXCEPT ![p] = a]
  /\ UNCHANGED <<store, req, issued, gor, rets, err, failed, late, always, ever>>

UnderWay == {c \in Procs \X ShardIDs : gor[c[1]][c[2]] = "call"}

\* The process ends: every handler does, and calls it made may be under way.
Crash ==
  /\ pc' = [p \in Procs |-> "idle"]
  /\ status' = [p \in Procs |-> IF pc[p] = "idle" THEN status[p] ELSE "error"]
  /\ gor' = [p \in Procs |-> [s \in ShardIDs |-> "done"]]
  /\ \E calls \in SUBSET UNION {Outstanding(c[1], c[2]) : c \in UnderWay} :
       late' = late \cup calls
  /\ UNCHANGED <<store, req, issued, rets, err, failed, answer, always, ever>>

\* Goroutines assigned an error and no error: a read of err may have found the
\* type of one and the value of the other.
Raced(p) ==
  \E s, t \in Targets(req[p]) : rets[p][s] = Nil /\ rets[p][t] # Nil

Sendable(ret) == ret # Nil

\* groupRunner.Wait, then the filter.  An error without a value panics when it
\* is turned into a status.  A nil response without error cannot
\* be marshalled: an error or a panic.
Wait(p) ==
  /\ pc[p] = "run"
  /\ \A s \in ShardIDs : gor[p][s] = "done"
  /\ \/ failed[p] /\ Finish(p, "error", Nil)
     \/ failed[p] /\ Raced(p) /\ Crash
     \/ ~failed[p] /\ Filter(p) = Panic /\ Crash
     \/ ~failed[p] /\ ~Sendable(Filter(p)) /\ (Finish(p, "error", Nil) \/ Crash)
     \/ /\ ~failed[p] /\ Filter(p) # Panic /\ Sendable(Filter(p))
        /\ Finish(p, "ok", Filter(p))

Next ==
  \/ \E p \in Procs :
       \/ \E q \in Requests : Begin(p, q)
       \/ \E s \in ShardIDs : Call(p, s) \/ CallFails(p, s) \/ Assign(p, s)
                              \/ Check(p, s) \/ Wrap(p, s)
       \/ Wait(p)
  \/ \E m \in late : CallLate(m)

Spec == Init /\ [][Next]_vars
-----------------------------------------------------------------------------
(***************************************************************************)
(* Properties.                                                             *)
(***************************************************************************)
\* Put, DeleteRange and Txn write to the shard that owns a key, so that a later
\* Range of the key looks where it is: no transaction leaves a key elsewhere, as
\* long as its operations do not span shards.
KeysAtHome == \A s \in ShardIDs : \A k \in store[s] : Home(k) = s

Done(p, op) ==
  pc[p] = "idle" /\ req[p] # Nil /\ status[p] = "ok" /\ req[p].op = op

\* A delete that DeleteRange reports as done was done by every shard of its range,
\* whatever the goroutines read from the err they share: no key of the range has
\* been there all the time.
DeletesAreComplete ==
  \A p \in Procs : Done(p, "delete") => \A k \in always[p] : ~InReq(req[p], k)

AnswerKeys(p) == {answer[p].kvs[i] : i \in 1..Len(answer[p].kvs)}

\* A Range that says there is no more has listed every key of its range that was
\* there all the time, and only keys of its range that were there at some time:
\* FilterRange never takes the answers of some shards for all of them.  A client
\* that pages with a limit, continuing after the last key it was given, misses
\* none: FilterRange stops between shards, so below a key that it lists it lists
\* every key that was there all the time.
RangesAreComplete ==
  \A p \in Procs : Done(p, "range") =>
     /\ AnswerKeys(p) \subseteq {k \in ever[p] : InReq(req[p], k)}
     /\ ~answer[p].more => {k \in always[p] : InReq(req[p], k)} \subseteq AnswerKeys(p)
     /\ \A k \in AnswerKeys(p), j \in always[p] :
           j < k /\ InReq(req[p], j) => j \in AnswerKeys(p)

\* "Range gets the keys in the range": each of them once.
AnswersListKeysOnce ==
  \A p \in Procs : Done(p, "range") =>
     \A i, j \in 1..Len(answer[p].kvs) :
        i # j => answer[p].kvs[i] # answer[p].kvs[j]

\* The comparisons of a Txn that does not span shards decide by keys that are, or
\* are not, stored: getShardID sends it where they are.
ComparesSeeTheStore ==
  \A p \in Procs : Done(p, "txn") =>
     LET MayHold(c) == IF c.exists THEN c.key \in ever[p] ELSE c.key \notin always[p]
         MayFail(c) == IF c.exists THEN c.key \notin always[p] ELSE c.key \in ever[p]
     IN  IF answer[p].succeeded THEN \A c \in req[p].cmps : MayHold(c)
         ELSE \E c \in req[p].cmps : MayFail(c)
=============================================================================
