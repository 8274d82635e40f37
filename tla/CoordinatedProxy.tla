-------------------------- MODULE CoordinatedProxy --------------------------
(***************************************************************************)
(* Coordinated mode (pkg/server/coordinated_proxy.go): KV requests against *)
(* one keyspace whose MVCC metadata lives in a coordinator etcd and whose  *)
(* values live as immutable blobs in data shards.                          *)
(*                                                                         *)
(* A process is one gRPC handler.  Handlers keep no state between requests *)
(* and share none, so those of one proxy and those of several replicas     *)
(* (which Startup shows to route alike) interleave in the same way, and a  *)
(* replica that crashes is all its handlers giving up.  A handler          *)
(*   - validates the request, and refuses it before anything is written,   *)
(*   - stages: writes one blob per put, each a call to a data shard,       *)
(*   - sends the request, keys prefixed and values replaced by references, *)
(*     to the coordinator, which executes it atomically,                   *)
(*   - decodes the answer: reads one blob per KeyValue, each a call to a   *)
(*     data shard.                                                         *)
(* Any call may fail or its answer be lost, and the handler then returns   *)
(* the error; a request already sent to the coordinator may still be       *)
(* executed afterwards.                                                    *)
(***************************************************************************)
EXTENDS Etcd

CONSTANTS
  Procs,        \* handlers
  Requests,     \* requests clients may send
  MaxKey,       \* user keys are 1..MaxKey
  Routes,       \* the CoordinatedShards of Startup, agreed by all replicas
  Tokens,       \* what rand.Read may return
  Values,       \* user values
  EmptyValue,   \* the value of length 0
  Fingerprint,  \* value of coordinatedConfigKey
  Leases,       \* lease IDs clients may ask for
  CompactRevs,  \* revisions clients may compact to
  MaxOps,       \* operations of a request
  MaxRequests,  \* bound on requests issued
  MaxLost       \* bound on blobs that data shards lose

VARIABLES
  hist, compacted, leases,  \* coordinator
  blobs,      \* what was ever written to each data shard
  lost,       \* references whose blob a data shard no longer has
  pc, req, id, issued,
  staged,     \* references the handler has put in place of values
  reply,      \* KeyValues of the coordinator's answer still to be decoded
  out,        \* those already decoded
  succeeded, status,
  late        \* requests sent whose handler returned an error

coordinator == <<hist, compacted, leases>>
shards == <<blobs, lost>>
vars == <<hist, compacted, leases, blobs, lost, pc, req, id, issued, staged,
          reply, out, succeeded, status, late>>

Shards == 1..Len(Routes)
Refs == [shard : Shards, token : Tokens]

\* Operations and comparisons of the protobuf API; fields a kind of operation
\* does not have are left at their default.
OpType ==
  [op : {"range", "put", "delete", "txn"}, key : 0..MaxKey, end : 0..MaxKey,
   val : Values, lease : Nat, ignoreValue : BOOLEAN, ignoreLease : BOOLEAN,
   prevKv : BOOLEAN, keysOnly : BOOLEAN, sortByValue : BOOLEAN,
   rev : Nat, limit : Nat]

CompareType ==
  [target : {"version", "create", "mod", "lease", "value"}, key : 0..MaxKey,
   end : 0..MaxKey, result : {"=", "#", "<", ">"}, operand : Nat]

ASSUME BoundsAssumption ==
  /\ MaxKey \in Nat \ {0} /\ MaxOps \in Nat /\ MaxRequests \in Nat
  /\ MaxLost \in Nat /\ CompactRevs \subseteq Nat /\ Leases \subseteq Nat \ {NoLease}

ASSUME RoutesAssumption ==
  /\ Len(Routes) \in Nat \ {0}
  /\ \A i \in Shards : Routes[i].start \in 0..MaxKey /\ Routes[i].end \in 0..MaxKey
  /\ Contiguous(Routes)

ASSUME ValuesAssumption ==
  /\ EmptyValue \in Values
  /\ NoVal \notin Values /\ NoVal \notin Refs /\ NoVal \notin Requests
  /\ Fingerprint \notin Refs

ASSUME RequestsAssumption ==
  \A q \in Requests :
     /\ q.cmps \subseteq CompareType
     /\ q.success \in Seq(OpType) /\ q.failure \in Seq(OpType)
     /\ Len(q.success) + Len(q.failure) <= MaxOps
     /\ \A i \in 1..Len(q.success) :
           q.success[i].op = "put" => q.success[i].end = Empty
     /\ \A i \in 1..Len(q.failure) :
           q.failure[i].op = "put" => q.failure[i].end = Empty
-----------------------------------------------------------------------------
(***************************************************************************)
(* Keys of the coordinator, as ranks: "" is 0, "\0" is 1, then             *)
(* coordinatedConfigKey, the bare CoordinatedMetadataPrefix, the prefixed  *)
(* user keys, and "/__etcd_sharding/keys0".                                *)
(***************************************************************************)
ConfigKey == 2
MetadataPrefix == 3
MetadataEnd == MetadataPrefix + MaxKey + 1

\* coordinatedKeys
MetadataKey(key) == MetadataPrefix + key

MetadataRangeEnd(end) ==
  CASE end = Empty -> Empty
    [] end = NoEnd -> MetadataEnd
    [] OTHER       -> MetadataPrefix + end

HasPrefix(raw) == raw >= MetadataPrefix /\ raw < MetadataEnd

StripPrefix(raw) == raw - MetadataPrefix

RawKeys == {ConfigKey} \cup {MetadataKey(k) : k \in 1..MaxKey}
-----------------------------------------------------------------------------
(***************************************************************************)
(* Validation.  Put, DeleteRange and Range are requests of one operation.  *)
(***************************************************************************)
Ops(q) == q.success \o q.failure

ValidRange(o) == o.key # Empty /\ ~o.sortByValue

ValidPut(o) == /\ o.key # Empty
               /\ o.ignoreValue => o.val = EmptyValue
               /\ o.ignoreLease => o.lease = NoLease

ValidOp(o) ==
  CASE o.op = "range"  -> ValidRange(o)
    [] o.op = "put"    -> ValidPut(o) /\ MutationAllowed(Routes, o.key, Empty)
    [] o.op = "delete" -> MutationAllowed(Routes, o.key, o.end)
    [] OTHER           -> FALSE   \* "nested or unknown transaction operation"

ValidCompare(c) == c.target # "value" /\ c.key # Empty

IsMutation(o) == o.op \in {"put", "delete"}

\* Mutant: the shards of several mutations are not compared.
SameShard_Unchecked(q) == TRUE

SameShard(q) ==
  \A i, j \in 1..Len(Ops(q)) :
     IsMutation(Ops(q)[i]) /\ IsMutation(Ops(q)[j])
       => ShardOf(Routes, Ops(q)[i].key) = ShardOf(Routes, Ops(q)[j].key)

Valid(q) == /\ \A c \in q.cmps : ValidCompare(c)
            /\ \A i \in 1..Len(Ops(q)) : ValidOp(Ops(q)[i])
            /\ SameShard(q)
-----------------------------------------------------------------------------
(***************************************************************************)
(* The request as it is sent to the coordinator: refs[i] is what stagePut  *)
(* put in place of the value of the i-th operation, both branches counted. *)
(***************************************************************************)
NeedsBlob(o) == o.op = "put" /\ ~o.ignoreValue

\* Mutant: coordinatedDelete forwards the user's keys.
EncodeOp_RawDelete(o, ref) ==
  [o EXCEPT !.key = IF o.op = "delete" THEN @ ELSE MetadataKey(@),
            !.end = IF o.op = "delete" THEN @ ELSE MetadataRangeEnd(@),
            !.val = IF NeedsBlob(o) THEN ref ELSE @]

EncodeOp(o, ref) ==
  [o EXCEPT !.key = MetadataKey(@), !.end = MetadataRangeEnd(@),
            !.val = IF NeedsBlob(o) THEN ref ELSE @]

EncodeCompare(c) ==
  [c EXCEPT !.key = MetadataKey(@), !.end = MetadataRangeEnd(@)]

Encode(q, refs) ==
  [cmps    |-> {EncodeCompare(c) : c \in q.cmps},
   success |-> [i \in 1..Len(q.success) |-> EncodeOp(q.success[i], refs[i])],
   failure |-> [i \in 1..Len(q.failure) |->
                  EncodeOp(q.failure[i], refs[Len(q.success) + i])]]

Sent(p) == Encode(req[p], staged[p])
-----------------------------------------------------------------------------
EmptySnapshot == [k \in RawKeys |-> Absent]

\* NewCoordinatedProxy has run: revision 2 holds the fingerprint.
Init ==
  /\ hist = <<EmptySnapshot,
              [EmptySnapshot EXCEPT ![ConfigKey] =
                 [val |-> Fingerprint, create |-> 2, mod |-> 2, version |-> 1,
                  lease |-> NoLease]]>>
  /\ compacted = 0 /\ leases = {}
  /\ blobs = [s \in Shards |-> [t \in Tokens |-> NoVal]]
  /\ lost = {}
  /\ pc = [p \in Procs |-> "idle"]
  /\ req = [p \in Procs |-> NoVal]
  /\ id = [p \in Procs |-> 0] /\ issued = 0
  /\ staged = [p \in Procs |-> [i \in 1..MaxOps |-> NoVal]]
  /\ reply = [p \in Procs |-> {}]
  /\ out = [p \in Procs |-> {}]
  /\ succeeded = [p \in Procs |-> FALSE]
  /\ status = [p \in Procs |-> "none"]
  /\ late = {}

\* The handler returns; what it held is garbage.  The request is kept, as what
\* its client was given the answer to.
Finish(p, s) ==
  /\ pc' = [pc EXCEPT ![p] = "idle"]
  /\ staged' = [staged EXCEPT ![p] = [i \in 1..MaxOps |-> NoVal]]
  /\ reply' = [reply EXCEPT ![p] = {}]
  /\ status' = [status EXCEPT ![p] = s]

\* Put, DeleteRange, Range, Txn: the validation that precedes the first call.
Begin(p, q) ==
  /\ pc[p] = "idle"
  /\ issued < MaxRequests
  /\ issued' = issued + 1
  /\ id' = [id EXCEPT ![p] = issued + 1]
  /\ req' = [req EXCEPT ![p] = q]
  /\ out' = [out EXCEPT ![p] = {}]
  /\ IF Valid(q)
     THEN /\ pc' = [pc EXCEPT ![p] = "stage"]
          /\ status' = [status EXCEPT ![p] = "none"]
          /\ UNCHANGED <<staged, reply>>
     ELSE Finish(p, "invalid")
  /\ UNCHANGED <<coordinator, shards, succeeded, late>>

\* Mutant: only the branch expected to succeed is staged.
Unstaged_SuccessOnly(p) ==
  {i \in 1..Len(req[p].success) :
     NeedsBlob(Ops(req[p])[i]) /\ staged[p][i] = NoVal}

Unstaged(p) == {i \in 1..Len(Ops(req[p])) :
                  NeedsBlob(Ops(req[p])[i]) /\ staged[p][i] = NoVal}

\* Mutant: blob names repeat.
Fresh_Reused(t) == TRUE

\* rand.Read: 32 random bytes, taken never to repeat.
Fresh(t) == \A s \in Shards : blobs[s][t] = NoVal

\* Mutant: the rewritten request is dropped, and the put staged again.
StagePut_Forgets(p) ==
  /\ pc[p] = "stage"
  /\ \E i \in Unstaged(p), t \in Tokens :
       /\ Fresh(t)
       /\ blobs' = [blobs EXCEPT ![ShardOf(Routes, Ops(req[p])[i].key)][t] =
                                  Ops(req[p])[i].val]
  /\ UNCHANGED <<coordinator, lost, pc, req, id, issued, staged, reply, out,
                 succeeded, status, late>>

\* stagePut, with its Put to the key's data shard.  A Put that fails is GiveUp,
\* after this step if the shard did execute it.
StagePut(p) ==
  /\ pc[p] = "stage"
  /\ \E i \in Unstaged(p), t \in Tokens :
       LET o == Ops(req[p])[i]
           s == ShardOf(Routes, o.key)
       IN  /\ \A j \in Unstaged(p) : i <= j
           /\ Fresh(t)
           /\ blobs' = [blobs EXCEPT ![s][t] = o.val]
           /\ staged' = [staged EXCEPT ![p][i] = [shard |-> s, token |-> t]]
  /\ UNCHANGED <<coordinator, lost, pc, req, id, issued, reply, out, succeeded,
                 status, late>>

\* forwardUnary to the coordinator, and its answer.
Publish(p) ==
  /\ pc[p] = "stage"
  /\ Unstaged(p) = {}
  /\ IF Refuses(hist, compacted, leases, Sent(p))
     THEN Finish(p, "refused") /\ UNCHANGED <<hist, succeeded>>
     ELSE /\ hist' = Commit(hist, Sent(p))
          /\ succeeded' = [succeeded EXCEPT ![p] = Succeeds(hist, Sent(p))]
          /\ reply' = [reply EXCEPT ![p] = Answer(hist, Sent(p))]
          /\ pc' = [pc EXCEPT ![p] = "decode"]
          /\ UNCHANGED <<staged, status>>
  /\ UNCHANGED <<compacted, leases, shards, req, id, issued, out, late>>

\* The loops over Kvs, PrevKv, PrevKvs and Responses decode in order.
Before(x, y) == x.op < y.op \/ (x.op = y.op /\ x.key <= y.key)

\* Mutant: KeysOnly is not passed to decodeKV.
DataLoss_KeysOnlyIgnored(x) ==
  \/ ~HasPrefix(x.key)
  \/ x.kv.val \notin Refs
  \/ x.kv.val \in lost
  \/ blobs[x.kv.val.shard][x.kv.val.token] = NoVal

\* decodeKV cannot strip the prefix, or does not get exactly one blob.
DataLoss(x) ==
  \/ ~HasPrefix(x.key)
  \/ /\ ~x.keysOnly
     /\ \/ x.kv.val \notin Refs
        \/ x.kv.val \in lost
        \/ blobs[x.kv.val.shard][x.kv.val.token] = NoVal

Decoded(x) ==
  [x EXCEPT !.key = StripPrefix(@),
            !.kv.val = IF x.keysOnly THEN @ ELSE blobs[@.shard][@.token]]

\* Mutant: a KeyValue whose blob is missing is left out of the response.
DecodeKV_Skips(p) ==
  /\ pc[p] = "decode"
  /\ \E x \in reply[p] :
       /\ \A y \in reply[p] : Before(x, y)
       /\ reply' = [reply EXCEPT ![p] = @ \ {x}]
       /\ out' = [out EXCEPT ![p] =
                    @ \cup (IF DataLoss(x) THEN {} ELSE {Decoded(x)})]
  /\ UNCHANGED <<coordinator, shards, pc, req, staged, status, id, issued,
                 succeeded, late>>

DecodeKV(p) ==
  /\ pc[p] = "decode"
  /\ \E x \in reply[p] :
       /\ \A y \in reply[p] : Before(x, y)
       /\ IF DataLoss(x)
          THEN Finish(p, "dataloss") /\ out' = [out EXCEPT ![p] = {}]
          ELSE /\ reply' = [reply EXCEPT ![p] = @ \ {x}]
               /\ out' = [out EXCEPT ![p] = @ \cup {Decoded(x)}]
               /\ UNCHANGED <<pc, staged, status>>
  /\ UNCHANGED <<coordinator, shards, req, id, issued, succeeded, late>>

\* Mutant: the response is returned before all of it is decoded.
Return_Early(p) ==
  /\ pc[p] = "decode"
  /\ Finish(p, "ok")
  /\ UNCHANGED <<coordinator, shards, req, id, issued, out, succeeded, late>>

Return(p) ==
  /\ pc[p] = "decode"
  /\ reply[p] = {}
  /\ Finish(p, "ok")
  /\ UNCHANGED <<coordinator, shards, req, id, issued, out, succeeded, late>>

\* A call failed, timed out or was cancelled, or the proxy crashed.  What was
\* sent to the coordinator may be under way.
GiveUp(p) ==
  /\ pc[p] # "idle"
  /\ Finish(p, "error")
  /\ out' = [out EXCEPT ![p] = {}]
  /\ \/ UNCHANGED late
     \/ /\ pc[p] = "stage" /\ Unstaged(p) = {}
        /\ late' = late \cup {[id |-> id[p], req |-> req[p],
                               staged |-> staged[p]]}
  /\ UNCHANGED <<coordinator, shards, req, id, issued, succeeded>>

\* The coordinator executes a request whose handler is gone.
PublishLate(m) ==
  /\ hist' = IF Refuses(hist, compacted, leases, Encode(m.req, m.staged))
             THEN hist ELSE Commit(hist, Encode(m.req, m.staged))
  /\ late' = late \ {m}
  /\ UNCHANGED <<compacted, leases, shards, pc, req, id, issued, staged, reply,
                 out, succeeded, status>>

Drop(m) ==
  /\ late' = late \ {m}
  /\ UNCHANGED <<coordinator, shards, pc, req, id, issued, staged, reply, out,
                 succeeded, status>>

\* Compact, LeaseGrant and LeaseRevoke are forwarded as they are; leases also
\* expire.
handlers == <<pc, req, id, issued, staged, reply, out, succeeded, status, late>>

Compact(r) ==
  /\ r > compacted /\ r <= Len(hist)
  /\ compacted' = r
  /\ UNCHANGED <<hist, leases, shards, handlers>>

LeaseGrant(l) ==
  /\ l \notin leases
  /\ leases' = leases \cup {l}
  /\ UNCHANGED <<hist, compacted, shards, handlers>>

LeaseEnd(l) ==
  /\ l \in leases
  /\ leases' = leases \ {l}
  /\ hist' = DropLease(hist, l)
  /\ UNCHANGED <<compacted, shards, handlers>>

\* Mutant: the keys of a lease are returned as the coordinator names them.
LeaseTimeToLive_Prefixed(l) ==
  LET keys == LeaseKeys(Last(hist), l)
  IN  [dataloss |-> \E k \in keys : ~HasPrefix(k), keys |-> keys]

\* LeaseTimeToLive: the answer to a request made now.
LeaseTimeToLive(l) ==
  LET keys == LeaseKeys(Last(hist), l)
  IN  [dataloss |-> \E k \in keys : ~HasPrefix(k),
       keys     |-> {StripPrefix(k) : k \in keys}]

\* A data shard is restored without a blob ("durable etcd storage ... required").
LoseBlob(s, t) ==
  /\ Cardinality(lost) < MaxLost
  /\ blobs[s][t] # NoVal
  /\ lost' = lost \cup {[shard |-> s, token |-> t]}
  /\ UNCHANGED <<coordinator, blobs, handlers>>

Step(p) == StagePut(p) \/ Publish(p) \/ DecodeKV(p) \/ Return(p)

Next ==
  \/ \E p \in Procs : \/ \E q \in Requests : Begin(p, q)
                      \/ Step(p) \/ GiveUp(p)
  \/ \E m \in late : PublishLate(m) \/ Drop(m)
  \/ \E r \in CompactRevs : Compact(r)
  \/ \E l \in Leases : LeaseGrant(l) \/ LeaseEnd(l)
  \/ \E s \in Shards, t \in Tokens : LoseBlob(s, t)

Spec == Init /\ [][Next]_vars
-----------------------------------------------------------------------------
(***************************************************************************)
(* Properties.                                                             *)
(***************************************************************************)
KVs == [val : Refs \cup {Fingerprint, NoVal}, create : Nat, mod : Nat,
        version : Nat, lease : Leases \cup {NoLease}]

\* Handlers and stores keep their types; the coordinator holds references and the
\* fingerprint, never a value.
TypeOK ==
  /\ hist \in Seq([RawKeys -> KVs])
  /\ Len(hist) >= 2 /\ compacted \in 0..Len(hist) /\ leases \subseteq Leases
  /\ blobs \in [Shards -> [Tokens -> Values \cup {NoVal}]]
  /\ lost \subseteq Refs
  /\ pc \in [Procs -> {"idle", "stage", "decode"}]
  /\ req \in [Procs -> Requests \cup {NoVal}]
  /\ id \in [Procs -> Nat] /\ issued \in Nat
  /\ staged \in [Procs -> [1..MaxOps -> Refs \cup {NoVal}]]
  /\ succeeded \in [Procs -> BOOLEAN]
  /\ status \in [Procs -> {"none", "ok", "invalid", "refused", "error",
                           "dataloss"}]
  /\ \A m \in late : m.req \in Requests /\ m.staged \in [1..MaxOps -> Refs \cup {NoVal}]

\* A reference made for a key names a blob that was written, on the shard the
\* key is routed to.
Resolves(key, v) ==
  /\ v \in Refs
  /\ v.shard = ShardOf(Routes, key)
  /\ blobs[v.shard][v.token] # NoVal

\* stagePut: "persists the value before publishing its reference".  Every
\* reference in the coordinator, at every revision, has its blob, whatever
\* failed in between and however late the coordinator executed the request.
ReferencesResolve ==
  \A r \in 1..Len(hist), k \in 1..MaxKey :
     Live(hist[r][MetadataKey(k)]) => Resolves(k, hist[r][MetadataKey(k)].val)

\* decodeKV: "immutable blob missing", "unexpected coordinator key", "invalid
\* immutable blob reference".  No client sees DataLoss unless a data shard
\* really lost a blob.
DataLossIsReal == \A p \in Procs : status[p] = "dataloss" => lost # {}

\* The value a client is meant to see for what the coordinator stores.
Resolve(v) == IF v \in Refs THEN blobs[v.shard][v.token] ELSE v

UserKV(kv) == [kv EXCEPT !.val = Resolve(@)]

UserHist ==
  [r \in 1..Len(hist) |-> [k \in 1..MaxKey |-> UserKV(hist[r][MetadataKey(k)])]]

\* "Reads fetch references at one coordinator snapshot and resolve immutable
\* blobs, so pagination and historical reads do not mix versions": what users
\* see at a revision never changes, although every read of it goes to blobs
\* that concurrent handlers keep adding to.
PastIsImmutable ==
  [][\A r \in 1..Len(hist) : UserHist'[r] = UserHist[r]]_vars

\* Txn, mutationShard: "cross-shard mutating transaction unsupported".  One
\* revision changes keys of one shard only, unless a lease ended.
RevisionsChangeOneShard ==
  [][leases' = leases /\ Len(hist') > Len(hist) =>
       \E i \in Shards : \A k \in 1..MaxKey :
          Last(hist')[MetadataKey(k)] # Last(hist)[MetadataKey(k)]
            => Owns(Routes[i], k)]_vars

\* coordinatedKeys confines clients to CoordinatedMetadataPrefix: no request and
\* no lease ever touches the routing fingerprint.
FingerprintUntouched ==
  [][Last(hist')[ConfigKey] = Last(hist)[ConfigKey]]_vars

\* LeaseTimeToLive never finds an "unexpected lease key", and lists the keys that
\* a client would see attached to the lease, whichever shards they belong to.
LeaseTimeToLiveIsExact ==
  \A l \in Leases :
     LeaseTimeToLive(l) = [dataloss |-> FALSE, keys |-> LeaseKeys(Last(UserHist), l)]

\* A handler whose calls return gets to its end: no loop of Put, Txn or Range
\* waits for anything else.
Fairness == \A p \in Procs : WF_vars(Step(p))

FairSpec == Spec /\ Fairness

RequestsReturn == \A p \in Procs : pc[p] # "idle" ~> pc[p] = "idle"
=============================================================================
