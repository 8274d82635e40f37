---------------------------- MODULE LegacyLease ----------------------------
(***************************************************************************)
(* Leases in legacy mode, pkg/server/proxy_lease.go without the keep-alive *)
(* stream: a lease is granted on every shard with the same ID.  A handler  *)
(* calls the shards one after another and returns at the first error; what *)
(* it has done by then stays.  A shard is known by the time each lease has *)
(* left and by the lease its one key is attached to.                       *)
(***************************************************************************)
EXTENDS IDGenerator, AllShards, FiniteSets

CONSTANTS
  Procs, Host,  \* handlers, and the replica of each
  IDs,          \* lease IDs, those of the generators among them
  MaxTTL,
  Requests, MaxRequests,
  MaxEvents,    \* bound on what happens to leases at the shards by themselves
  Nil

Absent == -1    \* the TTL that etcd reports of a lease it does not know

NoID == 0

Calls == [op : {"grant", "revoke", "ttl", "list"}, id : IDs, ttl : 0..MaxTTL]

ASSUME LeaseAssumption ==
  /\ N \in Nat \ {0} /\ MaxTTL \in Nat /\ Host \in [Procs -> Replicas]
  /\ 0..(Era * PerMilli - 1) \subseteq IDs
  /\ Requests \subseteq Calls /\ Nil \notin Calls
  /\ Nil \notin [ttl : Absent..MaxTTL, keys : SUBSET (1..N)]

VARIABLES
  left,         \* left[s][id]: time left on a shard, or Absent
  attached,     \* the lease of each shard's key
  issued, events, pc, req,
  at,           \* index of the loop over GetAllShardClis
  ret, status,
  late,         \* calls that a shard may still execute although they failed
  seen, kept    \* history, since the request began: the values of left for its
                \* lease, and the keys that were attached to it all the time

leaseVars == <<left, attached, issued, events, pc, req, at, ret, status, late, seen, kept>>

vars == <<genVars, leaseVars>>
-----------------------------------------------------------------------------
(***************************************************************************)
(* A shard (external).  A call is refused when the lease is known already  *)
(* or not known, respectively.                                             *)
(***************************************************************************)
Accepts(s, q) ==
  CASE q.op = "grant"  -> left[s][q.id] = Absent
    [] q.op = "revoke" -> left[s][q.id] # Absent
    [] OTHER           -> TRUE

LeftAfter(s, q) ==
  CASE q.op = "grant"  -> [left EXCEPT ![s][q.id] = q.ttl]
    [] q.op = "revoke" -> [left EXCEPT ![s][q.id] = Absent]
    [] OTHER           -> left

\* Keys are deleted with their lease; every action that changes left or attached
\* keeps the history.
Changed(newLeft, newAttached) ==
  /\ left' = newLeft
  /\ attached' = [s \in Shards |->
                    IF newAttached[s] # NoID /\ newLeft[s][newAttached[s]] = Absent
                    THEN NoID ELSE newAttached[s]]
  /\ seen' = [p \in Procs |-> [s \in Shards |->
                IF req[p] = Nil \/ pc[p] = "idle" THEN seen[p][s]
                ELSE seen[p][s] \cup {newLeft[s][req[p].id]}]]
  /\ kept' = [p \in Procs |-> {s \in kept[p] : attached'[s] = req[p].id}]

TimePasses(s, id) ==
  /\ events < MaxEvents /\ events' = events + 1
  /\ left[s][id] # Absent
  /\ Changed([left EXCEPT ![s][id] = @ - 1], attached)
  /\ UNCHANGED <<genVars, issued, pc, req, at, ret, status, late>>

Renewed(s, id) ==
  /\ events < MaxEvents /\ events' = events + 1
  /\ left[s][id] # Absent
  /\ Changed([left EXCEPT ![s][id] = MaxTTL], attached)
  /\ UNCHANGED <<genVars, issued, pc, req, at, ret, status, late>>

Attach(s, id) ==
  /\ events < MaxEvents /\ events' = events + 1
  /\ left[s][id] # Absent /\ attached[s] # id
  /\ Changed(left, [attached EXCEPT ![s] = id])
  /\ UNCHANGED <<genVars, issued, pc, req, at, ret, status, late>>

CallLate(c) ==
  /\ late' = late \ {c}
  /\ IF Accepts(c.shard, c.req) THEN Changed(LeftAfter(c.shard, c.req), attached)
     ELSE UNCHANGED <<left, attached, seen, kept>>
  /\ UNCHANGED <<genVars, issued, events, pc, req, at, ret, status>>
-----------------------------------------------------------------------------
Init ==
  /\ GenInit
  /\ left = [s \in Shards |-> [id \in IDs |-> Absent]]
  /\ attached = [s \in Shards |-> NoID]
  /\ issued = 0 /\ events = 0 /\ pc = [p \in Procs |-> "idle"] /\ req = [p \in Procs |-> Nil]
  /\ at = [p \in Procs |-> 1] /\ ret = [p \in Procs |-> Nil]
  /\ status = [p \in Procs |-> "none"] /\ late = {}
  /\ seen = [p \in Procs |-> [s \in Shards |-> {}]] /\ kept = [p \in Procs |-> {}]

\* LeaseGrant, "if in.ID == 0"; every other request comes with its ID.
Identified(p, q) ==
  IF q.op = "grant" /\ q.id = NoID
  THEN /\ GenNext(Host[p])
       /\ req' = [req EXCEPT ![p] = [q EXCEPT !.id = ID(suffix[Host[p]] + 1)]]
  ELSE UNCHANGED genVars /\ req' = [req EXCEPT ![p] = q]

Begin(p, q) ==
  /\ pc[p] = "idle" /\ issued < MaxRequests
  /\ issued' = issued + 1
  /\ Identified(p, q)
  /\ pc' = [pc EXCEPT ![p] = "run"] /\ at' = [at EXCEPT ![p] = 1]
  /\ ret' = [ret EXCEPT ![p] = Nil] /\ status' = [status EXCEPT ![p] = "none"]
  /\ seen' = [seen EXCEPT ![p] = [s \in Shards |-> {left[s][req'[p].id]}]]
  /\ kept' = [kept EXCEPT ![p] = {s \in Shards : attached[s] = req'[p].id}]
  /\ UNCHANGED <<left, attached, events, late>>

\* Mutant: the last shard's TTL is reported.
Shortest_Last(a, b) == b

Shortest(a, b) == IF b < a THEN b ELSE a

\* Mutant: the keys of the first shard are reported.
Keys_First(a, b) == a

Keys(a, b) == a \cup b

\* ret after the response of shard s.
Merged(p, s) ==
  LET ttl  == left[s][req[p].id]
      keys == IF attached[s] = req[p].id THEN {s} ELSE {}
  IN  CASE req[p].op = "list" -> [ids |-> {id \in IDs : left[s][id] # Absent}]
        [] req[p].op # "ttl"  -> req[p].id
        [] ret[p] = Nil       -> [ttl |-> ttl, keys |-> keys]
        [] OTHER -> [ttl |-> Shortest(ret[p].ttl, ttl), keys |-> Keys(ret[p].keys, keys)]

Return(p, st) ==
  /\ pc' = [pc EXCEPT ![p] = "idle"] /\ status' = [status EXCEPT ![p] = st]

\* LeaseLeases returns from its first iteration.
Last(p) == at[p] = N \/ req[p].op = "list"

\* One iteration of the loop: the shard answers, or refuses, or fails.
Call(p) ==
  /\ pc[p] = "run" /\ Accepts(at[p], req[p])
  /\ Changed(LeftAfter(at[p], req[p]), attached)
  /\ ret' = [ret EXCEPT ![p] = Merged(p, at[p])]
  /\ at' = [at EXCEPT ![p] = @ + 1]
  /\ IF Last(p) THEN Return(p, "ok") ELSE UNCHANGED <<pc, status>>
  /\ UNCHANGED <<genVars, issued, events, req, late>>

\* Mutant: an error of a shard is passed over.
OnError_Continue(p) ==
  /\ at' = [at EXCEPT ![p] = @ + 1]
  /\ IF Last(p) THEN Return(p, "ok") ELSE UNCHANGED <<pc, status>>

OnError(p) == Return(p, "error") /\ UNCHANGED at

CallRefused(p) ==
  /\ pc[p] = "run" /\ ~Accepts(at[p], req[p])
  /\ OnError(p)
  /\ UNCHANGED <<genVars, left, attached, issued, events, req, ret, late, seen, kept>>

Outstanding(p) ==
  IF req[p].op \in {"grant", "revoke"}
  THEN {[req |-> req[p], shard |-> at[p], proc |-> p, issued |-> issued]} ELSE {}

CallFails(p) ==
  /\ pc[p] = "run"
  /\ OnError(p)
  /\ late' \in {late, late \cup Outstanding(p)}
  /\ UNCHANGED <<genVars, left, attached, issued, events, req, ret, seen, kept>>

\* A replica's process ends, with its handlers, and another one is started.
Restart(r) ==
  /\ GenRestart(r)
  /\ LET hit == {p \in Procs : Host[p] = r /\ pc[p] = "run"}
     IN  /\ pc' = [p \in Procs |-> IF p \in hit THEN "idle" ELSE pc[p]]
         /\ status' = [p \in Procs |-> IF p \in hit THEN "error" ELSE status[p]]
         /\ \E calls \in SUBSET UNION {Outstanding(p) : p \in hit} :
               late' = late \cup calls
  /\ UNCHANGED <<left, attached, issued, events, req, at, ret, seen, kept>>

Next ==
  \/ \E s \in Shards, id \in IDs : TimePasses(s, id) \/ Renewed(s, id) \/ Attach(s, id)
  \/ \E c \in late : CallLate(c)
  \/ \E p \in Procs : \/ \E q \in Requests : Begin(p, q)
                      \/ Call(p) \/ CallRefused(p) \/ CallFails(p)
  \/ Elapse /\ UNCHANGED leaseVars
  \/ \E r \in Replicas : Restart(r)

Spec == Init /\ [][Next]_vars
-----------------------------------------------------------------------------
(***************************************************************************)
(* Properties.                                                             *)
(***************************************************************************)
Done(p, op) ==
  pc[p] = "idle" /\ req[p] # Nil /\ status[p] = "ok" /\ req[p].op = op

\* "A lease is granted on every shard with the same ID": when LeaseGrant reports
\* success every shard has had the lease with its full TTL since the request
\* began, and when LeaseRevoke does every shard has been without it, in spite of
\* other handlers, retries, lost calls and restarts.
LeaseOpsReachEveryShard ==
  \A p \in Procs : \A s \in Shards :
     /\ Done(p, "grant") => req[p].ttl \in seen[p][s]
     /\ Done(p, "revoke") => Absent \in seen[p][s]

\* The TTL that LeaseTimeToLive reports is that of the shortest-lived shard: no
\* shard has always had less, while it was asked, and one has had no more.  A
\* lease that one shard has lost is never reported alive.
TTLIsTheShortest ==
  \A p \in Procs : Done(p, "ttl") =>
     /\ \A s \in Shards : \E t \in seen[p][s] : t >= ret[p].ttl
     /\ \E s \in Shards : \E t \in seen[p][s] : t <= ret[p].ttl

\* "TTL queries aggregate keys across shards": a key that was attached all the
\* time is reported, on whatever shard it is.
TTLListsAllKeys == \A p \in Procs : Done(p, "ttl") => kept[p] \subseteq ret[p].keys
=============================================================================
