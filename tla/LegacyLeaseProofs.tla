------------------------- MODULE LegacyLeaseProofs -------------------------
(***************************************************************************)
(* IDGenerator: IDs are unique, for all widths of the timestamp and of the *)
(* counter.  LegacyLease: what a successful call says of every shard, for  *)
(* any number of shards, handlers, replicas and requests.  LegacyKeepAlive *)
(* comes last.                                                             *)
(***************************************************************************)
EXTENDS LegacyLease, LegacyKeepAlive, TLAPS

-----------------------------------------------------------------------------
(***************************************************************************)
(* The generator.  While no generator is ahead of the clock its suffix     *)
(* lies below the next millisecond's first, where its successor begins;    *)
(* all IDs generated before are at most the suffix.                        *)
(***************************************************************************)
GenInv ==
  /\ GenTypeOK
  /\ \A r \in Replicas : ~hurried /\ now < Era =>
        /\ suffix[r] < (now + 1) * PerMilli
        /\ \A i \in ids : i <= suffix[r]
  /\ NextIsUnique

\* The first suffix of a millisecond, and those below the next one's, are IDs.
LEMMA Milliseconds ==
  ASSUME NEW t \in Nat, t < Era
  PROVE  /\ NewGenerator(t) = t * PerMilli
         /\ t * PerMilli \in Nat /\ (t + 1) * PerMilli = t * PerMilli + PerMilli
         /\ (t + 1) * PerMilli <= Era * PerMilli
<1>1. t % Era = t
  BY GeneratorAssumption
<1>2. t * PerMilli \in Nat /\ Era * PerMilli \in Nat
  BY GeneratorAssumption
<1>3. (t + 1) * PerMilli = t * PerMilli + PerMilli
  BY GeneratorAssumption
<1>4. PICK d \in Nat : Era = t + 1 + d
  <2>1. Era - t - 1 \in Nat /\ Era = t + 1 + (Era - t - 1)
    BY GeneratorAssumption
  <2>2. QED  BY <2>1
<1>5. Era * PerMilli = (t + 1) * PerMilli + d * PerMilli /\ d * PerMilli \in Nat
  BY <1>4, GeneratorAssumption
<1>6. (t + 1) * PerMilli <= Era * PerMilli
  BY <1>2, <1>3, <1>5, GeneratorAssumption
<1>7. QED
  BY <1>1, <1>2, <1>3, <1>6 DEF NewGenerator

\* A suffix below the end of the era is its own ID.
LEMMA SmallSuffix ==
  ASSUME NEW s \in Nat, s < Era * PerMilli
  PROVE  ID(s) = s
<1>1. Era * PerMilli \in Nat
  BY GeneratorAssumption
<1>2. QED
  BY <1>1 DEF ID

\* A step of a single replica's generator keeps GenInv.
LEMMA GenStepKeepsInv ==
  ASSUME NEW r, Replicas = {r}, GenInv, [GenStep]_genVars
  PROVE  GenInv'
<1> USE DEF GenInv, GenTypeOK
<1>1. r \in Replicas /\ suffix[r] \in Nat /\ now \in Nat
  OBVIOUS
<1>2. CASE Elapse
  <2>1. now' = now + 1 /\ UNCHANGED <<suffix, ids, duplicate, hurried>>
    BY <1>2 DEF Elapse
  <2>2. ~hurried /\ now + 1 < Era => suffix[r] < (now + 1 + 1) * PerMilli
    <3>1. SUFFICES ASSUME ~hurried, now + 1 < Era
                   PROVE  suffix[r] < (now + 1 + 1) * PerMilli
      OBVIOUS
    <3>2. now < Era /\ suffix[r] < (now + 1) * PerMilli
      BY <3>1, <1>1, GeneratorAssumption
    <3>3. /\ (now + 1) * PerMilli \in Nat
          /\ (now + 1 + 1) * PerMilli = (now + 1) * PerMilli + PerMilli
      BY <3>1, <1>1, Milliseconds
    <3>4. QED  BY <3>2, <3>3, <1>1, GeneratorAssumption
  <2>3. now + 1 < Era => now < Era
    BY <1>1, GeneratorAssumption
  <2>4. QED  BY <2>1, <2>2, <2>3, <1>1 DEF NextIsUnique
<1>3. CASE GenNext(r)
  <2>1. /\ now' = now /\ suffix'[r] = suffix[r] + 1
        /\ suffix' \in [Replicas -> Nat]
        /\ ids' = ids \cup {ID(suffix[r] + 1)}
        /\ duplicate' = (duplicate \/ ID(suffix[r] + 1) \in ids)
        /\ hurried' = (hurried \/ suffix[r] + 1 >= (now + 1) * PerMilli)
    BY <1>1, <1>3 DEF GenNext
  <2>2. ID(suffix[r] + 1) \in Nat
    <3>1. Era * PerMilli \in Nat \ {0}
      BY GeneratorAssumption
    <3>2. QED  BY <3>1, <1>1 DEF ID
  <2>3. ASSUME ~hurried', now < Era
        PROVE  /\ suffix[r] + 1 < (now + 1) * PerMilli
               /\ ID(suffix[r] + 1) = suffix[r] + 1
               /\ \A i \in ids : i <= suffix[r]
               /\ ~duplicate'
    <3>1. (now + 1) * PerMilli \in Nat /\ (now + 1) * PerMilli <= Era * PerMilli
      <4>1. now * PerMilli + PerMilli \in Nat
        BY <2>3, <1>1, Milliseconds, GeneratorAssumption
      <4>2. QED  BY <4>1, <2>3, <1>1, Milliseconds
    <3>2. ~hurried /\ suffix[r] + 1 < (now + 1) * PerMilli
      <4>1. ~hurried /\ ~(suffix[r] + 1 >= (now + 1) * PerMilli)
        BY <2>1, <2>3, Zenon
      <4>2. QED  BY <4>1, <3>1, <1>1
    <3>3. \A i \in ids : i <= suffix[r]
      BY <3>2, <2>3, <1>1
    <3>4. ID(suffix[r] + 1) = suffix[r] + 1
      <4>1. Era * PerMilli \in Nat
        BY GeneratorAssumption
      <4>2. suffix[r] + 1 \in Nat /\ suffix[r] + 1 < Era * PerMilli
        BY <3>1, <3>2, <4>1, <1>1
      <4>3. QED  BY <4>2, SmallSuffix
    <3>5. suffix[r] + 1 \notin ids
      BY <3>3, <1>1
    <3>6. ~duplicate
      BY <3>2, <2>3 DEF NextIsUnique
    <3>7. QED  BY <3>2, <3>3, <3>4, <3>5, <3>6, <2>1
  <2>4. GenTypeOK'
    BY <2>1, <2>2, Zenon
  <2>5. ASSUME ~hurried', now < Era
        PROVE  /\ suffix'[r] < (now + 1) * PerMilli
               /\ \A i \in ids' : i <= suffix'[r]
    BY <2>1, <2>3, <2>5, <1>1
  <2>6. QED  BY <2>1, <2>3, <2>4, <2>5 DEF NextIsUnique
<1>4. CASE GenRestart(r)
  <2>1. /\ now' = now + 1 /\ suffix'[r] = NewGenerator(now + 1)
        /\ suffix' = [suffix EXCEPT ![r] = NewGenerator(now + 1)]
        /\ UNCHANGED <<ids, duplicate, hurried>>
    BY <1>1, <1>4 DEF GenRestart
  <2>2. NewGenerator(now + 1) \in Nat
    BY <1>1, GeneratorAssumption DEF NewGenerator
  <2>3. GenTypeOK'
    BY <2>1, <2>2, <1>1
  <2>4. ASSUME ~hurried, now + 1 < Era
        PROVE  /\ suffix'[r] < (now + 1 + 1) * PerMilli
               /\ \A i \in ids : i <= suffix'[r]
    <3>1. now < Era
      BY <2>4, <1>1, GeneratorAssumption
    <3>2. suffix[r] < (now + 1) * PerMilli /\ \A i \in ids : i <= suffix[r]
      BY <2>4, <3>1, <1>1
    <3>3. /\ NewGenerator(now + 1) = (now + 1) * PerMilli
          /\ (now + 1) * PerMilli \in Nat
          /\ (now + 1 + 1) * PerMilli = (now + 1) * PerMilli + PerMilli
      BY <2>4, <1>1, Milliseconds
    <3>4. QED  BY <3>2, <3>3, <2>1, <1>1, GeneratorAssumption
  <2>5. now + 1 < Era => now < Era
    BY <1>1, GeneratorAssumption
  <2>6. QED  BY <2>1, <2>3, <2>4, <2>5 DEF NextIsUnique
<1>5. CASE UNCHANGED genVars
  BY <1>5 DEF genVars, NextIsUnique
<1>6. QED
  BY <1>2, <1>3, <1>4, <1>5 DEF GenStep

\* Next of a process's generator never returns an ID twice, nor one of the
\* processes it replaced, unless it gets ahead of the clock or the timestamp wraps.
THEOREM IDsAreUnique ==
  ASSUME NEW r, Replicas = {r}
  PROVE  GenSpec => []NextIsUnique
<1>1. GenInit => GenInv
  <2>1. SUFFICES ASSUME GenInit PROVE GenInv
    OBVIOUS
  <2>2. now \in Nat /\ suffix[r] = NewGenerator(now) /\ NewGenerator(now) \in Nat
    BY <2>1, GeneratorAssumption DEF GenInit, NewGenerator
  <2>3. GenTypeOK
    BY <2>1, <2>2, Zenon DEF GenInit, GenTypeOK
  <2>4. now < Era => suffix[r] < (now + 1) * PerMilli
    BY <2>2, Milliseconds, GeneratorAssumption
  <2>5. QED  BY <2>1, <2>3, <2>4 DEF GenInv, GenInit, NextIsUnique
<1>2. GenInv /\ [GenStep]_genVars => GenInv'
  BY GenStepKeepsInv
<1>3. GenInv => NextIsUnique
  BY DEF GenInv
<1>4. QED
  BY <1>1, <1>2, <1>3, PTL DEF GenSpec
-----------------------------------------------------------------------------
(***************************************************************************)
(* The lease handlers.  Progress(p, n) is what the answers of the first n  *)
(* shards mean; the loop of a running handler has got to at[p] - 1.        *)
(***************************************************************************)
LeaseTypes ==
  /\ now \in Nat
  /\ suffix \in [Replicas -> Nat]
  /\ left \in [Shards -> [IDs -> Absent..MaxTTL]]
  /\ issued \in Nat
  /\ pc \in [Procs -> {"idle", "run"}]
  /\ req \in [Procs -> Calls \cup {Nil}]
  /\ at \in [Procs -> Nat \ {0}]
  /\ ret = [p \in Procs |-> ret[p]]
  /\ status \in [Procs -> {"none", "ok", "error"}]
  /\ late \subseteq [req : Calls, shard : Shards, proc : Procs, issued : Nat]
  /\ seen \in [Procs -> [Shards -> SUBSET (Absent..MaxTTL)]]
  /\ \A p \in Procs : pc[p] = "run" =>
        req[p] # Nil /\ at[p] <= N /\ (at[p] = 1 => ret[p] = Nil)

Reached(p, n) ==
  \A s \in 1..n : /\ req[p].op = "grant" => req[p].ttl \in seen[p][s]
                  /\ req[p].op = "revoke" => Absent \in seen[p][s]

ShortestOf(p, n) ==
  req[p].op = "ttl" /\ n > 0 =>
     /\ ret[p] \in [ttl : Absent..MaxTTL, keys : SUBSET Shards]
     /\ \A s \in 1..n : \E t \in seen[p][s] : t >= ret[p].ttl
     /\ \E s \in 1..n : \E t \in seen[p][s] : t <= ret[p].ttl

Progress(p, n) == Reached(p, n) /\ ShortestOf(p, n)

HandlerInv(p) ==
  /\ pc[p] = "run" => Progress(p, at[p] - 1)
  /\ pc[p] = "idle" /\ req[p] # Nil /\ status[p] = "ok" /\ req[p].op # "list"
        => Progress(p, N)

LeaseInv == LeaseTypes /\ \A p \in Procs : HandlerInv(p)

LEMMA Bounds == N \in Nat \ {0} /\ MaxTTL \in Nat
  BY LeaseAssumption, Zenon

LEMMA ShardIndex ==
  ASSUME NEW n \in Nat \ {0}, n <= N
  PROVE  n \in Shards
  BY Bounds DEF Shards

\* A call leaves a shard with TTLs.
LEMMA LeftAfterType ==
  ASSUME LeaseTypes, NEW s \in Shards, NEW q \in Calls
  PROVE  LeftAfter(s, q) \in [Shards -> [IDs -> Absent..MaxTTL]]
<1>1. q.ttl \in Absent..MaxTTL /\ Absent \in Absent..MaxTTL /\ q.id \in IDs
  BY Bounds DEF Calls, Absent
<1>2. QED
  BY <1>1 DEF LeftAfter, LeaseTypes

\* A change of left is seen by the handlers that run, and forgotten by none.
LEMMA ChangeIsSeen ==
  ASSUME LeaseTypes, NEW nl \in [Shards -> [IDs -> Absent..MaxTTL]], NEW na,
         Changed(nl, na)
  PROVE  /\ left' = nl
         /\ seen' \in [Procs -> [Shards -> SUBSET (Absent..MaxTTL)]]
         /\ \A p \in Procs, s \in Shards : seen[p][s] \subseteq seen'[p][s]
         /\ \A p \in Procs, s \in Shards :
               pc[p] = "run" => nl[s][req[p].id] \in seen'[p][s]
<1>1. \A p \in Procs, s \in Shards :
         pc[p] = "run" => nl[s][req[p].id] \in Absent..MaxTTL
  BY DEF LeaseTypes, Calls
<1>2. \A p \in Procs, s \in Shards :
         seen'[p][s] = IF req[p] = Nil \/ pc[p] = "idle" THEN seen[p][s]
                       ELSE seen[p][s] \cup {nl[s][req[p].id]}
  BY DEF Changed
<1>3. seen' \in [Procs -> [Shards -> SUBSET (Absent..MaxTTL)]]
  <2>1. \A p \in Procs, s \in Shards : seen[p][s] \subseteq Absent..MaxTTL
    BY DEF LeaseTypes
  <2>2. \A p \in Procs : pc[p] # "idle" => pc[p] = "run"
    BY DEF LeaseTypes
  <2>3. \A p \in Procs, s \in Shards :
          (IF req[p] = Nil \/ pc[p] = "idle" THEN seen[p][s]
           ELSE seen[p][s] \cup {nl[s][req[p].id]}) \in SUBSET (Absent..MaxTTL)
    BY <1>1, <2>1, <2>2
  <2>4. QED  BY <2>3 DEF Changed
<1>4. QED
  BY <1>2, <1>3 DEF Changed, LeaseTypes

\* What has been seen stays.
LEMMA ProgressStays ==
  ASSUME NEW p \in Procs, NEW n \in 0..N, Progress(p, n),
         req'[p] = req[p], ret'[p] = ret[p],
         \A s \in Shards : seen[p][s] \subseteq seen'[p][s]
  PROVE  /\ \A s \in 1..n : /\ req'[p].op = "grant" => req'[p].ttl \in seen'[p][s]
                            /\ req'[p].op = "revoke" => Absent \in seen'[p][s]
         /\ req'[p].op = "ttl" /\ n > 0 =>
              /\ ret'[p] \in [ttl : Absent..MaxTTL, keys : SUBSET Shards]
              /\ \A s \in 1..n : \E t \in seen'[p][s] : t >= ret'[p].ttl
              /\ \E s \in 1..n : \E t \in seen'[p][s] : t <= ret'[p].ttl
<1>1. 1..n \subseteq Shards
  BY LeaseAssumption DEF Shards
<1>2. \A s \in 1..n : seen[p][s] \subseteq seen'[p][s]
  BY <1>1
<1>3. QED
  BY <1>2 DEF Progress, Reached, ShortestOf

\* A handler whose variables stay, while more is seen, keeps HandlerInv.
LEMMA HandlerStays ==
  ASSUME NEW p \in Procs, LeaseTypes, HandlerInv(p),
         pc'[p] = pc[p], at'[p] = at[p], req'[p] = req[p], ret'[p] = ret[p],
         status'[p] = status[p],
         \A s \in Shards : seen[p][s] \subseteq seen'[p][s]
  PROVE  HandlerInv(p)'
<1>1. pc[p] = "run" => at[p] - 1 \in 0..N /\ Progress(p, at[p] - 1)
  <2>1. pc[p] = "run" => at[p] \in Nat \ {0} /\ at[p] <= N
    BY DEF LeaseTypes
  <2>2. pc[p] = "run" => at[p] - 1 \in 0..N
    BY <2>1, Bounds
  <2>3. QED  BY <2>2 DEF HandlerInv
<1>2. N \in 0..N
  BY Bounds
<1>3. pc[p] = "run" => Progress(p, at[p] - 1)'
  BY <1>1, ProgressStays DEF Progress, Reached, ShortestOf
<1>4. Progress(p, N) => Progress(p, N)'
  BY <1>2, ProgressStays DEF Progress, Reached, ShortestOf
<1>5. QED
  BY <1>3, <1>4 DEF HandlerInv

\* The shards' own steps, and calls that are executed late.
LEMMA ShardStepKeepsInv ==
  ASSUME LeaseInv,
         \/ \E s \in Shards, id \in IDs :
               TimePasses(s, id) \/ Renewed(s, id) \/ Attach(s, id)
         \/ \E c \in late : CallLate(c)
  PROVE  LeaseInv'
<1> USE DEF LeaseInv
<1>1. SUFFICES ASSUME NEW nl \in [Shards -> [IDs -> Absent..MaxTTL]], NEW na,
                      Changed(nl, na) \/ UNCHANGED <<left, seen>>,
                      late' \subseteq late,
                      UNCHANGED <<now, suffix, issued, pc, req, at, ret, status>>
               PROVE  LeaseInv'
  <2>1. ASSUME NEW s \in Shards, NEW id \in IDs, TimePasses(s, id)
        PROVE  /\ [left EXCEPT ![s][id] = @ - 1] \in [Shards -> [IDs -> Absent..MaxTTL]]
               /\ Changed([left EXCEPT ![s][id] = @ - 1], attached)
               /\ late' \subseteq late
               /\ UNCHANGED <<now, suffix, issued, pc, req, at, ret, status>>
    <3>1. left[s][id] \in Absent..MaxTTL /\ left[s][id] # Absent
      BY <2>1 DEF TimePasses, LeaseTypes
    <3>2. left[s][id] - 1 \in Absent..MaxTTL
      BY <3>1, Bounds DEF Absent
    <3>3. [left EXCEPT ![s][id] = @ - 1] \in [Shards -> [IDs -> Absent..MaxTTL]]
      BY <3>2 DEF LeaseTypes
    <3>4. QED  BY <2>1, <3>3 DEF TimePasses, genVars
  <2>2. ASSUME NEW s \in Shards, NEW id \in IDs, Renewed(s, id)
        PROVE  /\ [left EXCEPT ![s][id] = MaxTTL] \in [Shards -> [IDs -> Absent..MaxTTL]]
               /\ Changed([left EXCEPT ![s][id] = MaxTTL], attached)
               /\ late' \subseteq late
               /\ UNCHANGED <<now, suffix, issued, pc, req, at, ret, status>>
    <3>1. MaxTTL \in Absent..MaxTTL
      BY Bounds DEF Absent
    <3>2. QED  BY <2>2, <3>1 DEF Renewed, LeaseTypes, genVars
  <2>3. ASSUME NEW s \in Shards, NEW id \in IDs, Attach(s, id)
        PROVE  /\ left \in [Shards -> [IDs -> Absent..MaxTTL]]
               /\ Changed(left, [attached EXCEPT ![s] = id])
               /\ late' \subseteq late
               /\ UNCHANGED <<now, suffix, issued, pc, req, at, ret, status>>
    BY <2>3 DEF Attach, LeaseTypes, genVars
  <2>4. ASSUME NEW c \in late, CallLate(c)
        PROVE  /\ LeftAfter(c.shard, c.req) \in [Shards -> [IDs -> Absent..MaxTTL]]
               /\ \/ Changed(LeftAfter(c.shard, c.req), attached)
                  \/ UNCHANGED <<left, seen>>
               /\ late' \subseteq late
               /\ UNCHANGED <<now, suffix, issued, pc, req, at, ret, status>>
    <3>1. c.shard \in Shards /\ c.req \in Calls
      BY DEF LeaseTypes
    <3>2. LeftAfter(c.shard, c.req) \in [Shards -> [IDs -> Absent..MaxTTL]]
      BY <3>1, LeftAfterType
    <3>3. QED  BY <2>4, <3>2 DEF CallLate, genVars
  <2>5. QED  BY <2>1, <2>2, <2>3, <2>4, <1>1, Zenon
<1>2. left' \in [Shards -> [IDs -> Absent..MaxTTL]]
  BY <1>1, ChangeIsSeen, Zenon DEF LeaseTypes
<1>3. /\ seen' \in [Procs -> [Shards -> SUBSET (Absent..MaxTTL)]]
      /\ \A p \in Procs, s \in Shards : seen[p][s] \subseteq seen'[p][s]
  BY <1>1, ChangeIsSeen, Zenon DEF LeaseTypes
<1>4. LeaseTypes'
  BY <1>1, <1>2, <1>3, Zenon DEF LeaseTypes
<1>5. ASSUME NEW p \in Procs PROVE HandlerInv(p)'
  BY <1>1, <1>3, HandlerStays
<1>6. QED
  BY <1>4, <1>5

\* A request starts from nothing, with an ID.
LEMMA BeginKeepsInv ==
  ASSUME LeaseInv, NEW p \in Procs, NEW q \in Requests, Begin(p, q)
  PROVE  LeaseInv'
<1> USE DEF LeaseInv
<1>1. /\ suffix' \in [Replicas -> Nat] /\ now' = now
      /\ \E c \in Calls : req' = [req EXCEPT ![p] = c]
  <2>1. q \in Calls /\ Host[p] \in Replicas /\ suffix[Host[p]] \in Nat
    BY LeaseAssumption DEF LeaseTypes
  <2>2. ID(suffix[Host[p]] + 1) \in IDs
    <3>1. Era * PerMilli \in Nat \ {0}
      BY GeneratorAssumption
    <3>2. ID(suffix[Host[p]] + 1) \in 0..(Era * PerMilli - 1)
      BY <2>1, <3>1 DEF ID
    <3>3. QED  BY <3>2, LeaseAssumption
  <2>3. [q EXCEPT !.id = ID(suffix[Host[p]] + 1)] \in Calls
    BY <2>1, <2>2 DEF Calls
  <2>4. CASE q.op = "grant" /\ q.id = NoID
    <3>1. /\ suffix' = [suffix EXCEPT ![Host[p]] = @ + 1] /\ now' = now
          /\ req' = [req EXCEPT ![p] = [q EXCEPT !.id = ID(suffix[Host[p]] + 1)]]
      BY <2>4 DEF Begin, Identified, GenNext
    <3>2. suffix' \in [Replicas -> Nat]
      BY <2>1, <3>1 DEF LeaseTypes
    <3>3. QED  BY <2>3, <3>1, <3>2, Zenon
  <2>5. CASE ~(q.op = "grant" /\ q.id = NoID)
    BY <2>1, <2>5 DEF Begin, Identified, genVars, LeaseTypes
  <2>6. QED  BY <2>4, <2>5
<1>2. PICK c \in Calls : req' = [req EXCEPT ![p] = c]
  BY <1>1, Zenon
<1>3. /\ req' \in [Procs -> Calls \cup {Nil}] /\ req'[p] = c /\ c # Nil
      /\ \A x \in Procs \ {p} : req'[x] = req[x]
  BY <1>2, LeaseAssumption DEF LeaseTypes
<1>4. /\ pc' = [pc EXCEPT ![p] = "run"] /\ at' = [at EXCEPT ![p] = 1]
      /\ ret' = [ret EXCEPT ![p] = Nil] /\ status' = [status EXCEPT ![p] = "none"]
      /\ seen' = [seen EXCEPT ![p] = [s \in Shards |-> {left[s][c.id]}]]
      /\ issued' = issued + 1 /\ UNCHANGED <<left, late>>
  BY <1>3 DEF Begin
<1>5. [s \in Shards |-> {left[s][c.id]}] \in [Shards -> SUBSET (Absent..MaxTTL)]
  BY DEF LeaseTypes, Calls
<1>6. LeaseTypes'
  <2>1. seen' \in [Procs -> [Shards -> SUBSET (Absent..MaxTTL)]]
    BY <1>4, <1>5 DEF LeaseTypes
  <2>2. ret' = [x \in Procs |-> ret'[x]] /\ ret'[p] = Nil
        /\ \A x \in Procs \ {p} : ret'[x] = ret[x]
    BY <1>4, Zenon DEF LeaseTypes
  <2>3. /\ pc' \in [Procs -> {"idle", "run"}] /\ at' \in [Procs -> Nat \ {0}]
        /\ status' \in [Procs -> {"none", "ok", "error"}]
        /\ at'[p] = 1 /\ 1 <= N
        /\ \A x \in Procs \ {p} : pc'[x] = pc[x] /\ at'[x] = at[x]
    BY <1>4, Bounds DEF LeaseTypes
  <2>4. \A x \in Procs : pc'[x] = "run" =>
           req'[x] # Nil /\ at'[x] <= N /\ (at'[x] = 1 => ret'[x] = Nil)
    BY <1>3, <2>2, <2>3 DEF LeaseTypes
  <2>5. QED  BY <1>1, <1>3, <1>4, <2>1, <2>2, <2>3, <2>4 DEF LeaseTypes
<1>7. HandlerInv(p)'
  <2>1. pc'[p] = "run" /\ at'[p] - 1 = 0
    BY <1>4 DEF LeaseTypes
  <2>2. 1..(at'[p] - 1) = {} /\ ~(at'[p] - 1 > 0)
    BY <2>1
  <2>3. QED  BY <2>1, <2>2, Zenon DEF HandlerInv, Progress, Reached, ShortestOf
<1>8. ASSUME NEW x \in Procs \ {p} PROVE HandlerInv(x)'
  <2>1. /\ pc'[x] = pc[x] /\ at'[x] = at[x] /\ req'[x] = req[x] /\ ret'[x] = ret[x]
        /\ status'[x] = status[x] /\ seen'[x] = seen[x]
    BY <1>3, <1>4 DEF LeaseTypes
  <2>2. QED  BY <2>1, HandlerStays
<1>9. QED
  BY <1>6, <1>7, <1>8

\* Handlers that end with an error, and calls of theirs that are under way.
LEMMA ErrorKeepsInv ==
  ASSUME LeaseInv, NEW hit \in SUBSET Procs,
         now' \in Nat, suffix' \in [Replicas -> Nat],
         \A p \in hit : pc[p] = "run",
         pc' = [p \in Procs |-> IF p \in hit THEN "idle" ELSE pc[p]],
         status' = [p \in Procs |-> IF p \in hit THEN "error" ELSE status[p]],
         late' \subseteq late \cup UNION {Outstanding(p) : p \in hit},
         UNCHANGED <<left, issued, req, at, ret, seen>>
  PROVE  LeaseInv'
<1> USE DEF LeaseInv
<1>1. ASSUME NEW p \in hit
      PROVE  Outstanding(p) \subseteq [req : Calls, shard : Shards, proc : Procs,
                                       issued : Nat]
  <2>1. /\ pc[p] = "run" /\ p \in Procs /\ issued \in Nat
        /\ req[p] \in Calls \cup {Nil} /\ at[p] \in Nat \ {0}
    BY Zenon DEF LeaseTypes
  <2>2. req[p] # Nil /\ at[p] <= N
    BY <2>1, Zenon DEF LeaseTypes
  <2>3. at[p] \in Shards
    BY <2>1, <2>2, ShardIndex, Zenon
  <2>4. req[p] \in Calls
    BY <2>1, <2>2, Zenon
  <2>5. [req |-> req[p], shard |-> at[p], proc |-> p, issued |-> issued]
           \in [req : Calls, shard : Shards, proc : Procs, issued : Nat]
    BY <2>1, <2>3, <2>4, Zenon
  <2>6. QED  BY <2>5, Zenon DEF Outstanding
<1>2. late' \subseteq [req : Calls, shard : Shards, proc : Procs, issued : Nat]
  BY <1>1 DEF LeaseTypes
<1>3. LeaseTypes'
  BY <1>2 DEF LeaseTypes
<1>4. ASSUME NEW p \in Procs PROVE HandlerInv(p)'
  <2>1. CASE p \in hit
    BY <2>1 DEF HandlerInv
  <2>2. CASE p \notin hit
    <3>1. pc'[p] = pc[p] /\ status'[p] = status[p]
      BY <2>2 DEF LeaseTypes
    <3>2. QED  BY <3>1, HandlerStays
  <2>3. QED  BY <2>1, <2>2
<1>5. QED
  BY <1>3, <1>4, Zenon

\* The answer of one more shard.
LEMMA CallKeepsInv ==
  ASSUME LeaseInv, NEW p \in Procs, Call(p)
  PROVE  LeaseInv'
<1> USE DEF LeaseInv
<1>0. PICK s, q, nl : s = at[p] /\ q = req[p] /\ nl = LeftAfter(s, q)
  BY Zenon
<1>1. /\ pc[p] = "run" /\ Accepts(s, q) /\ Changed(nl, attached)
      /\ ret' = [ret EXCEPT ![p] = Merged(p, s)] /\ at' = [at EXCEPT ![p] = @ + 1]
      /\ IF Last(p) THEN Return(p, "ok") ELSE UNCHANGED <<pc, status>>
      /\ UNCHANGED <<now, suffix, issued, req, late>>
  BY <1>0 DEF Call, genVars
<1>2. q \in Calls /\ s \in Shards /\ s \in Nat \ {0} /\ s <= N
  BY <1>0, <1>1, LeaseAssumption DEF LeaseTypes, Shards
<1>3. nl \in [Shards -> [IDs -> Absent..MaxTTL]]
  BY <1>0, <1>2, LeftAfterType, Zenon
<1>4. /\ left' = nl
      /\ seen' \in [Procs -> [Shards -> SUBSET (Absent..MaxTTL)]]
      /\ \A x \in Procs, t \in Shards : seen[x][t] \subseteq seen'[x][t]
      /\ nl[s][q.id] \in seen'[p][s]
  <2>1. Changed(nl, attached) /\ pc[p] = "run" /\ s \in Shards
    BY <1>1, <1>2, Zenon
  <2>2. /\ left' = nl
        /\ seen' \in [Procs -> [Shards -> SUBSET (Absent..MaxTTL)]]
        /\ \A x \in Procs, t \in Shards : seen[x][t] \subseteq seen'[x][t]
        /\ \A x \in Procs, t \in Shards :
              pc[x] = "run" => nl[t][req[x].id] \in seen'[x][t]
    BY <2>1, <1>3, ChangeIsSeen
  <2>3. QED  BY <1>0, <2>1, <2>2
<1>5. /\ pc' \in [Procs -> {"idle", "run"}] /\ status' \in [Procs -> {"none", "ok", "error"}]
      /\ Last(p) => pc'[p] = "idle" /\ status'[p] = "ok"
      /\ ~Last(p) => pc'[p] = "run" /\ status'[p] = status[p]
      /\ \A x \in Procs \ {p} : pc'[x] = pc[x] /\ status'[x] = status[x]
  BY <1>1, Zenon DEF Return, LeaseTypes
<1>6. /\ at' \in [Procs -> Nat \ {0}] /\ at'[p] = s + 1
      /\ ret' = [x \in Procs |-> ret'[x]] /\ ret'[p] = Merged(p, s)
      /\ \A x \in Procs \ {p} : at'[x] = at[x] /\ ret'[x] = ret[x]
  <2>1. at[p] + 1 \in Nat \ {0}
    BY <1>0, <1>2
  <2>2. at' \in [Procs -> Nat \ {0}] /\ at'[p] = s + 1
    BY <1>0, <1>1, <2>1 DEF LeaseTypes
  <2>3. ret' = [x \in Procs |-> ret'[x]] /\ ret'[p] = Merged(p, s)
    BY <1>1, Zenon DEF LeaseTypes
  <2>4. \A x \in Procs \ {p} : at'[x] = at[x] /\ ret'[x] = ret[x]
    BY <1>1 DEF LeaseTypes
  <2>5. QED  BY <2>2, <2>3, <2>4
<1>7. ~Last(p) => s + 1 <= N
  BY <1>0, <1>2, Bounds DEF Last
<1>8. LeaseTypes'
  <2>1. \A x \in Procs : pc'[x] = "run" =>
           req'[x] # Nil /\ at'[x] <= N /\ (at'[x] = 1 => ret'[x] = Nil)
    <3>1. at'[p] # 1 /\ req'[p] # Nil /\ (~Last(p) => at'[p] <= N)
      BY <1>0, <1>1, <1>2, <1>6, <1>7, LeaseAssumption
    <3>2. QED  BY <1>1, <1>5, <1>6, <3>1 DEF LeaseTypes
  <2>2. left' \in [Shards -> [IDs -> Absent..MaxTTL]]
    BY <1>3, <1>4
  <2>3. QED  BY <1>1, <1>4, <1>5, <1>6, <2>1, <2>2 DEF LeaseTypes
<1>9. ASSUME NEW x \in Procs \ {p} PROVE HandlerInv(x)'
  BY <1>1, <1>4, <1>5, <1>6, HandlerStays, Zenon
<1>10. Progress(p, s - 1) /\ s - 1 \in 0..N
  <2>1. s - 1 \in 0..N
    BY <1>2, Bounds
  <2>2. QED  BY <1>0, <1>1, <2>1 DEF HandlerInv
<1>11. Reached(p, s)'
  <2>1. \A t \in 1..(s - 1) : /\ q.op = "grant" => q.ttl \in seen'[p][t]
                              /\ q.op = "revoke" => Absent \in seen'[p][t]
    <3>1. \A t \in 1..(s - 1) : t \in Shards
      BY <1>2, LeaseAssumption DEF Shards
    <3>2. QED  BY <1>0, <1>4, <1>10, <3>1 DEF Progress, Reached
  <2>2. /\ q.op = "grant" => q.ttl \in seen'[p][s]
        /\ q.op = "revoke" => Absent \in seen'[p][s]
    <3>1. q.op = "grant" => nl[s][q.id] = q.ttl
      BY <1>0, <1>2 DEF LeftAfter, LeaseTypes, Calls
    <3>2. q.op = "revoke" => nl[s][q.id] = Absent
      BY <1>0, <1>2 DEF LeftAfter, LeaseTypes, Calls
    <3>3. QED  BY <1>4, <3>1, <3>2
  <2>3. \A t \in 1..s : t \in 1..(s - 1) \/ t = s
    BY <1>2
  <2>4. QED  BY <2>1, <2>2, <2>3, <1>0, <1>1, Zenon DEF Reached
<1>12. ShortestOf(p, s)'
  <2>1. SUFFICES ASSUME q.op = "ttl"
                 PROVE  /\ ret'[p] \in [ttl : Absent..MaxTTL, keys : SUBSET Shards]
                        /\ \A t \in 1..s : \E v \in seen'[p][t] : v >= ret'[p].ttl
                        /\ \E t \in 1..s : \E v \in seen'[p][t] : v <= ret'[p].ttl
    BY <1>0, <1>1 DEF ShortestOf
  <2> DEFINE now_ == left[s][q.id]
             keys == IF attached[s] = q.id THEN {s} ELSE {}
  <2>2. now_ \in Absent..MaxTTL /\ now_ \in seen'[p][s] /\ keys \in SUBSET Shards
    <3>1. nl = left
      BY <1>0, <2>1 DEF LeftAfter
    <3>2. QED  BY <1>2, <1>4, <3>1 DEF LeaseTypes, Calls
  <2>3. CASE s = 1
    <3>0. ret[p] = Nil
      BY <1>0, <1>1, <2>3, Zenon DEF LeaseTypes
    <3>1. ret'[p] = [ttl |-> now_, keys |-> keys]
      <4>1. ret'[p] = Merged(p, s) /\ q = req[p]
        BY <1>0, <1>6
      <4>2. QED  BY <2>1, <3>0, <4>1 DEF Merged
    <3>2. 1..s = {s}
      BY <2>3
    <3>3. QED  BY <2>2, <3>1, <3>2 DEF Absent
  <2>4. CASE s # 1
    <3>1. /\ ret[p] \in [ttl : Absent..MaxTTL, keys : SUBSET Shards]
          /\ \A t \in 1..(s - 1) : \E v \in seen[p][t] : v >= ret[p].ttl
          /\ \E t \in 1..(s - 1) : \E v \in seen[p][t] : v <= ret[p].ttl
      BY <1>0, <1>2, <1>10, <2>1, <2>4 DEF Progress, ShortestOf
    <3>2. ret[p] # Nil
      BY <3>1, LeaseAssumption DEF Shards
    <3>3. ret'[p] = [ttl |-> Shortest(ret[p].ttl, now_), keys |-> Keys(ret[p].keys, keys)]
      BY <1>0, <1>6, <2>1, <3>2, Zenon DEF Merged
    <3>4. /\ ret'[p].ttl \in Absent..MaxTTL /\ ret'[p].ttl <= now_
          /\ ret'[p].ttl <= ret[p].ttl
          /\ ret'[p].ttl = now_ \/ ret'[p].ttl = ret[p].ttl
      <4>1. PICK a \in Absent..MaxTTL : a = ret[p].ttl
        BY <3>1, Zenon
      <4>2. ret'[p].ttl = Shortest(a, now_)
        BY <3>3, <4>1
      <4>3. Shortest(a, now_) \in {a, now_} /\ Shortest(a, now_) <= a
            /\ Shortest(a, now_) <= now_
        BY <2>2, <4>1, Bounds DEF Shortest, Absent
      <4>4. QED  BY <2>2, <4>1, <4>2, <4>3, Zenon
    <3>5. ret'[p] \in [ttl : Absent..MaxTTL, keys : SUBSET Shards]
      BY <2>2, <3>1, <3>3, <3>4 DEF Keys
    <3>6. \A t \in 1..(s - 1) : t \in Shards /\ seen'[p][t] \subseteq Absent..MaxTTL
                               /\ seen[p][t] \subseteq seen'[p][t]
      <4>1. \A t \in 1..(s - 1) : t \in Shards
        BY <1>2, LeaseAssumption DEF Shards
      <4>2. QED  BY <1>4, <4>1
    <3>7. \A t \in 1..(s - 1) : \E v \in seen'[p][t] : v >= ret'[p].ttl
      <4>1. TAKE t \in 1..(s - 1)
      <4>2. PICK v \in seen[p][t] : v >= ret[p].ttl
        BY <3>1
      <4>3. v \in seen'[p][t] /\ v \in Absent..MaxTTL
        BY <3>6, Zenon
      <4>4. v >= ret'[p].ttl
        BY <3>1, <3>4, <4>2, <4>3, Bounds DEF Absent
      <4>5. QED  BY <4>3, <4>4
    <3>8. \E t \in 1..s : \E v \in seen'[p][t] : v <= ret'[p].ttl
      <4>1. CASE ret'[p].ttl = now_
        BY <2>2, <1>2, <4>1 DEF Absent
      <4>2. CASE ret'[p].ttl = ret[p].ttl
        <5>1. PICK t \in 1..(s - 1) : \E v \in seen[p][t] : v <= ret[p].ttl
          BY <3>1
        <5>2. t \in 1..s
          BY <1>2
        <5>3. QED  BY <3>6, <4>2, <5>1, <5>2
      <4>3. QED  BY <3>4, <4>1, <4>2
    <3>9. \A t \in 1..s : t \in 1..(s - 1) \/ t = s
      BY <1>2
    <3>10. now_ >= ret'[p].ttl
      BY <2>2, <3>4, Bounds DEF Absent
    <3>11. QED  BY <2>2, <3>5, <3>7, <3>8, <3>9, <3>10
  <2>5. QED  BY <2>3, <2>4, Zenon
<1>13. HandlerInv(p)'
  <2>1. CASE Last(p)
    <3>1. pc'[p] = "idle" /\ (req[p].op # "list" => s = N)
      BY <1>0, <1>5, <2>1, Zenon DEF Last
    <3>2. QED  BY <1>1, <1>11, <1>12, <3>1, Zenon DEF HandlerInv, Progress
  <2>2. CASE ~Last(p)
    <3>1. pc'[p] = "run" /\ at'[p] - 1 = s
      BY <1>2, <1>5, <1>6, <2>2
    <3>2. QED  BY <1>11, <1>12, <3>1 DEF HandlerInv, Progress
  <2>3. QED  BY <2>1, <2>2
<1>14. QED
  BY <1>8, <1>9, <1>13

\* Steps of the clock alone.
LEMMA SameKeepsInv ==
  ASSUME LeaseInv, now' \in Nat, suffix' = suffix,
         UNCHANGED <<left, issued, pc, req, at, ret, status, late, seen>>
  PROVE  LeaseInv'
<1>1. LeaseTypes'
  BY Zenon DEF LeaseInv, LeaseTypes
<1>2. ASSUME NEW p \in Procs PROVE HandlerInv(p)'
  BY HandlerStays DEF LeaseInv
<1>3. QED
  BY <1>1, <1>2 DEF LeaseInv

\* Every step keeps the invariant.
LEMMA NextKeepsInv ==
  ASSUME LeaseInv, [Next]_vars
  PROVE  LeaseInv'
<1>1. CASE \E s \in Shards, id \in IDs :
             TimePasses(s, id) \/ Renewed(s, id) \/ Attach(s, id)
  BY <1>1, ShardStepKeepsInv
<1>2. CASE \E c \in late : CallLate(c)
  BY <1>2, ShardStepKeepsInv
<1>3. ASSUME NEW p \in Procs, NEW q \in Requests, Begin(p, q)
      PROVE  LeaseInv'
  BY <1>3, BeginKeepsInv
<1>4. ASSUME NEW p \in Procs, Call(p)
      PROVE  LeaseInv'
  BY <1>4, CallKeepsInv
<1>5. ASSUME NEW p \in Procs, CallRefused(p) \/ CallFails(p)
      PROVE  LeaseInv'
  <2>1. /\ pc[p] = "run" /\ {p} \in SUBSET Procs /\ suffix' = suffix /\ now' = now
        /\ pc' = [pc EXCEPT ![p] = "idle"] /\ status' = [status EXCEPT ![p] = "error"]
        /\ late' \subseteq late \cup Outstanding(p)
        /\ UNCHANGED <<left, issued, req, at, ret, seen>>
    BY <1>5, Zenon DEF CallRefused, CallFails, OnError, Return, genVars
  <2>2. /\ pc' = [x \in Procs |-> IF x \in {p} THEN "idle" ELSE pc[x]]
        /\ status' = [x \in Procs |-> IF x \in {p} THEN "error" ELSE status[x]]
        /\ suffix' \in [Replicas -> Nat] /\ now' \in Nat
    BY <2>1, Zenon DEF LeaseInv, LeaseTypes
  <2>3. Outstanding(p) = UNION {Outstanding(x) : x \in {p}}
    OBVIOUS
  <2>4. late' \subseteq late \cup UNION {Outstanding(x) : x \in {p}}
    BY <2>1, <2>3
  <2>5. \A x \in {p} : pc[x] = "run"
    BY <2>1
  <2>6. QED  BY <2>1, <2>2, <2>4, <2>5, ErrorKeepsInv, Zenon
<1>6. CASE Elapse /\ UNCHANGED leaseVars
  <2>1. /\ now' \in Nat /\ suffix' = suffix
        /\ UNCHANGED <<left, issued, pc, req, at, ret, status, late, seen>>
    BY <1>6 DEF Elapse, leaseVars, LeaseInv, LeaseTypes
  <2>2. QED  BY <2>1, SameKeepsInv
<1>7. ASSUME NEW r \in Replicas, Restart(r)
      PROVE  LeaseInv'
  <2>1. PICK hit : hit = {p \in Procs : Host[p] = r /\ pc[p] = "run"}
    BY Zenon
  <2>2. /\ pc' = [p \in Procs |-> IF p \in hit THEN "idle" ELSE pc[p]]
        /\ status' = [p \in Procs |-> IF p \in hit THEN "error" ELSE status[p]]
        /\ late' \subseteq late \cup UNION {Outstanding(p) : p \in hit}
        /\ UNCHANGED <<left, issued, req, at, ret, seen>>
    BY <1>7, <2>1, Zenon DEF Restart
  <2>3. suffix' \in [Replicas -> Nat] /\ now' \in Nat
    <3>1. suffix' = [suffix EXCEPT ![r] = NewGenerator(now + 1)] /\ now' = now + 1
      BY <1>7 DEF Restart, GenRestart
    <3>2. NewGenerator(now + 1) \in Nat
      BY GeneratorAssumption DEF NewGenerator, LeaseInv, LeaseTypes
    <3>3. QED  BY <3>1, <3>2 DEF LeaseInv, LeaseTypes
  <2>4. hit \in SUBSET Procs /\ \A p \in hit : pc[p] = "run"
    BY <2>1
  <2>5. QED  BY <2>2, <2>3, <2>4, ErrorKeepsInv
<1>8. CASE UNCHANGED vars
  <2>1. /\ now' \in Nat /\ suffix' = suffix
        /\ UNCHANGED <<left, issued, pc, req, at, ret, status, late, seen>>
    BY <1>8 DEF vars, genVars, leaseVars, LeaseInv, LeaseTypes
  <2>2. QED  BY <2>1, SameKeepsInv
<1>9. QED
  BY <1>1, <1>2, <1>3, <1>4, <1>5, <1>6, <1>7, <1>8 DEF Next

\* No lease has been asked for at first.
LEMMA InitHasInv ==
  ASSUME Init
  PROVE  LeaseInv
<1>1. now \in Nat /\ suffix = [r \in Replicas |-> NewGenerator(now)]
  BY GeneratorAssumption DEF Init, GenInit
<1>2. NewGenerator(now) \in Nat
  BY <1>1, GeneratorAssumption DEF NewGenerator
<1>3. Absent \in Absent..MaxTTL
  BY Bounds DEF Absent
<1>4. LeaseTypes
  BY <1>1, <1>2, <1>3 DEF Init, LeaseTypes
<1>5. \A p \in Procs : pc[p] = "idle" /\ status[p] = "none"
  BY DEF Init
<1>6. QED
  BY <1>4, <1>5 DEF LeaseInv, HandlerInv

\* A LeaseGrant or LeaseRevoke that succeeds has been executed by every shard, for
\* any number of shards and handlers, whatever fails, is retried or restarted.
THEOREM SuccessReachesEveryShard == Spec => []LeaseOpsReachEveryShard
<1>1. LeaseInv => LeaseOpsReachEveryShard
  <2>1. SUFFICES ASSUME LeaseInv, NEW p \in Procs, NEW s \in Shards
                 PROVE  /\ Done(p, "grant") => req[p].ttl \in seen[p][s]
                        /\ Done(p, "revoke") => Absent \in seen[p][s]
    BY DEF LeaseOpsReachEveryShard
  <2>2. QED  BY <2>1 DEF LeaseInv, HandlerInv, Done, Progress, Reached, Shards
<1>2. QED
  BY <1>1, InitHasInv, NextKeepsInv, PTL DEF Spec

\* LeaseTimeToLive reports the TTL of the shortest-lived shard, for any number of
\* shards: "alive" is never said of a lease that a shard has lost for good.
THEOREM ReportedTTLIsTheShortest == Spec => []TTLIsTheShortest
<1>1. LeaseInv => TTLIsTheShortest
  <2>1. SUFFICES ASSUME LeaseInv, NEW p \in Procs, Done(p, "ttl")
                 PROVE  /\ \A s \in Shards : \E t \in seen[p][s] : t >= ret[p].ttl
                        /\ \E s \in Shards : \E t \in seen[p][s] : t <= ret[p].ttl
    BY DEF TTLIsTheShortest
  <2>2. Progress(p, N) /\ N > 0
    BY <2>1, LeaseAssumption DEF LeaseInv, HandlerInv, Done
  <2>3. QED  BY <2>1, <2>2 DEF Done, Progress, ShortestOf, Shards
<1>2. QED
  BY <1>1, InitHasInv, NextKeepsInv, PTL DEF Spec

-----------------------------------------------------------------------------
(***************************************************************************)
(* The keys that LeaseTimeToLive collects: those of the shards it has been *)
(* to, as far as they were attached to the lease all the time.             *)
(***************************************************************************)
KeysCollected(p) ==
  /\ pc[p] = "run" =>
       \A s \in kept[p] : /\ attached[s] = req[p].id
                          /\ req[p].op = "ttl" /\ s < at[p] => s \in ret[p].keys
  /\ Done(p, "ttl") => kept[p] \subseteq ret[p].keys

KeysInv ==
  kept \in [Procs -> SUBSET Shards] /\ \A p \in Procs : KeysCollected(p)

\* A handler that a step leaves alone, while keys are detached.
LEMMA KeysStay ==
  ASSUME KeysInv, NEW p \in Procs,
         req'[p] = req[p], at'[p] = at[p], ret'[p] = ret[p],
         \/ pc'[p] = pc[p] /\ status'[p] = status[p]
         \/ pc'[p] = "idle" /\ status'[p] = "error",
         \/ kept'[p] = kept[p] /\ attached' = attached
         \/ kept'[p] = {s \in kept[p] : attached'[s] = req[p].id}
  PROVE  KeysCollected(p)'
  BY Zenon DEF KeysInv, KeysCollected, Done

LEMMA ChangedKeepsTypes ==
  ASSUME KeysInv, NEW nl, NEW na, Changed(nl, na)
  PROVE  /\ kept' \in [Procs -> SUBSET Shards]
         /\ \A p \in Procs : kept'[p] = {s \in kept[p] : attached'[s] = req[p].id}
  BY Zenon DEF KeysInv, Changed

\* The keys of one more shard.
LEMMA CallCollectsKeys ==
  ASSUME LeaseInv, KeysInv, NEW p \in Procs, Call(p)
  PROVE  KeysCollected(p)'
<1>1. /\ pc[p] = "run" /\ req' = req
      /\ kept'[p] = {s \in kept[p] : attached'[s] = req[p].id}
      /\ at'[p] = at[p] + 1 /\ ret'[p] = Merged(p, at[p])
      /\ ~Last(p) => pc'[p] = "run"
  BY DEF Call, Changed, Return, LeaseInv, LeaseTypes
<1>2. at[p] \in Nat \ {0} /\ at[p] <= N /\ kept[p] \subseteq Shards
  BY <1>1 DEF LeaseInv, LeaseTypes, KeysInv
<1>3. ASSUME req[p].op = "ttl", NEW s \in kept[p], s <= at[p]
      PROVE  s \in ret'[p].keys
  <2>1. attached[s] = req[p].id /\ (s < at[p] => s \in ret[p].keys) /\ s \in Nat \ {0}
    BY <1>1, <1>2, <1>3, LeaseAssumption DEF KeysInv, KeysCollected, Shards
  <2>2. CASE at[p] = 1
    <3>1. ret[p] = Nil /\ s = at[p]
      BY <1>1, <1>3, <2>1, <2>2 DEF LeaseInv, LeaseTypes
    <3>2. QED  BY <1>1, <1>3, <2>1, <3>1 DEF Merged
  <2>3. CASE at[p] # 1
    <3>1. ret[p] \in [ttl : Absent..MaxTTL, keys : SUBSET Shards]
      <4>1. at[p] - 1 > 0
        BY <1>2, <2>3
      <4>2. ShortestOf(p, at[p] - 1)
        BY <1>1, Zenon DEF LeaseInv, HandlerInv, Progress
      <4>3. QED  BY <1>3, <4>1, <4>2, Zenon DEF ShortestOf
    <3>2. ret[p] # Nil
      BY <3>1, LeaseAssumption DEF Shards
    <3>3. ret'[p].keys = ret[p].keys \cup (IF attached[at[p]] = req[p].id THEN {at[p]} ELSE {})
      BY <1>1, <1>3, <3>2 DEF Merged, Keys
    <3>4. s < at[p] \/ s = at[p]
      BY <1>2, <1>3, <2>1
    <3>5. QED  BY <2>1, <3>3, <3>4, Zenon
  <2>4. QED  BY <2>2, <2>3, Zenon
<1>4. \A s \in kept'[p] : s \in kept[p] /\ s \in Nat /\ s <= N /\ (s < at[p] + 1 => s <= at[p])
  BY <1>1, <1>2, LeaseAssumption DEF Shards
<1>5. req[p].op = "ttl" /\ pc'[p] = "idle" => at[p] = N
  BY <1>1 DEF Last
<1>6. QED
  BY <1>1, <1>3, <1>4, <1>5, Zenon DEF KeysCollected, Done

LEMMA NextKeepsKeys ==
  ASSUME LeaseInv, KeysInv, [Next]_vars
  PROVE  KeysInv'
<1> USE DEF KeysInv
<1>1. CASE \/ \E s \in Shards, id \in IDs :
                TimePasses(s, id) \/ Renewed(s, id) \/ Attach(s, id)
           \/ \E c \in late : CallLate(c)
  <2>1. /\ UNCHANGED <<pc, req, at, ret, status>>
        /\ (\E nl, na : Changed(nl, na)) \/ UNCHANGED <<attached, kept>>
    BY <1>1, Zenon DEF TimePasses, Renewed, Attach, CallLate
  <2>2. /\ kept' \in [Procs -> SUBSET Shards]
        /\ \A p \in Procs : \/ kept'[p] = kept[p] /\ attached' = attached
                            \/ kept'[p] = {s \in kept[p] : attached'[s] = req[p].id}
    BY <2>1, ChangedKeepsTypes, Zenon
  <2>3. QED  BY <2>1, <2>2, KeysStay
<1>2. ASSUME NEW p \in Procs, NEW q \in Requests, Begin(p, q)
      PROVE  KeysInv'
  <2>1. /\ pc' = [pc EXCEPT ![p] = "run"] /\ at' = [at EXCEPT ![p] = 1]
        /\ ret' = [ret EXCEPT ![p] = Nil] /\ status' = [status EXCEPT ![p] = "none"]
        /\ kept' = [kept EXCEPT ![p] = {s \in Shards : attached[s] = req'[p].id}]
        /\ attached' = attached /\ \A x \in Procs \ {p} : req'[x] = req[x]
    BY <1>2 DEF Begin, Identified, LeaseInv, LeaseTypes
  <2>2. kept' \in [Procs -> SUBSET Shards] /\ pc'[p] = "run" /\ at'[p] = 1
        /\ kept'[p] = {s \in Shards : attached[s] = req'[p].id}
    BY <2>1 DEF LeaseInv, LeaseTypes
  <2>3. KeysCollected(p)'
    BY <2>1, <2>2 DEF KeysCollected, Done, Shards
  <2>4. ASSUME NEW x \in Procs \ {p} PROVE KeysCollected(x)'
    <3>1. /\ pc'[x] = pc[x] /\ at'[x] = at[x] /\ ret'[x] = ret[x] /\ kept'[x] = kept[x]
          /\ status'[x] = status[x]
      BY <2>1 DEF LeaseInv, LeaseTypes
    <3>2. QED  BY <2>1, <3>1, KeysStay
  <2>5. QED  BY <2>2, <2>3, <2>4
<1>3. ASSUME NEW p \in Procs, Call(p)
      PROVE  KeysInv'
  <2>1. KeysCollected(p)'
    BY <1>3, CallCollectsKeys
  <2>2. /\ kept' \in [Procs -> SUBSET Shards] /\ req' = req
        /\ \A x \in Procs : kept'[x] = {s \in kept[x] : attached'[s] = req[x].id}
    BY <1>3, ChangedKeepsTypes, Zenon DEF Call
  <2>3. ASSUME NEW x \in Procs \ {p} PROVE KeysCollected(x)'
    <3>1. pc'[x] = pc[x] /\ at'[x] = at[x] /\ ret'[x] = ret[x] /\ status'[x] = status[x]
      BY <1>3 DEF Call, Return, LeaseInv, LeaseTypes
    <3>2. QED  BY <2>2, <3>1, KeysStay
  <2>4. QED  BY <2>1, <2>2, <2>3
<1>4. CASE \/ \E p \in Procs : CallRefused(p) \/ CallFails(p)
           \/ \E r \in Replicas : Restart(r)
           \/ Elapse /\ UNCHANGED leaseVars
           \/ UNCHANGED vars
  <2>1. /\ UNCHANGED <<req, at, ret, kept, attached>>
        /\ \A x \in Procs : \/ pc'[x] = pc[x] /\ status'[x] = status[x]
                            \/ pc'[x] = "idle" /\ status'[x] = "error"
    BY <1>4 DEF CallRefused, CallFails, OnError, Return, Restart, leaseVars, vars,
                LeaseInv, LeaseTypes
  <2>2. QED  BY <2>1, KeysStay, Zenon
<1>5. QED
  BY <1>1, <1>2, <1>3, <1>4, Zenon DEF Next

\* LeaseTimeToLive, whose ret.Keys grows by the keys of each shard: a key that stays
\* attached while the handler goes from shard to shard is in the answer.
THEOREM ReportedKeysAreAll == Spec => []TTLListsAllKeys
<1>1. Init => LeaseInv /\ KeysInv
  BY InitHasInv, Zenon DEF Init, KeysInv, KeysCollected, Done
<1>2. LeaseInv /\ KeysInv /\ [Next]_vars => LeaseInv' /\ KeysInv'
  BY NextKeepsInv, NextKeepsKeys
<1>3. KeysInv => TTLListsAllKeys
  BY DEF KeysInv, KeysCollected, TTLListsAllKeys
<1>4. QED
  BY <1>1, <1>2, <1>3, PTL DEF Spec
-----------------------------------------------------------------------------
\* LeaseGrant uses the generator as IDGenerator says: with one replica the IDs that
\* it gives to grants without one are unique.
THEOREM GeneratedLeaseIDsAreUnique ==
  ASSUME NEW r, Replicas = {r}
  PROVE  Spec => []NextIsUnique
<1>1. Init => GenInit
  BY DEF Init
<1>2. [Next]_vars => [GenStep]_genVars
  <2>1. SUFFICES ASSUME [Next]_vars PROVE GenStep \/ UNCHANGED genVars
    OBVIOUS
  <2>2. ASSUME NEW p \in Procs, NEW q \in Requests, Begin(p, q)
        PROVE  GenStep \/ UNCHANGED genVars
    <3>1. Host[p] \in Replicas
      BY LeaseAssumption
    <3>2. GenNext(Host[p]) \/ UNCHANGED genVars
      BY <2>2 DEF Begin, Identified
    <3>3. QED  BY <3>1, <3>2 DEF GenStep
  <2>3. ASSUME NEW s \in Shards, NEW id \in IDs,
               TimePasses(s, id) \/ Renewed(s, id) \/ Attach(s, id)
        PROVE  UNCHANGED genVars
    BY <2>3 DEF TimePasses, Renewed, Attach
  <2>4. ASSUME NEW c \in late, CallLate(c) PROVE UNCHANGED genVars
    BY <2>4, Zenon DEF CallLate
  <2>5. ASSUME NEW p \in Procs, Call(p) \/ CallRefused(p) \/ CallFails(p)
        PROVE  UNCHANGED genVars
    BY <2>5, Zenon DEF Call, CallRefused, CallFails
  <2>6. ASSUME NEW x \in Replicas, Restart(x) PROVE GenStep
    BY <2>6 DEF Restart, GenStep
  <2>7. CASE Elapse
    BY <2>7 DEF GenStep
  <2>8. CASE UNCHANGED vars
    BY <2>8 DEF vars
  <2>9. QED  BY <2>1, <2>2, <2>3, <2>4, <2>5, <2>6, <2>7, <2>8 DEF Next
<1>3. Spec => GenSpec
  BY <1>1, <1>2, PTL DEF Spec, GenSpec
<1>4. GenSpec => []NextIsUnique
  BY IDsAreUnique
<1>5. QED
  BY <1>3, <1>4, PTL
-----------------------------------------------------------------------------
(***************************************************************************)
(* LegacyKeepAlive, for any number of shards and of requests.  Of the      *)
(* requests sent, Len(delivered) are answered, one more is being served    *)
(* unless Run is in its select, one may be held by the receiver, and the   *)
(* others are in inbox.  Every shard has been asked, and its answer read,  *)
(* once for every answered request; the index of Run's loops tells for     *)
(* which shards this holds of the request being served as well.            *)
(***************************************************************************)
KATypes ==
  /\ client \in {"open", "closed", "gone"} /\ receiver \in {"recv", "offer", "done"}
  /\ run \in {"select", "send", "recv", "reply", "done"} /\ index \in Shards
  /\ sent \in Seq(Leases) /\ inbox \in Seq(Leases)
  /\ delivered \in Seq(Responses) /\ response \in Responses \cup {None}
  /\ up \in [Shards -> Seq(Leases)] /\ down \in [Shards -> Seq(Responses)]
  /\ answered \in [Shards -> Seq(TTLs)]

Serving == IF run \in {"send", "recv", "reply"} THEN 1 ELSE 0

Offered == IF receiver = "offer" /\ held \in Leases THEN 1 ELSE 0

\* What Run has taken from the receiver is what the client sent, in order.
RequestsInHand ==
  /\ run # "done" => Len(delivered) + Serving <= Len(sent) /\ result = None
  /\ Serving = 1 => next = sent[Len(delivered) + 1]

\* So is what it may take next.
RequestsToCome ==
  run # "done" /\ receiver # "done" =>
    /\ Len(sent) = Len(delivered) + Serving + Offered + Len(inbox)
    /\ Offered = 1 => held = sent[Len(delivered) + Serving + 1]
    /\ \A i \in 1..Len(inbox) : inbox[i] = sent[Len(delivered) + Serving + Offered + i]
    /\ receiver = "offer" => held \in Leases \cup {EOF, Failure}
    /\ receiver = "offer" /\ held = EOF => client # "open" /\ inbox = <<>>

AskedNow(s) == IF (run = "send" /\ s < index) \/ run \in {"recv", "reply"} THEN 1 ELSE 0

ReadNow(s) == IF (run = "recv" /\ s < index) \/ run = "reply" THEN 1 ELSE 0

\* The answers on the way from a shard are to the requests that Run reads next.
ShardInStep(s) ==
  /\ Len(answered[s]) + Len(up[s]) = Len(delivered) + AskedNow(s)
  /\ Len(answered[s]) = Len(delivered) + ReadNow(s) + Len(down[s])
  /\ \A i \in 1..Len(down[s]) :
        down[s][i].ttl = answered[s][Len(delivered) + ReadNow(s) + i]

ShardsInStep == run # "done" => \A s \in Shards : ShardInStep(s)

\* The variable response of Run, over the shards that have been read.
ShortestSoFar ==
  /\ run = "recv" /\ index = 1 => response = None
  /\ (run = "recv" /\ index # 1) \/ run = "reply" =>
       /\ response \in Responses /\ response.id = next
       /\ \A s \in Shards :
             ReadNow(s) = 1 => response.ttl <= answered[s][Len(delivered) + 1]
       /\ \E s \in Shards :
             ReadNow(s) = 1 /\ response.ttl = answered[s][Len(delivered) + 1]

KAInv ==
  /\ KATypes /\ RequestsInHand /\ RequestsToCome /\ ShardsInStep /\ ShortestSoFar
  /\ ResponsesAreTheShortest /\ NilReturnIsComplete

\* Append, Head and Tail, index by index.
LEMMA AppendFacts ==
  ASSUME NEW S, NEW s \in Seq(S), NEW x \in S
  PROVE  /\ Append(s, x) \in Seq(S) /\ Len(Append(s, x)) = Len(s) + 1
         /\ \A i \in 1..Len(s) : Append(s, x)[i] = s[i]
         /\ Append(s, x)[Len(s) + 1] = x
  OBVIOUS

LEMMA TailFacts ==
  ASSUME NEW S, NEW s \in Seq(S), s # <<>>
  PROVE  /\ Tail(s) \in Seq(S) /\ Len(s) \in Nat \ {0} /\ Len(Tail(s)) = Len(s) - 1
         /\ \A i \in 1..(Len(s) - 1) : Tail(s)[i] = s[i + 1]
         /\ Head(s) = s[1] /\ Head(s) \in S
  OBVIOUS

LEMMA EmptySequence ==
  ASSUME NEW S
  PROVE  <<>> \in Seq(S) /\ Len(<<>>) = 0
  OBVIOUS

LEMMA ElementFact ==
  ASSUME NEW S, NEW s \in Seq(S), NEW i \in 1..Len(s)
  PROVE  s[i] \in S
  OBVIOUS

\* Counting a message that goes from one queue to another.
LEMMA OneOver ==
  ASSUME NEW a \in Nat, NEW b \in Nat
  PROVE  /\ (a + 1) + (b - 1) = a + b /\ a + 0 + b = a + 1 + (b - 1)
         /\ a + 1 \in 1..(a + 1 + b) /\ a + 1 <= a + 1 + b
  OBVIOUS

LEMMA OneMore ==
  ASSUME NEW a \in Nat, NEW b \in Nat
  PROVE  a + (b + 1) = (a + b) + 1 /\ (a + 0) + 1 = a + 1
  OBVIOUS

\* No request has been sent, and no shard asked.
LEMMA KAInvInit == ASSUME GoodConstants PROVE KeepAliveInit => KAInv
<1>1. SUFFICES ASSUME KeepAliveInit PROVE KAInv
  OBVIOUS
<1> USE <1>1 DEF KeepAliveInit
<1>2. 1 \in Shards
  BY DEF GoodConstants, Shards
<1>3. KATypes
  BY <1>2, EmptySequence DEF KATypes
<1>4. Serving = 0 /\ Offered = 0
  BY DEF Serving, Offered
<1>5. RequestsInHand /\ RequestsToCome
  BY <1>4 DEF RequestsInHand, RequestsToCome
<1>6. ASSUME NEW s \in Shards PROVE ShardInStep(s)
  <2>1. AskedNow(s) = 0 /\ ReadNow(s) = 0
    BY DEF AskedNow, ReadNow
  <2>2. QED  BY <2>1 DEF ShardInStep
<1>7. ShortestSoFar
  BY DEF ShortestSoFar
<1>8. ResponsesAreTheShortest
  BY DEF ResponsesAreTheShortest
<1>9. NilReturnIsComplete
  BY DEF GoodConstants, NilReturnIsComplete
<1>10. QED
  BY <1>3, <1>5, <1>6, <1>7, <1>8, <1>9, Zenon DEF KAInv, ShardsInStep

\* Run returns with an error: what was delivered stays right.
LEMMA KAErrorKeepsInv ==
  ASSUME GoodConstants, KAInv, run' = "done", result' # "OK",
         receiver' \in {"recv", "offer", "done"}, down' \in [Shards -> Seq(Responses)],
         UNCHANGED <<client, sent, inbox, held, index, up, response, delivered, answered>>
  PROVE  KAInv'
<1>1. KATypes'
  BY Zenon DEF KAInv, KATypes
<1>2. Serving' = 0
  BY Zenon DEF Serving
<1>3. RequestsInHand' /\ RequestsToCome' /\ ShardsInStep' /\ ShortestSoFar'
  <2>1. 0 # 1
    OBVIOUS
  <2>2. QED  BY <1>2, <2>1, Zenon DEF RequestsInHand, RequestsToCome, ShardsInStep, ShortestSoFar
<1>4. ResponsesAreTheShortest' /\ NilReturnIsComplete'
  BY Zenon DEF KAInv, ResponsesAreTheShortest, NilReturnIsComplete
<1>5. QED  BY <1>1, <1>3, <1>4, Zenon DEF KAInv

\* Run and the shards do nothing: their part of the invariant stays.
LEMMA KAShardsStay ==
  ASSUME KAInv, UNCHANGED <<run, index, next, up, down, response, delivered, answered>>
  PROVE  ShardsInStep' /\ ShortestSoFar' /\ Serving' = Serving
<1>1. Serving' = Serving
  BY Zenon DEF Serving
<1>2. ASSUME NEW s \in Shards
      PROVE  AskedNow(s)' = AskedNow(s) /\ ReadNow(s)' = ReadNow(s)
  BY Zenon DEF AskedNow, ReadNow
<1>3. ShardsInStep'
  BY <1>2, Zenon DEF KAInv, ShardsInStep, ShardInStep
<1>4. ShortestSoFar'
  BY <1>2, Zenon DEF KAInv, ShortestSoFar
<1>5. QED  BY <1>1, <1>3, <1>4

\* A request joins the end of inbox.
LEMMA ClientSendsKeepsInv ==
  ASSUME GoodConstants, KAInv, NEW id \in Leases, ClientSends(id)
  PROVE  KAInv'
<1>1. /\ client = "open" /\ run # "done"
      /\ sent' = Append(sent, id) /\ inbox' = Append(inbox, id)
      /\ UNCHANGED <<receiver, held, run, index, next, response, delivered, result,
                     client, up, down, answered>>
  BY Zenon DEF ClientSends, proxyVars
<1>2. sent \in Seq(Leases) /\ inbox \in Seq(Leases) /\ delivered \in Seq(Responses)
  BY Zenon DEF KAInv, KATypes
<1>3. /\ sent' \in Seq(Leases) /\ Len(sent') = Len(sent) + 1
      /\ \A i \in 1..Len(sent) : sent'[i] = sent[i]
      /\ sent'[Len(sent) + 1] = id
  BY <1>1, <1>2, AppendFacts
<1>4. /\ inbox' \in Seq(Leases) /\ Len(inbox') = Len(inbox) + 1
      /\ \A i \in 1..Len(inbox) : inbox'[i] = inbox[i]
      /\ inbox'[Len(inbox) + 1] = id
  BY <1>1, <1>2, AppendFacts
<1>5. Len(sent) \in Nat /\ Len(inbox) \in Nat /\ Len(delivered) \in Nat
  BY <1>2
<1>6. /\ Serving' = Serving /\ Offered' = Offered
      /\ Serving \in {0, 1} /\ Offered \in {0, 1}
  BY <1>1, Zenon DEF Serving, Offered
<1>7. KATypes'
  BY <1>1, <1>3, <1>4, Zenon DEF KAInv, KATypes
<1>8. RequestsInHand'
  <2>1. Len(delivered) + Serving <= Len(sent) /\ result = None
    BY <1>1, Zenon DEF KAInv, RequestsInHand
  <2>2. Len(delivered) + Serving <= Len(sent')
    BY <2>1, <1>3, <1>5, <1>6
  <2>3. ASSUME Serving = 1 PROVE next = sent'[Len(delivered) + 1]
    <3>1. Len(delivered) + 1 \in 1..Len(sent)
      BY <2>1, <2>3, <1>5
    <3>2. QED  BY <3>1, <2>3, <1>3, Zenon DEF KAInv, RequestsInHand
  <2>4. QED  BY <2>1, <2>2, <2>3, <1>1, <1>6, Zenon DEF RequestsInHand
<1>9. RequestsToCome'
  <2>1. SUFFICES ASSUME receiver # "done" PROVE RequestsToCome'
    BY <1>1, Zenon DEF RequestsToCome
  <2> DEFINE k == Len(delivered) + Serving + Offered
  <2>2. /\ Len(sent) = k + Len(inbox)
        /\ Offered = 1 => held = sent[Len(delivered) + Serving + 1]
        /\ \A i \in 1..Len(inbox) : inbox[i] = sent[k + i]
        /\ receiver = "offer" => held \in Leases \cup {EOF, Failure}
        /\ ~(receiver = "offer" /\ held = EOF)
    BY <1>1, <2>1, Zenon DEF KAInv, RequestsToCome
  <2>3. k \in Nat /\ (Offered = 1 => Len(delivered) + Serving + 1 = k)
    BY <1>5, <1>6
  <2>4. Len(sent') = k + Len(inbox')
    BY <2>2, <2>3, <1>3, <1>4, <1>5
  <2>5. Offered = 1 => held = sent'[Len(delivered) + Serving + 1]
    <3>1. ASSUME Offered = 1 PROVE k \in 1..Len(sent)
      BY <3>1, <2>2, <2>3, <1>5, <1>6
    <3>2. QED  BY <3>1, <2>2, <2>3, <1>3, Zenon
  <2>6. ASSUME NEW i \in 1..Len(inbox') PROVE inbox'[i] = sent'[k + i]
    <3>1. CASE i \in 1..Len(inbox)
      <4>1. k + i \in 1..Len(sent)
        BY <3>1, <2>2, <2>3, <1>5
      <4>2. QED  BY <4>1, <3>1, <2>2, <1>3, <1>4, Zenon
    <3>2. CASE i = Len(inbox) + 1
      <4>1. k + i = Len(sent) + 1
        BY <3>2, <2>2, <2>3, <1>5
      <4>2. QED  BY <4>1, <3>2, <1>3, <1>4, Zenon
    <3>3. i \in 1..Len(inbox) \/ i = Len(inbox) + 1
      BY <2>6, <1>4, <1>5
    <3>4. QED  BY <3>1, <3>2, <3>3, Zenon
  <2>7. QED  BY <2>2, <2>4, <2>5, <2>6, <1>1, <1>6, Zenon DEF RequestsToCome
<1>10. ShardsInStep' /\ ShortestSoFar'
  BY <1>1, KAShardsStay, Zenon
<1>11. ResponsesAreTheShortest'
  <2>1. ASSUME NEW i \in 1..Len(delivered), i <= Len(sent)
        PROVE  i <= Len(sent') /\ sent'[i] = sent[i]
    <3>1. i \in 1..Len(sent) /\ i <= Len(sent')
      BY <2>1, <1>3, <1>5
    <3>2. QED  BY <3>1, <1>3, Zenon
  <2>2. QED  BY <2>1, <1>1, Zenon DEF KAInv, ResponsesAreTheShortest
<1>12. NilReturnIsComplete'
  BY <1>1, Zenon DEF KAInv, NilReturnIsComplete
<1>13. QED
  BY <1>7, <1>8, <1>9, <1>10, <1>11, <1>12, Zenon DEF KAInv

\* The client closes its side or is gone.
LEMMA ClientLeavesKeepsInv ==
  ASSUME KAInv, ClientLeaves
  PROVE  KAInv'
<1>1. /\ client' \in {"closed", "gone"}
      /\ UNCHANGED <<receiver, held, run, index, next, response, delivered, result,
                     sent, inbox, up, down, answered>>
  BY Zenon DEF ClientLeaves, proxyVars
<1>2. client' # "open" /\ client' \in {"open", "closed", "gone"}
  BY <1>1
<1>3. Serving' = Serving /\ Offered' = Offered
  BY <1>1, Zenon DEF Serving, Offered
<1>4. KATypes'
  BY <1>1, <1>2, Zenon DEF KAInv, KATypes
<1>5. RequestsInHand' /\ RequestsToCome'
  BY <1>1, <1>2, <1>3, Zenon DEF KAInv, RequestsInHand, RequestsToCome
<1>6. ShardsInStep' /\ ShortestSoFar'
  BY <1>1, KAShardsStay, Zenon
<1>7. ResponsesAreTheShortest' /\ NilReturnIsComplete'
  BY <1>1, <1>2, Zenon DEF KAInv, ResponsesAreTheShortest, NilReturnIsComplete
<1>8. QED
  BY <1>4, <1>5, <1>6, <1>7, Zenon DEF KAInv

\* A shard answers the first request on its stream.
LEMMA ShardAnswersKeepsInv ==
  ASSUME GoodConstants, KAInv, NEW s \in Shards, ShardAnswers(s)
  PROVE  KAInv'
<1>1. PICK ttl \in TTLs, id \in Leases :
        /\ down' = [down EXCEPT ![s] = Append(@, [id |-> id, ttl |-> ttl])]
        /\ answered' = [answered EXCEPT ![s] = Append(@, ttl)]
  BY Zenon DEF ShardAnswers
<1>2. /\ up[s] # <<>> /\ run # "done"
      /\ up' = [up EXCEPT ![s] = Tail(@)]
      /\ UNCHANGED <<receiver, held, run, index, next, response, delivered, result,
                     client, sent, inbox>>
  BY Zenon DEF ShardAnswers, Cancelled, proxyVars
<1> DEFINE r == [id |-> id, ttl |-> ttl]
<1>3. r \in Responses /\ r.ttl = ttl
  BY DEF Responses
<1> HIDE DEF r
<1>4. /\ up \in [Shards -> Seq(Leases)] /\ down \in [Shards -> Seq(Responses)]
      /\ answered \in [Shards -> Seq(TTLs)] /\ delivered \in Seq(Responses)
  BY Zenon DEF KAInv, KATypes
<1>5. /\ up[s] \in Seq(Leases) /\ down[s] \in Seq(Responses) /\ answered[s] \in Seq(TTLs)
  BY <1>4, Zenon
<1>6. /\ Tail(up[s]) \in Seq(Leases) /\ Len(Tail(up[s])) = Len(up[s]) - 1
      /\ Len(up[s]) \in Nat \ {0}
  BY <1>2, <1>5, TailFacts
<1>7. /\ Append(down[s], r) \in Seq(Responses)
      /\ Len(Append(down[s], r)) = Len(down[s]) + 1
      /\ \A i \in 1..Len(down[s]) : Append(down[s], r)[i] = down[s][i]
      /\ Append(down[s], r)[Len(down[s]) + 1] = r
  BY <1>3, <1>5, AppendFacts
<1>8. /\ Append(answered[s], ttl) \in Seq(TTLs)
      /\ Len(Append(answered[s], ttl)) = Len(answered[s]) + 1
      /\ \A i \in 1..Len(answered[s]) : Append(answered[s], ttl)[i] = answered[s][i]
      /\ Append(answered[s], ttl)[Len(answered[s]) + 1] = ttl
  BY <1>5, AppendFacts
<1>9. /\ up'[s] = Tail(up[s]) /\ down'[s] = Append(down[s], r)
      /\ answered'[s] = Append(answered[s], ttl)
      /\ \A x \in Shards \ {s} :
            up'[x] = up[x] /\ down'[x] = down[x] /\ answered'[x] = answered[x]
      /\ up' \in [Shards -> Seq(Leases)] /\ down' \in [Shards -> Seq(Responses)]
      /\ answered' \in [Shards -> Seq(TTLs)]
  BY <1>1, <1>2, <1>4, <1>6, <1>7, <1>8, Zenon DEF r
<1>10. /\ Len(delivered) \in Nat /\ Len(up[s]) \in Nat /\ Len(down[s]) \in Nat
       /\ Len(answered[s]) \in Nat
  BY <1>4, <1>5
<1>11. ASSUME NEW x \in Shards
       PROVE  /\ AskedNow(x)' = AskedNow(x) /\ ReadNow(x)' = ReadNow(x)
              /\ AskedNow(x) \in {0, 1} /\ ReadNow(x) \in {0, 1}
  BY <1>2, Zenon DEF AskedNow, ReadNow
<1>12. Serving' = Serving /\ Offered' = Offered
  BY <1>2, Zenon DEF Serving, Offered
<1>13. KATypes'
  BY <1>2, <1>9, Zenon DEF KAInv, KATypes
<1>14. RequestsInHand' /\ RequestsToCome'
  BY <1>2, <1>12, Zenon DEF KAInv, RequestsInHand, RequestsToCome
<1>15. \A x \in Shards : ShardInStep(x)
  BY <1>2, Zenon DEF KAInv, ShardsInStep
<1>16. ASSUME NEW x \in Shards, NEW i \in 1..Len(answered[x])
       PROVE  i <= Len(answered'[x]) /\ answered'[x][i] = answered[x][i]
  <2>1. CASE x = s
    <3>1. i <= Len(answered[s]) + 1
      BY <2>1, <1>10, <1>16
    <3>2. QED  BY <3>1, <2>1, <1>8, <1>9, <1>16, Zenon
  <2>2. CASE x # s
    <3>1. answered'[x] = answered[x] /\ Len(answered[x]) \in Nat
      BY <2>2, <1>4, <1>9
    <3>2. QED  BY <3>1, <1>16
  <2>3. QED  BY <2>1, <2>2
<1>17. ShardInStep(s)'
  <2> DEFINE k == Len(delivered) + ReadNow(s)
  <2>1. /\ Len(answered[s]) + Len(up[s]) = Len(delivered) + AskedNow(s)
        /\ Len(answered[s]) = k + Len(down[s])
        /\ \A i \in 1..Len(down[s]) : down[s][i].ttl = answered[s][k + i]
    BY <1>15, Zenon DEF ShardInStep
  <2>2. k \in Nat
    BY <1>10, <1>11
  <2>3. Len(answered'[s]) + Len(up'[s]) = Len(delivered) + AskedNow(s)
    <3>1. (Len(answered[s]) + 1) + (Len(up[s]) - 1) = Len(answered[s]) + Len(up[s])
      BY <1>10, OneOver, Zenon
    <3>2. QED  BY <3>1, <2>1, <1>6, <1>8, <1>9, Zenon
  <2>4. Len(answered'[s]) = k + Len(down'[s])
    <3>1. (k + Len(down[s])) + 1 = k + (Len(down[s]) + 1)
      BY <2>2, <1>10
    <3>2. QED  BY <3>1, <2>1, <1>7, <1>8, <1>9, Zenon
  <2>5. ASSUME NEW i \in 1..Len(down'[s]) PROVE down'[s][i].ttl = answered'[s][k + i]
    <3>1. i \in 1..Len(down[s]) \/ i = Len(down[s]) + 1
      BY <2>5, <1>7, <1>9, <1>10
    <3>2. CASE i \in 1..Len(down[s])
      <4>1. k + i \in 1..Len(answered[s])
        BY <2>1, <2>2, <3>2, <1>10
      <4>2. QED  BY <4>1, <3>2, <2>1, <1>7, <1>8, <1>9, Zenon
    <3>3. CASE i = Len(down[s]) + 1
      <4>1. k + i = Len(answered[s]) + 1
        BY <2>1, <2>2, <3>3, <1>10
      <4>2. QED  BY <4>1, <3>3, <1>3, <1>7, <1>8, <1>9, Zenon
    <3>4. QED  BY <3>1, <3>2, <3>3, Zenon
  <2>6. QED
    BY <2>3, <2>4, <2>5, <1>2, <1>11, Zenon DEF ShardInStep
<1>18. ShardsInStep'
  <2>1. ASSUME NEW x \in Shards, x # s PROVE ShardInStep(x)'
    <3>1. /\ up'[x] = up[x] /\ down'[x] = down[x] /\ answered'[x] = answered[x]
          /\ AskedNow(x)' = AskedNow(x) /\ ReadNow(x)' = ReadNow(x)
          /\ delivered' = delivered
      BY <2>1, <1>2, <1>9, <1>11, Zenon
    <3>2. ShardInStep(x)
      BY <1>15, Zenon
    <3>3. QED  BY <3>1, <3>2, Zenon DEF ShardInStep
  <2>2. QED  BY <2>1, <1>17, Zenon DEF ShardsInStep
<1>19. ASSUME NEW x \in Shards, ReadNow(x) = 1
       PROVE  answered'[x][Len(delivered) + 1] = answered[x][Len(delivered) + 1]
  <2>1. Len(answered[x]) = Len(delivered) + 1 + Len(down[x])
    BY <1>15, <1>19, Zenon DEF ShardInStep
  <2>2. Len(down[x]) \in Nat
    BY <1>4
  <2>3. Len(delivered) + 1 \in 1..Len(answered[x])
    BY <2>1, <2>2, <1>10, OneOver, Zenon
  <2>4. QED  BY <2>3, <1>16, Zenon
<1>20. ShortestSoFar'
  BY <1>2, <1>11, <1>19, Zenon DEF KAInv, ShortestSoFar
<1>21. ResponsesAreTheShortest'
  <2>1. ASSUME NEW i \in 1..Len(delivered), NEW x \in Shards, i <= Len(answered[x])
        PROVE  i <= Len(answered'[x]) /\ answered'[x][i] = answered[x][i]
    <3>1. Len(answered[x]) \in Nat
      BY <1>4
    <3>2. i \in 1..Len(answered[x])
      BY <2>1, <3>1, <1>10
    <3>3. QED  BY <3>2, <1>16, Zenon
  <2>2. SUFFICES ASSUME NEW i \in 1..Len(delivered)
                 PROVE  /\ i <= Len(sent) /\ delivered[i].id = sent[i]
                        /\ \A x \in Shards : /\ i <= Len(answered'[x])
                                               /\ delivered[i].ttl <= answered'[x][i]
                        /\ \E x \in Shards : delivered[i].ttl = answered'[x][i]
    BY <1>2, Zenon DEF ResponsesAreTheShortest
  <2>3. /\ i <= Len(sent) /\ delivered[i].id = sent[i]
        /\ \A x \in Shards : i <= Len(answered[x]) /\ delivered[i].ttl <= answered[x][i]
        /\ \E x \in Shards : delivered[i].ttl = answered[x][i]
    BY Zenon DEF KAInv, ResponsesAreTheShortest
  <2>4. QED  BY <2>1, <2>3, Zenon
<1>22. NilReturnIsComplete'
  BY <1>2, Zenon DEF KAInv, NilReturnIsComplete
<1>23. QED
  BY <1>13, <1>14, <1>18, <1>20, <1>21, <1>22, Zenon DEF KAInv

\* A shard ends its stream: what it has answered is still read.
LEMMA ShardEndsKeepsInv ==
  ASSUME KAInv, NEW s \in Shards, ShardEnds(s)
  PROVE  KAInv'
<1>1. UNCHANGED <<receiver, held, run, index, next, response, delivered, result,
                  client, sent, inbox, up, down, answered>>
  BY Zenon DEF ShardEnds, proxyVars
<1>2. Serving' = Serving /\ Offered' = Offered
  BY <1>1, Zenon DEF Serving, Offered
<1>3. KATypes' /\ RequestsInHand' /\ RequestsToCome'
  BY <1>1, <1>2, Zenon DEF KAInv, KATypes, RequestsInHand, RequestsToCome
<1>4. ShardsInStep' /\ ShortestSoFar'
  BY <1>1, KAShardsStay, Zenon
<1>5. ResponsesAreTheShortest' /\ NilReturnIsComplete'
  BY <1>1, Zenon DEF KAInv, ResponsesAreTheShortest, NilReturnIsComplete
<1>6. QED  BY <1>3, <1>4, <1>5, Zenon DEF KAInv

\* The receiver takes a request, or finds the end of the stream.
LEMMA ReceiverRecvKeepsInv ==
  ASSUME GoodConstants, KAInv, ReceiverRecv
  PROVE  KAInv'
<1>1. /\ receiver = "recv" /\ receiver' = "offer"
      /\ UNCHANGED <<client, sent, run, index, next, up, down, response, delivered,
                     result, answered>>
      /\ \/ inbox # <<>> /\ held' = Head(inbox) /\ inbox' = Tail(inbox)
         \/ inbox = <<>> /\ client = "closed" /\ held' = EOF /\ inbox' = inbox
         \/ held' = Failure /\ inbox' = inbox
  BY Zenon DEF ReceiverRecv
<1>2. inbox \in Seq(Leases) /\ delivered \in Seq(Responses) /\ sent \in Seq(Leases)
  BY Zenon DEF KAInv, KATypes
<1>3. Len(inbox) \in Nat /\ Len(delivered) \in Nat
  BY <1>2
<1>4. EOF \notin Leases /\ Failure \notin Leases /\ EOF # Failure
  BY DEF GoodConstants
<1>5. Serving' = Serving /\ Offered = 0 /\ Serving \in {0, 1}
  BY <1>1 DEF Serving, Offered
<1>6. RequestsInHand'
  BY <1>1, <1>5, Zenon DEF KAInv, RequestsInHand
<1>7. ShardsInStep' /\ ShortestSoFar'
  BY <1>1, KAShardsStay, Zenon
<1>8. ResponsesAreTheShortest' /\ NilReturnIsComplete'
  BY <1>1, Zenon DEF KAInv, ResponsesAreTheShortest, NilReturnIsComplete
<1>9. inbox' \in Seq(Leases) => KATypes'
  BY <1>1, Zenon DEF KAInv, KATypes
<1> DEFINE k == Len(delivered) + Serving
<1>10. k \in Nat /\ k + 0 = k
  BY <1>3, <1>5
<1>11. run # "done" =>
         /\ Len(sent) = k + Len(inbox)
         /\ \A i \in 1..Len(inbox) : inbox[i] = sent[k + i]
  <2>1. receiver # "done"
    BY <1>1
  <2>2. QED  BY <2>1, <1>1, <1>5, <1>10, Zenon DEF KAInv, RequestsToCome
<1>12. CASE inbox # <<>> /\ held' = Head(inbox) /\ inbox' = Tail(inbox)
  <2>1. /\ inbox' \in Seq(Leases) /\ Len(inbox) \in Nat \ {0}
        /\ Len(inbox') = Len(inbox) - 1
        /\ \A i \in 1..(Len(inbox) - 1) : inbox'[i] = inbox[i + 1]
        /\ held' = inbox[1] /\ held' \in Leases
    BY <1>2, <1>12, TailFacts
  <2>2. Offered' = 1
    BY <1>1, <2>1, Zenon DEF Offered
  <2>3. held' # EOF
    BY <2>1, <1>4
  <2>4. ASSUME run # "done"
        PROVE  /\ Len(sent) = k + 1 + Len(inbox')
               /\ held' = sent[k + 1]
               /\ \A i \in 1..Len(inbox') : inbox'[i] = sent[k + 1 + i]
    <3>1. Len(sent) = k + 1 + Len(inbox')
      BY <2>1, <2>4, <1>10, <1>11
    <3>2. 1 \in 1..Len(inbox)
      BY <2>1
    <3>3. ASSUME NEW i \in 1..Len(inbox') PROVE inbox'[i] = sent[k + 1 + i]
      <4>1. i \in 1..(Len(inbox) - 1) /\ i + 1 \in 1..Len(inbox) /\ k + (i + 1) = k + 1 + i
        BY <2>1, <3>3, <1>10
      <4>2. QED  BY <4>1, <2>1, <2>4, <1>11, Zenon
    <3>4. QED  BY <3>1, <3>2, <3>3, <2>1, <2>4, <1>11, Zenon
  <2>5. RequestsToCome'
    BY <2>1, <2>2, <2>3, <2>4, <1>1, <1>5, Zenon DEF RequestsToCome
  <2>6. QED
    BY <2>1, <2>5, <1>6, <1>7, <1>8, <1>9, Zenon DEF KAInv
<1>13. CASE /\ inbox' = inbox
            /\ \/ inbox = <<>> /\ client = "closed" /\ held' = EOF
               \/ held' = Failure
  <2>1. Offered' = 0 /\ 0 # 1
    BY <1>1, <1>4, <1>13 DEF Offered
  <2>2. held' \in Leases \cup {EOF, Failure}
    BY <1>13, Zenon
  <2>3. held' = EOF => client' # "open" /\ inbox' = <<>>
    BY <1>1, <1>4, <1>13
  <2>4. RequestsToCome'
    <3> HIDE DEF k
    <3>1. run' # "done" =>
         /\ Len(sent') = k + 0 + Len(inbox')
         /\ \A i \in 1..Len(inbox') : inbox'[i] = sent'[k + 0 + i]
      BY <1>1, <1>10, <1>11, <1>13, Zenon
    <3>2. k = Len(delivered') + Serving'
      BY <1>1, <1>5, Zenon DEF k
    <3>3. QED  BY <2>1, <2>2, <2>3, <3>1, <3>2, Zenon DEF RequestsToCome
  <2>5. QED
    BY <2>4, <1>2, <1>6, <1>7, <1>8, <1>9, <1>13, Zenon DEF KAInv
<1>14. QED  BY <1>1, <1>12, <1>13, Zenon

\* The receiver returns with the context.
LEMMA ReceiverReturnsKeepsInv ==
  ASSUME KAInv, ReceiverReturns
  PROVE  KAInv'
<1>1. /\ receiver' = "done"
      /\ UNCHANGED <<client, sent, inbox, held, run, index, next, up, down, response,
                     delivered, result, answered>>
  BY Zenon DEF ReceiverReturns
<1>2. Serving' = Serving
  BY <1>1, Zenon DEF Serving
<1>3. KATypes' /\ RequestsInHand' /\ RequestsToCome'
  BY <1>1, <1>2, Zenon DEF KAInv, KATypes, RequestsInHand, RequestsToCome
<1>4. ShardsInStep' /\ ShortestSoFar'
  BY <1>1, KAShardsStay, Zenon
<1>5. ResponsesAreTheShortest' /\ NilReturnIsComplete'
  BY <1>1, Zenon DEF KAInv, ResponsesAreTheShortest, NilReturnIsComplete
<1>6. QED  BY <1>3, <1>4, <1>5, Zenon DEF KAInv

\* Run takes a request or learns that there are no more.
LEMMA RunSelectKeepsInv ==
  ASSUME GoodConstants, KAInv, RunSelect
  PROVE  KAInv'
<1>1. /\ run = "select"
      /\ UNCHANGED <<client, sent, inbox, held, up, down, response, delivered, answered>>
  BY Zenon DEF RunSelect
<1>2. /\ sent \in Seq(Leases) /\ inbox \in Seq(Leases) /\ delivered \in Seq(Responses)
      /\ down \in [Shards -> Seq(Responses)]
  BY Zenon DEF KAInv, KATypes
<1>3. Len(delivered) \in Nat /\ Len(inbox) \in Nat
  BY <1>2
<1>4. /\ EOF \notin Leases /\ Failure \notin Leases /\ EOF # Failure
      /\ "OK" # Failure
  BY DEF GoodConstants
<1>5. Serving = 0 /\ run # "done"
  BY <1>1 DEF Serving
<1>6. CASE run' = "done" /\ result' = Failure /\ index' = index
           /\ receiver' \in {"recv", "offer", "done"}
  <2>1. result' # "OK" /\ down' \in [Shards -> Seq(Responses)]
    BY <1>1, <1>2, <1>4, <1>6, Zenon
  <2>2. QED  BY <2>1, <1>1, <1>6, KAErrorKeepsInv, Zenon
<1>7. CASE /\ receiver = "offer" /\ held = EOF /\ run' = "done" /\ result' = "OK"
           /\ index' = index /\ receiver' = "done"
  <2>1. Offered = 0 /\ receiver # "done"
    BY <1>4, <1>7 DEF Offered
  <2>2. /\ client # "open" /\ inbox = <<>>
        /\ Len(sent) = Len(delivered) + 0 + 0 + Len(inbox)
    BY <2>1, <1>5, <1>7, Zenon DEF KAInv, RequestsToCome
  <2>3. Len(delivered) = Len(sent)
    BY <2>2, <1>3
  <2>4. ResponsesAreTheShortest' /\ NilReturnIsComplete'
    BY <2>2, <2>3, <1>1, Zenon DEF KAInv, ResponsesAreTheShortest, NilReturnIsComplete
  <2>5. KATypes'
    BY <1>1, <1>7, Zenon DEF KAInv, KATypes
  <2>6. Serving' = 0 /\ 0 # 1
    BY <1>7 DEF Serving
  <2>7. RequestsInHand' /\ RequestsToCome' /\ ShardsInStep' /\ ShortestSoFar'
    <3>1. run' # "select" /\ run' # "recv" /\ run' # "reply"
      BY <1>7
    <3>2. QED
      BY <1>7, <2>6, <3>1, Zenon
         DEF RequestsInHand, RequestsToCome, ShardsInStep, ShortestSoFar
  <2>8. QED  BY <2>4, <2>5, <2>7, Zenon DEF KAInv
<1>8. CASE /\ receiver = "offer" /\ held \notin {EOF, Failure} /\ receiver' = "recv"
           /\ run' = "send" /\ index' = 1 /\ next' = held /\ result' = result
  <2>1. receiver # "done" /\ run' # "done" /\ run' # "recv" /\ run' # "reply"
    BY <1>8
  <2>2. held \in Leases
    BY <2>1, <1>5, <1>8, Zenon DEF KAInv, RequestsToCome
  <2>3. Offered = 1 /\ Offered' = 0 /\ Serving' = 1 /\ 0 # 1
    BY <2>2, <1>8 DEF Offered, Serving
  <2> DEFINE k == Len(delivered)
  <2>4. /\ Len(sent) = k + 0 + 1 + Len(inbox) /\ held = sent[k + 0 + 1]
        /\ \A i \in 1..Len(inbox) : inbox[i] = sent[k + 0 + 1 + i]
    BY <2>1, <2>3, <1>5, Zenon DEF KAInv, RequestsToCome
  <2>5. k + 0 = k /\ k + 1 + 0 = k + 1 /\ k + 1 <= k + 0 + 1 + Len(inbox)
    BY <1>3
  <2>6. RequestsInHand'
    <3>1. result = None
      BY <1>5, Zenon DEF KAInv, RequestsInHand
    <3>2. QED  BY <2>3, <2>4, <2>5, <3>1, <1>1, <1>8, Zenon DEF RequestsInHand
  <2>7. RequestsToCome'
    <3>1. receiver' # "offer"
      BY <1>8
    <3>2. QED  BY <2>3, <2>4, <2>5, <3>1, <1>1, <1>8, Zenon DEF RequestsToCome
  <2>8. 1 \in Shards /\ \A s \in Shards : ~(s < 1)
    BY DEF GoodConstants, Shards
  <2>9. KATypes'
    BY <2>8, <1>1, <1>8, Zenon DEF KAInv, KATypes
  <2>10. ASSUME NEW s \in Shards PROVE ShardInStep(s)'
    <3>1. AskedNow(s) = 0 /\ ReadNow(s) = 0
      BY <1>1 DEF AskedNow, ReadNow
    <3>2. AskedNow(s)' = 0 /\ ReadNow(s)' = 0
      BY <2>8, <1>8 DEF AskedNow, ReadNow
    <3>3. ShardInStep(s)
      BY <1>5, Zenon DEF KAInv, ShardsInStep
    <3>4. QED  BY <3>1, <3>2, <3>3, <1>1, Zenon DEF ShardInStep
  <2>11. ShortestSoFar'
    BY <2>1, Zenon DEF ShortestSoFar
  <2>12. ResponsesAreTheShortest' /\ NilReturnIsComplete'
    BY <1>1, <1>8, Zenon DEF KAInv, ResponsesAreTheShortest, NilReturnIsComplete
  <2>13. QED
    BY <2>6, <2>7, <2>9, <2>10, <2>11, <2>12, Zenon DEF KAInv, ShardsInStep
<1>9. receiver \in {"recv", "offer", "done"}
  BY Zenon DEF KAInv, KATypes
<1>10. QED
  BY <1>4, <1>6, <1>7, <1>8, <1>9, Zenon DEF RunSelect, ReturnWith

\* The first loop sends the request to one shard more.
LEMMA RunSendKeepsInv ==
  ASSUME GoodConstants, KAInv, RunSend
  PROVE  KAInv'
<1>1. /\ run = "send" /\ up' = [up EXCEPT ![index] = Append(@, next)] /\ response' = None
      /\ UNCHANGED <<client, sent, inbox, receiver, held, next, down, delivered,
                     result, answered>>
  BY Zenon DEF RunSend
<1>2. \/ index < N /\ index' = index + 1 /\ run' = "send"
      \/ ~(index < N) /\ index' = 1 /\ run' = "recv"
  BY <1>1, Zenon DEF RunSend
<1>3. /\ index \in Shards /\ up \in [Shards -> Seq(Leases)] /\ delivered \in Seq(Responses)
      /\ answered \in [Shards -> Seq(TTLs)] /\ sent \in Seq(Leases)
  BY Zenon DEF KAInv, KATypes
<1>4. Serving = 1 /\ Serving' = 1 /\ run # "done"
  BY <1>1, <1>2 DEF Serving
<1>5. Len(delivered) \in Nat /\ Len(sent) \in Nat
  BY <1>3
<1>6. next \in Leases
  <2>1. Len(delivered) + 1 <= Len(sent) /\ next = sent[Len(delivered) + 1]
    BY <1>4, Zenon DEF KAInv, RequestsInHand
  <2>2. Len(delivered) + 1 \in 1..Len(sent)
    BY <2>1, <1>5
  <2>3. QED  BY <2>1, <2>2, <1>3
<1>7. up[index] \in Seq(Leases) /\ answered[index] \in Seq(TTLs)
  BY <1>3, Zenon
<1>8. Append(up[index], next) \in Seq(Leases) /\ Len(Append(up[index], next)) = Len(up[index]) + 1
  BY <1>6, <1>7, AppendFacts
<1>9. /\ up'[index] = Append(up[index], next) /\ up' \in [Shards -> Seq(Leases)]
      /\ \A x \in Shards \ {index} : up'[x] = up[x]
  BY <1>1, <1>3, <1>8, Zenon
<1>10. index' \in Shards /\ run' \in {"select", "send", "recv", "reply", "done"}
  BY <1>2, <1>3 DEF GoodConstants, Shards
<1>11. KATypes'
  BY <1>1, <1>9, <1>10, Zenon DEF KAInv, KATypes
<1>12. RequestsInHand' /\ RequestsToCome'
  <2>1. Offered' = Offered
    BY <1>1, Zenon DEF Offered
  <2>2. QED  BY <2>1, <1>1, <1>4, Zenon DEF KAInv, RequestsInHand, RequestsToCome
<1>13. ASSUME NEW x \in Shards
       PROVE  /\ ReadNow(x) = 0 /\ ReadNow(x)' = 0
              /\ x = index => AskedNow(x) = 0 /\ AskedNow(x)' = 1
              /\ x # index => AskedNow(x)' = AskedNow(x)
  <2>1. ReadNow(x) = 0
    BY <1>1 DEF ReadNow
  <2>2. CASE index < N /\ index' = index + 1 /\ run' = "send"
    BY <2>1, <2>2, <1>1, <1>3, <1>13 DEF ReadNow, AskedNow, Shards, GoodConstants
  <2>3. CASE ~(index < N) /\ index' = 1 /\ run' = "recv"
    BY <2>1, <2>3, <1>1, <1>3, <1>13 DEF ReadNow, AskedNow, Shards, GoodConstants
  <2>4. QED  BY <1>2, <2>2, <2>3, Zenon
<1>14. \A x \in Shards : ShardInStep(x)
  BY <1>4, Zenon DEF KAInv, ShardsInStep
<1>15. ASSUME NEW x \in Shards PROVE ShardInStep(x)'
  <2>1. /\ Len(answered[x]) + Len(up[x]) = Len(delivered) + AskedNow(x)
        /\ Len(answered[x]) = Len(delivered) + 0 + Len(down[x])
        /\ \A i \in 1..Len(down[x]) : down[x][i].ttl = answered[x][Len(delivered) + 0 + i]
    BY <1>13, <1>14, Zenon DEF ShardInStep
  <2>2. Len(answered[x]) + Len(up'[x]) = Len(delivered) + AskedNow(x)'
    <3>1. CASE x = index
      <4>1. Len(answered[x]) + Len(up[x]) = Len(delivered) + 0
        BY <2>1, <3>1, <1>13, Zenon
      <4>2. Len(answered[x]) \in Nat /\ Len(up[x]) \in Nat
        BY <1>7, <3>1
      <4>3. Len(answered[x]) + (Len(up[x]) + 1) = Len(delivered) + 1
        <5>1. Len(answered[x]) + (Len(up[x]) + 1) = (Len(answered[x]) + Len(up[x])) + 1
          BY <4>2, OneMore, Zenon
        <5>2. (Len(delivered) + 0) + 1 = Len(delivered) + 1
          BY <1>5, OneMore, Zenon
        <5>3. QED  BY <4>1, <5>1, <5>2, Zenon
      <4>4. QED  BY <4>3, <3>1, <1>8, <1>9, <1>13, Zenon
    <3>2. CASE x # index
      <4>1. up'[x] = up[x] /\ AskedNow(x)' = AskedNow(x)
        BY <3>2, <1>9, <1>13, <1>15, Zenon
      <4>2. QED  BY <4>1, <2>1, Zenon
    <3>3. QED  BY <3>1, <3>2
  <2>3. QED  BY <2>1, <2>2, <1>1, <1>13, Zenon DEF ShardInStep
<1>16. ShortestSoFar'
  <2>1. run' # "reply" /\ (run' = "recv" => index' = 1)
    BY <1>2
  <2>2. QED  BY <2>1, <1>1, Zenon DEF ShortestSoFar
<1>17. ResponsesAreTheShortest' /\ NilReturnIsComplete'
  BY <1>1, Zenon DEF KAInv, ResponsesAreTheShortest, NilReturnIsComplete
<1>18. QED
  BY <1>11, <1>12, <1>15, <1>16, <1>17, Zenon DEF KAInv, ShardsInStep

\* A stream cannot be made, or a call on one fails.
LEMMA RunFailsKeepsInv ==
  ASSUME GoodConstants, KAInv, RunSendFails \/ RunRecvEnds
  PROVE  KAInv'
<1>1. /\ run' = "done" /\ result' \in {"Unavailable", Failure}
      /\ UNCHANGED <<client, sent, inbox, receiver, held, index, up, down, response,
                     delivered, answered>>
  BY Zenon DEF RunSendFails, RunRecvEnds, ReturnWith, EndStatus
<1>2. result' # "OK"
  BY <1>1 DEF GoodConstants
<1>3. receiver' \in {"recv", "offer", "done"} /\ down' \in [Shards -> Seq(Responses)]
  BY <1>1, Zenon DEF KAInv, KATypes
<1>4. QED  BY <1>1, <1>2, <1>3, KAErrorKeepsInv, Zenon

\* What Run has read of the request being served is a TTL.
LEMMA ReadAnswer ==
  ASSUME GoodConstants, KAInv, NEW s \in Shards, run # "done", ReadNow(s) = 1
  PROVE  answered[s][Len(delivered) + 1] \in Int
<1>1. /\ answered[s] \in Seq(TTLs) /\ down[s] \in Seq(Responses)
      /\ delivered \in Seq(Responses)
  BY Zenon DEF KAInv, KATypes
<1>2. Len(answered[s]) = Len(delivered) + 1 + Len(down[s])
  BY Zenon DEF KAInv, ShardsInStep, ShardInStep
<1>3. Len(down[s]) \in Nat /\ Len(delivered) \in Nat
  BY <1>1
<1>4. Len(delivered) + 1 \in 1..Len(answered[s])
  BY <1>2, <1>3, OneOver, Zenon
<1>5. answered[s][Len(delivered) + 1] \in TTLs
  BY <1>1, <1>4, ElementFact, Zenon
<1>6. QED  BY <1>5 DEF GoodConstants

\* The second loop reads one shard more.
LEMMA RunRecvKeepsInv ==
  ASSUME GoodConstants, KAInv, RunRecv
  PROVE  KAInv'
<1> DEFINE resp == Head(down[index])
<1>1. /\ run = "recv" /\ down[index] # <<>> /\ down' = [down EXCEPT ![index] = Tail(@)]
      /\ UNCHANGED <<client, sent, inbox, receiver, held, next, up, delivered, answered>>
      /\ \/ /\ resp.id = next
            /\ response' = IF response = None \/ resp.ttl < response.ttl THEN resp
                           ELSE response
            /\ index' = IF index < N THEN index + 1 ELSE 1
            /\ run' = IF index < N THEN "recv" ELSE "reply"
            /\ result' = result
         \/ run' = "done" /\ result' = "Internal" /\ response' = response /\ index' = index
  BY Zenon DEF RunRecv, Expected, Shorter, ReturnWith
<1>2. /\ index \in Shards /\ down \in [Shards -> Seq(Responses)]
      /\ delivered \in Seq(Responses) /\ answered \in [Shards -> Seq(TTLs)]
      /\ response \in Responses \cup {None} /\ receiver \in {"recv", "offer", "done"}
  BY Zenon DEF KAInv, KATypes
<1>3. down[index] \in Seq(Responses) /\ answered[index] \in Seq(TTLs)
  BY <1>2, Zenon
<1>4. /\ Tail(down[index]) \in Seq(Responses) /\ Len(down[index]) \in Nat \ {0}
      /\ Len(Tail(down[index])) = Len(down[index]) - 1
      /\ \A i \in 1..(Len(down[index]) - 1) : Tail(down[index])[i] = down[index][i + 1]
      /\ resp = down[index][1] /\ resp \in Responses
  BY <1>1, <1>3, TailFacts
<1> HIDE DEF resp
<1>5. /\ down' \in [Shards -> Seq(Responses)] /\ down'[index] = Tail(down[index])
      /\ \A x \in Shards \ {index} : down'[x] = down[x]
  BY <1>1, <1>2, <1>4, Zenon
<1>6. CASE run' = "done" /\ result' = "Internal" /\ response' = response /\ index' = index
  <2>1. result' # "OK"
    BY <1>6
  <2>2. QED  BY <2>1, <1>1, <1>2, <1>5, <1>6, KAErrorKeepsInv, Zenon
<1>7. CASE /\ resp.id = next
           /\ response' = IF response = None \/ resp.ttl < response.ttl THEN resp
                          ELSE response
           /\ index' = IF index < N THEN index + 1 ELSE 1
           /\ run' = IF index < N THEN "recv" ELSE "reply"
           /\ result' = result
  <2>1. /\ run # "done" /\ run' \in {"recv", "reply"} /\ Serving = 1 /\ Serving' = 1
        /\ run' # "done"
    BY <1>1, <1>7 DEF Serving
  <2>2. index' \in Shards
    BY <1>2, <1>7 DEF Shards, GoodConstants
  <2>3. response' \in Responses
    BY <1>2, <1>4, <1>7, Zenon
  <2>4. KATypes'
    <3>1. run' \in {"select", "send", "recv", "reply", "done"}
      BY <2>1
    <3>2. QED  BY <3>1, <2>2, <2>3, <1>1, <1>5, Zenon DEF KAInv, KATypes
  <2>5. RequestsInHand' /\ RequestsToCome'
    <3>1. Offered' = Offered
      BY <1>1, Zenon DEF Offered
    <3>2. QED  BY <3>1, <2>1, <1>1, <1>7, Zenon DEF KAInv, RequestsInHand, RequestsToCome
  <2>6. ASSUME NEW x \in Shards
        PROVE  /\ AskedNow(x) = 1 /\ AskedNow(x)' = 1
               /\ x = index => ReadNow(x) = 0 /\ ReadNow(x)' = 1
               /\ x # index => ReadNow(x)' = ReadNow(x)
               /\ ReadNow(x) \in {0, 1}
    <3>1. AskedNow(x) = 1 /\ AskedNow(x)' = 1 /\ ReadNow(x) \in {0, 1}
      BY <2>1, <1>1 DEF AskedNow, ReadNow
    <3>2. CASE index < N
      <4>1. run' = "recv" /\ index' = index + 1
        BY <3>2, <1>7
      <4>2. QED
        BY <3>1, <4>1, <1>1, <1>2, <2>6 DEF ReadNow, Shards, GoodConstants
    <3>3. CASE ~(index < N)
      <4>1. run' = "reply"
        BY <3>3, <1>7
      <4>2. QED
        BY <3>1, <3>3, <4>1, <1>1, <1>2, <2>6 DEF ReadNow, Shards, GoodConstants
    <3>4. QED  BY <3>2, <3>3
  <2>7. \A x \in Shards : ShardInStep(x)
    BY <2>1, Zenon DEF KAInv, ShardsInStep
  <2>8. Len(delivered) \in Nat
    BY <1>2
  <2> DEFINE k == Len(delivered)
  <2>9. /\ Len(answered[index]) = k + 0 + Len(down[index])
        /\ \A i \in 1..Len(down[index]) : down[index][i].ttl = answered[index][k + 0 + i]
    BY <2>6, <2>7, <1>2, Zenon DEF ShardInStep
  <2>10. resp.ttl = answered[index][k + 1]
    <3>1. 1 \in 1..Len(down[index]) /\ k + 0 + 1 = k + 1
      BY <1>4, <2>8
    <3>2. QED  BY <3>1, <2>9, <1>4, Zenon
  <2>11. ASSUME NEW x \in Shards PROVE ShardInStep(x)'
    <3>1. CASE x = index
      <4>1. Len(answered[x]) = k + 1 + Len(down'[x])
        <5>1. k + 0 + Len(down[index]) = k + 1 + (Len(down[index]) - 1)
          BY <1>4, <2>8, OneOver, Zenon
        <5>2. QED  BY <5>1, <3>1, <2>9, <1>4, <1>5, Zenon
      <4>2. ASSUME NEW i \in 1..Len(down'[x]) PROVE down'[x][i].ttl = answered[x][k + 1 + i]
        <5>1. i \in 1..(Len(down[index]) - 1)
          BY <4>2, <3>1, <1>4, <1>5, Zenon
        <5>2. i + 1 \in 1..Len(down[index]) /\ k + 0 + (i + 1) = k + 1 + i
          BY <5>1, <1>4, <2>8
        <5>3. QED  BY <5>1, <5>2, <3>1, <2>9, <1>4, <1>5, Zenon
      <4>3. Len(answered[x]) + Len(up[x]) = k + 1
        BY <2>6, <2>7, Zenon DEF ShardInStep
      <4>4. QED  BY <4>1, <4>2, <4>3, <3>1, <2>6, <1>1, Zenon DEF ShardInStep
    <3>2. CASE x # index
      <4>1. down'[x] = down[x] /\ ReadNow(x)' = ReadNow(x) /\ AskedNow(x)' = AskedNow(x)
        BY <3>2, <1>5, <2>6, <2>11
      <4>2. QED  BY <4>1, <2>7, <1>1, Zenon DEF ShardInStep
    <3>3. QED  BY <3>1, <3>2
  <2>12. ShortestSoFar'
    <3>1. CASE index = 1
      <4>1. response = None
        BY <3>1, <1>1, Zenon DEF KAInv, ShortestSoFar
      <4>2. response' = resp
        BY <4>1, <1>7, Zenon
      <4>3. ASSUME NEW x \in Shards, ReadNow(x)' = 1 PROVE x = index
        <5>1. CASE x # index
          <6>1. ReadNow(x) = 1
            BY <4>3, <5>1, <2>6
          <6>2. x < 1
            BY <6>1, <3>1, <1>1 DEF ReadNow
          <6>3. QED  BY <6>2, <4>3 DEF Shards
        <5>2. QED  BY <5>1
      <4>4. resp.ttl \in Int
        BY <1>4 DEF Responses, GoodConstants
      <4>5. /\ \A x \in Shards : ReadNow(x)' = 1 => resp.ttl <= answered[x][k + 1]
            /\ \E x \in Shards : ReadNow(x)' = 1 /\ resp.ttl = answered[x][k + 1]
        <5>1. resp.ttl <= resp.ttl
          BY <4>4
        <5>2. QED  BY <4>3, <5>1, <2>6, <2>10, <1>2, Zenon
      <4>6. ~(run' = "recv" /\ index' = 1)
        BY <3>1, <1>7
      <4>7. QED
        BY <4>2, <4>5, <4>6, <1>1, <1>4, <1>7, Zenon DEF ShortestSoFar
    <3>2. CASE index # 1
      <4>1. /\ response \in Responses /\ response.id = next
            /\ \A x \in Shards : ReadNow(x) = 1 => response.ttl <= answered[x][k + 1]
            /\ \E x \in Shards : ReadNow(x) = 1 /\ response.ttl = answered[x][k + 1]
        BY <3>2, <1>1, Zenon DEF KAInv, ShortestSoFar
      <4>2. response # None
        BY <4>1 DEF GoodConstants
      <4>3. /\ resp.ttl \in Int /\ response.ttl \in Int
        BY <1>4, <4>1 DEF Responses, GoodConstants
      <4>4. ~(run' = "recv" /\ index' = 1)
        BY <3>2, <1>2, <1>7 DEF Shards, GoodConstants
      <4>5. ASSUME NEW x \in Shards, ReadNow(x)' = 1, x # index PROVE ReadNow(x) = 1
        BY <4>5, <2>6
      <4>6. CASE resp.ttl < response.ttl
        <5>1. response' = resp
          BY <4>6, <1>7, Zenon
        <5>2. ASSUME NEW x \in Shards, ReadNow(x)' = 1
              PROVE  resp.ttl <= answered[x][k + 1]
          <6>1. CASE x = index
            BY <6>1, <2>10, <4>3
          <6>2. CASE x # index
            <7>1. response.ttl <= answered[x][k + 1]
              BY <6>2, <5>2, <4>1, <4>5, Zenon
            <7>2. answered[x][k + 1] \in Int
              BY <6>2, <5>2, <4>5, <2>1, ReadAnswer
            <7>3. QED  BY <7>1, <7>2, <4>3, <4>6
          <6>3. QED  BY <6>1, <6>2
        <5>3. \E x \in Shards : ReadNow(x)' = 1 /\ resp.ttl = answered[x][k + 1]
          BY <2>6, <2>10, <1>2, Zenon
        <5>4. QED
          BY <5>1, <5>2, <5>3, <4>4, <1>1, <1>4, <1>7, Zenon DEF ShortestSoFar
      <4>7. CASE ~(resp.ttl < response.ttl)
        <5>1. response' = response
          BY <4>2, <4>7, <1>7, Zenon
        <5>2. response.ttl <= resp.ttl
          BY <4>3, <4>7
        <5>3. \A x \in Shards : ReadNow(x)' = 1 => response.ttl <= answered[x][k + 1]
          BY <5>2, <4>1, <4>5, <2>10, Zenon
        <5>4. \E x \in Shards : ReadNow(x)' = 1 /\ response.ttl = answered[x][k + 1]
          <6>1. ASSUME NEW x \in Shards, ReadNow(x) = 1 PROVE ReadNow(x)' = 1
            BY <6>1, <2>6
          <6>2. QED  BY <6>1, <4>1, Zenon
        <5>5. QED
          BY <5>1, <5>3, <5>4, <4>1, <4>4, <1>1, Zenon DEF ShortestSoFar
      <4>8. QED  BY <4>6, <4>7
    <3>3. QED  BY <3>1, <3>2
  <2>13. ResponsesAreTheShortest' /\ NilReturnIsComplete'
    BY <1>1, <1>7, Zenon DEF KAInv, ResponsesAreTheShortest, NilReturnIsComplete
  <2>14. QED
    BY <2>4, <2>5, <2>11, <2>12, <2>13, Zenon DEF KAInv, ShardsInStep
<1>8. QED  BY <1>1, <1>6, <1>7, Zenon

\* The response is sent to the client.
LEMMA RunReplyKeepsInv ==
  ASSUME GoodConstants, KAInv, RunReply
  PROVE  KAInv'
<1>1. /\ run = "reply"
      /\ UNCHANGED <<client, sent, inbox, receiver, held, index, next, up, down, response,
                     answered>>
      /\ \/ delivered' = Append(delivered, response) /\ run' = "select" /\ result' = result
         \/ delivered' = delivered /\ run' = "done" /\ result' = Failure
  BY Zenon DEF RunReply, ReturnWith
<1>2. /\ receiver \in {"recv", "offer", "done"} /\ down \in [Shards -> Seq(Responses)]
      /\ delivered \in Seq(Responses) /\ answered \in [Shards -> Seq(TTLs)]
      /\ sent \in Seq(Leases)
  BY Zenon DEF KAInv, KATypes
<1>3. CASE delivered' = delivered /\ run' = "done" /\ result' = Failure
  <2>1. result' # "OK"
    BY <1>3 DEF GoodConstants
  <2>2. QED  BY <2>1, <1>1, <1>2, <1>3, KAErrorKeepsInv, Zenon
<1>4. CASE delivered' = Append(delivered, response) /\ run' = "select" /\ result' = result
  <2> DEFINE k == Len(delivered)
  <2>1. /\ response \in Responses /\ response.id = next
        /\ \A s \in Shards : ReadNow(s) = 1 => response.ttl <= answered[s][k + 1]
        /\ \E s \in Shards : ReadNow(s) = 1 /\ response.ttl = answered[s][k + 1]
    BY <1>1, Zenon DEF KAInv, ShortestSoFar
  <2>2. /\ delivered' \in Seq(Responses) /\ Len(delivered') = k + 1
        /\ \A i \in 1..k : delivered'[i] = delivered[i]
        /\ delivered'[k + 1] = response
    <3>1. delivered \in Seq(Responses) /\ response \in Responses
      BY <2>1, <1>2, Zenon
    <3>2. delivered' = Append(delivered, response)
      BY <1>4, Zenon
    <3>3. QED  BY <3>1, <3>2, AppendFacts
  <2>3. k \in Nat /\ Len(sent) \in Nat
    BY <1>2
  <2>4. Serving = 1 /\ Serving' = 0 /\ run # "done" /\ 0 # 1
    BY <1>1, <1>4 DEF Serving
  <2>5. k + 1 <= Len(sent) /\ result = None /\ next = sent[k + 1]
    BY <2>4, Zenon DEF KAInv, RequestsInHand
  <2>6. KATypes'
    BY <2>2, <1>1, <1>4, Zenon DEF KAInv, KATypes
  <2>7. k + 1 + 0 = k + 1
    BY <2>3
  <2>8. RequestsInHand' /\ RequestsToCome'
    <3>1. Offered' = Offered
      BY <1>1, Zenon DEF Offered
    <3>2. RequestsInHand'
      BY <2>2, <2>4, <2>5, <2>7, <1>1, <1>4, Zenon DEF RequestsInHand
    <3>3. RequestsToCome'
      <4>1. Len(delivered') + Serving' = k + Serving
        BY <2>2, <2>4, <2>7, Zenon
      <4>2. UNCHANGED <<sent, inbox, held, receiver, client>>
        BY <1>1, Zenon
      <4>3. QED  BY <4>1, <4>2, <3>1, <2>4, Zenon DEF KAInv, RequestsToCome
    <3>4. QED  BY <3>2, <3>3
  <2>9. ASSUME NEW s \in Shards
        PROVE  /\ AskedNow(s) = 1 /\ ReadNow(s) = 1 /\ AskedNow(s)' = 0 /\ ReadNow(s)' = 0
               /\ ShardInStep(s)
    <3>1. AskedNow(s) = 1 /\ ReadNow(s) = 1 /\ AskedNow(s)' = 0 /\ ReadNow(s)' = 0
      BY <1>1, <1>4 DEF AskedNow, ReadNow
    <3>2. ShardInStep(s)
      BY <2>4, Zenon DEF KAInv, ShardsInStep
    <3>3. QED  BY <3>1, <3>2
  <2>10. ASSUME NEW s \in Shards PROVE ShardInStep(s)'
    BY <2>2, <2>7, <2>9, <1>1, Zenon DEF ShardInStep
  <2>11. ShortestSoFar'
    BY <1>4 DEF ShortestSoFar
  <2>12. ResponsesAreTheShortest'
    <3>1. SUFFICES ASSUME NEW i \in 1..(k + 1)
                   PROVE  /\ i <= Len(sent) /\ delivered'[i].id = sent[i]
                          /\ \A s \in Shards : /\ i <= Len(answered[s])
                                                 /\ delivered'[i].ttl <= answered[s][i]
                          /\ \E s \in Shards : delivered'[i].ttl = answered[s][i]
      BY <1>1, <2>2, Zenon DEF ResponsesAreTheShortest
    <3>2. CASE i \in 1..k
      BY <3>2, <2>2, Zenon DEF KAInv, ResponsesAreTheShortest
    <3>3. CASE i = k + 1
      <4>1. ASSUME NEW s \in Shards PROVE k + 1 <= Len(answered[s])
        <5>1. Len(answered[s]) = k + 1 + Len(down[s])
          BY <2>9, Zenon DEF ShardInStep
        <5>2. Len(down[s]) \in Nat
          BY <1>2
        <5>3. QED  BY <5>1, <5>2, <2>3, OneOver, Zenon
      <4>2. QED  BY <3>3, <4>1, <2>1, <2>2, <2>5, <2>9, Zenon
    <3>4. i \in 1..k \/ i = k + 1
      BY <2>3
    <3>5. QED  BY <3>2, <3>3, <3>4, Zenon
  <2>13. NilReturnIsComplete'
    <3>1. result' # "OK"
      BY <2>5, <1>4 DEF GoodConstants
    <3>2. QED  BY <3>1, Zenon DEF NilReturnIsComplete
  <2>14. QED
    BY <2>6, <2>8, <2>10, <2>11, <2>12, <2>13, Zenon DEF KAInv, ShardsInStep
<1>5. QED  BY <1>1, <1>3, <1>4, Zenon

\* Every action keeps the invariant.
LEMMA KAInvStep ==
  ASSUME GoodConstants
  PROVE  KAInv /\ [KeepAliveNext]_keepAliveVars => KAInv'
<1>1. ASSUME KAInv, KeepAliveNext PROVE KAInv'
  <2>1. ASSUME NEW id \in Leases, ClientSends(id) PROVE KAInv'
    BY <1>1, <2>1, ClientSendsKeepsInv, Zenon
  <2>2. CASE ClientLeaves
    BY <1>1, <2>2, ClientLeavesKeepsInv, Zenon
  <2>3. ASSUME NEW s \in Shards, ShardStep(s) PROVE KAInv'
    BY <1>1, <2>3, ShardAnswersKeepsInv, ShardEndsKeepsInv, Zenon DEF ShardStep
  <2>4. CASE ReceiverStep
    BY <1>1, <2>4, ReceiverRecvKeepsInv, ReceiverReturnsKeepsInv, Zenon DEF ReceiverStep
  <2>5. CASE RunStep
    BY <1>1, <2>5, RunSelectKeepsInv, RunSendKeepsInv, RunFailsKeepsInv, RunRecvKeepsInv,
       RunReplyKeepsInv, Zenon DEF RunStep
  <2>6. QED  BY <1>1, <2>1, <2>2, <2>3, <2>4, <2>5, Zenon DEF KeepAliveNext
<1>2. ASSUME KAInv, UNCHANGED keepAliveVars PROVE KAInv'
  <2>1. UNCHANGED <<receiver, held, run, index, next, response, delivered, result,
                    client, sent, inbox, up, down, answered>>
    BY <1>2, Zenon DEF keepAliveVars
  <2>2. Serving' = Serving /\ Offered' = Offered
    BY <2>1, Zenon DEF Serving, Offered
  <2>3. KATypes' /\ RequestsInHand' /\ RequestsToCome'
    BY <1>2, <2>1, <2>2, Zenon DEF KAInv, KATypes, RequestsInHand, RequestsToCome
  <2>4. ShardsInStep' /\ ShortestSoFar'
    BY <1>2, <2>1, KAShardsStay, Zenon
  <2>5. ResponsesAreTheShortest' /\ NilReturnIsComplete'
    BY <1>2, <2>1, Zenon DEF KAInv, ResponsesAreTheShortest, NilReturnIsComplete
  <2>6. QED  BY <2>3, <2>4, <2>5, Zenon DEF KAInv
<1>3. QED  BY <1>1, <1>2, Zenon

\* So it holds in every state.
LEMMA KAInvHolds == KeepAliveSpec => []KAInv
<1>1. KeepAliveInit => KAInv
  BY KAInvInit, KeepAliveAssumption, Zenon
<1>2. KAInv /\ [KeepAliveNext]_keepAliveVars => KAInv'
  BY KAInvStep, KeepAliveAssumption, Zenon
<1>3. QED  BY <1>1, <1>2, PTL DEF KeepAliveSpec

\* Run of SingleLeaseKeepAliveProxy answers requests in order, each with the
\* shortest TTL among the shards' answers to that very request, for any number of
\* shards and requests.
THEOREM ResponsesAreAlwaysTheShortest ==
  KeepAliveSpec => []ResponsesAreTheShortest
<1>1. KAInv => ResponsesAreTheShortest
  BY Zenon DEF KAInv
<1>2. QED  BY KAInvHolds, <1>1, PTL

\* Run returns nil only after the client has finished sending and every request
\* has been answered.
THEOREM NilReturnIsAlwaysComplete ==
  KeepAliveSpec => []NilReturnIsComplete
<1>1. KAInv => NilReturnIsComplete
  BY Zenon DEF KAInv
<1>2. QED  BY KAInvHolds, <1>1, PTL
=============================================================================
