------------------------- MODULE LegacyWatchProofs -------------------------
(***************************************************************************)
(* LegacyWatch, for any number of shards, requests and responses and any   *)
(* capacity of the channels.  Requests are numbered as the client sends    *)
(* them and the responses of a shard as the shard does.  The responses of  *)
(* all shards are mixed on their way to the client: Trail is what has been *)
(* delivered, what sendLoop holds and what is in respChan, and the k-th    *)
(* response of a shard in it has the number k.                             *)
(***************************************************************************)
EXTENDS LegacyWatch, FiniteSetTheorems, TLAPS

Messages == Responses \cup {Nil}

Sending == IF sendLoop = "send" THEN <<msg>> ELSE <<>>

Trail == (delivered \o Sending) \o respChan

\* The places up to i where q has a response of shard s.
From(q, i, s) == {j \in 1..i : q[j] # Nil /\ q[j].shard = s}

Numbered(q) ==
  \A i \in 1..Len(q) : q[i] # Nil => q[i].n = Cardinality(From(q, i, q[i].shard))

Pushing(s) == IF pump[s] = "push" /\ resp[s] # Nil THEN 1 ELSE 0

\* Responses of s in q, in the hands of its goroutine and under way to that one.
ComeNext(s, q) ==
  LET k == Cardinality(From(q, Len(q), s))
  IN  /\ produced[s] = k + Pushing(s) + Len(wire[s])
      /\ Pushing(s) = 1 => resp[s] = [shard |-> s, n |-> k + 1]
      /\ \A i \in 1..Len(wire[s]) : wire[s][i] = k + Pushing(s) + i

ResponsesNumbered ==
  sendLoop # "done" => Numbered(Trail) /\ \A s \in Shards : ComeNext(s, Trail)

ClientSees(i) ==
  /\ delivered[i].n = Cardinality({j \in 1..i : delivered[j].shard = delivered[i].shard})
  /\ delivered[i].n <= produced[delivered[i].shard]

Pushed == IF recvLoop = "push" THEN 1 ELSE 0

\* A shard has got all requests that handleRecvLoop has passed on, unless a Send to
\* it may have failed.
GotAll(s) ==
  handleLoop # "done" /\ ended[s] = "no" /\ client # "gone" =>
    Len(got[s]) = IF handleLoop = "send" /\ ~(s < at) THEN req - 1 ELSE req

RequestsNumbered ==
  /\ held = req + Len(recvChan) + Pushed
  /\ \A i \in 1..Len(recvChan) : recvChan[i] = req + i
  /\ handleLoop = "send" => req > 0
  /\ held <= sent
  /\ \A s \in Shards :
        GotAll(s) /\ Len(got[s]) <= req /\ \A i \in 1..Len(got[s]) : got[s][i] = i

LWTypes ==
  /\ at \in Shards /\ req \in Nat /\ held \in Nat /\ sent \in Nat
  /\ recvChan \in Seq(Nat)
  /\ got \in [Shards -> Seq(Nat)] /\ ended \in [Shards -> {"no", "eof", "failed"}]
  /\ produced \in [Shards -> Nat] /\ wire \in [Shards -> Seq(Nat \ {0})]
  /\ pump \in [Shards -> {"none", "recv", "push", "done"}]
  /\ resp \in [Shards -> Messages] /\ msg \in Messages
  /\ respChan \in Seq(Messages) /\ delivered \in Seq(Responses)

LWInv ==
  /\ LWTypes /\ RequestsNumbered /\ ResponsesNumbered
  /\ \A i \in 1..Len(delivered) : ClientSees(i)

\* Append, Head and Tail, index by index.
LEMMA AppendFacts ==
  ASSUME NEW S, NEW s \in Seq(S), NEW x \in S
  PROVE  /\ Append(s, x) \in Seq(S) /\ Len(Append(s, x)) = Len(s) + 1
         /\ \A i \in 1..Len(s) : Append(s, x)[i] = s[i]
         /\ Append(s, x)[Len(s) + 1] = x
  OBVIOUS

LEMMA TailFacts ==
  ASSUME NEW S, NEW s \in Seq(S), s # <<>>
  PROVE  /\ Tail(s) \in Seq(S) /\ Len(s) \in Nat \ {0} /\ Len(Tail(s)) = Len(s) - 1
         /\ \A i \in 1..(Len(s) - 1) : Tail(s)[i] = s[i + 1]
         /\ Head(s) = s[1] /\ Head(s) \in S
  OBVIOUS

LEMMA EmptySequence ==
  ASSUME NEW S
  PROVE  <<>> \in Seq(S) /\ Len(<<>>) = 0
  OBVIOUS

\* An element of a sequence.
LEMMA ElementFact ==
  ASSUME NEW S, NEW s \in Seq(S), NEW i \in 1..Len(s)
  PROVE  s[i] \in S
  OBVIOUS

\* Concatenation, index by index, and with Append, Head and Tail.
LEMMA CatFacts ==
  ASSUME NEW S, NEW s \in Seq(S), NEW t \in Seq(S)
  PROVE  /\ s \o t \in Seq(S) /\ Len(s \o t) = Len(s) + Len(t)
         /\ \A i \in 1..Len(s) : (s \o t)[i] = s[i]
         /\ \A i \in 1..Len(t) : (s \o t)[Len(s) + i] = t[i]
  OBVIOUS

LEMMA CatEmpty ==
  ASSUME NEW S, NEW s \in Seq(S)
  PROVE  s \o <<>> = s
  OBVIOUS

LEMMA CatAppend ==
  ASSUME NEW S, NEW s \in Seq(S), NEW t \in Seq(S), NEW x \in S
  PROVE  /\ s \o Append(t, x) = Append(s \o t, x)
         /\ s \o <<x>> = Append(s, x)
  OBVIOUS

LEMMA CatHead ==
  ASSUME NEW S, NEW s \in Seq(S), NEW t \in Seq(S), t # <<>>
  PROVE  Append(s, Head(t)) \o Tail(t) = s \o t
  OBVIOUS

\* Counting the responses of a shard, one place further.
LEMMA FromFacts ==
  ASSUME NEW q, NEW i \in Nat, NEW s
  PROVE  /\ IsFiniteSet(From(q, i, s)) /\ Cardinality(From(q, i, s)) \in Nat
         /\ q[i + 1] # Nil /\ q[i + 1].shard = s =>
               Cardinality(From(q, i + 1, s)) = Cardinality(From(q, i, s)) + 1
         /\ ~(q[i + 1] # Nil /\ q[i + 1].shard = s) => From(q, i + 1, s) = From(q, i, s)
<1>1. IsFiniteSet(1..i) /\ From(q, i, s) \in SUBSET (1..i)
  <2>1. 1 \in Int /\ i \in Int
    OBVIOUS
  <2>2. IsFiniteSet(1..i)
    BY <2>1, FS_Interval
  <2>3. QED  BY <2>2, Zenon DEF From
<1>2. IsFiniteSet(From(q, i, s))
  BY <1>1, FS_Subset, Zenon
<1>3. Cardinality(From(q, i, s)) \in Nat
  BY <1>2, FS_CardinalityType, Zenon
<1>4. i + 1 \notin 1..i /\ 1..(i + 1) = (1..i) \cup {i + 1}
  OBVIOUS
<1>5. ASSUME q[i + 1] # Nil, q[i + 1].shard = s
      PROVE  Cardinality(From(q, i + 1, s)) = Cardinality(From(q, i, s)) + 1
  <2>1. From(q, i + 1, s) = From(q, i, s) \cup {i + 1} /\ i + 1 \notin From(q, i, s)
    BY <1>4, <1>5, Zenon DEF From
  <2>2. QED  BY <2>1, <1>2, FS_AddElement, Zenon
<1>6. ASSUME ~(q[i + 1] # Nil /\ q[i + 1].shard = s)
      PROVE  From(q, i + 1, s) = From(q, i, s)
  BY <1>4, <1>6, Zenon DEF From
<1>7. QED  BY <1>2, <1>3, <1>5, <1>6, Zenon

\* The count depends on the places counted only.
LEMMA FromSame ==
  ASSUME NEW q, NEW r, NEW i, NEW s, \A j \in 1..i : q[j] = r[j]
  PROVE  From(q, i, s) = From(r, i, s)
  BY Zenon DEF From

\* It does not fall as more places are counted.
LEMMA FromGrows ==
  ASSUME NEW q, NEW i \in Nat, NEW k \in Nat, i <= k, NEW s
  PROVE  Cardinality(From(q, i, s)) <= Cardinality(From(q, k, s))
<1>1. From(q, i, s) \in SUBSET From(q, k, s)
  <2>1. \A j \in 1..i : j \in 1..k
    OBVIOUS
  <2>2. QED  BY <2>1, Zenon DEF From
<1>2. IsFiniteSet(From(q, k, s))
  BY FromFacts, Zenon
<1>3. QED  BY <1>1, <1>2, FS_Subset, Zenon

\* Trail is a sequence of responses and nils.
LEMMA TrailType ==
  ASSUME LWTypes
  PROVE  /\ Sending \in Seq(Messages) /\ delivered \in Seq(Messages)
         /\ respChan \in Seq(Messages)
         /\ delivered \o Sending \in Seq(Messages) /\ Trail \in Seq(Messages)
<1>1. delivered \in Seq(Messages) /\ respChan \in Seq(Messages) /\ msg \in Messages
  BY DEF LWTypes, Messages
<1>2. Sending \in Seq(Messages)
  BY <1>1 DEF Sending
<1>3. delivered \o Sending \in Seq(Messages)
  BY <1>1, <1>2, CatFacts, Zenon
<1>4. QED  BY <1>1, <1>2, <1>3, CatFacts, Zenon DEF Trail

\* Nothing has been sent.
LEMMA LWInvInit == ASSUME GoodConstants PROVE Init => LWInv
<1>1. SUFFICES ASSUME Init PROVE LWInv
  OBVIOUS
<1> USE <1>1 DEF Init
<1>2. 1 \in Shards
  BY DEF GoodConstants, Shards
<1>3. LWTypes
  BY <1>2, EmptySequence DEF LWTypes, Messages
<1>4. Trail = <<>>
  BY DEF Trail, Sending
<1>5. RequestsNumbered
  <2>1. Pushed = 0
    BY DEF Pushed
  <2>2. ASSUME NEW s \in Shards PROVE GotAll(s) /\ Len(got[s]) = 0
    BY DEF GotAll
  <2>3. QED  BY <2>1, <2>2 DEF RequestsNumbered
<1>6. ASSUME NEW s PROVE Cardinality(From(<<>>, 0, s)) = 0
  <2>1. From(<<>>, 0, s) = {}
    BY DEF From
  <2>2. QED  BY <2>1, FS_EmptySet, Zenon
<1>7. Numbered(Trail)
  BY <1>4 DEF Numbered
<1>8. ASSUME NEW s \in Shards PROVE ComeNext(s, Trail)
  <2>1. Pushing(s) = 0 /\ Len(wire[s]) = 0 /\ produced[s] = 0 /\ 0 # 1 /\ 0 + 0 + 0 = 0
    BY DEF Pushing
  <2>2. Cardinality(From(Trail, Len(Trail), s)) = 0
    <3>1. Len(<<>>) = 0
      OBVIOUS
    <3>2. QED  BY <1>4, <1>6, <3>1, Zenon
  <2>3. 1..0 = {}
    OBVIOUS
  <2>4. QED  BY <2>1, <2>2, <2>3, Zenon DEF ComeNext
<1>9. Len(delivered) = 0 /\ 1..0 = {}
  OBVIOUS
<1>10. QED
  BY <1>3, <1>5, <1>7, <1>8, <1>9, Zenon DEF LWInv, ResponsesNumbered

\* The way of the requests when the loops that handle them do nothing.
LEMMA RequestsStay ==
  ASSUME LWInv, UNCHANGED <<held, req, recvChan, recvLoop, handleLoop, at, got>>,
         held <= sent', client' # "gone" => client # "gone",
         \A s \in Shards : ended'[s] = "no" => ended[s] = "no"
  PROVE  RequestsNumbered'
<1>1. Pushed' = Pushed
  BY Zenon DEF Pushed
<1>2. \A s \in Shards : GotAll(s)'
  BY Zenon DEF LWInv, RequestsNumbered, GotAll
<1>3. QED  BY <1>1, <1>2, Zenon DEF LWInv, RequestsNumbered

\* The way of the responses when the others do nothing with them.
LEMMA ResponsesStay ==
  ASSUME LWInv, UNCHANGED <<sendLoop, msg, respChan, delivered, produced, wire, resp>>,
         \A s \in Shards : Pushing(s)' = Pushing(s)
  PROVE  ResponsesNumbered' /\ \A i \in 1..Len(delivered') : ClientSees(i)'
<1>1. Trail' = Trail
  BY Zenon DEF Trail, Sending
<1>2. \A s \in Shards : ComeNext(s, Trail) => ComeNext(s, Trail)'
  BY <1>1, Zenon DEF ComeNext
<1>3. ResponsesNumbered'
  BY <1>1, <1>2, Zenon DEF LWInv, ResponsesNumbered
<1>4. \A i \in 1..Len(delivered') : ClientSees(i)'
  BY Zenon DEF LWInv, ClientSees
<1>5. QED  BY <1>3, <1>4, Zenon

\* recvLoop has received no more than was sent.
LEMMA SentEnough ==
  ASSUME LWInv, sent' = sent
  PROVE  held <= sent'
  BY Zenon DEF LWInv, RequestsNumbered

\* The client sends a request, closes its side or is gone.
LEMMA WatchClientKeepsInv ==
  ASSUME LWInv, ClientSends \/ ClientLeaves
  PROVE  LWInv'
<1>1. /\ UNCHANGED <<held, req, recvChan, recvLoop, handleLoop, at, got, ended, sendLoop,
                     msg, respChan, delivered, produced, wire, pump, resp>>
      /\ client' # "gone" => client # "gone"
      /\ sent' = sent \/ sent' = sent + 1
  BY DEF ClientSends, ClientLeaves, recvVars, handleVars, shardVars,
         pumpVars, sendVars
<1>2. LWTypes' /\ held <= sent'
  <2>1. held \in Nat /\ sent \in Nat /\ held <= sent
    BY Zenon DEF LWInv, LWTypes, RequestsNumbered
  <2>2. sent' \in Nat /\ held <= sent'
    BY <2>1, <1>1
  <2>3. QED  BY <2>2, <1>1, Zenon DEF LWInv, LWTypes
<1>3. RequestsNumbered'
  BY <1>1, <1>2, RequestsStay, Zenon
<1>4. \A s \in Shards : Pushing(s)' = Pushing(s)
  BY <1>1, Zenon DEF Pushing
<1>5. QED  BY <1>1, <1>2, <1>3, <1>4, ResponsesStay, Zenon DEF LWInv

\* A shard ends its stream.
LEMMA WatchShardEndsKeepsInv ==
  ASSUME LWInv, NEW s \in Shards, ShardEnds(s)
  PROVE  LWInv'
<1>1. UNCHANGED <<sent, held, req, recvChan, recvLoop, handleLoop, at, got, client, sendLoop,
                  msg, respChan, delivered, produced, wire, pump, resp>>
  BY Zenon DEF ShardEnds, recvVars, handleVars, pumpVars, sendVars
<1>2. PICK e \in {"eof", "failed"} : ended' = [ended EXCEPT ![s] = e]
  BY Zenon DEF ShardEnds
<1>3. ended \in [Shards -> {"no", "eof", "failed"}]
  BY Zenon DEF LWInv, LWTypes
<1>4. /\ ended' \in [Shards -> {"no", "eof", "failed"}]
      /\ \A x \in Shards : ended'[x] = "no" => ended[x] = "no"
  BY <1>2, <1>3
<1>5. LWTypes'
  BY <1>1, <1>4, Zenon DEF LWInv, LWTypes
<1>6. RequestsNumbered'
  BY <1>1, <1>4, RequestsStay, SentEnough, Zenon
<1>7. \A x \in Shards : Pushing(x)' = Pushing(x)
  BY <1>1, Zenon DEF Pushing
<1>8. QED  BY <1>1, <1>5, <1>6, <1>7, ResponsesStay, Zenon DEF LWInv

\* A shard sends its next response.
LEMMA ShardSendsKeepsInv ==
  ASSUME LWInv, NEW s \in Shards, ShardSends(s)
  PROVE  LWInv'
<1>1. /\ UNCHANGED <<sent, held, req, recvChan, recvLoop, handleLoop, at, got, client, ended,
                     sendLoop, msg, respChan, delivered, pump, resp>>
      /\ produced' = [produced EXCEPT ![s] = @ + 1]
      /\ wire' = [wire EXCEPT ![s] = Append(@, produced[s] + 1)]
  BY Zenon DEF ShardSends, recvVars, handleVars, pumpVars, sendVars
<1>2. produced \in [Shards -> Nat] /\ wire \in [Shards -> Seq(Nat \ {0})]
  BY Zenon DEF LWInv, LWTypes
<1>3. produced[s] \in Nat /\ wire[s] \in Seq(Nat \ {0})
  BY <1>2, Zenon
<1>4. PICK n \in Nat \ {0} : n = produced[s] + 1
  BY <1>3
<1>5. n \in Nat /\ Len(wire[s]) \in Nat
  BY <1>3
<1>6. /\ Append(wire[s], n) \in Seq(Nat \ {0}) /\ Len(Append(wire[s], n)) = Len(wire[s]) + 1
      /\ \A i \in 1..Len(wire[s]) : Append(wire[s], n)[i] = wire[s][i]
      /\ Append(wire[s], n)[Len(wire[s]) + 1] = n
  BY <1>3, AppendFacts
<1>7. /\ produced' \in [Shards -> Nat] /\ wire' \in [Shards -> Seq(Nat \ {0})]
      /\ produced'[s] = n /\ wire'[s] = Append(wire[s], n)
      /\ \A x \in Shards : x # s => produced'[x] = produced[x] /\ wire'[x] = wire[x]
  BY <1>1, <1>2, <1>4, <1>6, <1>5, Zenon
<1>8. LWTypes'
  BY <1>1, <1>7, Zenon DEF LWInv, LWTypes
<1>9. RequestsNumbered'
  BY <1>1, RequestsStay, SentEnough, Zenon
<1>10. Trail' = Trail
  BY <1>1, Zenon DEF Trail, Sending
<1>11. \A x \in Shards : Pushing(x)' = Pushing(x) /\ Pushing(x) \in {0, 1}
  BY <1>1, Zenon DEF Pushing
<1>12. ASSUME NEW x \in Shards, ComeNext(x, Trail) PROVE ComeNext(x, Trail)'
  <2>1. PICK q : q = Trail
    OBVIOUS
  <2> DEFINE k == Cardinality(From(q, Len(q), x))
  <2>2. CASE x # s
    BY <2>1, <2>2, <1>1, <1>7, <1>10, <1>11, <1>12, Zenon DEF ComeNext
  <2>3. CASE x = s
    <3>1. k \in Nat
      <4>1. Len(q) \in Nat
        BY <2>1, TrailType DEF LWInv
      <4>2. QED  BY <4>1, FromFacts, Zenon
    <3> HIDE DEF k
    <3>2. /\ produced[s] = k + Pushing(s) + Len(wire[s])
          /\ Pushing(s) = 1 => resp[s] = [shard |-> s, n |-> k + 1]
          /\ \A i \in 1..Len(wire[s]) : wire[s][i] = k + Pushing(s) + i
      BY <2>1, <2>3, <1>12, Zenon DEF ComeNext, k
    <3>3. PICK p \in {0, 1} : p = Pushing(s)
      BY <1>11, Zenon
    <3>4. PICK w \in Nat : w = Len(wire[s])
      BY <1>5, Zenon
    <3>5. n = k + p + (w + 1) /\ k + p + w + 1 = k + p + (w + 1)
      BY <3>1, <3>2, <3>3, <3>4, <1>3, <1>4
    <3>6. ASSUME NEW i \in 1..(w + 1) PROVE wire'[s][i] = k + p + i
      <4>1. i \in 1..w \/ i = w + 1
        BY <3>4
      <4>2. QED  BY <4>1, <3>2, <3>3, <3>4, <3>5, <1>6, <1>7, Zenon
    <3>7. /\ produced'[s] = k + p + Len(wire'[s])
          /\ p = 1 => resp'[s] = [shard |-> s, n |-> k + 1]
          /\ \A i \in 1..Len(wire'[s]) : wire'[s][i] = k + p + i
      <4>1. Len(wire'[s]) = w + 1 /\ produced'[s] = k + p + (w + 1)
        BY <3>4, <3>5, <1>6, <1>7, Zenon
      <4>2. p = 1 => resp'[s] = [shard |-> s, n |-> k + 1]
        BY <3>2, <3>3, <1>1, Zenon
      <4>3. QED  BY <4>1, <4>2, <3>6, Zenon
    <3>8. p = Pushing(s)'
      BY <3>3, <1>11, Zenon
    <3>9. QED  BY <3>7, <3>8, <2>1, <2>3, <1>10, Zenon DEF ComeNext, k
  <2>4. QED  BY <2>2, <2>3
<1>13. ResponsesNumbered'
  BY <1>1, <1>10, <1>12, Zenon DEF LWInv, ResponsesNumbered
<1>14. ASSUME NEW i \in 1..Len(delivered') PROVE ClientSees(i)'
  <2>1. ClientSees(i) /\ delivered' = delivered
    BY <1>1, <1>14, Zenon DEF LWInv
  <2>2. PICK m \in Responses : m = delivered[i]
    BY <1>1, <1>14, ElementFact, Zenon DEF LWInv, LWTypes
  <2>3. m.n \in Nat /\ m.shard \in Shards
    BY <2>2 DEF Responses, Shards
  <2>4. m.n <= produced[m.shard]
    BY <2>1, <2>2, Zenon DEF ClientSees
  <2>5. m.n <= produced'[m.shard]
    <3>1. CASE m.shard = s
      <4>1. m.n <= produced[s]
        BY <2>4, <3>1, Zenon
      <4>2. m.n <= n
        BY <4>1, <2>3, <1>3, <1>4
      <4>3. QED  BY <4>2, <3>1, <1>7, Zenon
    <3>2. CASE m.shard # s
      BY <3>2, <2>3, <2>4, <1>7, Zenon
    <3>3. QED  BY <3>1, <3>2
  <2>6. QED  BY <2>1, <2>2, <2>5, Zenon DEF ClientSees
<1>15. QED  BY <1>8, <1>9, <1>13, <1>14, Zenon DEF LWInv

\* recvLoop receives a request, puts it into recvChan, or returns.
LEMMA RecvLoopKeepsInv ==
  ASSUME LWInv, RecvStep
  PROVE  LWInv'
<1>1. UNCHANGED <<sent, req, handleLoop, at, got, client, ended, sendLoop, msg, respChan,
                  delivered, produced, wire, pump, resp>>
  BY Zenon DEF RecvStep, RecvLoopRecv, RecvLoopPush, handleVars, shardVars,
               pumpVars, sendVars
<1>2. \A s \in Shards : Pushing(s)' = Pushing(s)
  BY <1>1, Zenon DEF Pushing
<1>3. ResponsesNumbered' /\ \A i \in 1..Len(delivered') : ClientSees(i)'
  BY <1>1, <1>2, ResponsesStay, Zenon
<1>4. held \in Nat /\ recvChan \in Seq(Nat) /\ req \in Nat /\ sent \in Nat
  BY Zenon DEF LWInv, LWTypes
<1>5. /\ held <= sent /\ held = req + Len(recvChan) + Pushed
      /\ \A i \in 1..Len(recvChan) : recvChan[i] = req + i
      /\ handleLoop = "send" => req > 0
      /\ \A s \in Shards :
            GotAll(s) /\ Len(got[s]) <= req /\ \A i \in 1..Len(got[s]) : got[s][i] = i
  BY Zenon DEF LWInv, RequestsNumbered
<1>6. \A s \in Shards : GotAll(s)'
  BY <1>1, <1>5, Zenon DEF GotAll
<1>7. Len(recvChan) \in Nat
  BY <1>4
<1>8. CASE RecvLoopRecv
  <2>1. /\ recvLoop = "recv" /\ recvChan' = recvChan
        /\ \/ held < sent /\ held' = held + 1 /\ recvLoop' = "push"
           \/ held' = held /\ recvLoop' = "done"
    BY <1>8, Zenon DEF RecvLoopRecv
  <2>2. Pushed = 0
    BY <2>1 DEF Pushed
  <2>3. held' \in Nat /\ held' <= sent /\ held' = req + Len(recvChan) + Pushed'
    <3>1. CASE held < sent /\ held' = held + 1 /\ recvLoop' = "push"
      <4>1. Pushed' = 1
        BY <3>1 DEF Pushed
      <4>2. QED  BY <3>1, <4>1, <2>2, <1>4, <1>5, <1>7
    <3>2. CASE held' = held /\ recvLoop' = "done"
      <4>1. Pushed' = 0
        BY <3>2 DEF Pushed
      <4>2. QED  BY <3>2, <4>1, <2>2, <1>4, <1>5, Zenon
    <3>3. QED  BY <2>1, <3>1, <3>2, Zenon
  <2>4. LWTypes'
    BY <2>1, <2>3, <1>1, Zenon DEF LWInv, LWTypes
  <2>5. RequestsNumbered'
    BY <2>1, <2>3, <1>1, <1>5, <1>6, Zenon DEF RequestsNumbered
  <2>6. QED  BY <2>4, <2>5, <1>3, Zenon DEF LWInv
<1>9. CASE RecvLoopPush
  <2>1. /\ recvLoop = "push" /\ recvChan' = Append(recvChan, held) /\ recvLoop' = "recv"
        /\ held' = held
    BY <1>9, Zenon DEF RecvLoopPush
  <2>2. Pushed = 1 /\ Pushed' = 0
    BY <2>1 DEF Pushed
  <2>3. /\ recvChan' \in Seq(Nat) /\ Len(recvChan') = Len(recvChan) + 1
        /\ \A i \in 1..Len(recvChan) : recvChan'[i] = recvChan[i]
        /\ recvChan'[Len(recvChan) + 1] = held
    <3>1. /\ Append(recvChan, held) \in Seq(Nat)
          /\ Len(Append(recvChan, held)) = Len(recvChan) + 1
          /\ \A i \in 1..Len(recvChan) : Append(recvChan, held)[i] = recvChan[i]
          /\ Append(recvChan, held)[Len(recvChan) + 1] = held
      BY <1>4, AppendFacts
    <3>2. QED  BY <2>1, <3>1, Zenon
  <2>4. LWTypes'
    BY <2>1, <2>3, <1>1, Zenon DEF LWInv, LWTypes
  <2>5. held = req + (Len(recvChan) + 1) + 0 /\ held = req + (Len(recvChan) + 1)
    BY <2>2, <1>4, <1>5, <1>7
  <2>6. ASSUME NEW i \in 1..Len(recvChan') PROVE recvChan'[i] = req + i
    <3>1. i \in 1..Len(recvChan) \/ i = Len(recvChan) + 1
      BY <2>3, <1>7
    <3>2. QED  BY <3>1, <2>3, <2>5, <1>5, Zenon
  <2>7. RequestsNumbered'
    BY <2>1, <2>2, <2>3, <2>5, <2>6, <1>1, <1>5, <1>6, Zenon DEF RequestsNumbered
  <2>8. QED  BY <2>4, <2>7, <1>3, Zenon DEF LWInv
<1>10. QED  BY <1>8, <1>9, Zenon DEF RecvStep

\* handleRecvLoop takes a request or returns.
LEMMA HandleSelectKeepsInv ==
  ASSUME GoodConstants, LWInv, HandleSelect
  PROVE  LWInv'
<1>1. UNCHANGED <<client, sent, held, recvLoop, got, ended, sendLoop, msg, respChan, delivered,
                  produced, wire, pump, resp>>
  BY Zenon DEF HandleSelect, recvVars, shardVars, pumpVars, sendVars
<1>2. /\ handleLoop = "select"
      /\ \/ handleLoop' = "done" /\ UNCHANGED <<at, req, recvChan>>
         \/ /\ recvChan # <<>> /\ recvChan' = Tail(recvChan)
            /\ req' = Head(recvChan) /\ at' = 1 /\ handleLoop' = "send"
  BY Zenon DEF HandleSelect
<1>3. \A s \in Shards : Pushing(s)' = Pushing(s)
  BY <1>1, Zenon DEF Pushing
<1>4. ResponsesNumbered' /\ \A i \in 1..Len(delivered') : ClientSees(i)'
  BY <1>1, <1>3, ResponsesStay, Zenon
<1>5. held \in Nat /\ recvChan \in Seq(Nat) /\ req \in Nat
  BY Zenon DEF LWInv, LWTypes
<1>6. Pushed' = Pushed /\ Pushed \in {0, 1}
  BY <1>1, Zenon DEF Pushed
<1>7. /\ held <= sent /\ held = req + Len(recvChan) + Pushed
      /\ \A i \in 1..Len(recvChan) : recvChan[i] = req + i
      /\ \A s \in Shards :
            GotAll(s) /\ Len(got[s]) <= req /\ \A i \in 1..Len(got[s]) : got[s][i] = i
  BY Zenon DEF LWInv, RequestsNumbered
<1>8. CASE handleLoop' = "done" /\ UNCHANGED <<at, req, recvChan>>
  <2>1. LWTypes'
    BY <1>1, <1>8, Zenon DEF LWInv, LWTypes
  <2>2. handleLoop' # "send" /\ \A s \in Shards : GotAll(s)'
    BY <1>8 DEF GotAll
  <2>3. RequestsNumbered'
    BY <2>2, <1>1, <1>6, <1>7, <1>8, Zenon DEF RequestsNumbered
  <2>4. QED  BY <2>1, <2>3, <1>4, Zenon DEF LWInv
<1>9. CASE /\ recvChan # <<>> /\ recvChan' = Tail(recvChan)
           /\ req' = Head(recvChan) /\ at' = 1 /\ handleLoop' = "send"
  <2>1. /\ recvChan' \in Seq(Nat) /\ Len(recvChan) \in Nat \ {0}
        /\ Len(recvChan') = Len(recvChan) - 1
        /\ \A i \in 1..(Len(recvChan) - 1) : recvChan'[i] = recvChan[i + 1]
        /\ req' = recvChan[1]
    BY <1>5, <1>9, TailFacts
  <2>2. req' = req + 1
    <3>1. 1 \in 1..Len(recvChan)
      BY <2>1
    <3>2. QED  BY <3>1, <2>1, <1>7, Zenon
  <2>3. req' \in Nat /\ req' > 0 /\ req' - 1 = req
    BY <2>2, <1>5
  <2>4. 1 \in Shards /\ \A s \in Shards : ~(s < 1)
    BY DEF GoodConstants, Shards
  <2>5. LWTypes'
    BY <2>1, <2>3, <2>4, <1>1, <1>9, Zenon DEF LWInv, LWTypes
  <2>6. held = req' + Len(recvChan') + Pushed
    BY <2>1, <2>2, <1>5, <1>6, <1>7
  <2>7. ASSUME NEW i \in 1..Len(recvChan') PROVE recvChan'[i] = req' + i
    <3>1. /\ i \in 1..(Len(recvChan) - 1) /\ i + 1 \in 1..Len(recvChan)
          /\ req + (i + 1) = (req + 1) + i
      BY <2>1, <1>5
    <3>2. QED  BY <3>1, <2>1, <2>2, <1>7, Zenon
  <2>8. ASSUME NEW s \in Shards PROVE GotAll(s)'
    <3>1. GotAll(s) /\ handleLoop # "done" /\ handleLoop # "send"
      BY <1>2, <1>7
    <3>2. QED  BY <3>1, <2>3, <2>4, <1>1, <1>9, Zenon DEF GotAll
  <2>9. ASSUME NEW s \in Shards PROVE Len(got[s]) <= req'
    <3>1. got[s] \in Seq(Nat)
      BY Zenon DEF LWInv, LWTypes
    <3>2. PICK l \in Nat : l = Len(got[s])
      BY <3>1
    <3>3. l <= req
      BY <3>2, <1>7, Zenon
    <3>4. QED  BY <3>2, <3>3, <2>2, <1>5
  <2>10. RequestsNumbered'
    BY <2>3, <2>6, <2>7, <2>8, <2>9, <1>1, <1>6, <1>7, Zenon DEF RequestsNumbered
  <2>11. QED  BY <2>5, <2>10, <1>4, Zenon DEF LWInv
<1>10. QED  BY <1>2, <1>8, <1>9, Zenon

\* handleRecvLoop returns because a stream cannot be made.
LEMMA HandleFailsKeepsInv ==
  ASSUME LWInv, HandleFails
  PROVE  LWInv'
<1>1. /\ UNCHANGED <<client, sent, held, recvLoop, recvChan, at, req, got, ended, sendLoop,
                     msg, respChan, delivered, produced, wire, pump, resp>>
      /\ handleLoop' = "done"
  BY Zenon DEF HandleFails, recvVars, shardVars, pumpVars, sendVars
<1>2. LWTypes'
  BY <1>1, Zenon DEF LWInv, LWTypes
<1>3. handleLoop' # "send" /\ \A s \in Shards : GotAll(s)'
  BY <1>1 DEF GotAll
<1>4. Pushed' = Pushed
  BY <1>1, Zenon DEF Pushed
<1>5. RequestsNumbered'
  BY <1>1, <1>3, <1>4, Zenon DEF LWInv, RequestsNumbered
<1>6. \A s \in Shards : Pushing(s)' = Pushing(s)
  BY <1>1, Zenon DEF Pushing
<1>7. QED  BY <1>1, <1>2, <1>5, <1>6, ResponsesStay, Zenon DEF LWInv

\* handleRecvLoop passes the request to one shard.
LEMMA HandleSendKeepsInv ==
  ASSUME GoodConstants, LWInv, HandleSend
  PROVE  LWInv'
<1>1. /\ UNCHANGED <<client, sent, held, recvLoop, recvChan, req, ended, sendLoop, msg,
                     respChan, delivered, produced, wire, resp>>
      /\ handleLoop = "send"
      /\ pump' = PumpStarted(at)
      /\ got' = IF ended[at] # "no" \/ Cancelled THEN got
                ELSE [got EXCEPT ![at] = Append(@, req)]
  BY Zenon DEF HandleSend, recvVars, shardVars, sendVars
<1>2. \/ at < N /\ at' = at + 1 /\ handleLoop' = handleLoop
      \/ ~(at < N) /\ at' = 1 /\ handleLoop' = "select"
  BY Zenon DEF HandleSend
<1>3. /\ at \in Shards /\ req \in Nat /\ got \in [Shards -> Seq(Nat)]
      /\ pump \in [Shards -> {"none", "recv", "push", "done"}]
  BY Zenon DEF LWInv, LWTypes
<1>4. /\ req > 0
      /\ \A s \in Shards :
            GotAll(s) /\ Len(got[s]) <= req /\ \A i \in 1..Len(got[s]) : got[s][i] = i
  BY <1>1, Zenon DEF LWInv, RequestsNumbered
<1>5. at' \in Shards
  BY <1>2, <1>3 DEF GoodConstants, Shards
<1>6. pump' \in [Shards -> {"none", "recv", "push", "done"}]
  BY <1>1, <1>3 DEF PumpStarted
<1>7. ASSUME NEW s \in Shards PROVE Pushing(s)' = Pushing(s)
  <2>1. pump'[s] = pump[s] \/ (pump[s] = "none" /\ pump'[s] = "recv")
    BY <1>1, <1>3 DEF PumpStarted
  <2>2. pump'[s] = "push" <=> pump[s] = "push"
    BY <2>1
  <2>3. QED  BY <2>2, <1>1, Zenon DEF Pushing
<1>8. ResponsesNumbered' /\ \A i \in 1..Len(delivered') : ClientSees(i)'
  BY <1>1, <1>7, ResponsesStay, Zenon
<1>9. got[at] \in Seq(Nat)
  BY <1>3, Zenon
<1>10. /\ Append(got[at], req) \in Seq(Nat) /\ Len(Append(got[at], req)) = Len(got[at]) + 1
       /\ \A i \in 1..Len(got[at]) : Append(got[at], req)[i] = got[at][i]
       /\ Append(got[at], req)[Len(got[at]) + 1] = req
  BY <1>3, <1>9, AppendFacts
<1>11. /\ got' \in [Shards -> Seq(Nat)]
       /\ \A s \in Shards : s # at => got'[s] = got[s]
       /\ got'[at] = IF ended[at] # "no" \/ Cancelled THEN got[at]
                     ELSE Append(got[at], req)
  BY <1>1, <1>3, <1>10, Zenon
<1>12. LWTypes'
  BY <1>1, <1>5, <1>6, <1>11, Zenon DEF LWInv, LWTypes
<1>13. ASSUME NEW s \in Shards
       PROVE  /\ s # at =>
                   (handleLoop' = "send" /\ ~(s < at') <=> handleLoop = "send" /\ ~(s < at))
              /\ s = at => ~(s < at) /\ ~(handleLoop' = "send" /\ ~(s < at'))
  BY <1>1, <1>2, <1>3 DEF Shards, GoodConstants
<1>14. CASE ended[at] # "no" \/ Cancelled
  <2>1. got' = got
    BY <1>1, <1>14, Zenon
  <2>2. handleLoop # "done"
    BY <1>1
  <2>3. ended[at] # "no" \/ client = "gone"
    BY <2>2, <1>14, Zenon DEF Cancelled, Returned
  <2>4. ASSUME NEW s \in Shards PROVE GotAll(s)'
    <3>1. CASE s = at
      BY <3>1, <2>3, <1>1, Zenon DEF GotAll
    <3>2. CASE s # at
      BY <3>2, <2>1, <2>2, <1>1, <1>4, <1>13, Zenon DEF GotAll
    <3>3. QED  BY <3>1, <3>2
  <2>5. Pushed' = Pushed
    BY <1>1, Zenon DEF Pushed
  <2>6. RequestsNumbered'
    BY <2>1, <2>4, <2>5, <1>1, <1>4, Zenon DEF LWInv, RequestsNumbered
  <2>7. QED  BY <2>6, <1>8, <1>12, Zenon DEF LWInv
<1>15. CASE ~(ended[at] # "no" \/ Cancelled)
  <2>1. got'[at] = Append(got[at], req)
    BY <1>11, <1>15, Zenon
  <2>2. handleLoop # "done" /\ ended[at] = "no" /\ client # "gone"
    BY <1>1, <1>15 DEF Cancelled
  <2>3. Len(got[at]) = req - 1
    BY <2>2, <1>1, <1>3, <1>4, <1>13, Zenon DEF GotAll
  <2>4. Len(got[at]) + 1 = req /\ Len(got[at]) \in Nat
    BY <2>3, <1>3, <1>9
  <2>5. ASSUME NEW s \in Shards PROVE GotAll(s)'
    <3>1. CASE s = at
      <4>1. Len(got'[s]) = req
        BY <3>1, <2>1, <2>4, <1>10, Zenon
      <4>2. QED  BY <4>1, <3>1, <1>1, <1>13, Zenon DEF GotAll
    <3>2. CASE s # at
      <4>1. got'[s] = got[s]
        BY <3>2, <1>11, Zenon
      <4>2. QED  BY <3>2, <4>1, <2>2, <1>1, <1>4, <1>13, Zenon DEF GotAll
    <3>3. QED  BY <3>1, <3>2
  <2>6. ASSUME NEW s \in Shards, NEW i \in 1..Len(got'[s]) PROVE got'[s][i] = i
    <3>1. CASE s = at
      <4>1. i \in 1..(Len(got[at]) + 1)
        BY <3>1, <2>1, <1>10, Zenon
      <4>2. i \in 1..Len(got[at]) \/ i = Len(got[at]) + 1
        BY <4>1, <2>4
      <4>3. QED  BY <3>1, <4>2, <2>1, <2>4, <1>3, <1>4, <1>10, Zenon
    <3>2. CASE s # at
      BY <3>2, <2>6, <1>4, <1>11, Zenon
    <3>3. QED  BY <3>1, <3>2
  <2>7. ASSUME NEW s \in Shards PROVE Len(got'[s]) <= req
    <3>1. CASE s = at
      <4>1. Len(got'[s]) = req
        BY <3>1, <2>1, <2>4, <1>10, Zenon
      <4>2. QED  BY <4>1, <1>3
    <3>2. CASE s # at
      BY <3>2, <1>4, <1>11, Zenon
    <3>3. QED  BY <3>1, <3>2
  <2>8. Pushed' = Pushed
    BY <1>1, Zenon DEF Pushed
  <2>9. RequestsNumbered'
    BY <2>5, <2>6, <2>7, <2>8, <1>1, <1>4, Zenon DEF LWInv, RequestsNumbered
  <2>10. QED  BY <2>9, <1>8, <1>12, Zenon DEF LWInv
<1>16. QED  BY <1>14, <1>15

\* What one more message does to the count of each shard's responses.
LEMMA CountAppended ==
  ASSUME NEW q \in Seq(Messages), NEW m \in Messages, NEW s
  PROVE  /\ m # Nil /\ m.shard = s =>
              Cardinality(From(Append(q, m), Len(Append(q, m)), s))
                = Cardinality(From(q, Len(q), s)) + 1
         /\ ~(m # Nil /\ m.shard = s) =>
              Cardinality(From(Append(q, m), Len(Append(q, m)), s))
                = Cardinality(From(q, Len(q), s))
<1>1. PICK r : r = Append(q, m)
  OBVIOUS
<1>2. /\ Len(r) = Len(q) + 1 /\ r[Len(q) + 1] = m /\ Len(q) \in Nat
      /\ \A i \in 1..Len(q) : q[i] = r[i]
  BY <1>1, AppendFacts
<1>3. From(q, Len(q), s) = From(r, Len(q), s)
  BY <1>2, Zenon DEF From
<1>4. /\ r[Len(q) + 1] # Nil /\ r[Len(q) + 1].shard = s =>
           Cardinality(From(r, Len(q) + 1, s)) = Cardinality(From(r, Len(q), s)) + 1
      /\ ~(r[Len(q) + 1] # Nil /\ r[Len(q) + 1].shard = s) =>
           From(r, Len(q) + 1, s) = From(r, Len(q), s)
  <2>1. Len(q) \in Nat
    BY <1>2, Zenon
  <2>2. QED  BY <2>1, FromFacts, Zenon
<1>5. QED  BY <1>1, <1>2, <1>3, <1>4, Zenon

\* The next response of a shard may be put behind the others.
LEMMA NumberAppended ==
  ASSUME NEW q \in Seq(Messages), NEW m \in Messages, Numbered(q),
         m # Nil => m.n = Cardinality(From(q, Len(q), m.shard)) + 1
  PROVE  Numbered(Append(q, m))
<1>1. PICK r : r = Append(q, m)
  OBVIOUS
<1>2. /\ Len(r) = Len(q) + 1 /\ r[Len(q) + 1] = m /\ Len(q) \in Nat
      /\ \A i \in 1..Len(q) : q[i] = r[i]
  BY <1>1, AppendFacts
<1>3. ASSUME NEW i \in 1..Len(r), r[i] # Nil
      PROVE  r[i].n = Cardinality(From(r, i, r[i].shard))
  <2>1. i \in 1..Len(q) \/ i = Len(q) + 1
    BY <1>2
  <2>2. CASE i \in 1..Len(q)
    <3>1. q[i] = r[i] /\ \A j \in 1..i : q[j] = r[j]
      <4>1. \A j \in 1..i : j \in 1..Len(q)
        BY <2>2, <1>2
      <4>2. QED  BY <4>1, <2>2, <1>2, Zenon
    <3>2. From(q, i, r[i].shard) = From(r, i, r[i].shard)
      BY <3>1, Zenon DEF From
    <3>3. QED  BY <3>1, <3>2, <2>2, <1>3, Zenon DEF Numbered
  <2>3. CASE i = Len(q) + 1
    <3>1. m # Nil /\ r[i] = m
      BY <2>3, <1>2, <1>3, Zenon
    <3>2. Cardinality(From(r, Len(r), m.shard)) = Cardinality(From(q, Len(q), m.shard)) + 1
      BY <3>1, <1>1, CountAppended, Zenon
    <3>3. QED  BY <3>1, <3>2, <2>3, <1>2, Zenon
  <2>4. QED  BY <2>1, <2>2, <2>3, Zenon
<1>4. QED  BY <1>1, <1>3, Zenon DEF Numbered

\* The goroutine of a shard takes a response, or the nil of an error.
LEMMA PumpRecvKeepsInv ==
  ASSUME GoodConstants, LWInv, NEW s \in Shards, PumpRecv(s)
  PROVE  LWInv'
<1>1. /\ UNCHANGED <<sent, held, req, recvChan, recvLoop, handleLoop, at, got, client, ended,
                     produced, sendLoop, msg, respChan, delivered>>
      /\ pump[s] = "recv"
  BY Zenon DEF PumpRecv, recvVars, handleVars, shardVars, sendVars
<1>2. \/ /\ wire[s] # <<>>
         /\ wire' = [wire EXCEPT ![s] = Tail(@)]
         /\ resp' = [resp EXCEPT ![s] = [shard |-> s, n |-> Head(wire[s])]]
         /\ pump' = [pump EXCEPT ![s] = "push"]
      \/ pump' = [pump EXCEPT ![s] = "done"] /\ UNCHANGED <<wire, resp>>
      \/ /\ resp' = [resp EXCEPT ![s] = Nil]
         /\ pump' = [pump EXCEPT ![s] = "push"] /\ UNCHANGED wire
  BY Zenon DEF PumpRecv
<1>3. /\ wire \in [Shards -> Seq(Nat \ {0})] /\ resp \in [Shards -> Messages]
      /\ pump \in [Shards -> {"none", "recv", "push", "done"}]
  BY Zenon DEF LWInv, LWTypes
<1>4. wire[s] \in Seq(Nat \ {0}) /\ Len(wire[s]) \in Nat
  <2>1. wire[s] \in Seq(Nat \ {0})
    BY <1>3, Zenon
  <2>2. QED  BY <2>1
<1>5. Pushing(s) = 0
  BY <1>1 DEF Pushing
<1>6. RequestsNumbered'
  BY <1>1, RequestsStay, SentEnough, Zenon
<1>7. Trail' = Trail
  BY <1>1, Zenon DEF Trail, Sending
<1>8. \A i \in 1..Len(delivered') : ClientSees(i)'
  BY <1>1, Zenon DEF LWInv, ClientSees
<1>9. SUFFICES /\ wire' \in [Shards -> Seq(Nat \ {0})] /\ resp' \in [Shards -> Messages]
               /\ pump' \in [Shards -> {"none", "recv", "push", "done"}]
               /\ \A x \in Shards : x # s =>
                     wire'[x] = wire[x] /\ resp'[x] = resp[x] /\ pump'[x] = pump[x]
               /\ ComeNext(s, Trail) => ComeNext(s, Trail)'
  <2>1. LWTypes'
    BY <1>1, <1>9, Zenon DEF LWInv, LWTypes
  <2>2. ASSUME NEW x \in Shards, x # s, ComeNext(x, Trail) PROVE ComeNext(x, Trail)'
    <3>1. Pushing(x)' = Pushing(x)
      BY <1>9, <2>2, Zenon DEF Pushing
    <3>2. QED  BY <3>1, <2>2, <1>1, <1>7, <1>9, Zenon DEF ComeNext
  <2>3. ResponsesNumbered'
    BY <2>2, <1>1, <1>7, <1>9, Zenon DEF LWInv, ResponsesNumbered
  <2>4. QED  BY <2>1, <2>3, <1>6, <1>8, Zenon DEF LWInv
<1>10. CASE /\ wire[s] # <<>>
            /\ wire' = [wire EXCEPT ![s] = Tail(@)]
            /\ resp' = [resp EXCEPT ![s] = [shard |-> s, n |-> Head(wire[s])]]
            /\ pump' = [pump EXCEPT ![s] = "push"]
  <2>1. /\ Tail(wire[s]) \in Seq(Nat \ {0}) /\ Len(wire[s]) \in Nat \ {0}
        /\ Len(Tail(wire[s])) = Len(wire[s]) - 1
        /\ \A i \in 1..(Len(wire[s]) - 1) : Tail(wire[s])[i] = wire[s][i + 1]
        /\ Head(wire[s]) = wire[s][1]
    BY <1>4, <1>10, TailFacts
  <2>2. wire[s][1] \in Nat \ {0}
    BY <1>4, <2>1
  <2>3. PICK m : m = [shard |-> s, n |-> wire[s][1]]
    OBVIOUS
  <2>4. m \in Responses /\ m # Nil /\ m \in Messages
    BY <2>2, <2>3 DEF Responses, Shards, GoodConstants, Messages
  <2>5. /\ wire' \in [Shards -> Seq(Nat \ {0})] /\ resp' \in [Shards -> Messages]
        /\ pump' \in [Shards -> {"none", "recv", "push", "done"}]
        /\ \A x \in Shards : x # s =>
              wire'[x] = wire[x] /\ resp'[x] = resp[x] /\ pump'[x] = pump[x]
        /\ wire'[s] = Tail(wire[s]) /\ resp'[s] = m /\ pump'[s] = "push"
    BY <2>1, <2>3, <2>4, <1>3, <1>10, Zenon
  <2>6. Pushing(s)' = 1
    BY <2>4, <2>5, Zenon DEF Pushing
  <2>7. ASSUME ComeNext(s, Trail) PROVE ComeNext(s, Trail)'
    <3>1. PICK q : q = Trail
      OBVIOUS
    <3> DEFINE k == Cardinality(From(q, Len(q), s))
    <3>2. k \in Nat
      <4>1. Len(q) \in Nat
        BY <3>1, TrailType DEF LWInv
      <4>2. QED  BY <4>1, FromFacts, Zenon
    <3> HIDE DEF k
    <3>3. /\ produced[s] = k + 0 + Len(wire[s])
          /\ \A i \in 1..Len(wire[s]) : wire[s][i] = k + 0 + i
      BY <3>1, <2>7, <1>5, Zenon DEF ComeNext, k
    <3>4. PICK w \in Nat \ {0} : w = Len(wire[s])
      BY <2>1
    <3>5. w - 1 = Len(wire'[s]) /\ k + 0 + w = k + 1 + (w - 1) /\ k + 0 + 1 = k + 1
      <4>1. w - 1 = Len(wire'[s])
        BY <3>4, <2>1, <2>5, Zenon
      <4>2. k + 0 + w = k + 1 + (w - 1) /\ k + 0 + 1 = k + 1
        BY <3>2
      <4>3. QED  BY <4>1, <4>2, Zenon
    <3>6. wire[s][1] = k + 1
      <4>1. 1 \in 1..Len(wire[s])
        BY <2>1
      <4>2. QED  BY <4>1, <3>3, <3>5, Zenon
    <3>7. ASSUME NEW i \in 1..(w - 1) PROVE wire'[s][i] = k + 1 + i
      <4>1. i + 1 \in 1..w /\ k + 0 + (i + 1) = k + 1 + i
        BY <3>2, <3>4
      <4>2. QED  BY <4>1, <3>3, <3>4, <2>1, <2>5, Zenon
    <3>8. /\ produced'[s] = k + 1 + Len(wire'[s])
          /\ resp'[s] = [shard |-> s, n |-> k + 1]
          /\ \A i \in 1..Len(wire'[s]) : wire'[s][i] = k + 1 + i
      BY <3>3, <3>4, <3>5, <3>6, <3>7, <2>3, <2>5, <1>1, Zenon
    <3>9. QED  BY <3>8, <3>1, <2>6, <1>7, Zenon DEF ComeNext, k
  <2>8. QED  BY <2>5, <2>7, Zenon
<1>11. CASE pump' = [pump EXCEPT ![s] = "done"] /\ UNCHANGED <<wire, resp>>
  <2>1. /\ pump' \in [Shards -> {"none", "recv", "push", "done"}]
        /\ \A x \in Shards : x # s => pump'[x] = pump[x]
        /\ pump'[s] = "done"
    BY <1>3, <1>11, Zenon
  <2>2. Pushing(s)' = 0
    BY <2>1 DEF Pushing
  <2>3. ComeNext(s, Trail) => ComeNext(s, Trail)'
    BY <2>2, <1>1, <1>5, <1>7, <1>11, Zenon DEF ComeNext
  <2>4. QED  BY <2>1, <2>3, <1>3, <1>11, Zenon
<1>12. CASE /\ resp' = [resp EXCEPT ![s] = Nil]
            /\ pump' = [pump EXCEPT ![s] = "push"] /\ UNCHANGED wire
  <2>1. /\ pump' \in [Shards -> {"none", "recv", "push", "done"}]
        /\ \A x \in Shards : x # s => pump'[x] = pump[x] /\ resp'[x] = resp[x]
        /\ resp' \in [Shards -> Messages] /\ resp'[s] = Nil
    BY <1>3, <1>12, Zenon DEF Messages
  <2>2. Pushing(s)' = 0
    BY <2>1, Zenon DEF Pushing
  <2>3. ComeNext(s, Trail) => ComeNext(s, Trail)'
    <3>1. 0 # 1
      OBVIOUS
    <3>2. QED  BY <3>1, <2>2, <1>1, <1>5, <1>7, <1>12, Zenon DEF ComeNext
  <2>4. QED  BY <2>1, <2>3, <1>3, <1>12, Zenon
<1>13. QED  BY <1>2, <1>10, <1>11, <1>12, Zenon

\* The goroutine of a shard passes on what it holds.
LEMMA PumpPushKeepsInv ==
  ASSUME LWInv, NEW s \in Shards, PumpPush(s)
  PROVE  LWInv'
<1>1. /\ UNCHANGED <<sent, held, req, recvChan, recvLoop, handleLoop, at, got, client, ended,
                     produced, sendLoop, msg, delivered, wire, resp>>
      /\ pump[s] = "push" /\ respChan' = Append(respChan, resp[s])
      /\ pump' = [pump EXCEPT ![s] = "recv"]
  BY Zenon DEF PumpPush, recvVars, handleVars, shardVars, sendVars
<1>2. /\ resp \in [Shards -> Messages] /\ respChan \in Seq(Messages)
      /\ pump \in [Shards -> {"none", "recv", "push", "done"}] /\ LWTypes
  BY Zenon DEF LWInv, LWTypes
<1>3. PICK m \in Messages : m = resp[s]
  BY <1>2, Zenon
<1>4. /\ pump' \in [Shards -> {"none", "recv", "push", "done"}]
      /\ \A x \in Shards : x # s => pump'[x] = pump[x]
      /\ pump'[s] = "recv"
  BY <1>1, <1>2, Zenon
<1>5. respChan' \in Seq(Messages)
  BY <1>1, <1>2, <1>3, AppendFacts, Zenon
<1>6. LWTypes'
  BY <1>1, <1>4, <1>5, Zenon DEF LWInv, LWTypes
<1>7. RequestsNumbered'
  BY <1>1, RequestsStay, SentEnough, Zenon
<1>8. \A i \in 1..Len(delivered') : ClientSees(i)'
  BY <1>1, Zenon DEF LWInv, ClientSees
<1>9. PICK q \in Seq(Messages) : q = Trail
  BY <1>2, TrailType, Zenon
<1>10. Trail' = Append(q, m)
  <2>1. Sending' = Sending
    BY <1>1, Zenon DEF Sending
  <2>2. (delivered \o Sending) \o Append(respChan, m)
          = Append((delivered \o Sending) \o respChan, m)
    <3>1. PICK t \in Seq(Messages) : t = delivered \o Sending
      BY <1>2, TrailType, Zenon
    <3>2. t \o Append(respChan, m) = Append(t \o respChan, m)
      BY <1>2, CatAppend
    <3>3. QED  BY <3>1, <3>2, Zenon
  <2>3. QED  BY <2>1, <2>2, <1>1, <1>3, <1>9, Zenon DEF Trail
<1>11. Pushing(s)' = 0 /\ Pushing(s) = (IF m # Nil THEN 1 ELSE 0)
  <2>1. pump'[s] # "push"
    BY <1>4
  <2>2. QED  BY <2>1, <1>1, <1>3, Zenon DEF Pushing
<1>12. SUFFICES ASSUME Numbered(q), \A x \in Shards : ComeNext(x, q)
                PROVE  /\ Numbered(Append(q, m))
                       /\ \A x \in Shards : ComeNext(x, Append(q, m))'
  <2>1. ResponsesNumbered'
    BY <1>1, <1>9, <1>10, <1>12, Zenon DEF LWInv, ResponsesNumbered
  <2>2. QED  BY <2>1, <1>6, <1>7, <1>8, Zenon DEF LWInv
<1>13. PICK k : k = Cardinality(From(q, Len(q), s))
  OBVIOUS
<1>14. k \in Nat
  <2>1. Len(q) \in Nat
    BY <1>9
  <2>2. QED  BY <2>1, <1>13, FromFacts, Zenon
<1>15. m # Nil => m.shard = s /\ m.n = k + 1
  <2>1. m # Nil => m = [shard |-> s, n |-> k + 1]
    BY <1>3, <1>11, <1>12, <1>13, Zenon DEF ComeNext
  <2>2. QED  BY <2>1
<1>16. Numbered(Append(q, m))
  BY <1>12, <1>13, <1>15, NumberAppended, Zenon
<1>17. ASSUME NEW x \in Shards, x # s PROVE ComeNext(x, Append(q, m))'
  <2>1. Cardinality(From(Append(q, m), Len(Append(q, m)), x)) = Cardinality(From(q, Len(q), x))
    BY <1>15, <1>17, CountAppended, Zenon
  <2>2. Pushing(x)' = Pushing(x)
    BY <1>1, <1>4, <1>17, Zenon DEF Pushing
  <2>3. ComeNext(x, q)
    BY <1>12, Zenon
  <2>4. QED  BY <2>1, <2>2, <2>3, <1>1, Zenon DEF ComeNext
<1>18. ComeNext(s, Append(q, m))'
  <2>1. /\ produced[s] = k + Pushing(s) + Len(wire[s])
        /\ \A i \in 1..Len(wire[s]) : wire[s][i] = k + Pushing(s) + i
    BY <1>12, <1>13, Zenon DEF ComeNext
  <2>2. PICK h : h = Cardinality(From(Append(q, m), Len(Append(q, m)), s))
    OBVIOUS
  <2>3. h = k + Pushing(s)
    <3>1. CASE m # Nil
      BY <3>1, <2>2, <1>11, <1>13, <1>15, CountAppended, Zenon
    <3>2. CASE m = Nil
      <4>1. h = k /\ Pushing(s) = 0
        BY <3>2, <2>2, <1>11, <1>13, CountAppended, Zenon
      <4>2. QED  BY <4>1, <1>14
    <3>3. QED  BY <3>1, <3>2
  <2>4. h + 0 = h /\ 0 # 1
    <3>1. Pushing(s) \in {0, 1}
      BY <1>11, Zenon
    <3>2. QED  BY <2>3, <3>1, <1>14
  <2>5. /\ produced'[s] = h + 0 + Len(wire'[s])
        /\ \A i \in 1..Len(wire'[s]) : wire'[s][i] = h + 0 + i
    BY <2>1, <2>3, <2>4, <1>1, Zenon
  <2>6. QED  BY <2>2, <2>4, <2>5, <1>11, Zenon DEF ComeNext
<1>19. QED  BY <1>16, <1>17, <1>18, Zenon

\* Neither loop of the responses has changed what is on the way.
LEMMA TrailStays ==
  ASSUME LWInv, Trail' = Trail, sendLoop' # "done" => sendLoop # "done",
         UNCHANGED <<produced, wire, pump, resp>>
  PROVE  ResponsesNumbered'
<1>1. \A s \in Shards : Pushing(s)' = Pushing(s)
  BY Zenon DEF Pushing
<1>2. \A s \in Shards : ComeNext(s, Trail) => ComeNext(s, Trail)'
  BY <1>1, Zenon DEF ComeNext
<1>3. QED  BY <1>2, Zenon DEF LWInv, ResponsesNumbered

\* sendLoop takes a response or returns.
LEMMA SendSelectKeepsInv ==
  ASSUME LWInv, SendSelect
  PROVE  LWInv'
<1>1. /\ UNCHANGED <<sent, held, req, recvChan, recvLoop, handleLoop, at, got, client, ended,
                     produced, delivered, wire, pump, resp>>
      /\ sendLoop = "select"
      /\ \/ sendLoop' = "done" /\ UNCHANGED <<msg, respChan>>
         \/ /\ respChan # <<>> /\ respChan' = Tail(respChan)
            /\ msg' = Head(respChan) /\ sendLoop' = "send"
  BY Zenon DEF SendSelect, recvVars, handleVars, shardVars, pumpVars
<1>2. LWTypes
  BY Zenon DEF LWInv
<1>3. RequestsNumbered'
  BY <1>1, RequestsStay, SentEnough, Zenon
<1>4. \A i \in 1..Len(delivered') : ClientSees(i)'
  BY <1>1, Zenon DEF LWInv, ClientSees
<1>5. CASE sendLoop' = "done" /\ UNCHANGED <<msg, respChan>>
  <2>1. LWTypes'
    BY <1>1, <1>2, <1>5, Zenon DEF LWTypes
  <2>2. ResponsesNumbered'
    BY <1>5, Zenon DEF ResponsesNumbered
  <2>3. QED  BY <2>1, <2>2, <1>3, <1>4, Zenon DEF LWInv
<1>6. CASE /\ respChan # <<>> /\ respChan' = Tail(respChan)
           /\ msg' = Head(respChan) /\ sendLoop' = "send"
  <2>1. respChan \in Seq(Messages) /\ delivered \in Seq(Messages)
    BY <1>2, TrailType, Zenon
  <2>2. Tail(respChan) \in Seq(Messages) /\ Head(respChan) \in Messages
    BY <2>1, <1>6, TailFacts, Zenon
  <2>3. LWTypes'
    BY <2>2, <1>1, <1>2, <1>6, Zenon DEF LWTypes
  <2>4. Sending = <<>> /\ Sending' = <<Head(respChan)>>
    <3>1. sendLoop # "send"
      BY <1>1
    <3>2. QED  BY <3>1, <1>6, Zenon DEF Sending
  <2>5. delivered \o <<>> = delivered
    BY <2>1, CatEmpty, Zenon
  <2>6. delivered \o <<Head(respChan)>> = Append(delivered, Head(respChan))
    BY <2>1, <2>2, CatAppend, Zenon
  <2>7. Append(delivered, Head(respChan)) \o Tail(respChan) = delivered \o respChan
    BY <2>1, <1>6, CatHead, Zenon
  <2>8. Trail' = Trail
    BY <2>4, <2>5, <2>6, <2>7, <1>1, <1>6, Zenon DEF Trail
  <2>9. sendLoop # "done"
    BY <1>1
  <2>10. QED  BY <2>3, <2>8, <2>9, <1>1, <1>3, <1>4, TrailStays, Zenon DEF LWInv
<1>7. QED  BY <1>1, <1>5, <1>6, Zenon

\* sendLoop sends what it holds to the client.
LEMMA SendMsgKeepsInv ==
  ASSUME GoodConstants, LWInv, SendMsg
  PROVE  LWInv'
<1>1. /\ UNCHANGED <<sent, held, req, recvChan, recvLoop, handleLoop, at, got, client, ended,
                     produced, respChan, msg, wire, pump, resp>>
      /\ sendLoop = "send"
      /\ \/ /\ msg # Nil /\ delivered' = Append(delivered, msg) /\ sendLoop' = "select"
         \/ sendLoop' = "done" /\ delivered' = delivered
         \/ delivered' = delivered /\ sendLoop' = sendLoop
  BY Zenon DEF SendMsg, recvVars, handleVars, shardVars, pumpVars
<1>2. LWTypes
  BY Zenon DEF LWInv
<1>3. RequestsNumbered'
  BY <1>1, RequestsStay, SentEnough, Zenon
<1>4. sendLoop # "done"
  BY <1>1
<1>5. CASE delivered' = delivered
  <2>1. LWTypes'
    BY <1>1, <1>2, <1>5, Zenon DEF LWTypes
  <2>2. \A i \in 1..Len(delivered') : ClientSees(i)'
    BY <1>1, <1>5, Zenon DEF LWInv, ClientSees
  <2>3. CASE sendLoop' = "done"
    <3>1. ResponsesNumbered'
      BY <2>3, Zenon DEF ResponsesNumbered
    <3>2. QED  BY <3>1, <2>1, <2>2, <1>3, Zenon DEF LWInv
  <2>4. CASE sendLoop' = sendLoop
    <3>1. Trail' = Trail
      BY <2>4, <1>1, <1>5, Zenon DEF Trail, Sending
    <3>2. QED  BY <3>1, <2>1, <2>2, <2>4, <1>1, <1>3, TrailStays, Zenon DEF LWInv
  <2>5. CASE /\ msg # Nil /\ delivered' = Append(delivered, msg) /\ sendLoop' = "select"
    <3>1. Append(delivered, msg) # delivered
      <4>1. msg \in Messages /\ delivered \in Seq(Messages)
        BY <1>2, TrailType, Zenon DEF LWTypes
      <4>2. QED  BY <4>1
    <3>2. QED  BY <3>1, <2>5, <1>5, Zenon
  <2>6. QED  BY <1>1, <2>3, <2>4, <2>5, Zenon
<1>6. CASE msg # Nil /\ delivered' = Append(delivered, msg) /\ sendLoop' = "select"
  <2>1. delivered \in Seq(Messages) /\ respChan \in Seq(Messages) /\ msg \in Messages
    BY <1>2, TrailType, Zenon DEF LWTypes
  <2>2. delivered \in Seq(Responses) /\ msg \in Responses
    BY <2>1, <1>2, <1>6, Zenon DEF LWTypes, Messages
  <2>3. PICK d : d = Append(delivered, msg)
    OBVIOUS
  <2>4. PICK l : l = Len(delivered)
    OBVIOUS
  <2>5. /\ d \in Seq(Responses) /\ Len(d) = l + 1 /\ d[l + 1] = msg /\ l \in Nat
        /\ \A i \in 1..l : d[i] = delivered[i]
    <3>1. l \in Nat
      BY <2>2, <2>4
    <3>2. /\ Append(delivered, msg) \in Seq(Responses)
          /\ Len(Append(delivered, msg)) = Len(delivered) + 1
          /\ \A i \in 1..Len(delivered) : Append(delivered, msg)[i] = delivered[i]
          /\ Append(delivered, msg)[Len(delivered) + 1] = msg
      BY <2>2, AppendFacts
    <3>3. QED  BY <3>1, <3>2, <2>3, <2>4, Zenon
  <2>6. LWTypes'
    BY <2>3, <2>5, <1>1, <1>2, <1>6, Zenon DEF LWTypes
  <2>7. Trail = d \o respChan /\ Trail' = d \o respChan
    <3>1. delivered \o <<msg>> = d
      BY <2>1, <2>3, CatAppend, Zenon
    <3>2. d \o <<>> = d
      BY <2>5, CatEmpty, Zenon
    <3>3. sendLoop' # "send"
      BY <1>6
    <3>4. Sending = <<msg>> /\ Sending' = <<>>
      BY <3>3, <1>1, Zenon DEF Sending
    <3>5. QED  BY <3>1, <3>2, <3>4, <2>3, <1>1, <1>6, Zenon DEF Trail
  <2>8. ResponsesNumbered'
    BY <2>7, <1>1, <1>4, TrailStays, Zenon
  <2>9. PICK q : q = Trail
    OBVIOUS
  <2>10. /\ Len(q) \in Nat /\ l + 1 <= Len(q) /\ l + 1 \in 1..Len(q) /\ l + 1 \in Nat
         /\ \A j \in 1..(l + 1) : q[j] = d[j]
    <3>1. d \in Seq(Messages)
      BY <2>1, <2>3, AppendFacts, Zenon
    <3>2. /\ Len(q) = Len(d) + Len(respChan)
          /\ \A j \in 1..Len(d) : q[j] = d[j]
      BY <3>1, <2>1, <2>7, <2>9, CatFacts, Zenon
    <3>3. Len(respChan) \in Nat
      BY <2>1
    <3>4. /\ l + 1 \in Nat /\ (l + 1) + Len(respChan) \in Nat
          /\ l + 1 <= (l + 1) + Len(respChan) /\ l + 1 \in 1..((l + 1) + Len(respChan))
      BY <3>3, <2>5
    <3>5. QED  BY <3>2, <3>4, <2>5, Zenon
  <2>11. Numbered(q) /\ \A s \in Shards : ComeNext(s, q)
    BY <2>9, <1>4, Zenon DEF LWInv, ResponsesNumbered
  <2>12. msg.shard \in Shards
    BY <2>2 DEF Responses, Shards
  <2>13. PICK s \in Shards : s = msg.shard
    BY <2>12, Zenon
  <2>14. msg.n = Cardinality(From(q, l + 1, s))
    <3>1. q[l + 1] # Nil => q[l + 1].n = Cardinality(From(q, l + 1, q[l + 1].shard))
      BY <2>10, <2>11, Zenon DEF Numbered
    <3>2. l + 1 \in 1..(l + 1)
      BY <2>5
    <3>3. q[l + 1] = msg
      BY <3>2, <2>5, <2>10, Zenon
    <3>4. QED  BY <3>1, <3>3, <2>13, <1>6, Zenon
  <2>15. msg.n <= produced[s]
    <3>1. PICK k : k = Cardinality(From(q, Len(q), s))
      OBVIOUS
    <3>2. produced[s] = k + Pushing(s) + Len(wire[s])
      BY <3>1, <2>11, Zenon DEF ComeNext
    <3>3. PICK c : c = msg.n
      OBVIOUS
    <3>4. c <= k /\ k \in Nat /\ c \in Nat
      <4>1. Cardinality(From(q, l + 1, s)) <= Cardinality(From(q, Len(q), s))
        BY <2>10, FromGrows, Zenon
      <4>2. k \in Nat /\ c \in Nat
        BY <3>1, <3>3, <2>10, <2>14, FromFacts, Zenon
      <4>3. QED  BY <4>1, <4>2, <3>1, <3>3, <2>14, Zenon
    <3>5. PICK w \in Nat : w = Len(wire[s])
      <4>1. wire[s] \in Seq(Nat \ {0})
        BY <1>2, Zenon DEF LWTypes
      <4>2. QED  BY <4>1
    <3>6. PICK p \in {0, 1} : p = Pushing(s)
      BY Zenon DEF Pushing
    <3>7. c <= k + p + w
      BY <3>4, <3>5, <3>6
    <3>8. QED  BY <3>2, <3>3, <3>5, <3>6, <3>7, Zenon
  <2>16. From(q, l + 1, s) = {j \in 1..(l + 1) : d[j].shard = s}
    <3>1. ASSUME NEW j \in 1..(l + 1) PROVE d[j] # Nil
      <4>1. d[j] \in Responses
        BY <2>5, <3>1, ElementFact, Zenon
      <4>2. QED  BY <4>1, Zenon DEF GoodConstants
    <3>2. QED  BY <3>1, <2>10, Zenon DEF From
  <2>17. ASSUME NEW i \in 1..(l + 1)
         PROVE  /\ d[i].n = Cardinality({j \in 1..i : d[j].shard = d[i].shard})
                /\ d[i].n <= produced[d[i].shard]
    <3>1. i \in 1..l \/ i = l + 1
      BY <2>5
    <3>2. CASE i = l + 1
      BY <3>2, <2>5, <2>13, <2>14, <2>15, <2>16, Zenon
    <3>3. CASE i \in 1..l
      <4>1. ClientSees(i)
        BY <3>3, <2>4, Zenon DEF LWInv
      <4>2. \A j \in 1..i : d[j] = delivered[j]
        <5>1. \A j \in 1..i : j \in 1..l
          BY <3>3, <2>5
        <5>2. QED  BY <5>1, <2>5, Zenon
      <4>3. d[i] = delivered[i]
        BY <3>3, <2>5, Zenon
      <4>4. {j \in 1..i : d[j].shard = d[i].shard}
              = {j \in 1..i : delivered[j].shard = delivered[i].shard}
        BY <4>2, <4>3, Zenon
      <4>5. QED  BY <4>1, <4>3, <4>4, Zenon DEF ClientSees
    <3>4. QED  BY <3>1, <3>2, <3>3, Zenon
  <2>18. delivered' = d
    BY <2>3, <1>6, Zenon
  <2>19. \A i \in 1..Len(delivered') : ClientSees(i)'
    BY <2>5, <2>17, <2>18, <1>1, Zenon DEF ClientSees
  <2>20. QED  BY <2>6, <2>8, <2>19, <1>3, Zenon DEF LWInv
<1>7. QED  BY <1>1, <1>5, <1>6, Zenon

\* Every action keeps the invariant.
LEMMA LWInvStep ==
  ASSUME GoodConstants
  PROVE  LWInv /\ [Next]_vars => LWInv'
<1>1. SUFFICES ASSUME LWInv, [Next]_vars PROVE LWInv'
  OBVIOUS
<1>2. CASE ClientSends \/ ClientLeaves
  BY <1>1, <1>2, WatchClientKeepsInv, Zenon
<1>3. CASE RecvStep
  BY <1>1, <1>3, RecvLoopKeepsInv, Zenon
<1>4. CASE HandleStep
  BY <1>1, <1>4, HandleSelectKeepsInv, HandleSendKeepsInv, HandleFailsKeepsInv, Zenon
     DEF HandleStep
<1>5. CASE SendStep
  BY <1>1, <1>5, SendSelectKeepsInv, SendMsgKeepsInv, Zenon DEF SendStep
<1>6. ASSUME NEW s \in Shards, ShardSends(s) \/ ShardEnds(s) \/ PumpStep(s)
      PROVE  LWInv'
  BY <1>1, <1>6, ShardSendsKeepsInv, WatchShardEndsKeepsInv, PumpRecvKeepsInv,
     PumpPushKeepsInv, Zenon DEF PumpStep
<1>7. CASE vars' = vars
  <2>1. UNCHANGED <<sent, held, req, recvChan, recvLoop, handleLoop, at, got, client, ended,
                    produced, sendLoop, msg, respChan, delivered, wire, pump, resp>>
    BY <1>7, Zenon DEF vars
  <2>2. LWTypes'
    BY <2>1, <1>1, Zenon DEF LWInv, LWTypes
  <2>3. RequestsNumbered'
    BY <2>1, <1>1, RequestsStay, SentEnough, Zenon
  <2>4. \A s \in Shards : Pushing(s)' = Pushing(s)
    BY <2>1, Zenon DEF Pushing
  <2>5. ResponsesNumbered' /\ \A i \in 1..Len(delivered') : ClientSees(i)'
    BY <2>1, <2>4, <1>1, ResponsesStay, Zenon
  <2>6. QED  BY <2>2, <2>3, <2>5, Zenon DEF LWInv
<1>8. QED  BY <1>1, <1>2, <1>3, <1>4, <1>5, <1>6, <1>7, Zenon DEF Next

\* StreamsKeepOrder: between the client and one shard nothing is lost in the
\* middle, repeated or reordered on the way through the loops and channels of
\* SingleWatchStreamProxy, in either direction.
THEOREM StreamsAlwaysKeepOrder == Spec => []StreamsKeepOrder
<1>1. Init => LWInv
  BY LWInvInit, WatchAssumption, Zenon
<1>2. LWInv /\ [Next]_vars => LWInv'
  BY LWInvStep, WatchAssumption, Zenon
<1>3. LWInv => StreamsKeepOrder
  <2>1. SUFFICES ASSUME LWInv PROVE StreamsKeepOrder
    OBVIOUS
  <2>2. ASSUME NEW s \in Shards
        PROVE  Len(got[s]) <= sent /\ \A i \in 1..Len(got[s]) : got[s][i] = i
    <3>1. /\ held = req + Len(recvChan) + Pushed /\ held <= sent /\ Len(got[s]) <= req
          /\ \A i \in 1..Len(got[s]) : got[s][i] = i
      BY <2>1, Zenon DEF LWInv, RequestsNumbered
    <3>2. got[s] \in Seq(Nat) /\ recvChan \in Seq(Nat)
      BY <2>1, Zenon DEF LWInv, LWTypes
    <3>3. PICK l \in Nat, c \in Nat : l = Len(got[s]) /\ c = Len(recvChan)
      BY <3>2
    <3>4. Pushed \in {0, 1} /\ req \in Nat /\ sent \in Nat
      BY <2>1, Zenon DEF LWInv, LWTypes, Pushed
    <3>5. l <= sent
      BY <3>1, <3>3, <3>4
    <3>6. QED  BY <3>1, <3>3, <3>5, Zenon
  <2>3. QED
    BY <2>1, <2>2, Zenon DEF LWInv, ClientSees, StreamsKeepOrder
<1>4. QED  BY <1>1, <1>2, <1>3, PTL DEF Spec
=============================================================================
