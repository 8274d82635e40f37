-------------------------- MODULE LegacyKeepAlive --------------------------
(***************************************************************************)
(* One LeaseKeepAlive stream in legacy mode: SingleLeaseKeepAliveProxy of  *)
(* pkg/server/proxy_lease.go.  Run takes requests from a receiver          *)
(* goroutine over an unbuffered channel, sends each to every shard on a    *)
(* stream of its own and then receives from every shard; the client gets   *)
(* the response with the shortest TTL.                                     *)
(*                                                                         *)
(* A gRPC stream delivers in order, what is buffered before the status it  *)
(* ends with.  A shard is any server that answers the requests of its      *)
(* stream in order, with any TTL and perhaps about another lease, and that *)
(* may end the stream.                                                     *)
(***************************************************************************)
EXTENDS AllShards, Sequences, FiniteSets

CONSTANTS
  Leases,       \* lease IDs
  TTLs,         \* TTLs a shard may report, 0 of a lease it does not know
  MaxKeepAlives, \* bound on the requests of the client
  None,
  EOF, Failure  \* what Recv returns at the end of a stream

Responses == [id : Leases, ttl : TTLs]

GoodConstants ==
  /\ N \in Nat \ {0} /\ TTLs \subseteq Int
  /\ {None, EOF, Failure} \cap Leases = {} /\ EOF # Failure
  /\ None \notin Responses /\ "OK" \notin {None, Failure}

ASSUME KeepAliveAssumption == GoodConstants

VARIABLES
  client,       \* "open", "closed" (for sending) or "gone"
  sent, inbox,  \* requests of the client: all, and those not received yet
  receiver, held,
  run, index,   \* program counter of Run, and the index of its loops
  next,         \* the request being served
  opened,       \* indices of the shards in streams
  up, down,     \* messages under way to and from each shard
  ended,        \* how each shard ended its stream
  response, delivered, result,
  answered      \* history: the TTLs that each shard answered

keepAliveVars ==
  <<client, sent, inbox, receiver, held, run, index, next, opened, up, down, ended,
    response, delivered, result, answered>>

KeepAliveInit ==
  /\ client = "open" /\ sent = <<>> /\ inbox = <<>>
  /\ receiver = "recv" /\ held = None
  /\ run = "select" /\ index = 1 /\ next = None /\ opened = {}
  /\ up = [s \in Shards |-> <<>>] /\ down = [s \in Shards |-> <<>>]
  /\ ended = [s \in Shards |-> None]
  /\ response = None /\ delivered = <<>> /\ result = None
  /\ answered = [s \in Shards |-> <<>>]

proxyVars == <<receiver, held, run, index, next, opened, response, delivered, result>>

\* ctx is done: the client is gone, or Run has returned.
Cancelled == client = "gone" \/ run = "done"
-----------------------------------------------------------------------------
(***************************************************************************)
(* The client and the shards (external).                                   *)
(***************************************************************************)
ClientSends(id) ==
  /\ client = "open" /\ run # "done" /\ Len(sent) < MaxKeepAlives
  /\ sent' = Append(sent, id) /\ inbox' = Append(inbox, id)
  /\ UNCHANGED <<proxyVars, client, up, down, ended, answered>>

ClientLeaves ==
  /\ \/ client = "open" /\ client' = "closed"
     \/ client # "gone" /\ client' = "gone"
  /\ run # "done"
  /\ UNCHANGED <<proxyVars, sent, inbox, up, down, ended, answered>>

ShardAnswers(s) ==
  /\ up[s] # <<>> /\ ended[s] = None /\ ~Cancelled
  /\ up' = [up EXCEPT ![s] = Tail(@)]
  /\ \E ttl \in TTLs, id \in Leases :
        /\ down' = [down EXCEPT ![s] = Append(@, [id |-> id, ttl |-> ttl])]
        /\ answered' = [answered EXCEPT ![s] = Append(@, ttl)]
  /\ UNCHANGED <<proxyVars, client, sent, inbox, ended>>

ShardEnds(s) ==
  /\ s \in opened /\ ended[s] = None
  /\ ended' \in {[ended EXCEPT ![s] = e] : e \in {EOF, Failure}}
  /\ UNCHANGED <<proxyVars, client, sent, inbox, up, down, answered>>
-----------------------------------------------------------------------------
(***************************************************************************)
(* The receiver goroutine.                                                 *)
(***************************************************************************)
\* p.stream.Recv.  "Downstream Recv is canceled by gRPC when this handler
\* returns."
ReceiverRecv ==
  /\ receiver = "recv"
  /\ \/ inbox # <<>> /\ held' = Head(inbox) /\ inbox' = Tail(inbox)
     \/ inbox = <<>> /\ client = "closed" /\ held' = EOF /\ UNCHANGED inbox
     \/ Cancelled /\ held' = Failure /\ UNCHANGED inbox
  /\ receiver' = "offer"
  /\ UNCHANGED <<client, sent, run, index, next, opened, up, down, ended, response,
                 delivered, result, answered>>

\* Mutant: the receiver only waits for Run to take what it has.
ReceiverStops_Never == FALSE

\* case <-ctx.Done() of the receiver's select.
ReceiverStops == receiver = "offer" /\ Cancelled

ReceiverReturns ==
  /\ ReceiverStops
  /\ receiver' = "done"
  /\ UNCHANGED <<client, sent, inbox, held, run, index, next, opened, up, down, ended,
                 response, delivered, result, answered>>
-----------------------------------------------------------------------------
(***************************************************************************)
(* Run.                                                                    *)
(***************************************************************************)
ReturnWith(r) == run' = "done" /\ result' = r

RunStops == Cancelled

\* Both cases of Run's select.  A request comes from the receiver, which waits
\* for this.
RunSelect ==
  /\ run = "select"
  /\ \/ /\ RunStops /\ ReturnWith(Failure)
        /\ UNCHANGED <<receiver, index, next>>
     \/ /\ receiver = "offer"
        /\ receiver' = IF held \in {EOF, Failure} THEN "done" ELSE "recv"
        /\ \/ held = EOF /\ ReturnWith("OK") /\ UNCHANGED <<index, next>>
           \/ held = Failure /\ ReturnWith(Failure) /\ UNCHANGED <<index, next>>
           \/ /\ held \notin {EOF, Failure}
              /\ run' = "send" /\ index' = 1 /\ next' = held /\ UNCHANGED result
  /\ UNCHANGED <<client, sent, inbox, held, opened, up, down, ended, response,
                 delivered, answered>>

Opens == opened' = opened \cup {index}

\* One shard of the first loop: the stream is opened if it is not yet there.  A
\* stream that has ended may take the request all the same.
RunSend ==
  /\ run = "send" /\ ~Cancelled
  /\ Opens
  /\ up' = [up EXCEPT ![index] = Append(@, next)]
  /\ IF index < N THEN index' = index + 1 /\ UNCHANGED run
                  ELSE index' = 1 /\ run' = "recv"
  /\ response' = None
  /\ UNCHANGED <<client, sent, inbox, receiver, held, next, down, ended, delivered,
                 result, answered>>

\* The stream cannot be opened, or Send returns an error: Recv then has the
\* status, and "Unavailable" takes the place of a message or of EOF.
RunSendFails ==
  /\ run = "send"
  /\ \/ index \notin opened /\ ReturnWith(Failure)
     \/ /\ index \in opened /\ (ended[index] # None \/ Cancelled)
        /\ ReturnWith(IF down[index] # <<>> \/ ended[index] = EOF THEN "Unavailable"
                                                                 ELSE Failure)
  /\ UNCHANGED <<client, sent, inbox, receiver, held, index, next, opened, up, down,
                 ended, response, delivered, answered>>

\* Mutant: the first shard's response is sent.
Shorter_First(resp) == response = None

\* "A logical lease is alive only as long as its shortest-lived shard."
Shorter(resp) == response = None \/ resp.ttl < response.ttl

Expected(resp) == resp.id = next

\* One shard of the second loop.
RunRecv ==
  /\ run = "recv" /\ down[index] # <<>>
  /\ LET resp == Head(down[index])
     IN  IF Expected(resp)
         THEN /\ response' = IF Shorter(resp) THEN resp ELSE response
              /\ index' = IF index < N THEN index + 1 ELSE 1
              /\ run' = IF index < N THEN "recv" ELSE "reply"
              /\ UNCHANGED result
         ELSE ReturnWith("Internal") /\ UNCHANGED <<response, index>>
  /\ down' = [down EXCEPT ![index] = Tail(@)]
  /\ UNCHANGED <<client, sent, inbox, receiver, held, next, opened, up, ended,
                 delivered, answered>>

\* Mutant: the end of a shard's stream ends the client's without an error.
EndStatus_EOFIsOK(e) == IF e = EOF THEN "OK" ELSE Failure

EndStatus(e) == IF e = EOF THEN "Unavailable" ELSE Failure

\* Mutant: the end of a shard's stream is passed over.
RecvEnds_ContextOnly == Cancelled

RecvEnds == Cancelled \/ (down[index] = <<>> /\ ended[index] # None)

RunRecvEnds ==
  /\ run = "recv" /\ RecvEnds
  /\ ReturnWith(EndStatus(ended[index]))
  /\ UNCHANGED <<client, sent, inbox, receiver, held, index, next, opened, up, down,
                 ended, response, delivered, answered>>

\* p.stream.Send: it fails once the client is gone.
RunReply ==
  /\ run = "reply"
  /\ \/ /\ client # "gone"
        /\ delivered' = Append(delivered, response)
        /\ run' = "select" /\ UNCHANGED result
     \/ client = "gone" /\ ReturnWith(Failure) /\ UNCHANGED delivered
  /\ UNCHANGED <<client, sent, inbox, receiver, held, index, next, opened, up, down,
                 ended, response, answered>>
-----------------------------------------------------------------------------
ReceiverStep == ReceiverRecv \/ ReceiverReturns

RunStep == RunSelect \/ RunSend \/ RunSendFails \/ RunRecv \/ RunRecvEnds \/ RunReply

ShardStep(s) == ShardAnswers(s) \/ ShardEnds(s)

KeepAliveNext ==
  \/ (\E id \in Leases : ClientSends(id)) \/ ClientLeaves
  \/ \E s \in Shards : ShardStep(s)
  \/ ReceiverStep \/ RunStep

KeepAliveSpec == KeepAliveInit /\ [][KeepAliveNext]_keepAliveVars

\* The goroutines are scheduled; a shard answers a request or ends the stream.
FairSpec ==
  /\ KeepAliveSpec /\ WF_keepAliveVars(ReceiverStep) /\ WF_keepAliveVars(RunStep)
  /\ \A s \in Shards : WF_keepAliveVars(up[s] # <<>> /\ ShardStep(s))
-----------------------------------------------------------------------------
(***************************************************************************)
(* Properties.                                                             *)
(***************************************************************************)
\* The client gets one response per request, in the order of its requests and
\* about the lease it asked for, and the response has the shortest TTL of those
\* that the shards gave to that very request: a late answer to an earlier request
\* is never taken for it, and a lease that one shard has lost is not reported
\* alive.
ResponsesAreTheShortest ==
  \A i \in 1..Len(delivered) :
     /\ i <= Len(sent) /\ delivered[i].id = sent[i]
     /\ \A s \in Shards : i <= Len(answered[s]) /\ delivered[i].ttl <= answered[s][i]
     /\ \E s \in Shards : delivered[i].ttl = answered[s][i]

\* Run returns nil only when the client has sent all it wanted and every request
\* has been answered: an error of a shard always reaches the client.
NilReturnIsComplete ==
  result = "OK" => client # "open" /\ Len(delivered) = Len(sent)

\* A request that Run has taken is answered, or the stream ends, also when a shard
\* ends its stream and the client sends no further request.
RequestsAreServed == run \in {"send", "recv", "reply"} ~> run \in {"select", "done"}

\* When the client is gone Run returns and so does the receiver, wherever they
\* wait; when it has finished sending they do after the last response; and when Run
\* has returned, whoever ended it, the receiver does not stay behind.
StreamEnds ==
  /\ client # "open" ~> run = "done" /\ receiver = "done"
  /\ run = "done" ~> receiver = "done"
=============================================================================
