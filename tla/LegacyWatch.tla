---------------------------- MODULE LegacyWatch ----------------------------
(***************************************************************************)
(* One Watch stream in legacy mode: SingleWatchStreamProxy of              *)
(* pkg/server/proxy_watch.go.  Run waits for three loops: recvLoop reads   *)
(* the client, handleRecvLoop passes every request to every shard and      *)
(* starts a goroutine per shard that pumps its responses to sendLoop.      *)
(* Requests and the responses of a shard are numbered.                     *)
(***************************************************************************)
EXTENDS AllShards, Sequences, FiniteSets

CONSTANTS
  Cap,                       \* capacity of recvChan and of respChan
  MaxRequests, MaxResponses, \* bounds: of the client, and of each shard
  Nil

Responses == [shard : 1..N, n : Nat \ {0}]

GoodConstants ==
  N \in Nat \ {0} /\ Cap \in Nat \ {0} /\ Nil \notin Responses

ASSUME WatchAssumption == GoodConstants

VARIABLES
  client,         \* "open", "closed" (for sending) or "gone"
  sent,           \* number of requests sent by the client
  recvLoop, held, \* program counter, and the last request received
  recvChan,
  handleLoop, at, req,
  opened, ended,  \* shard streams made, and those that the shard has ended
  got,            \* requests that reached each shard
  produced, wire, \* responses of each shard: their number, and those under way
  pump, resp,     \* program counter and variable of each shard's goroutine
  respChan,
  sendLoop, msg, delivered,
  crashed         \* a panic has ended the process

vars == <<client, sent, recvLoop, held, recvChan, handleLoop, at, req, opened, ended,
          got, produced, wire, pump, resp, respChan, sendLoop, msg, delivered, crashed>>

Init ==
  /\ client = "open" /\ sent = 0 /\ recvLoop = "recv" /\ held = 0 /\ recvChan = <<>>
  /\ handleLoop = "select" /\ at = 1 /\ req = 0
  /\ opened = {} /\ ended = [s \in Shards |-> "no"] /\ got = [s \in Shards |-> <<>>]
  /\ produced = [s \in Shards |-> 0] /\ wire = [s \in Shards |-> <<>>]
  /\ pump = [s \in Shards |-> "none"] /\ resp = [s \in Shards |-> Nil]
  /\ respChan = <<>> /\ sendLoop = "select" /\ msg = Nil /\ delivered = <<>>
  /\ crashed = FALSE

\* groupRunner.Wait returns.
Returned == recvLoop = "done" /\ handleLoop = "done" /\ sendLoop = "done"

\* Mutant: a client that has finished sending counts as gone.
Cancelled_HalfClosed == client # "open" \/ Returned

\* p.ctx is done.  recvLoop only cancels it when the client is gone.
Cancelled == client = "gone" \/ Returned

Running == ~crashed
-----------------------------------------------------------------------------
(***************************************************************************)
(* The client and the shards (external).                                   *)
(***************************************************************************)
recvVars == <<recvLoop, held>>
handleVars == <<handleLoop, at, req, opened, got>>
pumpVars == <<pump, resp>>
sendVars == <<sendLoop, msg, delivered>>
shardVars == <<ended, produced>>

ClientSends ==
  /\ Running /\ client = "open" /\ ~Returned /\ sent < MaxRequests
  /\ sent' = sent + 1
  /\ UNCHANGED <<client, recvVars, recvChan, handleVars, shardVars, wire, pumpVars,
                 respChan, sendVars, crashed>>

ClientLeaves ==
  /\ Running /\ ~Returned
  /\ \/ client = "open" /\ client' = "closed"
     \/ client # "gone" /\ client' = "gone"
  /\ UNCHANGED <<sent, recvVars, recvChan, handleVars, shardVars, wire, pumpVars,
                 respChan, sendVars, crashed>>

ShardSends(s) ==
  /\ Running /\ ~Cancelled /\ ended[s] = "no" /\ got[s] # <<>>
  /\ produced[s] < MaxResponses
  /\ produced' = [produced EXCEPT ![s] = @ + 1]
  /\ wire' = [wire EXCEPT ![s] = Append(@, produced[s] + 1)]
  /\ UNCHANGED <<client, sent, recvVars, recvChan, handleVars, ended, pumpVars, respChan,
                 sendVars, crashed>>

ShardEnds(s) ==
  /\ Running /\ s \in opened /\ ended[s] = "no"
  /\ ended' \in {[ended EXCEPT ![s] = e] : e \in {"eof", "failed"}}
  /\ UNCHANGED <<client, sent, recvVars, recvChan, handleVars, produced, wire, pumpVars,
                 respChan, sendVars, crashed>>
-----------------------------------------------------------------------------
(***************************************************************************)
(* recvLoop.                                                               *)
(***************************************************************************)
RecvLoopRecv ==
  /\ Running /\ recvLoop = "recv"
  /\ \/ held < sent /\ held' = held + 1 /\ recvLoop' = "push"
     \/ held = sent /\ client = "closed" /\ recvLoop' = "done" /\ UNCHANGED held
     \/ Cancelled /\ recvLoop' = "done" /\ UNCHANGED held
  /\ UNCHANGED <<client, sent, recvChan, handleVars, shardVars, wire, pumpVars,
                 respChan, sendVars, crashed>>

\* p.recvChan <- req: it waits for room and for nothing else.
RecvLoopPush ==
  /\ Running /\ recvLoop = "push" /\ Len(recvChan) < Cap
  /\ recvChan' = Append(recvChan, held)
  /\ recvLoop' = "recv"
  /\ UNCHANGED <<client, sent, held, handleVars, shardVars, wire, pumpVars, respChan,
                 sendVars, crashed>>
-----------------------------------------------------------------------------
(***************************************************************************)
(* handleRecvLoop.                                                         *)
(***************************************************************************)
\* Mutant: the loop waits for a request only.
Stops_Never == FALSE

Stops == Cancelled

HandleSelect ==
  /\ Running /\ handleLoop = "select"
  /\ \/ Stops /\ handleLoop' = "done" /\ UNCHANGED <<at, req, recvChan>>
     \/ /\ recvChan # <<>> /\ recvChan' = Tail(recvChan)
        /\ req' = Head(recvChan) /\ at' = 1 /\ handleLoop' = "send"
  /\ UNCHANGED <<client, sent, recvVars, opened, got, shardVars, wire, pumpVars,
                 respChan, sendVars, crashed>>

\* Mutant: a goroutine is started with every request.
PumpStarted_EveryTime(s) == [pump EXCEPT ![s] = "recv"]

PumpStarted(s) == IF pump[s] = "none" THEN [pump EXCEPT ![s] = "recv"] ELSE pump

\* One shard: its stream is made if it is not there yet, then the request is
\* sent; an error of Send is not looked at.
HandleSend ==
  /\ Running /\ handleLoop = "send"
  /\ opened' = opened \cup {at}
  /\ pump' = PumpStarted(at)
  /\ got' = IF ended[at] # "no" \/ Cancelled THEN got
            ELSE [got EXCEPT ![at] = Append(@, req)]
  /\ IF at < N THEN at' = at + 1 /\ UNCHANGED handleLoop
     ELSE at' = 1 /\ handleLoop' = "select"
  /\ UNCHANGED <<client, sent, recvVars, recvChan, req, shardVars, wire, resp, respChan,
                 sendVars, crashed>>

\* The stream cannot be made: the loop returns and nobody is told.
HandleFails ==
  /\ Running /\ handleLoop = "send" /\ at \notin opened
  /\ handleLoop' = "done"
  /\ UNCHANGED <<client, sent, recvVars, recvChan, at, req, opened, got, shardVars, wire,
                 pumpVars, respChan, sendVars, crashed>>
-----------------------------------------------------------------------------
(***************************************************************************)
(* The goroutine of a shard.  After an error, which Recv returns again and *)
(* again, it passes on a nil response.                                     *)
(***************************************************************************)
PumpRecv(s) ==
  /\ Running /\ pump[s] = "recv"
  /\ \/ /\ wire[s] # <<>>
        /\ wire' = [wire EXCEPT ![s] = Tail(@)]
        /\ resp' = [resp EXCEPT ![s] = [shard |-> s, n |-> Head(wire[s])]]
        /\ pump' = [pump EXCEPT ![s] = "push"]
     \/ /\ wire[s] = <<>> /\ ended[s] = "eof"
        /\ pump' = [pump EXCEPT ![s] = "done"] /\ UNCHANGED <<wire, resp>>
     \/ /\ Cancelled \/ (wire[s] = <<>> /\ ended[s] = "failed")
        /\ resp' = [resp EXCEPT ![s] = Nil]
        /\ pump' = [pump EXCEPT ![s] = "push"] /\ UNCHANGED wire
  /\ UNCHANGED <<client, sent, recvVars, recvChan, handleVars, shardVars, respChan,
                 sendVars, crashed>>

Room == Len(respChan) < Cap

PumpPush(s) ==
  /\ Running /\ pump[s] = "push" /\ Room
  /\ respChan' = Append(respChan, resp[s])
  /\ pump' = [pump EXCEPT ![s] = "recv"]
  /\ UNCHANGED <<client, sent, recvVars, recvChan, handleVars, shardVars, wire, resp,
                 sendVars, crashed>>
-----------------------------------------------------------------------------
(***************************************************************************)
(* sendLoop.                                                               *)
(***************************************************************************)
SendSelect ==
  /\ Running /\ sendLoop = "select"
  /\ \/ Cancelled /\ sendLoop' = "done" /\ UNCHANGED <<msg, respChan>>
     \/ /\ respChan # <<>> /\ respChan' = Tail(respChan)
        /\ msg' = Head(respChan) /\ sendLoop' = "send"
  /\ UNCHANGED <<client, sent, recvVars, recvChan, handleVars, shardVars, wire, pumpVars,
                 delivered, crashed>>

\* gRPCStream.Send.  A nil message cannot be marshalled: an error or a panic.
\* The loop returns on an error and nobody is told.
SendMsg ==
  /\ Running /\ sendLoop = "send"
  /\ \/ /\ msg # Nil /\ client # "gone"
        /\ delivered' = Append(delivered, msg)
        /\ sendLoop' = "select" /\ UNCHANGED crashed
     \/ /\ msg = Nil \/ client = "gone"
        /\ sendLoop' = "done" /\ UNCHANGED <<delivered, crashed>>
     \/ /\ msg = Nil
        /\ crashed' = TRUE /\ UNCHANGED <<delivered, sendLoop>>
  /\ UNCHANGED <<client, sent, recvVars, recvChan, handleVars, shardVars, wire, pumpVars,
                 respChan, msg>>
-----------------------------------------------------------------------------
RecvStep == RecvLoopRecv \/ RecvLoopPush
HandleStep == HandleSelect \/ HandleSend \/ HandleFails
PumpStep(s) == PumpRecv(s) \/ PumpPush(s)
SendStep == SendSelect \/ SendMsg

Next ==
  \/ ClientSends \/ ClientLeaves
  \/ RecvStep \/ HandleStep \/ SendStep
  \/ \E s \in Shards : ShardSends(s) \/ ShardEnds(s) \/ PumpStep(s)

Spec == Init /\ [][Next]_vars

\* Every goroutine is scheduled.
FairSpec ==
  /\ Spec
  /\ WF_vars(RecvStep) /\ WF_vars(HandleStep) /\ WF_vars(SendStep)
  /\ \A s \in Shards : WF_vars(PumpStep(s))
-----------------------------------------------------------------------------
(***************************************************************************)
(* Properties.                                                             *)
(***************************************************************************)
\* Between the client and one shard nothing is lost in the middle, repeated or
\* reordered, in either direction: what got through the loops and channels is a
\* prefix of what was sent.  The n-th response of a shard that the client gets is
\* the n-th that the shard has sent.
StreamsKeepOrder ==
  /\ \A s \in Shards :
        Len(got[s]) <= sent /\ \A i \in 1..Len(got[s]) : got[s][i] = i
  /\ \A i \in 1..Len(delivered) :
        LET m == delivered[i]
        IN  /\ m.n = Cardinality({j \in 1..i : delivered[j].shard = m.shard})
            /\ m.n <= produced[m.shard]

\* When the client is gone Run returns, wherever its loops are, as long as the
\* requests fit into recvChan: the write to it is the only wait that does not
\* look at the context.
RunReturns == client = "gone" /\ sent <= Cap ~> Returned \/ crashed

NoFailure == \A s \in Shards : ended[s] # "failed"

Delivered(s, n) == \E i \in 1..Len(delivered) : delivered[i] = [shard |-> s, n |-> n]

\* A response of a shard reaches the client, whatever the other shards do short
\* of failing (the nil response of a failed one ends sendLoop for all of them).
ResponsesArrive ==
  \A s \in Shards : \A n \in 1..MaxResponses :
     produced[s] = n ~> Delivered(s, n) \/ client = "gone" \/ ~NoFailure
=============================================================================
