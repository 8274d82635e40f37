-------------------------- MODULE CoordinatedWatch --------------------------
(***************************************************************************)
(* Watch in coordinated mode: a stream of Relay whose backend is the       *)
(* coordinator of CoordinatedProxy, wrapped in a coordinatedWatchStream    *)
(* that prefixes the keys of create requests and decodes events, while KV  *)
(* handlers keep writing.                                                  *)
(*                                                                         *)
(* One stream with one watcher.  The coordinator (external) answers a      *)
(* create request with a confirmation, then sends the changes of its range *)
(* in batches of whole revisions, in order, and progress notifications     *)
(* when it has nothing left to send.  `upto' is the revision up to which   *)
(* the reader of a response knows everything.                              *)
(***************************************************************************)
EXTENDS CoordinatedProxy

CONSTANTS
  Creates,           \* WatchCreateRequests clients may send
  MaxCreates,        \* bound on requests of the stream
  MaxWatchResponses  \* bound on responses of the coordinator

VARIABLES
  client, asked, inbox, sender, held, failure, sendError, cancelled, arrived,
  backClosed, produced, outbox, ended, handler, response, err, delivered,
  result,     \* the variables of Relay
  upto,       \* the coordinator has sent the changes up to this revision
  decoding    \* the response that RecvMsg is working on

R == INSTANCE Relay WITH
  Requests <- Creates, Responses <- {},
  Rejected <- {c \in Creates : c.key = Empty},
  MaxRequests <- MaxCreates, MaxResponses <- MaxWatchResponses,
  None <- NoVal

relayVars == <<client, asked, inbox, sender, held, failure, sendError, cancelled,
               arrived, backClosed, produced, outbox, ended, handler, response,
               err, delivered, result>>
watchVars == <<relayVars, upto, decoding>>
allVars == <<vars, watchVars>>

ASSUME CreatesAssumption ==
  /\ MaxCreates \in Nat /\ MaxWatchResponses \in Nat
  /\ Creates \subseteq [key : 0..MaxKey, end : 0..MaxKey, start : Nat,
                        prevKv : BOOLEAN]

ASSUME ErrorsAssumption ==
  NoVal \notin {"ok", "error", "canceled", "rejected", "dataloss"}
-----------------------------------------------------------------------------
(***************************************************************************)
(* The coordinator.                                                        *)
(***************************************************************************)
\* coordinatedWatchStream.SendMsg: the create request as the coordinator sees it.
Encoded(c) ==
  [c EXCEPT !.key = MetadataKey(@), !.end = MetadataRangeEnd(@)]

Watcher == Encoded(arrived[1])

\* Revision 1 is that of an empty store.
Changed(r, k) == r > 1 /\ hist[r][k] # hist[r - 1][k]

\* The keys of the watcher's range that changed at revision r.
Affected(r) == {k \in RawKeys : InRange(k, Watcher.key, Watcher.end) /\ Changed(r, k)}

\* An event carries a KeyValue and, if asked for, the previous one.  That of a
\* deletion has a key and a revision only.
IsDelete(r, k) == ~Live(hist[r][k])

EventKV(r, k) == IF IsDelete(r, k) THEN [Absent EXCEPT !.mod = r] ELSE hist[r][k]

\* Mutant: the value of a deleted key is looked up.
KeysOnlyEvent_Ignored(r, k) == FALSE

\* event.Type == mvccpb.DELETE
KeysOnlyEvent(r, k) == IsDelete(r, k)

EventsAt(r) ==
  {[rev |-> r, key |-> k, part |-> "kv", keysOnly |-> KeysOnlyEvent(r, k),
    kv |-> EventKV(r, k)] : k \in Affected(r)}
  \cup
  {[rev |-> r, key |-> k, part |-> "prev", keysOnly |-> FALSE,
    kv |-> hist[r - 1][k]] :
      k \in {j \in Affected(r) : Watcher.prevKv /\ Live(hist[r - 1][j])}}

Events(from, to) == UNION {EventsAt(r) : r \in from..to}

Quiet(from, to) == \A r \in from..to : Affected(r) = {}

CoordinatorSends(n, events) ==
  /\ R!BackendSends([upto |-> n, events |-> events])
  /\ upto' = n
  /\ UNCHANGED <<vars, decoding>>

\* A start revision of 0 means now; one in the future is waited for.
CoordinatorCreates ==
  /\ arrived # <<>> /\ produced = <<>>
  /\ CoordinatorSends(IF Watcher.start = 0 THEN Len(hist) ELSE Watcher.start - 1, {})

CoordinatorNotifies(n) ==
  /\ produced # <<>> /\ n > upto /\ n <= Len(hist)
  /\ ~Quiet(upto + 1, n)
  /\ CoordinatorSends(n, Events(upto + 1, n))

\* Progress that is reported twice in a row is left out.
CoordinatorProgresses ==
  /\ produced # <<>> /\ Len(hist) >= upto
  /\ Len(hist) > upto \/ Last(produced).events # {}
  /\ Quiet(upto + 1, Len(hist))
  /\ CoordinatorSends(Len(hist), {})
-----------------------------------------------------------------------------
(***************************************************************************)
(* coordinatedWatchStream.RecvMsg: the loop over the events of a response, *)
(* with decodeKV for Kv and for PrevKv.  The handler is in "decode"        *)
(* meanwhile.                                                              *)
(***************************************************************************)
WatchRecv ==
  /\ handler = "recv" /\ outbox # <<>>
  /\ handler' = "decode"
  /\ decoding' = [upto |-> Head(outbox).upto, todo |-> Head(outbox).events,
                  done |-> {}]
  /\ outbox' = Tail(outbox)
  /\ UNCHANGED <<vars, client, asked, inbox, sender, held, failure, sendError,
                 cancelled, arrived, backClosed, produced, ended, response,
                 err, delivered, result, upto>>

NotAfter(x, y) ==
  \/ x.rev < y.rev
  \/ x.rev = y.rev /\ x.key < y.key
  \/ x.rev = y.rev /\ x.key = y.key /\ (x.part = "kv" \/ y.part = "prev")

\* RecvMsg returns an error, and forwardResponses with it.
WatchFails(e) ==
  /\ R!Stop(e)
  /\ decoding' = NoVal
  /\ UNCHANGED <<client, asked, inbox, sender, held, failure, sendError,
                 cancelled, arrived, backClosed, produced, outbox, ended, result>>

WatchDecode ==
  /\ handler = "decode"
  /\ \E x \in decoding.todo :
       /\ \A y \in decoding.todo : NotAfter(x, y)
       /\ IF DataLoss(x)
          THEN WatchFails("dataloss")
          ELSE /\ decoding' = [decoding EXCEPT !.todo = @ \ {x},
                                               !.done = @ \cup {Decoded(x)}]
               /\ UNCHANGED relayVars
  /\ UNCHANGED <<vars, upto>>

\* A data shard does not answer, or the call was cancelled meanwhile.
WatchDecodeFails ==
  /\ handler = "decode" /\ decoding.todo # {}
  /\ WatchFails("error") \/ (R!BackDone /\ WatchFails("canceled"))
  /\ UNCHANGED <<vars, upto>>

\* Mutant: a response is passed on while its events are being decoded.
AllDecoded_Unchecked == TRUE

\* Mutant: a response without events is not passed on.
AllDecoded_SomeEvents == decoding.todo = {} /\ decoding.done # {}

AllDecoded == decoding.todo = {}

WatchDecoded ==
  /\ handler = "decode" /\ AllDecoded
  /\ response' = [upto |-> decoding.upto, events |-> decoding.done]
  /\ handler' = "send" /\ decoding' = NoVal
  /\ UNCHANGED <<vars, client, asked, inbox, sender, held, failure, sendError,
                 cancelled, arrived, backClosed, produced, outbox, ended, err,
                 delivered, result, upto>>
-----------------------------------------------------------------------------
WatchInit == Init /\ R!Init /\ upto = 0 /\ decoding = NoVal

\* What the client, the sender and forwardResponses do as in any other stream;
\* this one always has a sender.
ClientStep ==
  /\ \/ \E c \in Creates : R!ClientSend(c)
     \/ R!ClientHalfClose \/ R!ClientGoes \/ R!BackendEnds
  /\ UNCHANGED <<vars, upto, decoding>>

WatchSenderStep == R!SenderStep /\ UNCHANGED <<vars, upto, decoding>>

RelayHandlerStep ==
  /\ \/ R!Open /\ sender' # "none"
     \/ R!Header \/ R!HandlerRecvEnds \/ R!HandlerSend \/ R!Select
  /\ UNCHANGED <<vars, upto, decoding>>

WatchHandlerStep == RelayHandlerStep \/ WatchRecv \/ WatchDecode \/ WatchDecoded

CoordinatorStep ==
  \/ CoordinatorCreates
  \/ \E n \in 1..Len(hist) : CoordinatorNotifies(n)
  \/ CoordinatorProgresses

WatchNext ==
  \/ Next /\ UNCHANGED watchVars
  \/ ClientStep \/ CoordinatorStep
  \/ WatchSenderStep \/ WatchHandlerStep \/ WatchDecodeFails

WatchSpec == WatchInit /\ [][WatchNext]_allVars
-----------------------------------------------------------------------------
(***************************************************************************)
(* Properties.                                                             *)
(***************************************************************************)
\* What a client that watches the user's keys should get, in terms of the
\* history that reads of those keys show.
Watched(k) == InRange(k, arrived[1].key, arrived[1].end)

UserEventsAt(r) ==
  LET now == UserHist[r]
      old == UserHist[r - 1]
      changed == {k \in 1..MaxKey : r > 1 /\ Watched(k) /\ now[k] # old[k]}
  IN  {[rev |-> r, key |-> k, part |-> "kv", keysOnly |-> ~Live(now[k]),
        kv |-> IF Live(now[k]) THEN now[k] ELSE [Absent EXCEPT !.mod = r]] :
          k \in changed}
      \cup
      {[rev |-> r, key |-> k, part |-> "prev", keysOnly |-> FALSE,
        kv |-> old[k]] :
          k \in {j \in changed : arrived[1].prevKv /\ Live(old[j])}}

\* "Watch events use the same coordinator history; progress notifications cannot
\* pass events still being materialized on that stream."  The i-th response a
\* client gets covers exactly the revisions since the one before, with the values
\* that reads at those revisions return: no event is missing, repeated, early or
\* from another version, and a progress notification has none before it to miss.
WatchIsExact ==
  \A i \in 1..Len(delivered) :
     IF i = 1 THEN delivered[i].events = {}
     ELSE delivered[i].events =
            UNION {UserEventsAt(r) : r \in (delivered[i - 1].upto + 1)..delivered[i].upto}

\* decodeKV in RecvMsg: a watch ends with DataLoss only if a data shard lost a
\* blob, also when the key was deleted, or its revision overwritten, meanwhile.
WatchDataLossIsReal == err = "dataloss" => lost # {}

\* Goroutines are scheduled, and etcd is assumed to send what it has.
WatchFairness ==
  /\ WF_allVars(WatchSenderStep) /\ WF_allVars(WatchHandlerStep)
  /\ WF_allVars(CoordinatorStep)

WatchFairSpec == WatchSpec /\ WatchFairness

\* A watch whose client stays is told of every change, by an event or by progress
\* past it, or ends: neither RecvMsg nor forwardResponses gets stuck on a response.
WatchCatchesUp ==
  \A n \in 2..(2 + MaxRequests) :
     produced # <<>> /\ Len(hist) >= n
       ~> \/ delivered # <<>> /\ Last(delivered).upto >= n
          \/ handler = "done" \/ client = "gone"
=============================================================================
