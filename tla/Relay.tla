------------------------------- MODULE Relay -------------------------------
(***************************************************************************)
(* The streams of pkg/server/backend_proxy.go: forwardBidi (Watch and      *)
(* LeaseKeepAlive) and forwardResponses alone (Snapshot), for one call.    *)
(*                                                                         *)
(* Two goroutines work on a call: the sender takes requests from the       *)
(* client's stream (front) to the backend's (back), the handler takes      *)
(* responses the other way and decides what the client is told.  They      *)
(* share the channel sendError and the cancellation of the backend call.   *)
(*                                                                         *)
(* gRPC is external: RecvMsg gives io.EOF after a half-close or an OK      *)
(* status, the status otherwise; SendMsg on a stream that has ended gives  *)
(* io.EOF, or an error of its own for a message that cannot be sent; a     *)
(* cancelled context ends any call, but what was already received may      *)
(* still be read first.                                                    *)
(***************************************************************************)
EXTENDS Naturals, Sequences

CONSTANTS
  Requests, Responses,
  None,          \* no request, response or error
  Rejected,      \* requests that back.SendMsg refuses with an error of its own
  MaxRequests,   \* bound on requests of the client
  MaxResponses   \* bound on responses of the backend

ASSUME RelayAssumption ==
  /\ Rejected \subseteq Requests /\ MaxRequests \in Nat /\ MaxResponses \in Nat
  /\ None \notin {"ok", "error", "canceled", "rejected"}

VARIABLES
  client,     \* "open", "halfclosed" or "gone"
  asked,      \* requests the client has sent
  inbox,      \* those the sender has not received
  sender,     \* program counter of the sender; "none" for Snapshot
  held,       \* the sender's req
  failure,    \* the sender's err
  sendError,  \* channel of capacity 1
  cancelled,  \* cancel() was called
  arrived, backClosed,        \* requests and half-close the backend has seen
  produced, outbox, ended,    \* responses, those not yet received, status
  handler, response, err,     \* program counter and locals of the handler
  delivered, result           \* what the client gets

clientVars == <<client, asked>>
senderVars == <<sender, held, failure>>
backVars == <<arrived, backClosed, produced, ended>>
handlerVars == <<handler, response, err, delivered, result>>
vars == <<client, asked, inbox, sender, held, failure, sendError, cancelled,
          arrived, backClosed, produced, outbox, ended, handler, response, err,
          delivered, result>>

Init ==
  /\ client = "open" /\ asked = <<>> /\ inbox = <<>>
  /\ sender = "unborn" /\ held = None /\ failure = None
  /\ sendError = <<>> /\ cancelled = FALSE
  /\ arrived = <<>> /\ backClosed = FALSE
  /\ produced = <<>> /\ outbox = <<>> /\ ended = "no"
  /\ handler = "open" /\ response = None /\ err = None
  /\ delivered = <<>> /\ result = None

\* The contexts of the two streams: the backend's derives from the client's.
FrontDone == client = "gone" \/ handler = "done"
BackDone == client = "gone" \/ cancelled
-----------------------------------------------------------------------------
(***************************************************************************)
(* The client and the backend.                                             *)
(***************************************************************************)
ClientSend(r) ==
  /\ client = "open" /\ sender \notin {"unborn", "none"} /\ handler # "done"
  /\ Len(asked) < MaxRequests
  /\ asked' = Append(asked, r) /\ inbox' = Append(inbox, r)
  /\ UNCHANGED <<client, senderVars, sendError, cancelled, backVars, outbox,
                 handlerVars>>

ClientHalfClose ==
  /\ client = "open" /\ sender \notin {"unborn", "none"} /\ handler # "done"
  /\ client' = "halfclosed"
  /\ UNCHANGED <<asked, inbox, senderVars, sendError, cancelled, backVars,
                 outbox, handlerVars>>

ClientGoes ==
  /\ client # "gone" /\ handler # "done"
  /\ client' = "gone"
  /\ UNCHANGED <<asked, inbox, senderVars, sendError, cancelled, backVars,
                 outbox, handlerVars>>

BackendSends(r) ==
  /\ handler # "open" /\ ended = "no" /\ ~BackDone
  /\ Len(produced) < MaxResponses
  /\ produced' = Append(produced, r) /\ outbox' = Append(outbox, r)
  /\ UNCHANGED <<clientVars, inbox, senderVars, sendError, cancelled, arrived,
                 backClosed, ended, handlerVars>>

\* The backend returns, or the connection to it breaks and what was under way
\* is lost.
BackendEnds ==
  /\ handler # "open" /\ ended = "no" /\ ~BackDone
  /\ \/ ended' \in {"ok", "error"} /\ UNCHANGED outbox
     \/ ended' = "error" /\ outbox' = <<>>
  /\ UNCHANGED <<clientVars, inbox, senderVars, sendError, cancelled, arrived,
                 backClosed, produced, handlerVars>>
-----------------------------------------------------------------------------
(***************************************************************************)
(* The sender: the goroutine of forwardBidi.                               *)
(***************************************************************************)
\* Mutant: a half-close of the client is not passed on.
CloseSend_Skipped == UNCHANGED backClosed

\* back.CloseSend, which never fails.
CloseSend == backClosed' = TRUE

\* front.RecvMsg: a request, io.EOF, or the end of the client's context.
SenderRecv ==
  /\ sender = "recv"
  /\ \/ /\ inbox # <<>>
        /\ held' = Head(inbox) /\ inbox' = Tail(inbox) /\ sender' = "send"
        /\ UNCHANGED <<failure, backClosed>>
     \/ /\ inbox = <<>> /\ client = "halfclosed"
        /\ CloseSend /\ sender' = "done"
        /\ UNCHANGED <<held, inbox, failure>>
     \/ /\ FrontDone
        /\ failure' = "canceled" /\ sender' = "report"
        /\ UNCHANGED <<held, inbox, backClosed>>
  /\ UNCHANGED <<clientVars, sendError, cancelled, arrived, produced, outbox,
                 ended, handlerVars>>

\* Mutant: a request is sent again.
AfterSend_Again == "send"

\* The loop of the sender.
AfterSend == "recv"

\* fail ignores io.EOF.
AfterEOF == "done"

\* back.SendMsg: refused, sent (to nobody, if the backend has just returned),
\* io.EOF, or the status of a cancelled call.
SenderSend ==
  /\ sender = "send"
  /\ \/ /\ held \in Rejected
        /\ failure' = "rejected" /\ sender' = "report"
        /\ UNCHANGED arrived
     \/ /\ held \notin Rejected /\ ~BackDone
        /\ arrived' = IF ended = "no" THEN Append(arrived, held) ELSE arrived
        /\ sender' = AfterSend
        /\ UNCHANGED failure
     \/ /\ held \notin Rejected /\ (BackDone \/ ended # "no")
        /\ sender' = AfterEOF
        /\ UNCHANGED <<failure, arrived>>
     \/ /\ held \notin Rejected /\ BackDone
        /\ failure' = "canceled" /\ sender' = "report"
        /\ UNCHANGED arrived
  /\ UNCHANGED <<clientVars, inbox, held, sendError, cancelled, backClosed,
                 produced, outbox, ended, handlerVars>>

\* Mutant: sendError has no buffer.
RoomInSendError_Unbuffered == handler = "select"

\* sendError := make(chan error, 1)
RoomInSendError == Len(sendError) < 1

Cancel == cancelled' = TRUE

\* Mutant: the backend is cancelled before the error is left for the handler.
Fail_CancelsFirst ==
  /\ \/ /\ sender = "report"
        /\ Cancel /\ sender' = "cancel"
        /\ UNCHANGED sendError
     \/ /\ sender = "cancel" /\ RoomInSendError
        /\ sendError' = Append(sendError, failure) /\ sender' = "done"
        /\ UNCHANGED cancelled
  /\ UNCHANGED <<clientVars, inbox, held, failure, backVars, outbox,
                 handlerVars>>

\* fail(err): sendError <- err, then cancel().
Fail ==
  /\ \/ /\ sender = "report" /\ RoomInSendError
        /\ sendError' = Append(sendError, failure) /\ sender' = "cancel"
        /\ UNCHANGED cancelled
     \/ /\ sender = "cancel"
        /\ Cancel /\ sender' = "done"
        /\ UNCHANGED sendError
  /\ UNCHANGED <<clientVars, inbox, held, failure, backVars, outbox,
                 handlerVars>>
-----------------------------------------------------------------------------
(***************************************************************************)
(* The handler: Watch, LeaseKeepAlive or Snapshot, then forwardResponses   *)
(* and the select at the end of forwardBidi.                               *)
(***************************************************************************)
\* Opening the backend's stream.  Snapshot sends its one request here and has
\* no sender.
Open ==
  /\ handler = "open"
  /\ \/ handler' = "header" /\ sender' \in {"recv", "none"}
        /\ UNCHANGED <<ended, result>>
     \/ handler' = "done" /\ ended' = "error" /\ result' = "error"
        /\ sender' = "none"
  /\ UNCHANGED <<clientVars, inbox, held, failure, sendError, cancelled,
                 arrived, backClosed, produced, outbox, response, err,
                 delivered>>

Stop(e) == handler' = "select" /\ err' = e /\ UNCHANGED <<response, delivered>>

\* back.Header and front.SendHeader.
Header ==
  /\ handler = "header"
  /\ \/ /\ outbox # <<>> \/ ended # "no"
        /\ handler' = "recv"
        /\ UNCHANGED <<response, err, delivered>>
     \/ BackDone /\ Stop("canceled")
  /\ UNCHANGED <<clientVars, inbox, senderVars, sendError, cancelled, backVars,
                 outbox, result>>

\* Mutant: every error of RecvMsg is taken for the end of the stream.
Status_AnyErrorIsEOF == "ok"

\* "RecvMsg owns the authoritative terminal backend status."
Status == ended

\* back.RecvMsg: a response, or the end of the stream.
HandlerTakes ==
  /\ handler = "recv" /\ outbox # <<>>
  /\ response' = Head(outbox) /\ outbox' = Tail(outbox) /\ handler' = "send"
  /\ UNCHANGED <<clientVars, inbox, senderVars, sendError, cancelled, backVars,
                 err, delivered, result>>

HandlerRecvEnds ==
  /\ handler = "recv"
  /\ \/ outbox = <<>> /\ ended # "no" /\ Stop(Status)
     \/ BackDone /\ Stop("canceled")
  /\ UNCHANGED <<clientVars, inbox, senderVars, sendError, cancelled, backVars,
                 outbox, result>>

\* front.SendMsg.
HandlerSend ==
  /\ handler = "send"
  /\ \/ /\ delivered' = Append(delivered, response) /\ handler' = "recv"
        /\ UNCHANGED <<response, err>>
     \/ client = "gone" /\ Stop("canceled")
  /\ UNCHANGED <<clientVars, inbox, senderVars, sendError, cancelled, backVars,
                 outbox, result>>

\* The select prefers the sender's error.  The deferred cancel() of Watch and
\* LeaseKeepAlive follows.
Select ==
  /\ handler = "select"
  /\ result' = IF sendError # <<>> THEN Head(sendError) ELSE err
  /\ sendError' = <<>>
  /\ handler' = "done" /\ cancelled' = TRUE
  /\ UNCHANGED <<clientVars, inbox, senderVars, backVars, outbox, response, err,
                 delivered>>

SenderStep == SenderRecv \/ SenderSend \/ Fail
HandlerStep ==
  Open \/ Header \/ HandlerTakes \/ HandlerRecvEnds \/ HandlerSend \/ Select

Next ==
  \/ \E r \in Requests : ClientSend(r)
  \/ ClientHalfClose \/ ClientGoes
  \/ \E r \in Responses : BackendSends(r)
  \/ BackendEnds
  \/ SenderStep \/ HandlerStep

Spec == Init /\ [][Next]_vars

\* Goroutines are scheduled; clients and backends owe nothing.
FairSpec == Spec /\ WF_vars(SenderStep) /\ WF_vars(HandlerStep)
-----------------------------------------------------------------------------
(***************************************************************************)
(* Properties.                                                             *)
(***************************************************************************)
Prefix(s, t) == Len(s) <= Len(t) /\ s = SubSeq(t, 1, Len(s))

\* Watch and keep-alive messages are neither reordered, repeated nor skipped in
\* either direction, whatever ends the call.
RelaysInOrder == Prefix(delivered, produced) /\ Prefix(arrived, asked)

\* "SendMsg EOF is not success": the client is told OK only if the backend
\* returned OK and every response was passed on.
OKIsComplete == result = "ok" => ended = "ok" /\ delivered = produced

\* The select of forwardBidi, and "a half-close only closes the backend send
\* direction": what a client that is still there is told is the status of the
\* backend, or the reason why a request of its own could not be sent; never the
\* cancellation that the proxy itself caused.
ErrorsAreExplained ==
  handler = "done" /\ client # "gone" =>
     \/ result = ended
     \/ result = "rejected" /\ \E i \in 1..Len(asked) : asked[i] \in Rejected

\* The handler returns once the backend has, the client is gone or a request
\* was refused, "Canceling the backend unblocks this receive path", and then "Handler
\* return releases a pending front.RecvMsg": no goroutine is left.
GoroutinesEnd ==
  /\ handler # "open" /\ (ended # "no" \/ client = "gone" \/ sender = "report")
       ~> handler = "done"
  /\ handler = "done" ~> sender \in {"none", "done"}

\* A half-close reaches the backend, after all requests, unless the call ends.
HalfCloseArrives ==
  client = "halfclosed" ~> \/ backClosed /\ arrived = asked
                           \/ handler = "done" \/ client = "gone"
=============================================================================
