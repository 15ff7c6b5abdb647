--------------------------- MODULE CompletionStream ---------------------------
(***************************************************************************)
(* One streamed chat completion, from the Rust core to the client.          *)
(*                                                                          *)
(* A producer goroutine (internal/grpc/client.go) reads the core's stream   *)
(* into a buffered channel of chunks and puts an error of the stream in a   *)
(* second channel.  The SSE route (streamChatCompletions of api/server.go)  *)
(* selects on both and on the context of the request.  The WebSocket route  *)
(* (gateway/ws) reaches the producer through the proxy and starts two       *)
(* goroutines, one that forwards chunks and one that reports errors; the    *)
(* proxy started a third, which waits on the same error channel to record   *)
(* the outcome for its provider.                                            *)
(*                                                                          *)
(* Chunks are told apart only by whether they carry a finish reason.  The   *)
(* core and the client are the environment: the core may send, end or fail  *)
(* at any time, the client may leave at any time, and a client that stays   *)
(* reads what is written to it.                                             *)
(***************************************************************************)
EXTENDS Integers, Sequences, FiniteSets

CONSTANTS Cap,          \* capacity of the chunk channel: 64 in the code
          MaxChunks     \* bound on the chunks of one stream

ASSUME StreamAssumption ==
    /\ Cap \in Nat \ {0}
    /\ MaxChunks \in Nat

VARIABLES
    route, connected, cancelled,        \* "sse" or "ws"; the client; the context
    producer, hand,                     \* the producer: step, chunk it read
    chunks, chunksClosed,               \* the two channels
    errs, errsClosed,
    handler,                            \* the goroutine of the request
    forwarder, current, done, sendErr,  \* WebSocket: chunks; done, sendErr are shared
    reporter,                           \* WebSocket: errors
    tracker, verdict,                   \* proxy: step, outcome recorded for the provider
    received, failed,                   \* history: chunks and error that came from the core
    delivered, endings,                 \* history: chunks and last words the client got
    heard,                              \* history: who took an error out of the channel
    overlapped                          \* history: two goroutines wrote to one WebSocket

producerVars == <<producer, hand, received, failed>>
channelVars  == <<chunks, chunksClosed, errs, errsClosed>>
forwardVars  == <<forwarder, current, done, sendErr>>
proxyVars    == <<tracker, verdict>>
clientVars   == <<delivered, endings>>
vars == <<route, connected, cancelled, producerVars, channelVars, handler, forwardVars, reporter,
          proxyVars, clientVars, heard, overlapped>>

(* A stream was opened.  A proxy without a provider hands out two closed    *)
(* channels instead and starts nothing.                                     *)
Init ==
    /\ route \in {"sse", "ws"}
    /\ \E opened \in IF route = "ws" THEN BOOLEAN ELSE {TRUE} :
          /\ producer = IF opened THEN "connect" ELSE "exited"
          /\ chunksClosed = ~ opened
          /\ errsClosed = ~ opened
          /\ tracker = IF opened /\ route = "ws" THEN "read" ELSE "exited"
    /\ forwarder = IF route = "ws" THEN "read" ELSE "exited"
    /\ reporter = IF route = "ws" THEN "read" ELSE "exited"
    /\ handler = "serving"
    /\ connected = TRUE
    /\ cancelled = FALSE
    /\ hand = FALSE
    /\ chunks = <<>>
    /\ errs = 0
    /\ current = FALSE
    /\ done = FALSE
    /\ sendErr = FALSE
    /\ verdict = "none"
    /\ received = 0
    /\ failed = FALSE
    /\ delivered = 0
    /\ endings = {}
    /\ heard = {}
    /\ overlapped = FALSE

-----------------------------------------------------------------------------
(* The environment. *)

(* net/http cancels the context of a request whose client left, but not of  *)
(* one whose connection was hijacked for a WebSocket.                       *)
Disconnect ==
    /\ connected
    /\ handler = "serving"
    /\ connected' = FALSE
    /\ cancelled' = (cancelled \/ route = "sse")
    /\ UNCHANGED <<route, producerVars, channelVars, handler, forwardVars, reporter, proxyVars,
                   clientVars, heard, overlapped>>

(* The timeout of the context: 60 s for SSE, 120 s for a WebSocket. *)
Deadline ==
    /\ ~ cancelled
    /\ cancelled' = TRUE
    /\ UNCHANGED <<route, connected, producerVars, channelVars, handler, forwardVars, reporter,
                   proxyVars, clientVars, heard, overlapped>>

-----------------------------------------------------------------------------
(* The producer goroutine.  Its calls of the core end with an error once    *)
(* the context is cancelled, and after the 30 s of the HTTP client at the   *)
(* latest; what was already read may still be returned first.  Sending on   *)
(* the channel looks at no context.                                         *)

Connect ==
    /\ producer = "connect"
    /\ producer' \in {"receive", "fail"}
    /\ UNCHANGED <<route, connected, cancelled, hand, received, failed, channelVars, handler,
                   forwardVars, reporter, proxyVars, clientVars, heard, overlapped>>

Receive ==
    /\ producer = "receive"
    /\ \/ /\ received < MaxChunks
          /\ received' = received + 1
          /\ hand' \in BOOLEAN
          /\ producer' = "send"
       \/ /\ producer' \in {"closeErrs", "fail"}
          /\ UNCHANGED <<received, hand>>
    /\ UNCHANGED <<route, connected, cancelled, failed, channelVars, handler, forwardVars,
                   reporter, proxyVars, clientVars, heard, overlapped>>

HasRoom == Len(chunks) < Cap

SendChunk ==
    /\ producer = "send"
    /\ HasRoom
    /\ chunks' = Append(chunks, hand)
    /\ producer' = "receive"
    /\ UNCHANGED <<route, connected, cancelled, hand, received, failed, chunksClosed, errs,
                   errsClosed, handler, forwardVars, reporter, proxyVars, clientVars, heard,
                   overlapped>>

SendError ==
    /\ producer = "fail"
    /\ errs = 0
    /\ errs' = 1
    /\ failed' = TRUE
    /\ producer' = "closeErrs"
    /\ UNCHANGED <<route, connected, cancelled, hand, received, chunks, chunksClosed, errsClosed,
                   handler, forwardVars, reporter, proxyVars, clientVars, heard, overlapped>>

(* Mutant: only the chunk channel is closed. *)
LeavesErrsOpen == FALSE

ClosesErrs == TRUE

(* The deferred calls run last in, first out: errs is closed first. *)
CloseErrs ==
    /\ producer = "closeErrs"
    /\ errsClosed' = ClosesErrs
    /\ producer' = "closeChunks"
    /\ UNCHANGED <<route, connected, cancelled, hand, received, failed, chunks, chunksClosed, errs,
                   handler, forwardVars, reporter, proxyVars, clientVars, heard, overlapped>>

CloseChunks ==
    /\ producer = "closeChunks"
    /\ chunksClosed' = TRUE
    /\ producer' = "exited"
    /\ UNCHANGED <<route, connected, cancelled, hand, received, failed, chunks, errs, errsClosed,
                   handler, forwardVars, reporter, proxyVars, clientVars, heard, overlapped>>

Produce == Connect \/ Receive \/ SendChunk \/ SendError \/ CloseErrs \/ CloseChunks

-----------------------------------------------------------------------------
(* What the client gets.  A write to a client that left is lost, and so may *)
(* be what two goroutines wrote to one WebSocket at once.                   *)
Tell(n, ending, clash) ==
    \/ /\ connected
       /\ delivered' = delivered + n
       /\ endings' = endings \cup ending
    \/ /\ ~ connected \/ clash
       /\ UNCHANGED clientVars

(* The deferred cancel of a handler that returns. *)
Return ==
    /\ handler' = "returned"
    /\ cancelled' = TRUE

-----------------------------------------------------------------------------
(* The SSE handler: a select that takes any case that is ready.  A closed   *)
(* errs is ready too and only starts the loop again, so it is no step here. *)

SseChunk ==
    /\ route = "sse"
    /\ handler = "serving"
    /\ chunks # <<>>
    /\ chunks' = Tail(chunks)
    /\ done' = Head(chunks)
    /\ IF Head(chunks)
       THEN Tell(1, {"done"}, FALSE) /\ Return
       ELSE Tell(1, {}, FALSE) /\ UNCHANGED <<handler, cancelled>>
    /\ UNCHANGED <<route, connected, producerVars, chunksClosed, errs, errsClosed, forwarder,
                   current, sendErr, reporter, proxyVars, heard, overlapped>>

(* Mutant: a closed errs ends the stream as well. *)
EndOfEither == (chunksClosed \/ errsClosed) /\ errs = 0

(* A closed channel is read as closed once it is empty. *)
EndOfStream == chunksClosed /\ chunks = <<>>

(* "Stream finished cleanly": also with an error that is still in errs. *)
SseClosed ==
    /\ route = "sse"
    /\ handler = "serving"
    /\ EndOfStream
    /\ Tell(0, {"done"}, FALSE)
    /\ Return
    /\ UNCHANGED <<route, connected, producerVars, channelVars, forwardVars, reporter, proxyVars,
                   heard, overlapped>>

SseError ==
    /\ route = "sse"
    /\ handler = "serving"
    /\ errs > 0
    /\ errs' = errs - 1
    /\ heard' = heard \cup {"sse"}
    /\ Tell(0, {"error"}, FALSE)
    /\ Return
    /\ UNCHANGED <<route, connected, producerVars, chunks, chunksClosed, errsClosed, forwardVars,
                   reporter, proxyVars, overlapped>>

SseCancelled ==
    /\ route = "sse"
    /\ handler = "serving"
    /\ cancelled
    /\ Tell(0, {"error"}, FALSE)
    /\ Return
    /\ UNCHANGED <<route, connected, producerVars, channelVars, forwardVars, reporter, proxyVars,
                   heard, overlapped>>

Sse == SseChunk \/ SseClosed \/ SseError \/ SseCancelled

-----------------------------------------------------------------------------
(* The WebSocket route. *)

(* Mutant: any chunk counts as the last one. *)
AnyIsLast == TRUE

IsLast == Head(chunks)

(* done is set before the chunk is written. *)
ForwardRead ==
    /\ forwarder = "read"
    /\ chunks # <<>>
    /\ chunks' = Tail(chunks)
    /\ current' = Head(chunks)
    /\ done' = (done \/ IsLast)
    /\ forwarder' = "write"
    /\ UNCHANGED <<route, connected, cancelled, producerVars, chunksClosed, errs, errsClosed,
                   handler, sendErr, reporter, proxyVars, clientVars, heard, overlapped>>

ForwardEnd ==
    /\ forwarder = "read"
    /\ chunksClosed /\ chunks = <<>>
    /\ forwarder' = "exited"
    /\ UNCHANGED <<route, connected, cancelled, producerVars, channelVars, handler, current, done,
                   sendErr, reporter, proxyVars, clientVars, heard, overlapped>>

(* The write that was begun with ForwardRead ends.  msg.Done marks the last *)
(* chunk.                                                                   *)
ForwardWrite ==
    /\ forwarder = "write"
    /\ overlapped' = (overlapped \/ reporter = "write")
    /\ Tell(1, IF current THEN {"done"} ELSE {}, overlapped')
    /\ forwarder' = "read"
    /\ UNCHANGED <<route, connected, cancelled, producerVars, channelVars, handler, current, done,
                   sendErr, reporter, proxyVars, heard>>

CancelContext == cancelled' = TRUE

(* A write fails once the client has left. *)
ForwardFails ==
    /\ forwarder = "write"
    /\ ~ connected
    /\ sendErr' = TRUE
    /\ CancelContext
    /\ forwarder' = "exited"
    /\ UNCHANGED <<route, connected, producerVars, channelVars, handler, current, done, reporter,
                   proxyVars, clientVars, heard, overlapped>>

Forward == ForwardRead \/ ForwardEnd \/ ForwardWrite \/ ForwardFails

(* sendErr is read while the forwarder may be about to set it. *)
ReportRead ==
    /\ reporter = "read"
    /\ errs > 0
    /\ errs' = errs - 1
    /\ heard' = heard \cup {"reporter"}
    /\ reporter' = IF sendErr THEN "exited" ELSE "write"
    /\ UNCHANGED <<route, connected, cancelled, producerVars, chunks, chunksClosed, errsClosed,
                   handler, forwardVars, proxyVars, clientVars, overlapped>>

ReportEnd ==
    /\ reporter = "read"
    /\ errsClosed /\ errs = 0
    /\ reporter' = "exited"
    /\ UNCHANGED <<route, connected, cancelled, producerVars, channelVars, handler, forwardVars,
                   proxyVars, clientVars, heard, overlapped>>

ReportWrite ==
    /\ reporter = "write"
    /\ overlapped' = (overlapped \/ forwarder = "write")
    /\ Tell(0, {"error"}, overlapped')
    /\ cancelled' = TRUE
    /\ reporter' = "exited"
    /\ UNCHANGED <<route, connected, producerVars, channelVars, handler, forwardVars, proxyVars,
                   heard>>

Report == ReportRead \/ ReportEnd \/ ReportWrite

(* gorilla/websocket panics on a second write at the same time; nobody      *)
(* recovers these goroutines, and the process ends.                         *)
ConcurrentWrite ==
    /\ forwarder = "write"
    /\ reporter = "write"
    /\ overlapped' = TRUE
    /\ producer' = "gone"
    /\ handler' = "gone"
    /\ forwarder' = "gone"
    /\ reporter' = "gone"
    /\ tracker' = "gone"
    /\ UNCHANGED <<route, connected, cancelled, hand, received, failed, channelVars, current, done,
                   sendErr, verdict, clientVars, heard>>

(* Mutant: wg.Add(1), and only the forwarder calls Done. *)
ForwarderDone == forwarder = "exited"

BothDone == forwarder = "exited" /\ reporter = "exited"

(* wg.Wait is over: a last message unless the finish reason was forwarded. *)
WsReturn ==
    /\ route = "ws"
    /\ handler = "serving"
    /\ BothDone
    /\ IF done THEN UNCHANGED clientVars ELSE Tell(0, {"done"}, overlapped)
    /\ Return
    /\ UNCHANGED <<route, connected, producerVars, channelVars, forwardVars, reporter, proxyVars,
                   heard, overlapped>>

-----------------------------------------------------------------------------
(* The goroutine of Proxy.StreamChatCompletions. *)

(* Mutant: a closed channel counts as a failure. *)
VerdictOfClosedFailure == "failure"

(* A receive from a closed channel yields nil, which is no error. *)
VerdictOfClosed == "success"

Track ==
    /\ tracker = "read"
    /\ \/ /\ errs > 0
          /\ errs' = errs - 1
          /\ heard' = heard \cup {"tracker"}
          /\ verdict' = "failure"
       \/ /\ errsClosed /\ errs = 0
          /\ verdict' = VerdictOfClosed
          /\ UNCHANGED <<errs, heard>>
    /\ tracker' = "exited"
    /\ UNCHANGED <<route, connected, cancelled, producerVars, chunks, chunksClosed, errsClosed,
                   handler, forwardVars, reporter, clientVars, overlapped>>

-----------------------------------------------------------------------------
Next ==
    \/ Disconnect
    \/ Deadline
    \/ Produce
    \/ Sse
    \/ Forward
    \/ Report
    \/ ConcurrentWrite
    \/ WsReturn
    \/ Track

Spec == Init /\ [][Next]_vars

(* A goroutine that can run does run; a call of the core ends with its      *)
(* timeout at the latest.                                                   *)
Fairness ==
    /\ WF_vars(Produce)
    /\ WF_vars(Sse)
    /\ WF_vars(Forward)
    /\ WF_vars(Report)
    /\ WF_vars(WsReturn)
    /\ WF_vars(Track)

FairSpec == Spec /\ Fairness

-----------------------------------------------------------------------------
(* Every variable keeps its type; the channels never exceed their capacity. *)
TypeOK ==
    /\ route \in {"sse", "ws"}
    /\ {connected, cancelled, hand, chunksClosed, errsClosed, current, done, sendErr, failed,
        overlapped} \subseteq BOOLEAN
    /\ producer \in {"connect", "receive", "send", "fail", "closeErrs", "closeChunks", "exited",
                     "gone"}
    /\ chunks \in Seq(BOOLEAN)
    /\ Len(chunks) <= Cap
    /\ errs \in 0 .. 1
    /\ handler \in {"serving", "returned", "gone"}
    /\ forwarder \in {"read", "write", "exited", "gone"}
    /\ reporter \in {"read", "write", "exited", "gone"}
    /\ tracker \in {"read", "exited", "gone"}
    /\ verdict \in {"none", "success", "failure"}
    /\ received \in 0 .. MaxChunks
    /\ delivered \in 0 .. MaxChunks
    /\ endings \subseteq {"done", "error"}
    /\ heard \subseteq {"sse", "reporter", "tracker"}

(* An SSE client that reads [DONE] after no finish reason has got every     *)
(* chunk that the core sent: neither the close of errs, which comes before  *)
(* the close of chunks, nor a pending error ends the stream with chunks     *)
(* still in the buffer (streamChatCompletions).                             *)
DoneMeansAll ==
    (route = "sse" /\ "done" \in endings /\ ~ done) => delivered = received

(* A client that stays until the handler returns is told that the stream is *)
(* over, in whatever order chunks, errors, closes and the timeout reach the *)
(* goroutines, unless two of them wrote at once (Handle, sendDone).         *)
EndingReachesClient ==
    (handler = "returned" /\ connected /\ ~ overlapped) => endings # {}

(* An error of the stream is heard once: by the client's route or by the    *)
(* proxy's tracker, whoever receives first.  The tracker records a failure  *)
(* only when it took the error itself, so an outcome it records as a        *)
(* success may have failed, but never the other way (proxy.go).             *)
OutcomeHeardOnce ==
    /\ heard # {} => failed
    /\ Cardinality(heard) <= 1
    /\ verdict = "failure" => heard = {"tracker"}
    /\ (route = "ws" /\ failed /\ tracker = "exited" /\ reporter = "exited") => heard # {}

(* The producer waits for room in a channel that nobody will read again.    *)
Abandoned ==
    /\ producer = "send"
    /\ ~ HasRoom
    /\ IF route = "sse" THEN handler = "returned" ELSE forwarder = "exited"

(* While the context lives, whoever reads the chunks is still there: a      *)
(* reader leaves only when the channel is closed or after it cancelled.     *)
AbandonedMeansCancelled == Abandoned => cancelled

(* All goroutines of a stream end, but for a producer that was abandoned    *)
(* with a full buffer and those that wait for it: the tracker and, on the   *)
(* WebSocket route, the reporter and the handler.                           *)
AllExited ==
    /\ handler \in {"returned", "gone"}
    /\ \A g \in {producer, forwarder, reporter, tracker} : g \in {"exited", "gone"}

GoroutinesEnd == <>(AllExited \/ Abandoned)

-----------------------------------------------------------------------------
(* The core has failed or ended its stream, as far as the producer knows.   *)
Source ==
    IF failed THEN "failed"
    ELSE IF producer \in {"closeErrs", "closeChunks", "exited", "gone"} THEN "ended" ELSE "open"

Delivery == INSTANCE StreamDelivery WITH
    kind <- route, source <- Source, sent <- received, present <- connected, cut <- cancelled,
    clash <- overlapped, got <- delivered, told <- endings, over <- handler # "serving"

(* On either route the goroutines, channels and select of the code deliver  *)
(* the stream as StreamDelivery says: each of their steps is one of its     *)
(* steps or changes nothing the client or the core can see                  *)
(* (streamChatCompletions, StreamHandler.Handle).                           *)
ImplementsDelivery == Delivery!DeliverySpec

=============================================================================
