------------------------ MODULE CompletionStream_proofs ------------------------
(***************************************************************************)
(* Proofs about CompletionStream, for any capacity and length.              *)
(***************************************************************************)
EXTENDS CompletionStream, TLAPS, FiniteSetTheorems, SequenceTheorems

(* What the step of the producer says about the channels, and the route     *)
(* about the goroutines.                                                    *)
Closing ==
    /\ chunksClosed => producer \in {"exited", "gone"}
    /\ errsClosed => producer \in {"closeChunks", "exited", "gone"}
    /\ failed => producer \in {"closeErrs", "closeChunks", "exited", "gone"}
    /\ route = "sse" =>
          forwarder = "exited" /\ reporter = "exited" /\ tracker = "exited" /\ handler # "gone"

InHand == IF producer = "send" THEN 1 ELSE 0
InWrite == IF forwarder = "write" THEN 1 ELSE 0

(* Chunks come from the core, and an SSE client that is still served has    *)
(* got every chunk that is not on its way.                                  *)
Flow ==
    /\ delivered + Len(chunks) + InHand + InWrite <= received
    /\ (route = "sse" /\ connected /\ handler = "serving") =>
          delivered + Len(chunks) + InHand = received

(* An SSE client is told that the stream is over when its handler returns.  *)
SseEnding ==
    route = "sse" =>
        /\ handler = "serving" => endings = {}
        /\ ("done" \in endings /\ ~ done) =>
              delivered = received /\ producer \in {"exited", "gone"}

(* Readers leave after the channel was closed or the context cancelled.     *)
Leaving ==
    /\ handler = "returned" => cancelled
    /\ route = "ws" /\ forwarder = "exited" => cancelled \/ chunksClosed

(* The finish reason is on its way to a WebSocket client, or arrived.       *)
LastWord ==
    /\ (route = "ws" /\ done /\ connected /\ ~ overlapped) =>
          "done" \in endings \/ (forwarder = "write" /\ current)
    /\ EndingReachesClient

(* The one error is in the channel or with the one that heard it.           *)
OneError ==
    /\ ~ failed => errs = 0 /\ heard = {}
    /\ failed => \/ errs = 1 /\ heard = {}
                 \/ errs = 0 /\ \E who \in {"sse", "reporter", "tracker"} : heard = {who}
    /\ tracker = "read" => verdict = "none"
    /\ verdict = "failure" => heard = {"tracker"}
    /\ reporter = "write" => heard # {}
    /\ (route = "ws" /\ reporter = "exited") => heard # {} \/ (errsClosed /\ errs = 0)

Inv ==
    /\ TypeOK /\ Closing /\ Flow
    /\ SseEnding /\ Leaving /\ LastWord /\ OneError

Flags == {connected, cancelled, hand, chunksClosed, errsClosed, current, done, sendErr, failed,
          overlapped}

LEMMA HeadTail ==
    ASSUME TypeOK, chunks # <<>>
    PROVE  /\ Head(chunks) \in BOOLEAN
           /\ Tail(chunks) \in Seq(BOOLEAN)
           /\ Len(chunks) \in Nat /\ Len(chunks) > 0
           /\ Len(Tail(chunks)) = Len(chunks) - 1
BY HeadTailProperties DEF TypeOK

LEMMA InitInv == Init => Inv
<1> SUFFICES ASSUME Init PROVE Inv
  OBVIOUS
<1>1. chunks = <<>> /\ chunks \in Seq(BOOLEAN) /\ Len(chunks) = 0
  BY DEF Init
<1>2. TypeOK
  <2>1. /\ Flags \subseteq BOOLEAN
        /\ producer \in {"connect", "receive", "send", "fail", "closeErrs", "closeChunks", "exited",
                         "gone"}
        /\ tracker \in {"read", "exited", "gone"}
    BY DEF Init, Flags
  <2> QED
    BY <1>1, <2>1, StreamAssumption DEF Init, TypeOK, Flags
<1>3. Closing /\ Leaving /\ OneError
  BY DEF Init, Closing, Leaving, OneError
<1>4. Flow
  BY <1>1 DEF Init, Flow, InHand, InWrite
<1>5. SseEnding /\ LastWord
  BY DEF Init, SseEnding, LastWord, EndingReachesClient
<1> QED
  BY <1>2, <1>3, <1>4, <1>5 DEF Inv

LEMMA TypeStep == TypeOK /\ Flow /\ [Next]_vars => TypeOK'
<1> SUFFICES ASSUME TypeOK, Flow, [Next]_vars PROVE TypeOK'
  OBVIOUS
<1> USE StreamAssumption DEF TypeOK, producerVars, channelVars, forwardVars, proxyVars, clientVars, Flow, InHand, InWrite
<1>1. CASE Disconnect
  BY <1>1 DEF Disconnect
<1>2. CASE Deadline
  BY <1>2 DEF Deadline
<1>3. CASE Connect
  BY <1>3 DEF Connect
<1>4. CASE Receive
  BY <1>4 DEF Receive
<1>5. CASE SendChunk
  BY <1>5 DEF SendChunk, HasRoom
<1>6. CASE SendError
  BY <1>6 DEF SendError
<1>7. CASE CloseErrs
  BY <1>7 DEF CloseErrs, ClosesErrs
<1>8. CASE CloseChunks
  BY <1>8 DEF CloseChunks
<1>9. CASE SseChunk
  <2>1. chunks # <<>> /\ chunks' = Tail(chunks)
    BY <1>9 DEF SseChunk
  <2>2. chunks' \in Seq(BOOLEAN) /\ Len(chunks') <= Cap
    BY <2>1, HeadTail
  <2>3. Flags' \subseteq BOOLEAN
    BY <1>9, HeadTail DEF SseChunk, Tell, Return, Flags
  <2>4. delivered' \in {delivered, delivered + 1} /\ endings' \subseteq endings \cup {"done"}
    BY <1>9 DEF SseChunk, Tell
  <2>5. delivered + 1 <= received
    BY <2>1, HeadTail
  <2>6. delivered' \in 0 .. MaxChunks /\ endings' \subseteq {"done", "error"}
    BY <2>4, <2>5
  <2> QED
    BY <1>9, <2>2, <2>3, <2>6 DEF SseChunk, Return, Flags
<1>10. CASE SseClosed
  <2>2. chunks' \in Seq(BOOLEAN) /\ Len(chunks') <= Cap
    BY <1>10 DEF SseClosed
  <2>3. Flags' \subseteq BOOLEAN
    BY <1>10 DEF SseClosed, Return, EndOfStream, Flags
  <2>4. delivered' \in {delivered} /\ endings' \subseteq endings \cup {"done"}
    BY <1>10 DEF SseClosed, Return, Tell
  <2>6. delivered' \in 0 .. MaxChunks /\ endings' \subseteq {"done", "error"}
    BY <2>4
  <2> QED
    BY <1>10, <2>2, <2>3, <2>6 DEF SseClosed, Return, EndOfStream, Flags
<1>11. CASE SseError
  <2>2. chunks' \in Seq(BOOLEAN) /\ Len(chunks') <= Cap
    BY <1>11 DEF SseError
  <2>3. Flags' \subseteq BOOLEAN
    BY <1>11 DEF SseError, Return, Flags
  <2>4. delivered' \in {delivered} /\ endings' \subseteq endings \cup {"error"}
    BY <1>11 DEF SseError, Return, Tell
  <2>6. delivered' \in 0 .. MaxChunks /\ endings' \subseteq {"done", "error"}
    BY <2>4
  <2> QED
    BY <1>11, <2>2, <2>3, <2>6 DEF SseError, Return, Flags
<1>12. CASE SseCancelled
  <2>2. chunks' \in Seq(BOOLEAN) /\ Len(chunks') <= Cap
    BY <1>12 DEF SseCancelled
  <2>3. Flags' \subseteq BOOLEAN
    BY <1>12 DEF SseCancelled, Return, Flags
  <2>4. delivered' \in {delivered} /\ endings' \subseteq endings \cup {"error"}
    BY <1>12 DEF SseCancelled, Return, Tell
  <2>6. delivered' \in 0 .. MaxChunks /\ endings' \subseteq {"done", "error"}
    BY <2>4
  <2> QED
    BY <1>12, <2>2, <2>3, <2>6 DEF SseCancelled, Return, Flags
<1>13. CASE ForwardRead
  <2>1. chunks # <<>> /\ chunks' = Tail(chunks)
    BY <1>13 DEF ForwardRead
  <2>2. chunks' \in Seq(BOOLEAN) /\ Len(chunks') <= Cap
    BY <2>1, HeadTail
  <2>3. Flags' \subseteq BOOLEAN
    BY <1>13, HeadTail DEF ForwardRead, IsLast, Flags
  <2> QED
    BY <1>13, <2>2, <2>3 DEF ForwardRead, IsLast, Flags
<1>14. CASE ForwardEnd
  BY <1>14 DEF ForwardEnd
<1>15. CASE ForwardWrite
  <2>2. chunks' \in Seq(BOOLEAN) /\ Len(chunks') <= Cap
    BY <1>15 DEF ForwardWrite
  <2>3. Flags' \subseteq BOOLEAN
    BY <1>15 DEF ForwardWrite, Tell, Flags
  <2>4. delivered' \in {delivered, delivered + 1} /\ endings' \subseteq endings \cup {"done"}
    BY <1>15 DEF ForwardWrite, Tell
  <2>5. delivered + 1 <= received
    BY <1>15, HeadTail, LenProperties DEF ForwardWrite
  <2>6. delivered' \in 0 .. MaxChunks /\ endings' \subseteq {"done", "error"}
    BY <2>4, <2>5
  <2> QED
    BY <1>15, <2>2, <2>3, <2>6 DEF ForwardWrite, Flags
<1>16. CASE ForwardFails
  BY <1>16 DEF ForwardFails, CancelContext
<1>17. CASE ReportRead
  BY <1>17 DEF ReportRead
<1>18. CASE ReportEnd
  BY <1>18 DEF ReportEnd
<1>19. CASE ReportWrite
  <2>2. chunks' \in Seq(BOOLEAN) /\ Len(chunks') <= Cap
    BY <1>19 DEF ReportWrite
  <2>3. Flags' \subseteq BOOLEAN
    BY <1>19 DEF ReportWrite, Tell, Flags
  <2>4. delivered' \in {delivered} /\ endings' \subseteq endings \cup {"error"}
    BY <1>19 DEF ReportWrite, Tell
  <2>6. delivered' \in 0 .. MaxChunks /\ endings' \subseteq {"done", "error"}
    BY <2>4
  <2> QED
    BY <1>19, <2>2, <2>3, <2>6 DEF ReportWrite, Flags
<1>20. CASE ConcurrentWrite
  BY <1>20 DEF ConcurrentWrite
<1>21. CASE WsReturn
  <2>2. chunks' \in Seq(BOOLEAN) /\ Len(chunks') <= Cap
    BY <1>21 DEF WsReturn, BothDone
  <2>3. Flags' \subseteq BOOLEAN
    BY <1>21 DEF WsReturn, BothDone, Return, Flags
  <2>4. delivered' \in {delivered} /\ endings' \subseteq endings \cup {"done"}
    BY <1>21 DEF WsReturn, BothDone, Return, Tell
  <2>6. delivered' \in 0 .. MaxChunks /\ endings' \subseteq {"done", "error"}
    BY <2>4
  <2> QED
    BY <1>21, <2>2, <2>3, <2>6 DEF WsReturn, BothDone, Return, Flags
<1>22. CASE Track
  <2>2. Flags' \subseteq BOOLEAN
    BY <1>22 DEF Track, Flags
  <2>3. errs' \in 0 .. 1 /\ heard' \subseteq {"sse", "reporter", "tracker"}
    <3>1. CASE errs > 0 /\ errs' = errs - 1 /\ heard' = heard \cup {"tracker"}
      BY <3>1
    <3>2. CASE errs' = errs /\ heard' = heard
      BY <3>2
    <3> QED
      BY <1>22, <3>1, <3>2 DEF Track
  <2>4. verdict' \in {"none", "success", "failure"}
    BY <1>22 DEF Track, VerdictOfClosed
  <2> QED
    BY <1>22, <2>2, <2>3, <2>4 DEF Track, Flags
<1>23. CASE UNCHANGED vars
  BY <1>23 DEF vars
<1> QED
  BY <1>1, <1>2, <1>3, <1>4, <1>5, <1>6, <1>7, <1>8, <1>9, <1>10, <1>11, <1>12,
     <1>13, <1>14, <1>15, <1>16, <1>17, <1>18, <1>19, <1>20, <1>21, <1>22, <1>23 DEF Next, Produce, Sse, Forward, Report

LEMMA ClosingStep == TypeOK /\ Closing /\ [Next]_vars => Closing'
<1> SUFFICES ASSUME TypeOK, Closing, [Next]_vars PROVE Closing'
  OBVIOUS
<1> USE StreamAssumption DEF TypeOK, producerVars, channelVars, forwardVars, proxyVars, clientVars
<1>1. CASE Disconnect
  BY <1>1 DEF Disconnect, Closing
<1>2. CASE Deadline
  BY <1>2 DEF Deadline, Closing
<1>3. CASE Connect
  BY <1>3 DEF Connect, Closing
<1>4. CASE Receive
  BY <1>4 DEF Receive, Closing
<1>5. CASE SendChunk
  BY <1>5 DEF SendChunk, HasRoom, Closing
<1>6. CASE SendError
  BY <1>6 DEF SendError, Closing
<1>7. CASE CloseErrs
  BY <1>7 DEF CloseErrs, ClosesErrs, Closing
<1>8. CASE CloseChunks
  BY <1>8 DEF CloseChunks, Closing
<1>9. CASE SseChunk
  BY <1>9 DEF SseChunk, Tell, Return, Closing
<1>10. CASE SseClosed
  BY <1>10 DEF SseClosed, Tell, Return, EndOfStream, Closing
<1>11. CASE SseError
  BY <1>11 DEF SseError, Tell, Return, Closing
<1>12. CASE SseCancelled
  BY <1>12 DEF SseCancelled, Tell, Return, Closing
<1>13. CASE ForwardRead
  BY <1>13 DEF ForwardRead, IsLast, Closing
<1>14. CASE ForwardEnd
  BY <1>14 DEF ForwardEnd, Closing
<1>15. CASE ForwardWrite
  BY <1>15 DEF ForwardWrite, Tell, Closing
<1>16. CASE ForwardFails
  BY <1>16 DEF ForwardFails, CancelContext, Closing
<1>17. CASE ReportRead
  BY <1>17 DEF ReportRead, Closing
<1>18. CASE ReportEnd
  BY <1>18 DEF ReportEnd, Closing
<1>19. CASE ReportWrite
  BY <1>19 DEF ReportWrite, Tell, Closing
<1>20. CASE ConcurrentWrite
  BY <1>20 DEF ConcurrentWrite, Closing
<1>21. CASE WsReturn
  BY <1>21 DEF WsReturn, BothDone, Tell, Return, Closing
<1>22. CASE Track
  BY <1>22 DEF Track, VerdictOfClosed, Closing
<1>23. CASE UNCHANGED vars
  BY <1>23 DEF vars, Closing
<1> QED
  BY <1>1, <1>2, <1>3, <1>4, <1>5, <1>6, <1>7, <1>8, <1>9, <1>10, <1>11, <1>12,
     <1>13, <1>14, <1>15, <1>16, <1>17, <1>18, <1>19, <1>20, <1>21, <1>22, <1>23 DEF Next, Produce, Sse, Forward, Report

LEMMA FlowStep == TypeOK /\ Closing /\ Flow /\ [Next]_vars => Flow'
<1> SUFFICES ASSUME TypeOK, Closing, Flow, [Next]_vars PROVE Flow'
  OBVIOUS
<1> USE StreamAssumption DEF TypeOK, producerVars, channelVars, forwardVars, proxyVars, clientVars, Closing
<1>1. CASE Disconnect
  BY <1>1 DEF Disconnect, Flow, InHand, InWrite
<1>2. CASE Deadline
  BY <1>2 DEF Deadline, Flow, InHand, InWrite
<1>3. CASE Connect
  BY <1>3 DEF Connect, Flow, InHand, InWrite
<1>4. CASE Receive
  BY <1>4 DEF Receive, Flow, InHand, InWrite
<1>5. CASE SendChunk
  BY <1>5 DEF SendChunk, HasRoom, Flow, InHand, InWrite
<1>6. CASE SendError
  BY <1>6 DEF SendError, Flow, InHand, InWrite
<1>7. CASE CloseErrs
  BY <1>7 DEF CloseErrs, ClosesErrs, Flow, InHand, InWrite
<1>8. CASE CloseChunks
  BY <1>8 DEF CloseChunks, Flow, InHand, InWrite
<1>9. CASE SseChunk
  <2>1. /\ chunks # <<>> /\ chunks' = Tail(chunks) /\ route = "sse" /\ handler = "serving"
        /\ UNCHANGED <<producer, received, route, forwarder, connected>>
        /\ delivered' = delivered + 1 \/ (delivered' = delivered /\ ~ connected)
    BY <1>9 DEF SseChunk, Tell
  <2>2. Len(chunks') = Len(chunks) - 1 /\ Len(chunks) \in Nat
    BY <2>1, HeadTail
  <2> QED
    BY <2>1, <2>2 DEF Flow, InHand, InWrite
<1>10. CASE SseClosed
  BY <1>10 DEF SseClosed, Tell, Return, EndOfStream, Flow, InHand, InWrite
<1>11. CASE SseError
  BY <1>11 DEF SseError, Tell, Return, Flow, InHand, InWrite
<1>12. CASE SseCancelled
  BY <1>12 DEF SseCancelled, Tell, Return, Flow, InHand, InWrite
<1>13. CASE ForwardRead
  <2>1. /\ chunks # <<>> /\ chunks' = Tail(chunks) /\ forwarder = "read" /\ forwarder' = "write"
        /\ UNCHANGED <<delivered, producer, received, route>>
    BY <1>13 DEF ForwardRead
  <2>2. Len(chunks') = Len(chunks) - 1 /\ Len(chunks) \in Nat
    BY <2>1, HeadTail
  <2> QED
    BY <2>1, <2>2 DEF Flow, InHand, InWrite
<1>14. CASE ForwardEnd
  BY <1>14 DEF ForwardEnd, Flow, InHand, InWrite
<1>15. CASE ForwardWrite
  BY <1>15 DEF ForwardWrite, Tell, Flow, InHand, InWrite
<1>16. CASE ForwardFails
  BY <1>16 DEF ForwardFails, CancelContext, Flow, InHand, InWrite
<1>17. CASE ReportRead
  BY <1>17 DEF ReportRead, Flow, InHand, InWrite
<1>18. CASE ReportEnd
  BY <1>18 DEF ReportEnd, Flow, InHand, InWrite
<1>19. CASE ReportWrite
  BY <1>19 DEF ReportWrite, Tell, Flow, InHand, InWrite
<1>20. CASE ConcurrentWrite
  BY <1>20 DEF ConcurrentWrite, Flow, InHand, InWrite
<1>21. CASE WsReturn
  BY <1>21 DEF WsReturn, BothDone, Tell, Return, Flow, InHand, InWrite
<1>22. CASE Track
  BY <1>22 DEF Track, VerdictOfClosed, Flow, InHand, InWrite
<1>23. CASE UNCHANGED vars
  BY <1>23 DEF vars, Flow, InHand, InWrite
<1> QED
  BY <1>1, <1>2, <1>3, <1>4, <1>5, <1>6, <1>7, <1>8, <1>9, <1>10, <1>11, <1>12,
     <1>13, <1>14, <1>15, <1>16, <1>17, <1>18, <1>19, <1>20, <1>21, <1>22, <1>23 DEF Next, Produce, Sse, Forward, Report

LEMMA SseEndingStep == TypeOK /\ Closing /\ Flow /\ SseEnding /\ [Next]_vars => SseEnding'
<1> SUFFICES ASSUME TypeOK, Closing, Flow, SseEnding, [Next]_vars PROVE SseEnding'
  OBVIOUS
<1> USE StreamAssumption DEF TypeOK, producerVars, channelVars, forwardVars, proxyVars, clientVars, Closing, Flow, InHand, InWrite
<1>1. CASE Disconnect
  BY <1>1 DEF Disconnect, SseEnding
<1>2. CASE Deadline
  BY <1>2 DEF Deadline, SseEnding
<1>3. CASE Connect
  BY <1>3 DEF Connect, SseEnding
<1>4. CASE Receive
  BY <1>4 DEF Receive, SseEnding
<1>5. CASE SendChunk
  BY <1>5 DEF SendChunk, HasRoom, SseEnding
<1>6. CASE SendError
  BY <1>6 DEF SendError, SseEnding
<1>7. CASE CloseErrs
  BY <1>7 DEF CloseErrs, ClosesErrs, SseEnding
<1>8. CASE CloseChunks
  BY <1>8 DEF CloseChunks, SseEnding
<1>9. CASE SseChunk
  BY <1>9 DEF SseChunk, Tell, Return, SseEnding
<1>10. CASE SseClosed
  BY <1>10 DEF SseClosed, Tell, Return, EndOfStream, SseEnding
<1>11. CASE SseError
  BY <1>11 DEF SseError, Tell, Return, SseEnding
<1>12. CASE SseCancelled
  BY <1>12 DEF SseCancelled, Tell, Return, SseEnding
<1>13. CASE ForwardRead
  BY <1>13 DEF ForwardRead, IsLast, SseEnding
<1>14. CASE ForwardEnd
  BY <1>14 DEF ForwardEnd, SseEnding
<1>15. CASE ForwardWrite
  BY <1>15 DEF ForwardWrite, Tell, SseEnding
<1>16. CASE ForwardFails
  BY <1>16 DEF ForwardFails, CancelContext, SseEnding
<1>17. CASE ReportRead
  BY <1>17 DEF ReportRead, SseEnding
<1>18. CASE ReportEnd
  BY <1>18 DEF ReportEnd, SseEnding
<1>19. CASE ReportWrite
  BY <1>19 DEF ReportWrite, Tell, SseEnding
<1>20. CASE ConcurrentWrite
  BY <1>20 DEF ConcurrentWrite, SseEnding
<1>21. CASE WsReturn
  BY <1>21 DEF WsReturn, BothDone, Tell, Return, SseEnding
<1>22. CASE Track
  BY <1>22 DEF Track, VerdictOfClosed, SseEnding
<1>23. CASE UNCHANGED vars
  BY <1>23 DEF vars, SseEnding
<1> QED
  BY <1>1, <1>2, <1>3, <1>4, <1>5, <1>6, <1>7, <1>8, <1>9, <1>10, <1>11, <1>12,
     <1>13, <1>14, <1>15, <1>16, <1>17, <1>18, <1>19, <1>20, <1>21, <1>22, <1>23 DEF Next, Produce, Sse, Forward, Report

LEMMA LeavingStep == TypeOK /\ Closing /\ Leaving /\ [Next]_vars => Leaving'
<1> SUFFICES ASSUME TypeOK, Closing, Leaving, [Next]_vars PROVE Leaving'
  OBVIOUS
<1> USE StreamAssumption DEF TypeOK, producerVars, channelVars, forwardVars, proxyVars, clientVars, Closing
<1>1. CASE Disconnect
  BY <1>1 DEF Disconnect, Leaving
<1>2. CASE Deadline
  BY <1>2 DEF Deadline, Leaving
<1>3. CASE Connect
  BY <1>3 DEF Connect, Leaving
<1>4. CASE Receive
  BY <1>4 DEF Receive, Leaving
<1>5. CASE SendChunk
  BY <1>5 DEF SendChunk, HasRoom, Leaving
<1>6. CASE SendError
  BY <1>6 DEF SendError, Leaving
<1>7. CASE CloseErrs
  BY <1>7 DEF CloseErrs, ClosesErrs, Leaving
<1>8. CASE CloseChunks
  BY <1>8 DEF CloseChunks, Leaving
<1>9. CASE SseChunk
  BY <1>9 DEF SseChunk, Tell, Return, Leaving
<1>10. CASE SseClosed
  BY <1>10 DEF SseClosed, Tell, Return, EndOfStream, Leaving
<1>11. CASE SseError
  BY <1>11 DEF SseError, Tell, Return, Leaving
<1>12. CASE SseCancelled
  BY <1>12 DEF SseCancelled, Tell, Return, Leaving
<1>13. CASE ForwardRead
  BY <1>13 DEF ForwardRead, IsLast, Leaving
<1>14. CASE ForwardEnd
  BY <1>14 DEF ForwardEnd, Leaving
<1>15. CASE ForwardWrite
  BY <1>15 DEF ForwardWrite, Tell, Leaving
<1>16. CASE ForwardFails
  BY <1>16 DEF ForwardFails, CancelContext, Leaving
<1>17. CASE ReportRead
  BY <1>17 DEF ReportRead, Leaving
<1>18. CASE ReportEnd
  BY <1>18 DEF ReportEnd, Leaving
<1>19. CASE ReportWrite
  BY <1>19 DEF ReportWrite, Tell, Leaving
<1>20. CASE ConcurrentWrite
  BY <1>20 DEF ConcurrentWrite, Leaving
<1>21. CASE WsReturn
  BY <1>21 DEF WsReturn, BothDone, Tell, Return, Leaving
<1>22. CASE Track
  BY <1>22 DEF Track, VerdictOfClosed, Leaving
<1>23. CASE UNCHANGED vars
  BY <1>23 DEF vars, Leaving
<1> QED
  BY <1>1, <1>2, <1>3, <1>4, <1>5, <1>6, <1>7, <1>8, <1>9, <1>10, <1>11, <1>12,
     <1>13, <1>14, <1>15, <1>16, <1>17, <1>18, <1>19, <1>20, <1>21, <1>22, <1>23 DEF Next, Produce, Sse, Forward, Report

LEMMA LastWordStep == TypeOK /\ Closing /\ LastWord /\ [Next]_vars => LastWord'
<1> SUFFICES ASSUME TypeOK, Closing, LastWord, [Next]_vars PROVE LastWord'
  OBVIOUS
<1> USE StreamAssumption DEF TypeOK, producerVars, channelVars, forwardVars, proxyVars, clientVars, Closing
<1>1. CASE Disconnect
  BY <1>1 DEF Disconnect, LastWord, EndingReachesClient
<1>2. CASE Deadline
  BY <1>2 DEF Deadline, LastWord, EndingReachesClient
<1>3. CASE Connect
  BY <1>3 DEF Connect, LastWord, EndingReachesClient
<1>4. CASE Receive
  BY <1>4 DEF Receive, LastWord, EndingReachesClient
<1>5. CASE SendChunk
  BY <1>5 DEF SendChunk, HasRoom, LastWord, EndingReachesClient
<1>6. CASE SendError
  BY <1>6 DEF SendError, LastWord, EndingReachesClient
<1>7. CASE CloseErrs
  BY <1>7 DEF CloseErrs, ClosesErrs, LastWord, EndingReachesClient
<1>8. CASE CloseChunks
  BY <1>8 DEF CloseChunks, LastWord, EndingReachesClient
<1>9. CASE SseChunk
  BY <1>9 DEF SseChunk, Tell, Return, LastWord, EndingReachesClient
<1>10. CASE SseClosed
  BY <1>10 DEF SseClosed, Tell, Return, EndOfStream, LastWord, EndingReachesClient
<1>11. CASE SseError
  BY <1>11 DEF SseError, Tell, Return, LastWord, EndingReachesClient
<1>12. CASE SseCancelled
  BY <1>12 DEF SseCancelled, Tell, Return, LastWord, EndingReachesClient
<1>13. CASE ForwardRead
  BY <1>13 DEF ForwardRead, IsLast, LastWord, EndingReachesClient
<1>14. CASE ForwardEnd
  BY <1>14 DEF ForwardEnd, LastWord, EndingReachesClient
<1>15. CASE ForwardWrite
  BY <1>15 DEF ForwardWrite, Tell, LastWord, EndingReachesClient
<1>16. CASE ForwardFails
  BY <1>16 DEF ForwardFails, CancelContext, LastWord, EndingReachesClient
<1>17. CASE ReportRead
  BY <1>17 DEF ReportRead, LastWord, EndingReachesClient
<1>18. CASE ReportEnd
  BY <1>18 DEF ReportEnd, LastWord, EndingReachesClient
<1>19. CASE ReportWrite
  BY <1>19 DEF ReportWrite, Tell, LastWord, EndingReachesClient
<1>20. CASE ConcurrentWrite
  BY <1>20 DEF ConcurrentWrite, LastWord, EndingReachesClient
<1>21. CASE WsReturn
  BY <1>21 DEF WsReturn, BothDone, Tell, Return, LastWord, EndingReachesClient
<1>22. CASE Track
  BY <1>22 DEF Track, VerdictOfClosed, LastWord, EndingReachesClient
<1>23. CASE UNCHANGED vars
  BY <1>23 DEF vars, LastWord, EndingReachesClient
<1> QED
  BY <1>1, <1>2, <1>3, <1>4, <1>5, <1>6, <1>7, <1>8, <1>9, <1>10, <1>11, <1>12,
     <1>13, <1>14, <1>15, <1>16, <1>17, <1>18, <1>19, <1>20, <1>21, <1>22, <1>23 DEF Next, Produce, Sse, Forward, Report

LEMMA OneErrorStep == TypeOK /\ Closing /\ OneError /\ [Next]_vars => OneError'
<1> SUFFICES ASSUME TypeOK, Closing, OneError, [Next]_vars PROVE OneError'
  OBVIOUS
<1> USE StreamAssumption DEF TypeOK, producerVars, channelVars, forwardVars, proxyVars, clientVars, Closing
<1>1. CASE Disconnect
  BY <1>1 DEF Disconnect, OneError
<1>2. CASE Deadline
  BY <1>2 DEF Deadline, OneError
<1>3. CASE Connect
  BY <1>3 DEF Connect, OneError
<1>4. CASE Receive
  BY <1>4 DEF Receive, OneError
<1>5. CASE SendChunk
  BY <1>5 DEF SendChunk, HasRoom, OneError
<1>6. CASE SendError
  BY <1>6 DEF SendError, OneError
<1>7. CASE CloseErrs
  BY <1>7 DEF CloseErrs, ClosesErrs, OneError
<1>8. CASE CloseChunks
  BY <1>8 DEF CloseChunks, OneError
<1>9. CASE SseChunk
  BY <1>9 DEF SseChunk, Tell, Return, OneError
<1>10. CASE SseClosed
  BY <1>10 DEF SseClosed, Tell, Return, EndOfStream, OneError
<1>11. CASE SseError
  <2>1. failed /\ errs = 1 /\ heard = {}
    BY <1>11 DEF SseError, OneError
  <2>2. errs' = 0 /\ heard' = {"sse"}
    BY <1>11, <2>1 DEF SseError
  <2>3. verdict # "failure"
    BY <2>1 DEF OneError
  <2> QED
    BY <1>11, <2>1, <2>2, <2>3 DEF SseError, OneError
<1>12. CASE SseCancelled
  BY <1>12 DEF SseCancelled, Tell, Return, OneError
<1>13. CASE ForwardRead
  BY <1>13 DEF ForwardRead, IsLast, OneError
<1>14. CASE ForwardEnd
  BY <1>14 DEF ForwardEnd, OneError
<1>15. CASE ForwardWrite
  BY <1>15 DEF ForwardWrite, Tell, OneError
<1>16. CASE ForwardFails
  BY <1>16 DEF ForwardFails, CancelContext, OneError
<1>17. CASE ReportRead
  <2>1. failed /\ errs = 1 /\ heard = {}
    BY <1>17 DEF ReportRead, OneError
  <2>2. errs' = 0 /\ heard' = {"reporter"}
    BY <1>17, <2>1 DEF ReportRead
  <2>3. verdict # "failure"
    BY <2>1 DEF OneError
  <2> QED
    BY <1>17, <2>1, <2>2, <2>3 DEF ReportRead, OneError
<1>18. CASE ReportEnd
  BY <1>18 DEF ReportEnd, OneError
<1>19. CASE ReportWrite
  BY <1>19 DEF ReportWrite, Tell, OneError
<1>20. CASE ConcurrentWrite
  BY <1>20 DEF ConcurrentWrite, OneError
<1>21. CASE WsReturn
  BY <1>21 DEF WsReturn, BothDone, Tell, Return, OneError
<1>22. CASE Track
  <2>1. CASE errs > 0
    <3>1. failed /\ errs = 1 /\ heard = {}
      BY <2>1 DEF OneError
    <3>2. errs' = 0 /\ heard' = {"tracker"} /\ verdict' = "failure" /\ tracker' = "exited"
      BY <1>22, <2>1, <3>1 DEF Track
    <3> QED
      BY <1>22, <3>1, <3>2 DEF Track, OneError
  <2>2. CASE ~ (errs > 0)
    BY <1>22, <2>2 DEF Track, VerdictOfClosed, OneError
  <2> QED
    BY <2>1, <2>2
<1>23. CASE UNCHANGED vars
  BY <1>23 DEF vars, OneError
<1> QED
  BY <1>1, <1>2, <1>3, <1>4, <1>5, <1>6, <1>7, <1>8, <1>9, <1>10, <1>11, <1>12,
     <1>13, <1>14, <1>15, <1>16, <1>17, <1>18, <1>19, <1>20, <1>21, <1>22, <1>23 DEF Next, Produce, Sse, Forward, Report

LEMMA HeardHolds == Inv => OutcomeHeardOnce
<1> SUFFICES ASSUME Inv PROVE OutcomeHeardOnce
  OBVIOUS
<1>1. heard = {} \/ \E who \in {"sse", "reporter", "tracker"} : heard = {who}
  BY DEF Inv, OneError
<1>2. heard = {} => Cardinality(heard) <= 1
  BY FS_EmptySet
<1>3. ASSUME NEW who, heard = {who} PROVE Cardinality(heard) <= 1
  <2>1. Cardinality({who}) = 1
    BY FS_Singleton
  <2> QED
    BY <1>3, <2>1
<1>4. Cardinality(heard) <= 1
  BY <1>1, <1>2, <1>3
<1>5. /\ heard # {} => failed
      /\ verdict = "failure" => heard = {"tracker"}
      /\ (route = "ws" /\ failed /\ tracker = "exited" /\ reporter = "exited") => heard # {}
  BY DEF Inv, OneError
<1> QED
  BY <1>4, <1>5 DEF OutcomeHeardOnce

(* The invariant is inductive.                                              *)
THEOREM Invariance == Spec => []Inv
<1>1. Inv /\ [Next]_vars => Inv'
  BY TypeStep, ClosingStep, FlowStep, SseEndingStep, LeavingStep, LastWordStep, OneErrorStep DEF Inv
<1> QED
  BY <1>1, InitInv, PTL DEF Spec

(* Every variable keeps its type, and no channel overflows.                 *)
THEOREM Types == Spec => []TypeOK
<1>1. Inv => TypeOK
  BY DEF Inv
<1> QED
  BY <1>1, Invariance, PTL

(* [DONE] after no finish reason means that every chunk arrived.            *)
THEOREM DoneAll == Spec => []DoneMeansAll
<1>1. Inv => DoneMeansAll
  BY DEF Inv, SseEnding, DoneMeansAll
<1> QED
  BY <1>1, Invariance, PTL

(* A client that stays is told that the stream is over.                     *)
THEOREM EndingReaches == Spec => []EndingReachesClient
<1>1. Inv => EndingReachesClient
  BY DEF Inv, LastWord
<1> QED
  BY <1>1, Invariance, PTL

(* An error is heard once, and a failure recorded by who heard it.          *)
THEOREM HeardOnce == Spec => []OutcomeHeardOnce
BY HeardHolds, Invariance, PTL

(* The producer is abandoned only after the context was cancelled.          *)
THEOREM AbandonedLate == Spec => []AbandonedMeansCancelled
<1>1. Inv => AbandonedMeansCancelled
  BY DEF Inv, TypeOK, Leaving, Closing, Abandoned, AbandonedMeansCancelled
<1> QED
  BY <1>1, Invariance, PTL
-----------------------------------------------------------------------------
(* The refinement of StreamDelivery.                                        *)

(* Nobody writes once the handler returned, an error is told once, and a    *)
(* WebSocket client that stays gets, without a clash, every chunk: it has   *)
(* got those that are not on their way, and its forwarder leaves only an    *)
(* empty, closed channel.                                                   *)
Reach ==
    /\ handler # "serving" =>
          forwarder \notin {"read", "write"} /\ reporter \notin {"read", "write"}
    /\ reporter \in {"read", "write"} => "error" \notin endings
    /\ (route = "ws" /\ connected /\ ~ overlapped) =>
          delivered + Len(chunks) + InHand + InWrite = received
    /\ (route = "ws" /\ connected /\ forwarder = "exited") => chunksClosed /\ chunks = <<>>

LEMMA ReachInit == Init => Reach
BY DEF Init, Reach, InHand, InWrite

LEMMA ReachStep == TypeOK /\ Closing /\ Reach /\ [Next]_vars => Reach'
<1> SUFFICES ASSUME TypeOK, Closing, Reach, [Next]_vars PROVE Reach'
  OBVIOUS
<1> USE StreamAssumption DEF TypeOK, producerVars, channelVars, forwardVars, proxyVars, clientVars, Closing
<1>1. CASE Disconnect
  BY <1>1 DEF Disconnect, Reach, InHand, InWrite
<1>2. CASE Deadline
  BY <1>2 DEF Deadline, Reach, InHand, InWrite
<1>3. CASE Connect
  BY <1>3 DEF Connect, Reach, InHand, InWrite
<1>4. CASE Receive
  BY <1>4 DEF Receive, Reach, InHand, InWrite
<1>5. CASE SendChunk
  BY <1>5 DEF SendChunk, HasRoom, Reach, InHand, InWrite
<1>6. CASE SendError
  BY <1>6 DEF SendError, Reach, InHand, InWrite
<1>7. CASE CloseErrs
  BY <1>7 DEF CloseErrs, ClosesErrs, Reach, InHand, InWrite
<1>8. CASE CloseChunks
  BY <1>8 DEF CloseChunks, Reach, InHand, InWrite
<1>9. CASE SseChunk
  <2>1. /\ chunks' = Tail(chunks) /\ route = "sse" /\ route' = route
        /\ UNCHANGED <<forwarder, reporter>>
    BY <1>9 DEF SseChunk
  <2> QED
    BY <2>1 DEF Reach
<1>10. CASE SseClosed
  BY <1>10 DEF SseClosed, Tell, Return, EndOfStream, Reach, InHand, InWrite
<1>11. CASE SseError
  BY <1>11 DEF SseError, Tell, Return, Reach, InHand, InWrite
<1>12. CASE SseCancelled
  BY <1>12 DEF SseCancelled, Tell, Return, Reach, InHand, InWrite
<1>13. CASE ForwardRead
  <2>1. /\ chunks # <<>> /\ chunks' = Tail(chunks) /\ forwarder = "read" /\ forwarder' = "write"
        /\ UNCHANGED <<delivered, endings, producer, received, route, connected, overlapped,
                       reporter, handler>>
    BY <1>13 DEF ForwardRead
  <2>2. Len(chunks') = Len(chunks) - 1 /\ Len(chunks) \in Nat
    BY <2>1, HeadTail
  <2> QED
    BY <2>1, <2>2 DEF Reach, InHand, InWrite
<1>14. CASE ForwardEnd
  BY <1>14 DEF ForwardEnd, Reach, InHand, InWrite
<1>15. CASE ForwardWrite
  BY <1>15 DEF ForwardWrite, Tell, Reach, InHand, InWrite
<1>16. CASE ForwardFails
  BY <1>16 DEF ForwardFails, CancelContext, Reach, InHand, InWrite
<1>17. CASE ReportRead
  BY <1>17 DEF ReportRead, Reach, InHand, InWrite
<1>18. CASE ReportEnd
  BY <1>18 DEF ReportEnd, Reach, InHand, InWrite
<1>19. CASE ReportWrite
  BY <1>19 DEF ReportWrite, Tell, Reach, InHand, InWrite
<1>20. CASE ConcurrentWrite
  BY <1>20 DEF ConcurrentWrite, Reach, InHand, InWrite
<1>21. CASE WsReturn
  BY <1>21 DEF WsReturn, BothDone, Tell, Return, Reach, InHand, InWrite
<1>22. CASE Track
  BY <1>22 DEF Track, VerdictOfClosed, Reach, InHand, InWrite
<1>23. CASE UNCHANGED vars
  BY <1>23 DEF vars, Reach, InHand, InWrite
<1> QED
  BY <1>1, <1>2, <1>3, <1>4, <1>5, <1>6, <1>7, <1>8, <1>9, <1>10, <1>11, <1>12,
     <1>13, <1>14, <1>15, <1>16, <1>17, <1>18, <1>19, <1>20, <1>21, <1>22, <1>23 DEF Next, Produce, Sse, Forward, Report

LEMMA DeliveryInitMaps == Init => Delivery!DeliveryInit
BY DEF Init, Source, Delivery!DeliveryInit

LEMMA DeliveryStepMaps ==
    Inv /\ Reach /\ [Next]_vars => [Delivery!DeliveryNext]_(Delivery!deliveryVars)
<1> SUFFICES ASSUME Inv, Reach, [Next]_vars
             PROVE  Delivery!DeliveryNext \/ UNCHANGED Delivery!deliveryVars
  OBVIOUS
<1> USE DEF Inv, TypeOK, producerVars, channelVars, forwardVars, proxyVars, clientVars, Closing,
            Source
<1>1. CASE Disconnect
  BY <1>1 DEF Disconnect, Flow, SseEnding, OneError, Reach, InHand, InWrite, Delivery!deliveryVars,
     Delivery!DeliveryNext, Delivery!Leave
<1>2. CASE Deadline
  BY <1>2 DEF Deadline, Flow, SseEnding, OneError, Reach, InHand, InWrite, Delivery!deliveryVars,
     Delivery!DeliveryNext, Delivery!Cut
<1>3. CASE Connect
  BY <1>3 DEF Connect, Delivery!deliveryVars
<1>4. CASE Receive
  BY <1>4 DEF Receive, Flow, SseEnding, OneError, Reach, InHand, InWrite, Delivery!deliveryVars,
     Delivery!DeliveryNext, Delivery!SourceSends, Delivery!SourceStops
<1>5. CASE SendChunk
  BY <1>5 DEF SendChunk, HasRoom, Delivery!deliveryVars
<1>6. CASE SendError
  BY <1>6 DEF SendError, Flow, SseEnding, OneError, Reach, InHand, InWrite, Delivery!deliveryVars,
     Delivery!DeliveryNext, Delivery!SourceStops
<1>7. CASE CloseErrs
  BY <1>7 DEF CloseErrs, ClosesErrs, Delivery!deliveryVars
<1>8. CASE CloseChunks
  BY <1>8 DEF CloseChunks, Delivery!deliveryVars
<1>9. CASE SseChunk
  <2>1. Len(chunks) \in Nat /\ Len(chunks) > 0
    BY <1>9, HeadTail DEF SseChunk
  <2>2. delivered < received
    BY <2>1 DEF Flow, InHand, InWrite
  <2>3. route = "sse" /\ handler = "serving"
    BY <1>9 DEF SseChunk
  <2>4. UNCHANGED <<route, received, connected, overlapped, producer, failed>>
    BY <1>9 DEF SseChunk
  <2>5. CASE Head(chunks)
    <3>1. handler' = "returned" /\ cancelled' = TRUE /\ Tell(1, {"done"}, FALSE)
      BY <1>9, <2>5 DEF SseChunk, Return
    <3>2. Delivery!Message(1, {"done"})
      BY <2>3, <2>4, <3>1 DEF Tell, Delivery!Message
    <3>3. Delivery!End
      BY <3>1 DEF Delivery!End
    <3> QED
      BY <2>2, <2>3, <3>2, <3>3 DEF Delivery!LastChunk, Delivery!DeliveryNext
  <2>6. CASE ~ Head(chunks)
    <3>1. handler' = handler /\ cancelled' = cancelled /\ Tell(1, {}, FALSE)
      BY <1>9, <2>6 DEF SseChunk
    <3>2. Delivery!Message(1, {})
      BY <2>3, <2>4, <3>1 DEF Tell, Delivery!Message
    <3> QED
      BY <2>2, <3>1, <3>2 DEF Delivery!Chunk, Delivery!DeliveryNext
  <2> QED
    BY <2>5, <2>6
<1>10. CASE SseClosed
  <2>1. /\ handler = "serving" /\ handler' = "returned" /\ cancelled' = TRUE
        /\ Tell(0, {"done"}, FALSE)
        /\ UNCHANGED <<route, received, connected, overlapped, producer, failed>>
    BY <1>10 DEF SseClosed, Return
  <2>2. Delivery!Message(0, {"done"})
    BY <2>1 DEF Tell, Delivery!Message
  <2>3. Delivery!End
    BY <2>1 DEF Delivery!End
  <2>4. Len(chunks) = 0 /\ producer \in {"exited", "gone"}
    BY <1>10 DEF SseClosed, EndOfStream
  <2>5. connected => Source # "open" /\ delivered = received
    BY <1>10, <2>4 DEF SseClosed, Flow, InHand
  <2> QED
    BY <2>2, <2>3, <2>5 DEF Delivery!Done, Delivery!DeliveryNext
<1>11. CASE SseError
  <2>1. /\ route = "sse" /\ handler = "serving" /\ handler' = "returned" /\ cancelled' = TRUE
        /\ Tell(0, {"error"}, FALSE)
        /\ UNCHANGED <<route, received, connected, overlapped, producer, failed>>
    BY <1>11 DEF SseError, Return
  <2>2. Delivery!Message(0, {"error"})
    BY <2>1 DEF Tell, Delivery!Message
  <2>3. failed /\ "error" \notin endings
    BY <1>11, <2>1 DEF SseError, OneError, SseEnding
  <2> QED
    BY <2>1, <2>2, <2>3 DEF Delivery!Error, Delivery!DeliveryNext
<1>12. CASE SseCancelled
  BY <1>12 DEF SseCancelled, Tell, Return, Flow, SseEnding, OneError, Reach, InHand, InWrite, Delivery!deliveryVars,
     Delivery!DeliveryNext, Delivery!Error, Delivery!Message
<1>13. CASE ForwardRead
  BY <1>13 DEF ForwardRead, IsLast, Delivery!deliveryVars
<1>14. CASE ForwardEnd
  BY <1>14 DEF ForwardEnd, Delivery!deliveryVars
<1>15. CASE ForwardWrite
  <2>1. /\ forwarder = "write" /\ overlapped' = (overlapped \/ reporter = "write")
        /\ Tell(1, IF current THEN {"done"} ELSE {}, overlapped')
        /\ UNCHANGED <<route, received, connected, cancelled, producer, failed, handler>>
    BY <1>15 DEF ForwardWrite
  <2>2. route = "ws" /\ handler = "serving"
    BY <2>1 DEF Reach
  <2>3. delivered < received
    BY <2>1, LenProperties DEF Flow, InHand, InWrite
  <2>4. Delivery!Message(1, IF current THEN {"done"} ELSE {})
    <3>1. overlapped' # overlapped => failed
      BY <2>1 DEF OneError
    <3> QED
      BY <2>1, <2>2, <3>1 DEF Tell, Delivery!Message
  <2>5. CASE current
    BY <2>1, <2>2, <2>3, <2>4, <2>5 DEF Delivery!LastChunk, Delivery!DeliveryNext
  <2>6. CASE ~ current
    BY <2>1, <2>2, <2>3, <2>4, <2>6 DEF Delivery!Chunk, Delivery!DeliveryNext
  <2> QED
    BY <2>5, <2>6
<1>16. CASE ForwardFails
  BY <1>16 DEF ForwardFails, CancelContext, Flow, SseEnding, OneError, Reach, InHand, InWrite, Delivery!deliveryVars,
     Delivery!DeliveryNext, Delivery!Cut
<1>17. CASE ReportRead
  BY <1>17 DEF ReportRead, Delivery!deliveryVars
<1>18. CASE ReportEnd
  BY <1>18 DEF ReportEnd, Delivery!deliveryVars
<1>19. CASE ReportWrite
  BY <1>19 DEF ReportWrite, Tell, Flow, SseEnding, OneError, Reach, InHand, InWrite, Delivery!deliveryVars,
     Delivery!DeliveryNext, Delivery!Error, Delivery!Message
<1>20. CASE ConcurrentWrite
  BY <1>20 DEF ConcurrentWrite, Flow, SseEnding, OneError, Reach, InHand, InWrite, Delivery!deliveryVars,
     Delivery!DeliveryNext, Delivery!Collapse
<1>21. CASE WsReturn
  <2>1. /\ route = "ws" /\ handler = "serving" /\ handler' = "returned" /\ cancelled' = TRUE
        /\ forwarder = "exited"
        /\ IF done THEN UNCHANGED clientVars ELSE Tell(0, {"done"}, overlapped)
        /\ UNCHANGED <<route, received, connected, overlapped, producer, failed>>
    BY <1>21 DEF WsReturn, BothDone, Return
  <2>2. done /\ connected /\ ~ overlapped => "done" \in endings
    BY <2>1 DEF LastWord
  <2>3. Delivery!Message(0, {"done"})
    <3>1. CASE done
      BY <2>1, <2>2, <3>1 DEF Delivery!Message
    <3>2. CASE ~ done
      BY <2>1, <3>2 DEF Tell, Delivery!Message
    <3> QED
      BY <3>1, <3>2
  <2>4. Delivery!End
    BY <2>1 DEF Delivery!End
  <2>5. connected => Source # "open" /\ (delivered = received \/ overlapped)
    <3> SUFFICES ASSUME connected PROVE Source # "open" /\ (delivered = received \/ overlapped)
      OBVIOUS
    <3>1. chunksClosed /\ Len(chunks) = 0
      BY <2>1 DEF Reach
    <3>2. producer \in {"exited", "gone"}
      BY <3>1
    <3> QED
      BY <2>1, <3>1, <3>2 DEF Reach, InHand, InWrite
  <2> QED
    BY <2>3, <2>4, <2>5 DEF Delivery!Done, Delivery!DeliveryNext
<1>22. CASE Track
  BY <1>22 DEF Track, VerdictOfClosed, Delivery!deliveryVars
<1>23. CASE UNCHANGED vars
  BY <1>23 DEF vars, Delivery!deliveryVars
<1> QED
  BY <1>1, <1>2, <1>3, <1>4, <1>5, <1>6, <1>7, <1>8, <1>9, <1>10, <1>11, <1>12,
     <1>13, <1>14, <1>15, <1>16, <1>17, <1>18, <1>19, <1>20, <1>21, <1>22, <1>23 DEF Next, Produce, Sse, Forward, Report

(* The goroutines of a stream deliver it as StreamDelivery promises.        *)
THEOREM DeliveryRefinement == Spec => ImplementsDelivery
<1>1. Init => Reach
  BY ReachInit
<1>2. Inv /\ Reach /\ [Next]_vars => Reach'
  BY ReachStep DEF Inv
<1> QED
  BY <1>1, <1>2, Invariance, DeliveryInitMaps, DeliveryStepMaps, PTL
     DEF Spec, ImplementsDelivery, Delivery!DeliverySpec
=============================================================================
