---------------------------- MODULE StreamDelivery ----------------------------
(***************************************************************************)
(* What a streamed completion promises its client, whatever goroutines and  *)
(* channels carry it.  Chunks come from a source, and the client gets some  *)
(* of them before the stream is over and nothing after that.  A client that *)
(* stays is told the end, and told "done" without a finish reason only when *)
(* it has got everything.  It is told of an error only when the source      *)
(* failed or, on "sse", the time was up, and an "sse" client is told one    *)
(* thing only, the last it hears.  Once the source failed, messages to a    *)
(* "ws" client may clash: it misses some, or loses the whole stream.        *)
(***************************************************************************)
EXTENDS Naturals

VARIABLES kind,             \* "sse" or "ws"
          source, sent,     \* "open", then "ended" or "failed"; chunks it sent
          present, cut,     \* the client is there; the time is up, or nobody listens
          clash,            \* two messages were written at once
          got, told,        \* chunks and last words the client has
          over

deliveryVars == <<kind, source, sent, present, cut, clash, got, told, over>>

DeliveryInit ==
    /\ kind \in {"sse", "ws"}
    /\ source \in {"open", "ended"}
    /\ present = TRUE
    /\ cut = FALSE
    /\ clash = FALSE
    /\ sent = 0
    /\ got = 0
    /\ told = {}
    /\ over = FALSE

SourceSends ==
    /\ source = "open"
    /\ sent' = sent + 1
    /\ UNCHANGED <<kind, source, present, cut, clash, got, told, over>>

SourceStops ==
    /\ source = "open"
    /\ source' \in {"ended", "failed"}
    /\ UNCHANGED <<kind, sent, present, cut, clash, got, told, over>>

Cut ==
    /\ cut' = TRUE
    /\ UNCHANGED <<kind, source, sent, present, clash, got, told, over>>

Leave ==
    /\ present /\ ~ over
    /\ present' = FALSE
    /\ cut' = (cut \/ kind = "sse")
    /\ UNCHANGED <<kind, source, sent, clash, got, told, over>>

(* A message: n chunks and the words with them.  It arrives or is lost.     *)
Message(n, words) ==
    /\ ~ over
    /\ clash' \in {clash, clash \/ (kind = "ws" /\ source = "failed")}
    /\ \/ /\ present
          /\ got' = got + n
          /\ told' = told \cup words
       \/ /\ ~ present \/ clash'
          /\ UNCHANGED <<got, told>>
    /\ UNCHANGED <<kind, source, sent, present>>

End == over' = TRUE /\ cut' = TRUE

Chunk ==
    /\ got < sent
    /\ Message(1, {})
    /\ UNCHANGED <<cut, over>>

(* A chunk with a finish reason, after which an "sse" stream is over.       *)
LastChunk ==
    /\ got < sent
    /\ Message(1, {"done"})
    /\ IF kind = "sse" THEN End ELSE UNCHANGED <<cut, over>>

Error ==
    /\ source = "failed" \/ (kind = "sse" /\ cut)
    /\ "error" \notin told
    /\ Message(0, {"error"})
    /\ cut' = TRUE
    /\ over' = (kind = "sse")

Done ==
    /\ present => source # "open" /\ (got = sent \/ clash)
    /\ Message(0, {"done"})
    /\ End

(* The process does not survive the clash. *)
Collapse ==
    /\ kind = "ws" /\ ~ over
    /\ source = "failed"
    /\ clash' = TRUE
    /\ over' = TRUE
    /\ UNCHANGED <<kind, source, sent, present, cut, got, told>>

DeliveryNext ==
    \/ SourceSends \/ SourceStops \/ Cut \/ Leave
    \/ Chunk \/ LastChunk \/ Error \/ Done \/ Collapse

DeliverySpec == DeliveryInit /\ [][DeliveryNext]_deliveryVars
=============================================================================
