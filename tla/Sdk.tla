--------------------------------- MODULE Sdk ---------------------------------
(***************************************************************************)
(* The client library (sdk/omnilog/client.go): Send puts an event in a     *)
(* bounded queue and never blocks, a goroutine posts batches of them, and  *)
(* Close flushes.  And what the server makes of a batch: the NDJSON branch *)
(* of Ingestor.Handler (internal/ingest/handler.go).                       *)
(*                                                                         *)
(* Abstractions.                                                           *)
(*   - Events are numbered in the order of the Sends.  An "unencodable"    *)
(*     one has an attribute that encoding/json refuses; a "malformed" one  *)
(*     encodes to a record that the server refuses, as with a timestamp in *)
(*     the future.                                                         *)
(*   - The client sends no batch ID, so the server drops no duplicates; it *)
(*     posts a batch once, and its transport repeats no POST.              *)
(*   - Whether the ingest buffer takes a record is a choice.               *)
(***************************************************************************)
EXTENDS Naturals, Sequences, Functions

CONSTANTS
    QueueSize, ClientBatch,
    MaxSends,   \* bound
    Kinds       \* kinds of events that are sent

ASSUME SdkAssumption ==
    /\ QueueSize \in Nat \ {0}
    /\ ClientBatch \in Nat \ {0}
    /\ MaxSends \in Nat
    /\ Kinds \subseteq {"plain", "malformed", "unencodable"}

VARIABLES
    events,     \* history: events[n] is the kind of the n-th event sent
    queue,      \* Client.ch
    closing,    \* Close was called: the channel is closed
    sending,    \* the batch of the goroutine
    sender,     \* "waiting", "posting", "asking", "stopped"
    sent, failed, droppedEvents,  \* the counters of Stats
    panicked,   \* Send sent on the closed channel
    requests,   \* the handlers of the batches posted, and what was counted for each
    delivered   \* history: events in the ingest buffer, in order

libraryVars == <<events, queue, closing, sending, sender, sent, failed, droppedEvents, panicked>>
sdkVars == <<libraryVars, requests, delivered>>

Request == [batch : Seq(Nat), at : Nat, overflow : BOOLEAN,
            status : {"open", "200", "429", "error"}, counted : {"no", "sent", "failed"}]

-----------------------------------------------------------------------------
(* The client. *)

\* Send never blocks.
Send ==
    /\ ~panicked
    /\ ~closing
    /\ Len(events) < MaxSends
    /\ \E kind \in Kinds : events' = Append(events, kind)
    /\ IF Len(queue) < QueueSize
       THEN /\ queue' = Append(queue, Len(events'))
            /\ UNCHANGED droppedEvents
       ELSE /\ droppedEvents' = droppedEvents + 1
            /\ UNCHANGED queue
    /\ UNCHANGED <<closing, sending, sender, sent, failed, panicked, requests, delivered>>

\* A Send after Close brings the process down.
SendAfterClose ==
    /\ ~panicked
    /\ closing
    /\ panicked' = TRUE
    /\ UNCHANGED <<events, queue, closing, sending, sender, sent, failed, droppedEvents,
                   requests, delivered>>

Close ==
    /\ ~panicked
    /\ closing' = TRUE
    /\ UNCHANGED <<events, queue, sending, sender, sent, failed, droppedEvents, panicked,
                   requests, delivered>>

\* flush: an empty batch is not posted.
Flush(batch) == sender' = IF batch = <<>> THEN "waiting" ELSE "posting"

TakeEvent ==
    /\ ~panicked
    /\ sender = "waiting"
    /\ queue # <<>>
    /\ queue' = Tail(queue)
    /\ sending' = Append(sending, Head(queue))
    /\ IF Len(sending') >= ClientBatch THEN Flush(sending') ELSE UNCHANGED sender
    /\ UNCHANGED <<events, closing, sent, failed, droppedEvents, panicked, requests, delivered>>

FlushTick ==
    /\ ~panicked
    /\ sender = "waiting"
    /\ sending # <<>>
    /\ Flush(sending)
    /\ UNCHANGED <<events, queue, closing, sending, sent, failed, droppedEvents, panicked,
                   requests, delivered>>

\* Mutated: the goroutine stops as soon as it sees the queue closed.
StopAtOnce == sender' = "stopped"

\* The queue is closed and empty: what is left is posted before it stops.
LastFlush == sender' = IF sending = <<>> THEN "stopped" ELSE "posting"

QueueClosed ==
    /\ ~panicked
    /\ sender = "waiting"
    /\ closing
    /\ queue = <<>>
    /\ LastFlush
    /\ UNCHANGED <<events, queue, closing, sending, sent, failed, droppedEvents, panicked,
                   requests, delivered>>

Encodes == \A i \in DOMAIN sending : events[sending[i]] # "unencodable"

\* batch = batch[:0], whatever came of it.
Forget ==
    /\ sending' = <<>>
    /\ sender' = "waiting"

\* One event that does not encode drops its batch, which no counter shows.
EncodeFails ==
    /\ ~panicked
    /\ sender = "posting"
    /\ ~Encodes
    /\ Forget
    /\ UNCHANGED <<events, queue, closing, sent, failed, droppedEvents, panicked, requests, delivered>>

Post ==
    /\ ~panicked
    /\ sender = "posting"
    /\ Encodes
    /\ requests' = Append(requests, [batch |-> sending, at |-> 0, overflow |-> FALSE,
                                     status |-> "open", counted |-> "no"])
    /\ sender' = "asking"
    /\ UNCHANGED <<events, queue, closing, sending, sent, failed, droppedEvents, panicked, delivered>>

\* An answer that is not 2xx, or does not come in time, counts the whole batch as
\* failed, one that is 2xx as sent, whatever it says of single records.
Answer ==
    /\ ~panicked
    /\ sender = "asking"
    /\ \E outcome \in {"sent", "failed"} :
          /\ outcome = "sent" => requests[Len(requests)].status = "200"
          /\ sent' = IF outcome = "sent" THEN sent + Len(sending) ELSE sent
          /\ failed' = IF outcome = "failed" THEN failed + Len(sending) ELSE failed
          /\ requests' = [requests EXCEPT ![Len(requests)].counted = outcome]
    /\ Forget
    /\ UNCHANGED <<events, queue, closing, droppedEvents, panicked, delivered>>

-----------------------------------------------------------------------------
(* The server.  A handler goes on with what it has of the body when the    *)
(* client has given up.                                                    *)

\* emit: a malformed record is refused by itself; the first that the buffer does
\* not take is refused with all that follow.
Emit(k) ==
    LET r == requests[k]
        e == r.batch[r.at + 1]
    IN  /\ r.status = "open"
        /\ r.at < Len(r.batch)
        /\ \/ /\ events[e] = "malformed"
              /\ requests' = [requests EXCEPT ![k].at = @ + 1]
              /\ UNCHANGED delivered
           \/ /\ events[e] # "malformed"
              /\ ~r.overflow
              /\ requests' = [requests EXCEPT ![k].at = @ + 1]
              /\ delivered' = Append(delivered, e)
           \/ /\ events[e] # "malformed"
              /\ requests' = [requests EXCEPT ![k].at = @ + 1, ![k].overflow = TRUE]
              /\ UNCHANGED delivered
        /\ UNCHANGED libraryVars

Respond(k) ==
    /\ requests[k].status = "open"
    /\ requests[k].at = Len(requests[k].batch)
    /\ requests' = [requests EXCEPT ![k].status = IF requests[k].overflow THEN "429" ELSE "200"]
    /\ UNCHANGED <<libraryVars, delivered>>

\* The request is not admitted, a line or the body is too long, or the body breaks
\* off: what came before stays accepted.
BreakOff(k) ==
    /\ requests[k].status = "open"
    /\ requests' = [requests EXCEPT ![k].status = "error"]
    /\ UNCHANGED <<libraryVars, delivered>>

HandleRequests == \E k \in DOMAIN requests : Emit(k) \/ Respond(k) \/ BreakOff(k)

-----------------------------------------------------------------------------
SdkInit ==
    /\ events = <<>> /\ queue = <<>> /\ closing = FALSE
    /\ sending = <<>> /\ sender = "waiting"
    /\ sent = 0 /\ failed = 0 /\ droppedEvents = 0
    /\ panicked = FALSE
    /\ requests = <<>> /\ delivered = <<>>

Sender == TakeEvent \/ FlushTick \/ QueueClosed \/ EncodeFails \/ Post \/ Answer

SdkNext == Send \/ SendAfterClose \/ Close \/ Sender \/ HandleRequests

SdkSpec == SdkInit /\ [][SdkNext]_sdkVars

\* The goroutine is scheduled, its ticker fires, and the HTTP client times out.
\* Nothing is assumed of the server.
SdkFairness == WF_sdkVars(Sender)

-----------------------------------------------------------------------------
(* Properties. *)

SdkTypeOK ==
    /\ events \in Seq(Kinds)
    /\ queue \in Seq(1..MaxSends) /\ sending \in Seq(1..MaxSends)
    /\ delivered \in Seq(1..MaxSends)
    /\ sender \in {"waiting", "posting", "asking", "stopped"}
    /\ {closing, panicked} \subseteq BOOLEAN
    /\ {sent, failed, droppedEvents} \subseteq 0..MaxSends
    /\ requests \in Seq(Request)

\* "Dropped counts them so the loss is visible" (client.go:75-77): no event that
\* was sent is both waiting and in a counter of Stats, or in two of them, and as
\* long as all of them encode each is in one or waits.  Of those that share a
\* batch with one that does not encode nothing is promised: no counter has them.
StatsAccount ==
    LET known == Len(queue) + Len(sending) + sent + failed + droppedEvents
    IN  /\ known <= Len(events)
        /\ "unencodable" \notin Range(events) => known = Len(events)
        /\ sender = "stopped" => queue = <<>> /\ sending = <<>>

\* The server gets no event twice, and one that comes after a later event is
\* counted as failed: its client had given the batch up.
ArrivesOnce ==
    \A i, j \in DOMAIN delivered : i < j =>
        \/ delivered[i] < delivered[j]
        \/ /\ delivered[i] # delivered[j]
           /\ \E r \in Range(requests) : r.counted = "failed" /\ delivered[j] \in Range(r.batch)

\* What counts as sent was taken by the server (client.go:254-259), but for the
\* records that it refused one by one in an answer of 200 (handler.go:99-104).
SentArrived ==
    \A r \in Range(requests) : r.counted = "sent" =>
        \A i \in DOMAIN r.batch :
            events[r.batch[i]] = "malformed" \/ r.batch[i] \in Range(delivered)

ClientAccounts == StatsAccount /\ ArrivesOnce /\ SentArrived

\* Close returns (client.go:174-181), unless a Send after it brings the process
\* down.
CloseReturns == closing ~> (sender = "stopped" \/ panicked)
=============================================================================
