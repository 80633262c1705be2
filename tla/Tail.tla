-------------------------------- MODULE Tail --------------------------------
(***************************************************************************)
(* Live tail: the hub of internal/tail/hub.go, which the batch writer      *)
(* publishes to, and the SSE handler of internal/tail/sse.go, which shows  *)
(* a client some history and then what the hub sends, and lets it resume   *)
(* where an earlier connection broke off.                                  *)
(*                                                                         *)
(* Abstractions.                                                           *)
(*   - An event is its ID; IDs are compared as the handler compares them.  *)
(*   - All streams have one query; Wanted is what it matches.              *)
(*   - A client is a stream that connects again and again.                 *)
(*   - A frame is the event that it carries, or a comment.  Writing one    *)
(*     takes as long as the client takes to read: the server sets no write *)
(*     timeout (cmd/omnilog/main.go:397).                                  *)
(***************************************************************************)
EXTENDS Naturals, FiniteSets, Sequences, SequencesExt

CONSTANTS
    Events,      \* event IDs
    Wanted,      \* those the query of the streams matches
    Stamp,       \* Stamp[e]: the event's timestamp
    Streams,     \* clients of the live tail
    Buffer,      \* capacity of a subscriber's channel
    Limit,       \* BackfillLimit
    MaxDrops,    \* drops after which a subscriber is evicted
    MaxConnects  \* bound: connections of a client

ASSUME TailAssumption ==
    /\ Events \subseteq Nat \ {0}
    /\ Wanted \subseteq Events
    /\ Stamp \in [Events -> Nat]
    /\ Buffer \in Nat \ {0}
    /\ Limit \in Nat \ {0}
    /\ MaxDrops \in Nat
    /\ MaxConnects \in Nat

VARIABLES
    \* -- the batch writer -------------------------------------------------
    stored,     \* events in the store
    writing,    \* "idle", "committed" (not yet published), "publishing", "evicting"
    fresh,      \* the batch it has committed
    unsent,     \* unsent[c]: what of the batch Publish has still to look at for c
    toEvict,    \* subscribers Publish has found too slow, as <<stream, connection>>
    \* -- the hub: one subscriber per stream -------------------------------
    subs,       \* registered streams
    channel,    \* channel[c]: events buffered for c
    closes,     \* closes[c]: how often its channel has been closed
    dropped,    \* dropped[c]: events dropped for it
    \* -- the handlers -----------------------------------------------------
    at,         \* at[c]: "off", "subscribed", "history", "live", "leaving"
    resume,     \* resume[c]: the Last-Event-ID it connected with, None without
    history,    \* history[c]: events read from the store, still to be shown
    replayed,   \* replayed[c]: IDs that are not to be shown again
    frame,      \* frame[c]: what the handler is writing, <<None>> for a comment
    skipped,    \* history: events of the history that were not shown
    shutdown,   \* has the server's closing channel been closed?
    \* -- the clients -------------------------------------------------------
    lastId,     \* lastId[c]: the newest frame's id, kept across connections
    shown,      \* shown[c]: events written on this connection, with the one being written
    joined,     \* joined[c]: the store when c subscribed
    connects

writerVars  == <<stored, writing, fresh, unsent, toEvict>>
hubVars     == <<subs, channel, closes, dropped>>
handlerVars == <<at, resume, history, replayed, frame, skipped>>
clientVars  == <<lastId, shown, joined, connects>>
tailVars    == <<writerVars, hubVars, handlerVars, shutdown, clientVars>>

None == 0

-----------------------------------------------------------------------------
(* The batch writer. *)

\* writeBatch: the store has the batch, the hub not yet.  IDs are made
\* (model/event.go:40) before the ingest queue is locked (ingest.go:176), so events
\* come in any order of their IDs.
CommitBatch ==
    /\ writing = "idle"
    /\ \E e \in Events \ stored :
          \/ fresh' = <<e>>
          \/ \E f \in Events \ (stored \cup {e}) : fresh' = <<e, f>>
    /\ stored' = stored \cup ToSet(fresh')
    /\ writing' = "committed"
    /\ UNCHANGED <<unsent, toEvict, hubVars, handlerVars, shutdown, clientVars>>

\* Publish takes the read lock: from here to the last offer nobody may
\* subscribe or close.
Publish ==
    /\ writing = "committed"
    /\ writing' = "publishing"
    /\ unsent' = [c \in Streams |-> IF c \in subs THEN fresh ELSE <<>>]
    /\ UNCHANGED <<stored, fresh, toEvict, hubVars, handlerVars, shutdown, clientVars>>

Locked == writing = "publishing"

\* One subscriber is served to the end before the next.
MyTurn(c) == \A d \in Streams \ {c} : unsent[d] \in {<<>>, fresh}

\* Mutated: a plain send, which waits for room.
OfferWaits(c) ==
    /\ Len(channel[c]) < Buffer
    /\ channel' = [channel EXCEPT ![c] = Append(@, Head(unsent[c]))]
    /\ UNCHANGED <<dropped, toEvict>>

\* select with a default: sent if there is room, else dropped and counted; the
\* stream that reaches the limit is to be evicted.
SendOrDrop(c) ==
    IF Len(channel[c]) < Buffer
    THEN /\ channel' = [channel EXCEPT ![c] = Append(@, Head(unsent[c]))]
         /\ UNCHANGED <<dropped, toEvict>>
    ELSE /\ dropped' = [dropped EXCEPT ![c] = @ + 1]
         /\ toEvict' = IF MaxDrops > 0 /\ dropped[c] + 1 = MaxDrops
                       THEN toEvict \cup {<<c, connects[c]>>} ELSE toEvict
         /\ UNCHANGED channel

\* The next event of the batch, which is passed over if the query does not
\* match it.
Offer(c) ==
    /\ Locked
    /\ unsent[c] # <<>>
    /\ MyTurn(c)
    /\ IF Head(unsent[c]) \in Wanted THEN SendOrDrop(c) ELSE UNCHANGED <<channel, dropped, toEvict>>
    /\ unsent' = [unsent EXCEPT ![c] = Tail(@)]
    /\ UNCHANGED <<stored, writing, fresh, subs, closes, handlerVars, shutdown, clientVars>>

PublishDone ==
    /\ Locked
    /\ \A c \in Streams : unsent[c] = <<>>
    /\ writing' = "evicting"
    /\ UNCHANGED <<stored, fresh, unsent, toEvict, hubVars, handlerVars, shutdown, clientVars>>

\* Mutated: the subscriber is not looked up again under the lock.
CloseAnyway(c) ==
    /\ subs' = subs \ {c}
    /\ closes' = [closes EXCEPT ![c] = @ + 1]

\* Under the lock, evict and Close look whether the subscriber is still there.
Unregister(c) ==
    /\ subs' = subs \ {c}
    /\ closes' = IF c \in subs THEN [closes EXCEPT ![c] = @ + 1] ELSE closes

\* Meanwhile the subscriber may have closed itself, and its client may be on a
\* new connection, which has another subscriber.
Evict(c, n) ==
    /\ writing = "evicting"
    /\ <<c, n>> \in toEvict
    /\ toEvict' = toEvict \ {<<c, n>>}
    /\ IF n = connects[c] THEN Unregister(c) ELSE UNCHANGED <<subs, closes>>
    /\ UNCHANGED <<stored, writing, fresh, unsent, channel, dropped, handlerVars,
                   shutdown, clientVars>>

WriteDone ==
    /\ writing = "evicting"
    /\ toEvict = {}
    /\ writing' = "idle"
    /\ fresh' = <<>>
    /\ UNCHANGED <<stored, unsent, toEvict, hubVars, handlerVars, shutdown, clientVars>>

-----------------------------------------------------------------------------
(* The handler of a stream.  While it writes a frame it does nothing else. *)

Free(c) == frame[c] = <<>>

WriteComment(c) == frame' = [frame EXCEPT ![c] = <<None>>]

WriteEvent(c, e) ==
    /\ frame' = [frame EXCEPT ![c] = <<e>>]
    /\ shown' = [shown EXCEPT ![c] = Append(@, e)]
    /\ UNCHANGED <<lastId, joined, connects>>

\* The client has the frame, and remembers the ID of an event.
FrameWritten(c) ==
    /\ ~Free(c)
    /\ frame' = [frame EXCEPT ![c] = <<>>]
    /\ lastId' = [lastId EXCEPT ![c] = IF Head(frame[c]) = None THEN @ ELSE Head(frame[c])]
    /\ UNCHANGED <<writerVars, hubVars, at, resume, history, replayed, skipped, shutdown,
                   shown, joined, connects>>

\* A new subscriber, with a channel of its own.
Subscribes(c) ==
    /\ ~Locked
    /\ subs' = subs \cup {c}
    /\ channel' = [channel EXCEPT ![c] = <<>>]
    /\ closes' = [closes EXCEPT ![c] = 0]
    /\ dropped' = [dropped EXCEPT ![c] = 0]

\* The handler subscribes before it reads history.
Connect(c) ==
    /\ at[c] = "off"
    /\ ~shutdown
    /\ connects[c] < MaxConnects
    /\ Subscribes(c)
    /\ WriteComment(c)
    /\ at' = [at EXCEPT ![c] = "subscribed"]
    /\ resume' = [resume EXCEPT ![c] = lastId[c]]
    /\ replayed' = [replayed EXCEPT ![c] = {}]
    /\ skipped' = [skipped EXCEPT ![c] = {}]
    /\ shown' = [shown EXCEPT ![c] = <<>>]
    /\ joined' = [joined EXCEPT ![c] = stored]
    /\ connects' = [connects EXCEPT ![c] = @ + 1]
    /\ UNCHANGED <<writerVars, history, shutdown, lastId>>

Newer(e, f) == Stamp[e] > Stamp[f] \/ (Stamp[e] = Stamp[f] /\ e > f)

\* The newest Limit matching events, oldest first.
Backfill ==
    LET matching == stored \cap Wanted
        newest   == {e \in matching : Cardinality({f \in matching : Newer(f, e)}) < Limit}
    IN  CHOOSE s \in [1..Cardinality(newest) -> newest] :
            \A i, j \in DOMAIN s : i < j => Newer(s[j], s[i])

\* The store answers, or it does not and the stream goes live without history.
ReadHistory(c) ==
    /\ at[c] = "subscribed"
    /\ Free(c)
    /\ \/ /\ history' = [history EXCEPT ![c] = Backfill]
          /\ at' = [at EXCEPT ![c] = "history"]
          /\ UNCHANGED frame
       \/ /\ at' = [at EXCEPT ![c] = "live"]
          /\ WriteComment(c)
          /\ UNCHANGED history
    /\ UNCHANGED <<writerVars, hubVars, resume, replayed, skipped, shutdown, clientVars>>

AlreadySeen(c, e) == resume[c] # None /\ e <= resume[c]

\* The next event of the history is shown, unless its ID is none above the one the
\* client resumes from; either way it is remembered.
Replay(c) ==
    /\ at[c] = "history"
    /\ Free(c)
    /\ history[c] # <<>>
    /\ LET e == Head(history[c]) IN
          /\ replayed' = [replayed EXCEPT ![c] = @ \cup {e}]
          /\ IF AlreadySeen(c, e)
             THEN /\ skipped' = [skipped EXCEPT ![c] = @ \cup {e}]
                  /\ UNCHANGED <<frame, clientVars>>
             ELSE /\ WriteEvent(c, e)
                  /\ UNCHANGED skipped
    /\ history' = [history EXCEPT ![c] = Tail(@)]
    /\ UNCHANGED <<writerVars, hubVars, at, resume, shutdown>>

\* A comment marks the end of a history that is not empty.
GoLive(c) ==
    /\ at[c] = "history"
    /\ Free(c)
    /\ history[c] = <<>>
    /\ at' = [at EXCEPT ![c] = "live"]
    /\ IF replayed[c] = {} THEN UNCHANGED frame ELSE WriteComment(c)
    /\ UNCHANGED <<writerVars, hubVars, resume, history, replayed, skipped, shutdown, clientVars>>

\* The heartbeat.
Ping(c) ==
    /\ at[c] = "live"
    /\ Free(c)
    /\ WriteComment(c)
    /\ UNCHANGED <<writerVars, hubVars, at, resume, history, replayed, skipped, shutdown, clientVars>>

\* Mutated: what the history held is shown again.
ShowAll(c, e) ==
    /\ WriteEvent(c, e)
    /\ UNCHANGED replayed

\* An event that arrives on both paths is sent once.
ShowUnlessReplayed(c, e) ==
    IF e \in replayed[c]
    THEN /\ replayed' = [replayed EXCEPT ![c] = @ \ {e}]
         /\ UNCHANGED <<frame, clientVars>>
    ELSE /\ WriteEvent(c, e)
         /\ UNCHANGED replayed

Receive(c) ==
    /\ at[c] = "live"
    /\ Free(c)
    /\ channel[c] # <<>>
    /\ ShowUnlessReplayed(c, Head(channel[c]))
    /\ channel' = [channel EXCEPT ![c] = Tail(@)]
    /\ UNCHANGED <<writerVars, subs, closes, dropped, at, resume, history, skipped, shutdown>>

\* The handler returns; last is what it still writes.
Leaves(c, last) ==
    /\ at' = [at EXCEPT ![c] = "leaving"]
    /\ frame' = [frame EXCEPT ![c] = last]
    /\ UNCHANGED <<writerVars, hubVars, resume, history, replayed, skipped, shutdown, clientVars>>

\* The channel has been closed and is drained: the stream was evicted.
SeeClosed(c) ==
    /\ at[c] = "live"
    /\ Free(c)
    /\ channel[c] = <<>>
    /\ closes[c] > 0
    /\ Leaves(c, <<None>>)

SeeShutdown(c) ==
    /\ at[c] = "live"
    /\ Free(c)
    /\ shutdown
    /\ Leaves(c, <<None>>)

\* The client goes away: the handler sees it, or the write it is in fails.
Break(c) ==
    /\ at[c] \in {"subscribed", "history", "live"} \/ ~Free(c)
    /\ Leaves(c, <<>>)

\* The deferred sub.Close.
CloseSub(c) ==
    /\ at[c] = "leaving"
    /\ Free(c)
    /\ ~Locked
    /\ Unregister(c)
    /\ at' = [at EXCEPT ![c] = "off"]
    /\ channel' = [channel EXCEPT ![c] = <<>>]
    /\ history' = [history EXCEPT ![c] = <<>>]
    /\ UNCHANGED <<writerVars, dropped, resume, replayed, frame, skipped, shutdown, clientVars>>

\* runServe closes the closing channel before it shuts the HTTP server down.
ShutDown ==
    /\ ~shutdown
    /\ shutdown' = TRUE
    /\ UNCHANGED <<writerVars, hubVars, handlerVars, clientVars>>

-----------------------------------------------------------------------------
TailInit ==
    /\ stored = {}
    /\ writing = "idle"
    /\ fresh = <<>>
    /\ unsent = [c \in Streams |-> <<>>]
    /\ toEvict = {}
    /\ subs = {}
    /\ channel = [c \in Streams |-> <<>>]
    /\ closes = [c \in Streams |-> 0]
    /\ dropped = [c \in Streams |-> 0]
    /\ at = [c \in Streams |-> "off"]
    /\ resume = [c \in Streams |-> None]
    /\ history = [c \in Streams |-> <<>>]
    /\ replayed = [c \in Streams |-> {}]
    /\ frame = [c \in Streams |-> <<>>]
    /\ skipped = [c \in Streams |-> {}]
    /\ shutdown = FALSE
    /\ lastId = [c \in Streams |-> None]
    /\ shown = [c \in Streams |-> <<>>]
    /\ joined = [c \in Streams |-> {}]
    /\ connects = [c \in Streams |-> 0]

Writer ==
    \/ Publish \/ PublishDone \/ WriteDone
    \/ \E c \in Streams : Offer(c) \/ \E n \in 1..MaxConnects : Evict(c, n)

\* What a handler does without waiting for the hub, the server or its client.
Handler(c) == ReadHistory(c) \/ Replay(c) \/ GoLive(c) \/ CloseSub(c)

\* A stream that is live ends by itself.
End(c) == SeeClosed(c) \/ SeeShutdown(c)

TailNext ==
    \/ CommitBatch
    \/ Writer
    \/ \E c \in Streams :
          \/ Handler(c) \/ End(c) \/ Connect(c) \/ Receive(c) \/ Ping(c)
          \/ FrameWritten(c) \/ Break(c)
    \/ ShutDown

TailSpec == TailInit /\ [][TailNext]_tailVars

\* Goroutines are scheduled, and a select with several ready cases picks each of
\* them some time.  Nothing is assumed of a client: it may not read on, and then
\* its handler stays in the write.
TailFairness ==
    /\ WF_tailVars(Writer)
    /\ \A c \in Streams : WF_tailVars(Handler(c)) /\ SF_tailVars(End(c))

-----------------------------------------------------------------------------
(* Properties. *)

TailTypeOK ==
    /\ stored \subseteq Events
    /\ writing \in {"idle", "committed", "publishing", "evicting"}
    /\ fresh \in Seq(Events)
    /\ unsent \in [Streams -> Seq(Events)]
    /\ toEvict \subseteq Streams \X (1..MaxConnects)
    /\ subs \subseteq Streams
    /\ \A c \in Streams : channel[c] \in Seq(Wanted) /\ Len(channel[c]) <= Buffer
    /\ closes \in [Streams -> Nat]
    /\ dropped \in [Streams -> Nat]
    /\ at \in [Streams -> {"off", "subscribed", "history", "live", "leaving"}]
    /\ resume \in [Streams -> Events \cup {None}]
    /\ history \in [Streams -> Seq(Wanted)]
    /\ replayed \in [Streams -> SUBSET Wanted]
    /\ frame \in [Streams -> {<<>>} \cup {<<e>> : e \in Wanted \cup {None}}]
    /\ skipped \in [Streams -> SUBSET Wanted]
    /\ shutdown \in BOOLEAN
    /\ lastId \in [Streams -> Wanted \cup {None}]
    /\ shown \in [Streams -> Seq(Wanted)]
    /\ joined \in [Streams -> SUBSET Events]
    /\ connects \in [Streams -> 0..MaxConnects]

\* Publish sends under the read lock and closes happen under the write lock
\* (hub.go:62-69, 108-117), so no channel is closed twice and nothing is sent
\* on a closed one: either would panic, and take the ingest writer with it.
ClosedOnceUnsent ==
    \A c \in Streams :
        /\ closes[c] <= 1
        /\ closes[c] = 1 => unsent[c] = <<>> /\ c \notin subs

\* "An event ingested between subscribing and reading history arrives on both
\* paths; send it once" (sse.go:155-156).
ShownOnce == \A c \in Streams : IsInjective(shown[c])

\* "Subscribe BEFORE reading history. The other order would drop anything
\* ingested between the read and the subscription" (sse.go:82-84): what is
\* committed after a stream has subscribed is shown, or on its way, unless the
\* stream has dropped events, or found it in the history with an ID that is not
\* above the one the client resumes from.
NothingMissed ==
    \A c \in subs :
        at[c] = "live" /\ dropped[c] = 0 =>
            \A e \in (stored \ joined[c]) \cap Wanted :
                \/ e \in ToSet(shown[c]) \cup ToSet(channel[c]) \cup ToSet(unsent[c])
                \/ writing = "committed" /\ e \in ToSet(fresh)
                \/ e \in skipped[c] /\ AlreadySeen(c, e)

\* What is committed while a stream is open reaches it exactly once, in whatever
\* order of their IDs events are committed.
EachShownOnce == ShownOnce /\ NothingMissed

\* "Publish never blocks the caller (the ingest path)" (hub.go:77-80): a batch
\* that is committed is published, whatever the clients do.
PublishReturns == (writing = "committed") ~> (writing = "idle")

\* "Streams end as soon as it fires" (sse.go:33-37): a client does not hold up the
\* server's shutdown, unless its handler stays in a write for ever.
StreamsEnd ==
    \A c \in Streams : (shutdown ~> at[c] = "off") \/ <>[]~Free(c)
=============================================================================
