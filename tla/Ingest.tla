------------------------------- MODULE Ingest -------------------------------
(***************************************************************************)
(* The durable write path of internal/ingest/ingest.go, with the startup   *)
(* and shutdown order cmd/omnilog/main.go gives it: Enqueue accepts an     *)
(* event into the write-ahead log and a bounded queue, one writer          *)
(* goroutine moves batches from the queue to the store and advances the    *)
(* log's checkpoint behind them, and a restart replays what the store may  *)
(* have missed.                                                            *)
(*                                                                         *)
(* Abstractions.                                                           *)
(*   - The log is DurableLog, which internal/wal implements (Wal.tla).     *)
(*   - An event is its WAL payload; no two Enqueue calls carry the same    *)
(*     one, since the server gives every event a fresh ULID.               *)
(*   - store.Append is one SQLite transaction, idempotent by event ID.     *)
(*     After a power loss the store is as of its last flush to stable      *)
(*     storage, which every commit is when StoreSyncs.                     *)
(*   - Counters, logging, admission and pipelines are left out.            *)
(***************************************************************************)
EXTENDS DurableLog, Sequences, FiniteSets

CONSTANTS
    BufferSize,  \* Options.BufferSize
    BatchSize,   \* Options.BatchSize
    StoreSyncs,  \* does a commit of the store survive a power loss?
    SyncCovers,  \* does wal.Sync cover every record?  Not after a rotation's
                 \* fsync has failed: see SyncCoversAcked of Wal.tla
    MaxCrashes,  \* bound: process crashes
    MaxLosses,   \* bound: power losses
    MaxFaults    \* bound: errors returned by the log and the store

ASSUME IngestAssumption ==
    /\ BufferSize \in Nat \ {0}
    /\ BatchSize \in Nat \ {0}
    /\ StoreSyncs \in BOOLEAN
    /\ SyncCovers \in BOOLEAN
    /\ MaxCrashes \in Nat
    /\ MaxLosses \in Nat
    /\ MaxFaults \in Nat

VARIABLES
    \* -- the process -----------------------------------------------------
    phase,      \* "off", "recovering" (before Start) or "serving"
    cursor,     \* Recover: records up to here are applied to the store
    closed,     \* i.closed: Stop has closed the channel
    sending,    \* what the holder of enqMu has logged and not yet sent, if any
    queue,      \* i.ch
    writer,     \* where the goroutine run() stands
    batch,      \* its batch
    maxSeq,     \* its maxSeq
    stalled,    \* i.checkpointStalled
    \* -- the store and the tail hub --------------------------------------
    store,      \* events committed to the store
    flushed,    \* those of them on stable storage
    published,  \* events given to the tail hub
    \* -- history ---------------------------------------------------------
    offered,    \* events passed to Enqueue
    owed,       \* events whose Enqueue returned true, less those a power loss
                \* took before any fsync covered them
    refused,    \* events whose Enqueue returned false
    crashes, losses, faults

memVars  == <<closed, sending, queue, writer, batch, maxSeq, stalled>>
storeVars == <<store, flushed, published>>
histVars == <<offered, owed, refused>>
bounds   == <<crashes, losses, faults>>
vars == <<logVars, phase, cursor, memVars, storeVars, histVars, bounds>>

Item == [e : Payloads, seq : Nat \ {0}]
Nothing == [e |-> "none", seq |-> 0]
WriterStates == {"select", "sync", "store", "checkpoint", "publish", "exited"}

EventsOf(s) == {s[i] : i \in 1..Len(s)}
Logged == {records[s] : s \in DOMAIN records}

\* One error of the log or the store.
Fault ==
    /\ faults < MaxFaults
    /\ faults' = faults + 1
    /\ UNCHANGED <<crashes, losses>>

-----------------------------------------------------------------------------
(* Enqueue: one caller at a time, under enqMu. *)

Serving == phase = "serving"
LockFree == sending = Nothing
HasRoom == Len(queue) < BufferSize

Offer(e) ==
    /\ Serving
    /\ e \notin offered
    /\ offered' = offered \cup {e}

\* A failed step of the writer holds the checkpoint back for good.  Mutated: it does not.
NoStall == UNCHANGED stalled

Stall == stalled' = TRUE

\* Closed or full: refused before anything is written.
Refuse(e) ==
    /\ Offer(e)
    /\ LockFree
    /\ closed \/ ~HasRoom
    /\ refused' = refused \cup {e}
    /\ UNCHANGED <<logVars, phase, cursor, memVars, storeVars, owed, bounds>>

\* wal.Append returns nil; the lock is kept until the event is in the channel.
LogEvent(e) ==
    /\ Offer(e)
    /\ LockFree
    /\ ~closed
    /\ HasRoom
    /\ Accept(e)
    /\ sending' = [e |-> e, seq |-> last + 1]
    /\ UNCHANGED <<phase, cursor, closed, queue, writer, batch, maxSeq, stalled,
                   storeVars, owed, refused, bounds>>

\* Mutated: the record stays in the log.
LogEventFailsLate(e) ==
    /\ Offer(e)
    /\ LockFree
    /\ ~closed
    /\ HasRoom
    /\ Fault
    /\ Accept(e)
    /\ refused' = refused \cup {e}
    /\ UNCHANGED <<phase, cursor, memVars, storeVars, owed>>

\* wal.Append returns an error.
LogEventFails(e) ==
    /\ Offer(e)
    /\ LockFree
    /\ ~closed
    /\ HasRoom
    /\ Fault
    /\ Harden
    /\ refused' = refused \cup {e}
    /\ UNCHANGED <<phase, cursor, memVars, storeVars, owed>>

\* i.ch <- queued{...}; the caller is told the event is accepted.
Send ==
    /\ Serving
    /\ ~LockFree
    /\ HasRoom
    /\ queue' = Append(queue, sending)
    /\ sending' = Nothing
    /\ owed' = owed \cup {sending.e}
    /\ UNCHANGED <<logVars, phase, cursor, closed, writer, batch, maxSeq, stalled,
                   storeVars, offered, refused, bounds>>

-----------------------------------------------------------------------------
(* run() and writeBatch: the single writer goroutine. *)

Receive ==
    /\ Serving
    /\ writer = "select"
    /\ queue # <<>>
    /\ queue' = Tail(queue)
    /\ batch' = Append(batch, Head(queue).e)
    /\ maxSeq' = IF Head(queue).seq > maxSeq THEN Head(queue).seq ELSE maxSeq
    /\ writer' = IF Len(batch) + 1 >= BatchSize THEN "sync" ELSE "select"
    /\ UNCHANGED <<logVars, phase, cursor, closed, sending, stalled,
                   storeVars, histVars, bounds>>

\* Mutated: no ticker; no last flush.
ReadyWhenClosed == batch # <<>> /\ closed
ReadyWhenOpen == batch # <<>> /\ ~closed

ReadyToFlush == batch # <<>>

\* The ticker fires, or the closed channel is drained, on a batch to write.
Flush ==
    /\ Serving
    /\ writer = "select"
    /\ ReadyToFlush
    /\ writer' = "sync"
    /\ UNCHANGED <<logVars, phase, cursor, closed, sending, queue, batch, maxSeq,
                   stalled, storeVars, histVars, bounds>>

\* The closed channel is drained and nothing is left to write.
Exit ==
    /\ Serving
    /\ writer = "select"
    /\ closed
    /\ queue = <<>>
    /\ batch = <<>>
    /\ writer' = "exited"
    /\ UNCHANGED <<logVars, phase, cursor, closed, sending, queue, batch, maxSeq,
                   stalled, storeVars, histVars, bounds>>

SyncLog ==
    /\ Serving
    /\ writer = "sync"
    /\ durable' \in (IF SyncCovers THEN last ELSE durable)..last
    /\ writer' = "store"
    /\ UNCHANGED <<open, ckpt, last, records, phase, cursor, closed, sending, queue,
                   batch, maxSeq, stalled, storeVars, histVars, bounds>>

\* A failed sync stalls the checkpoint and the batch is written all the same.
SyncLogFails ==
    /\ Serving
    /\ writer = "sync"
    /\ Fault
    /\ Stall
    /\ writer' = "store"
    /\ UNCHANGED <<logVars, phase, cursor, closed, sending, queue, batch, maxSeq,
                   storeVars, histVars>>

\* Every commit replaces the store's content at once.
Commit(events) ==
    /\ store' = store \cup events
    /\ flushed' = IF StoreSyncs THEN store' ELSE flushed

AppendBatch ==
    /\ Serving
    /\ writer = "store"
    /\ Commit(EventsOf(batch))
    /\ writer' = IF stalled THEN "publish" ELSE "checkpoint"
    /\ UNCHANGED <<logVars, phase, cursor, closed, sending, queue, batch, maxSeq,
                   stalled, published, histVars, bounds>>

\* Mutated: writeBatch does not return.
AppendBatchFailsOn ==
    /\ Serving
    /\ writer = "store"
    /\ Fault
    /\ Stall
    /\ writer' = "publish"
    /\ UNCHANGED <<logVars, phase, cursor, closed, sending, queue, batch, maxSeq,
                   storeVars, histVars>>

\* The batch is forgotten, unpublished; the checkpoint never passes it.
AppendBatchFails ==
    /\ Serving
    /\ writer = "store"
    /\ Fault
    /\ Stall
    /\ batch' = <<>>
    /\ maxSeq' = 0
    /\ writer' = "select"
    /\ UNCHANGED <<logVars, phase, cursor, closed, sending, queue, storeVars, histVars>>

Checkpoint ==
    /\ Serving
    /\ writer = "checkpoint"
    /\ Settle(maxSeq)
    /\ writer' = "publish"
    /\ UNCHANGED <<phase, cursor, closed, sending, queue, batch, maxSeq, stalled,
                   storeVars, histVars, bounds>>

CheckpointFails ==
    /\ Serving
    /\ writer = "checkpoint"
    /\ Fault
    /\ Stall
    /\ writer' = "publish"
    /\ UNCHANGED <<logVars, phase, cursor, closed, sending, queue, batch, maxSeq,
                   storeVars, histVars>>

Publish ==
    /\ Serving
    /\ writer = "publish"
    /\ published' = published \cup EventsOf(batch)
    /\ batch' = <<>>
    /\ maxSeq' = 0
    /\ writer' = "select"
    /\ UNCHANGED <<logVars, phase, cursor, closed, sending, queue, stalled,
                   store, flushed, histVars, bounds>>

\* SQLite moves committed transactions to stable storage in its own time.
StoreFlush ==
    /\ flushed # store
    /\ flushed' = store
    /\ UNCHANGED <<logVars, phase, cursor, memVars, store, published, histVars, bounds>>

-----------------------------------------------------------------------------
(* Startup, shutdown, crashes. *)

\* A new Ingestor.
FreshMemory ==
    /\ closed' = FALSE
    /\ sending' = Nothing
    /\ queue' = <<>>
    /\ writer' = "select"
    /\ batch' = <<>>
    /\ maxSeq' = 0
    /\ stalled' = FALSE

\* runServe: the store and the log are open, Recover begins.
Boot ==
    /\ phase = "off"
    /\ phase' = "recovering"
    /\ Reopen
    /\ cursor' = ckpt
    /\ UNCHANGED <<memVars, storeVars, histVars, bounds>>

\* Mutated: only full batches are flushed.
ReplayedFull(from, to) ==
    IF to - from < BatchSize THEN {} ELSE {records[s] : s \in (from + 1)..to}

Replayed(from, to) == {records[s] : s \in (from + 1)..to}

\* Replay hands the store BatchSize records at a time, then the rest.
RecoverBatch ==
    /\ phase = "recovering"
    /\ cursor < last
    /\ cursor' = IF cursor + BatchSize > last THEN last ELSE cursor + BatchSize
    /\ Commit(Replayed(cursor, cursor'))
    /\ UNCHANGED <<logVars, phase, memVars, published, histVars, bounds>>

RecoverCheckpoint ==
    /\ phase = "recovering"
    /\ cursor = last
    /\ Settle(last)
    /\ UNCHANGED <<phase, cursor, memVars, storeVars, histVars, bounds>>

Start ==
    /\ phase = "recovering"
    /\ cursor = last
    /\ ckpt = last
    /\ phase' = "serving"
    /\ UNCHANGED <<logVars, cursor, memVars, storeVars, histVars, bounds>>

\* store.Append or SetCheckpoint fails in Recover: runServe returns the error.
RecoverFails ==
    /\ phase = "recovering"
    /\ ckpt < last
    /\ Fault
    /\ Die
    /\ phase' = "off"
    /\ cursor' = 0
    /\ FreshMemory
    /\ UNCHANGED <<storeVars, histVars>>

\* Mutated: Stop does not take enqMu.
CloseQueueUnlocked ==
    /\ Serving
    /\ ~closed
    /\ closed' = TRUE
    /\ UNCHANGED <<logVars, phase, cursor, sending, queue, writer, batch, maxSeq,
                   stalled, storeVars, histVars, bounds>>

\* Stop: the channel is closed under enqMu.
CloseQueue ==
    /\ Serving
    /\ LockFree
    /\ ~closed
    /\ closed' = TRUE
    /\ UNCHANGED <<logVars, phase, cursor, sending, queue, writer, batch, maxSeq,
                   stalled, storeVars, histVars, bounds>>

\* wg.Wait returns; runServe closes the log and the store.
Shutdown ==
    /\ Serving
    /\ writer = "exited"
    /\ Die
    /\ phase' = "off"
    /\ cursor' = 0
    /\ FreshMemory
    /\ UNCHANGED <<storeVars, histVars, bounds>>

ProcessGone ==
    /\ crashes < MaxCrashes
    /\ crashes' = crashes + 1
    /\ phase' = "off"
    /\ cursor' = 0
    /\ FreshMemory
    /\ UNCHANGED <<storeVars, owed, refused, losses, faults>>

Crash ==
    /\ Die
    /\ ProcessGone
    /\ UNCHANGED offered

\* The process dies in wal.Append, after the record is written.
CrashLogging(e) ==
    /\ Offer(e)
    /\ LockFree
    /\ ~closed
    /\ HasRoom
    /\ DieAppending(e)
    /\ ProcessGone

\* The log keeps its durable part, the store what it had flushed.
PowerLoss(end) ==
    /\ losses < MaxLosses
    /\ losses' = losses + 1
    /\ LosePowerTo(end)
    /\ store' = flushed
    /\ owed' = owed \ {records[s] : s \in {t \in DOMAIN records : t > durable}}
    /\ phase' = "off"
    /\ cursor' = 0
    /\ FreshMemory
    /\ UNCHANGED <<flushed, published, offered, refused, crashes, faults>>

-----------------------------------------------------------------------------
Init ==
    /\ LogInit
    /\ phase = "off"
    /\ cursor = 0
    /\ closed = FALSE
    /\ sending = Nothing
    /\ queue = <<>>
    /\ writer = "select"
    /\ batch = <<>>
    /\ maxSeq = 0
    /\ stalled = FALSE
    /\ store = {}
    /\ flushed = {}
    /\ published = {}
    /\ offered = {}
    /\ owed = {}
    /\ refused = {}
    /\ crashes = 0
    /\ losses = 0
    /\ faults = 0

Writer ==
    \/ Receive \/ Flush \/ Exit
    \/ SyncLog \/ SyncLogFails
    \/ AppendBatch \/ AppendBatchFails
    \/ Checkpoint \/ CheckpointFails
    \/ Publish

Startup == Boot \/ RecoverBatch \/ RecoverCheckpoint \/ Start

Next ==
    \/ \E e \in Payloads :
          \/ Refuse(e)
          \/ LogEvent(e)
          \/ LogEventFails(e)
          \/ CrashLogging(e)
    \/ Send
    \/ Writer
    \/ StoreFlush
    \/ Startup
    \/ RecoverFails
    \/ CloseQueue
    \/ Shutdown
    \/ Crash
    \/ \E end \in durable..last : PowerLoss(end)

Spec == Init /\ [][Next]_vars

\* The goroutines run and a stopped server is started again; nothing forces a
\* caller, a signal, a crash or a fault to come.
Fairness ==
    /\ WF_vars(Send)
    /\ WF_vars(Writer)
    /\ WF_vars(Startup)
    /\ WF_vars(Shutdown)

FairSpec == Spec /\ Fairness

-----------------------------------------------------------------------------
(* Properties. *)

TypeOK ==
    /\ LogTypeOK
    /\ phase \in {"off", "recovering", "serving"}
    /\ cursor \in Nat
    /\ closed \in BOOLEAN
    /\ sending \in Item \cup {Nothing}
    /\ queue \in Seq(Item)
    /\ writer \in WriterStates
    /\ batch \in Seq(Payloads)
    /\ maxSeq \in Nat
    /\ stalled \in BOOLEAN
    /\ store \subseteq Payloads
    /\ flushed \subseteq store
    /\ published \subseteq Payloads
    /\ offered \subseteq Payloads
    /\ owed \subseteq offered
    /\ refused \subseteq offered
    /\ crashes \in Nat
    /\ losses \in Nat
    /\ faults \in Nat

\* An event Enqueue accepted is never lost: it is in the store, or in the log
\* past the checkpoint where the next Recover finds it (ingest.go:70-73), across
\* failed writes, process crashes, restarts and, for what was synced, power loss.
AcceptedSurvives == owed \subseteq store \cup Logged

\* "an unacked event is never recovered" (ingest.go:164-167): an event whose
\* Enqueue returned false is in neither the store nor the log, now or later.
RefusedNeverStored == refused \cap (store \cup Logged) = {}

\* "A slot is guaranteed" (ingest.go:199-200): the holder of enqMu that has
\* logged an event can send it, to an open channel and without blocking.
SlotGuaranteed == ~LockFree => ~closed /\ HasRoom

\* Live tail shows only events a search can find (ingest.go:318-335).
PublishedStored == published \subseteq store

\* "a power loss can never leave the checkpoint ahead of the WAL"
\* (ingest.go:310-311): the writer advances it only over fsynced records, as
\* long as wal.Sync covers them all.
CheckpointBehindSync ==
    [][writer = "checkpoint" /\ ckpt' # ckpt => ckpt' <= durable]_vars

\* Recover ends before Start (main.go:254-264): whatever the last process had
\* accepted is in the store when the new one begins to serve.
ServesRecovered ==
    [][phase # "serving" /\ phase' = "serving" => owed \subseteq store']_vars

\* The ticker writes every partial batch: an accepted event reaches the store,
\* unless the checkpoint is stalled by a failed write, which leaves the event to
\* the next restart, or a power loss took it unsynced.
AcceptedIsStored ==
    \A e \in Payloads : (e \in owed) ~> (e \in store \/ stalled \/ e \notin owed)

\* Stop drains the queue and returns (ingest.go:257-266).
StopReturns == (closed /\ Serving) ~> (phase = "off")

-----------------------------------------------------------------------------
(* The inductive invariant behind the safety properties. *)

\* No power loss takes back a commit, because commits are synced or because
\* there is none.
StoreKeepsCommits == StoreSyncs \/ MaxLosses = 0

\* Outside service the Ingestor is fresh.
FreshWhenNotServing ==
    /\ open <=> phase # "off"
    /\ phase # "serving" =>
          /\ closed = FALSE /\ sending = Nothing /\ queue = <<>>
          /\ writer = "select" /\ batch = <<>> /\ maxSeq = 0 /\ stalled = FALSE

\* Recover has applied what its cursor has passed.
RecoveredToCursor ==
    phase = "recovering" =>
        /\ cursor \in ckpt..last
        /\ \A s \in (ckpt + 1)..cursor : records[s] \in store

\* The queue holds log records past the batch, in log order; the record being
\* sent comes after them all.
QueueInLogOrder ==
    /\ maxSeq <= last
    /\ \A i \in 1..Len(queue) :
          /\ queue[i].seq > maxSeq /\ queue[i].seq \in (ckpt + 1)..last
          /\ records[queue[i].seq] = queue[i].e
    /\ \A i, j \in 1..Len(queue) : i < j => queue[i].seq < queue[j].seq
    /\ ~LockFree =>
          /\ sending.seq > maxSeq /\ sending.seq \in (ckpt + 1)..last
          /\ records[sending.seq] = sending.e
          /\ \A i \in 1..Len(queue) : queue[i].seq < sending.seq

\* As long as the checkpoint may move, nothing past it is forgotten: a record
\* is stored or in the batch, or still on its way to it.
NothingSkipped ==
    Serving /\ ~stalled =>
        /\ \A s \in (ckpt + 1)..maxSeq : records[s] \in store \cup EventsOf(batch)
        /\ \A s \in (ckpt + 1)..last :
              s > maxSeq => \/ \E i \in 1..Len(queue) : queue[i].seq = s
                            \/ ~LockFree /\ sending.seq = s
        /\ writer = "publish" => maxSeq <= ckpt

\* Where the writer stands says what it has done.
WriterProgress ==
    /\ writer \in {"checkpoint", "publish"} => EventsOf(batch) \subseteq store
    /\ writer = "checkpoint" => ~stalled
    /\ SyncCovers /\ writer \in {"store", "checkpoint"} /\ ~stalled => maxSeq <= durable
    /\ EventsOf(batch) \subseteq store \cup Logged

OfferedOnly == store \cup Logged \subseteq offered

Inv ==
    /\ TypeOK
    /\ FreshWhenNotServing
    /\ RecoveredToCursor
    /\ QueueInLogOrder
    /\ NothingSkipped
    /\ WriterProgress
    /\ SlotGuaranteed
    /\ OfferedOnly
    /\ RefusedNeverStored
    /\ StoreSyncs => flushed = store
    /\ StoreKeepsCommits => AcceptedSurvives /\ PublishedStored
=============================================================================
