--------------------------- MODULE Ingest_proofs ---------------------------
(***************************************************************************)
(* Machine-checked proofs about the durable write path, for every buffer   *)
(* and batch size, every set of events and every bound on crashes, power   *)
(* losses and faults.  Inv, defined in Ingest, is inductive; the safety    *)
(* properties follow from it.                                              *)
(***************************************************************************)
EXTENDS Ingest, TLAPS

-----------------------------------------------------------------------------
(* What the steps of the log do. *)

\* Append adds the payload at the end (wal.go:130-174).
LEMMA AcceptEffect ==
    ASSUME LogTypeOK, NEW p \in Payloads, Accept(p)
    PROVE  /\ LogTypeOK'
           /\ Logged' = Logged \cup {p}
           /\ records'[last + 1] = p
           /\ \A s \in (ckpt + 1)..last : records'[s] = records[s]
<1>1. records' \in [(ckpt + 1)..(last + 1) -> Payloads]
  BY DEF LogTypeOK, Accept, Extended
<1>2. LogTypeOK'
  BY <1>1 DEF LogTypeOK, Accept
<1>3. records'[last + 1] = p /\ \A s \in (ckpt + 1)..last : records'[s] = records[s]
  BY DEF LogTypeOK, Accept, Extended
<1>4. DOMAIN records' = DOMAIN records \cup {last + 1}
  BY <1>1 DEF LogTypeOK
<1>5. Logged' = Logged \cup {p}
  BY <1>3, <1>4 DEF Logged, LogTypeOK
<1> QED BY <1>2, <1>3, <1>5

\* SetCheckpoint forgets the records it covers and no other (wal.go:223-237).
LEMMA SettleEffect ==
    ASSUME LogTypeOK, NEW n \in Nat, Settle(n)
    PROVE  /\ LogTypeOK'
           /\ Logged' \subseteq Logged
           /\ \A s \in (n + 1)..last : records'[s] = records[s]
           /\ \A x \in Logged : x \in Logged' \/ \E s \in (ckpt + 1)..n : records[s] = x
<1>1. n \in (ckpt + 1)..last /\ ckpt' = n /\ last' = last
  BY DEF Settle
<1>2. records' = [s \in (n + 1)..last |-> records[s]]
  BY DEF Settle, Kept
<1>3. records' \in [(n + 1)..last -> Payloads]
  BY <1>1, <1>2 DEF LogTypeOK
<1>4. durable' \in n..last
  BY <1>1 DEF Settle, LogTypeOK
<1>5. LogTypeOK'
  BY <1>1, <1>3, <1>4 DEF LogTypeOK, Settle
<1>6. \A s \in (n + 1)..last : records'[s] = records[s]
  BY <1>2
<1>7. DOMAIN records = (ckpt + 1)..last /\ DOMAIN records' = (n + 1)..last
  BY <1>3 DEF LogTypeOK
<1>8. Logged' \subseteq Logged
  BY <1>1, <1>6, <1>7 DEF Logged, LogTypeOK
<1>9. ASSUME NEW x \in Logged, x \notin Logged'
      PROVE  \E s \in (ckpt + 1)..n : records[s] = x
  <2>1. PICK s \in (ckpt + 1)..last : x = records[s]
    BY <1>7 DEF Logged
  <2>2. s \notin (n + 1)..last
    BY <2>1, <1>6, <1>7, <1>9 DEF Logged
  <2> QED BY <2>1, <2>2, <1>1 DEF LogTypeOK
<1> QED BY <1>5, <1>6, <1>8, <1>9

\* A power loss takes the newest records and leaves the others as they were.
LEMMA LosePowerEffect ==
    ASSUME LogTypeOK, NEW n \in durable..last, LosePowerTo(n)
    PROVE  /\ LogTypeOK'
           /\ Logged' \subseteq Logged
           /\ \A s \in (ckpt + 1)..durable : records[s] \in Logged'
<1>1. n \in Nat /\ ckpt <= n /\ n <= last
  BY DEF LogTypeOK
<1>2. records' = [s \in (ckpt + 1)..n |-> records[s]]
  BY DEF LosePowerTo, Kept
<1>3. records' \in [(ckpt + 1)..n -> Payloads]
  BY <1>1, <1>2 DEF LogTypeOK
<1>4. LogTypeOK'
  <2>1. open' \in BOOLEAN
    BY DEF LosePowerTo
  <2>2. ckpt' = ckpt /\ last' = n /\ durable' = n
    BY DEF LosePowerTo
  <2> QED BY <1>1, <1>3, <2>1, <2>2 DEF LogTypeOK
<1>5. DOMAIN records = (ckpt + 1)..last /\ DOMAIN records' = (ckpt + 1)..n
  BY <1>3 DEF LogTypeOK
<1>6. Logged' \subseteq Logged
  BY <1>1, <1>2, <1>5 DEF Logged, LogTypeOK
<1>7. \A s \in (ckpt + 1)..durable : records[s] \in Logged'
  BY <1>1, <1>2, <1>5 DEF Logged, LogTypeOK
<1> QED BY <1>4, <1>6, <1>7

\* A record written by a process that dies in Append.
LEMMA DieAppendingEffect ==
    ASSUME LogTypeOK, NEW p \in Payloads, DieAppending(p)
    PROVE  LogTypeOK' /\ Logged' = Logged \cup {p}
<1>1. records' \in [(ckpt + 1)..(last + 1) -> Payloads]
  BY DEF LogTypeOK, DieAppending, Extended
<1>2. LogTypeOK'
  <2>1. open' \in BOOLEAN
    BY DEF DieAppending
  <2>2. ckpt' = ckpt /\ last' = last + 1 /\ durable' \in durable..last
    BY DEF DieAppending
  <2> QED BY <1>1, <2>1, <2>2 DEF LogTypeOK
<1>3. records'[last + 1] = p /\ \A s \in (ckpt + 1)..last : records'[s] = records[s]
  BY DEF LogTypeOK, DieAppending, Extended
<1>4. DOMAIN records' = DOMAIN records \cup {last + 1}
  BY <1>1 DEF LogTypeOK
<1>5. Logged' = Logged \cup {p}
  BY <1>3, <1>4 DEF Logged, LogTypeOK
<1> QED BY <1>2, <1>5

\* A process that stops leaves the log as it is.
LEMMA DieEffect ==
    ASSUME LogTypeOK, Die
    PROVE  LogTypeOK' /\ Logged' = Logged
<1>1. open' \in BOOLEAN
  BY DEF Die
<1>2. UNCHANGED <<ckpt, last, records, durable>>
  BY DEF Die
<1> QED BY <1>1, <1>2 DEF LogTypeOK, Logged

-----------------------------------------------------------------------------
(* Small facts about batches and the queue. *)

\* The writer adds one event to its batch (ingest.go:293).
LEMMA EventsOfAppend ==
    ASSUME NEW S, NEW q \in Seq(S), NEW x \in S
    PROVE  EventsOf(Append(q, x)) = EventsOf(q) \cup {x}
  BY DEF EventsOf

\* A batch after batch[:0] holds nothing (ingest.go:282).
LEMMA EventsOfEmpty == EventsOf(<<>>) = {}
  BY DEF EventsOf

\* What is received is the oldest item, and the others move up.
LEMMA HeadTail ==
    ASSUME NEW S, NEW q \in Seq(S), q # <<>>
    PROVE  /\ Head(q) \in S /\ Head(q) = q[1] /\ Len(q) \in Nat \ {0}
           /\ Tail(q) \in Seq(S) /\ Len(Tail(q)) = Len(q) - 1
           /\ \A i \in 1..Len(Tail(q)) : Tail(q)[i] = q[i + 1]
           /\ \A i \in 1..Len(q) : q[i] \in S
  OBVIOUS

-----------------------------------------------------------------------------
(* Inv is inductive: one lemma for each of its parts. *)

USE DEF Nothing, Item, LockFree, HasRoom, Serving, Stall, Replayed, ReadyToFlush

\* A process that starts, or is gone, has a fresh memory.
LEMMA FreshMemoryType ==
    ASSUME FreshMemory
    PROVE  /\ closed' \in BOOLEAN /\ stalled' \in BOOLEAN
           /\ sending' \in Item \cup {Nothing} /\ queue' \in Seq(Item)
           /\ writer' \in WriterStates /\ batch' \in Seq(Payloads) /\ maxSeq' \in Nat
<1>1. closed' \in BOOLEAN
  BY DEF FreshMemory
<1>2. stalled' \in BOOLEAN
  BY DEF FreshMemory
<1>3. sending' \in Item \cup {Nothing}
  BY DEF FreshMemory
<1>4. queue' \in Seq(Item) /\ batch' \in Seq(Payloads)
  BY DEF FreshMemory
<1>5. writer' \in WriterStates /\ maxSeq' \in Nat
  BY DEF FreshMemory, WriterStates
<1> QED BY <1>1, <1>2, <1>3, <1>4, <1>5

\* Every value keeps its type in every step.
LEMMA TypeStep ==
    ASSUME Inv, [Next]_vars
    PROVE  TypeOK'
<1> USE IngestAssumption DEF Inv, TypeOK, bounds
<1>1. CASE \E e \in Payloads : Refuse(e)
  BY <1>1 DEF Refuse, Offer, LogTypeOK, logVars, memVars, storeVars
<1>2. CASE \E e \in Payloads : LogEvent(e)
  <2>1. PICK e \in Payloads : LogEvent(e)
    BY <1>2
  <2>2. LogTypeOK'
    BY <2>1, AcceptEffect DEF LogEvent
  <2>3. sending' \in Item
    BY <2>1 DEF LogEvent, LogTypeOK
  <2> QED BY <2>1, <2>2, <2>3 DEF LogEvent, Offer, storeVars
<1>3. CASE \E e \in Payloads : LogEventFails(e)
  <2>1. PICK e \in Payloads : LogEventFails(e)
    BY <1>3
  <2>2. LogTypeOK'
    BY <2>1 DEF LogEventFails, Harden, LogTypeOK
  <2> QED BY <2>1, <2>2 DEF LogEventFails, Offer, Fault, memVars, storeVars
<1>4. CASE \E e \in Payloads : CrashLogging(e)
  <2>1. PICK e \in Payloads : CrashLogging(e)
    BY <1>4
  <2>2. LogTypeOK'
    BY <2>1, DieAppendingEffect DEF CrashLogging
  <2>3. FreshMemory
    BY <2>1 DEF CrashLogging, ProcessGone
  <2> QED BY <2>1, <2>2, <2>3, FreshMemoryType DEF CrashLogging, ProcessGone, Offer, storeVars
<1>5. CASE Send
  <2>1. sending \in Item /\ sending.e \in offered
    BY <1>5 DEF Send, QueueInLogOrder, OfferedOnly, Logged, LogTypeOK
  <2>2. queue' \in Seq(Item)
    BY <1>5, <2>1 DEF Send
  <2>3. owed' \subseteq offered'
    BY <1>5, <2>1 DEF Send
  <2>4. LogTypeOK'
    BY <1>5 DEF Send, logVars, LogTypeOK
  <2> QED BY <1>5, <2>2, <2>3, <2>4 DEF Send, storeVars
<1>6. CASE Receive
  <2>1. /\ Head(queue) \in Item /\ Tail(queue) \in Seq(Item)
    <3>1. queue \in Seq(Item) /\ queue # <<>>
      BY <1>6 DEF Receive
    <3> HIDE DEF Item
    <3> QED BY ONLY <3>1, HeadTail
  <2>2. batch' \in Seq(Payloads) /\ maxSeq' \in Nat
    BY <1>6, <2>1 DEF Receive
  <2> QED BY <1>6, <2>1, <2>2 DEF Receive, LogTypeOK, logVars, storeVars, histVars, WriterStates
<1>7. CASE Flush
  BY <1>7 DEF Flush, LogTypeOK, logVars, storeVars, histVars, WriterStates
<1>8. CASE Exit
  BY <1>8 DEF Exit, LogTypeOK, logVars, storeVars, histVars, WriterStates
<1>9. CASE SyncLog
  BY <1>9 DEF SyncLog, LogTypeOK, storeVars, histVars, WriterStates
<1>10. CASE SyncLogFails
  BY <1>10 DEF SyncLogFails, Fault, LogTypeOK, logVars, storeVars, histVars, WriterStates
<1>11. CASE AppendBatch
  <2>1. EventsOf(batch) \subseteq Payloads
    BY DEF EventsOf
  <2>2. store' \subseteq Payloads /\ flushed' \subseteq store'
    BY <1>11, <2>1 DEF AppendBatch, Commit
  <2> QED BY <1>11, <2>2 DEF AppendBatch, LogTypeOK, logVars, histVars, WriterStates
<1>12. CASE AppendBatchFails
  BY <1>12 DEF AppendBatchFails, Fault, LogTypeOK, logVars, storeVars, histVars, WriterStates
<1>13. CASE Checkpoint
  <2>1. LogTypeOK'
    BY <1>13, SettleEffect DEF Checkpoint
  <2> QED BY <1>13, <2>1 DEF Checkpoint, storeVars, histVars, WriterStates
<1>14. CASE CheckpointFails
  BY <1>14 DEF CheckpointFails, Fault, LogTypeOK, logVars, storeVars, histVars, WriterStates
<1>15. CASE Publish
  <2>1. EventsOf(batch) \subseteq Payloads
    BY DEF EventsOf
  <2> QED BY <1>15, <2>1 DEF Publish, LogTypeOK, logVars, histVars, WriterStates
<1>16. CASE StoreFlush
  BY <1>16 DEF StoreFlush, LogTypeOK, logVars, memVars, histVars
<1>17. CASE Boot
  BY <1>17 DEF Boot, Reopen, LogTypeOK, memVars, storeVars, histVars
<1>18. CASE RecoverBatch
  <2>1. cursor' \in Nat /\ cursor' <= last /\ cursor \in ckpt..last
    BY <1>18 DEF RecoverBatch, RecoveredToCursor, LogTypeOK
  <2>2. {records[s] : s \in (cursor + 1)..cursor'} \subseteq Payloads
    <3>1. \A s \in (cursor + 1)..cursor' : s \in (ckpt + 1)..last
      BY <2>1 DEF LogTypeOK
    <3> QED BY <3>1 DEF LogTypeOK
  <2>3. store' \subseteq Payloads /\ flushed' \subseteq store'
    BY <1>18, <2>2 DEF RecoverBatch, Commit
  <2> QED BY <1>18, <2>1, <2>3 DEF RecoverBatch, LogTypeOK, logVars, memVars, histVars
<1>19. CASE RecoverCheckpoint
  <2>1. LogTypeOK'
    BY <1>19, SettleEffect DEF RecoverCheckpoint, LogTypeOK
  <2> QED BY <1>19, <2>1 DEF RecoverCheckpoint, memVars, storeVars, histVars
<1>20. CASE Start
  BY <1>20 DEF Start, LogTypeOK, logVars, memVars, storeVars, histVars
<1>21. CASE RecoverFails
  <2>1. LogTypeOK'
    BY <1>21, DieEffect DEF RecoverFails
  <2>2. FreshMemory
    BY <1>21 DEF RecoverFails
  <2> QED BY <1>21, <2>1, <2>2, FreshMemoryType DEF RecoverFails, Fault, storeVars, histVars
<1>22. CASE CloseQueue
  BY <1>22 DEF CloseQueue, LogTypeOK, logVars, storeVars, histVars
<1>23. CASE Shutdown
  <2>1. LogTypeOK'
    BY <1>23, DieEffect DEF Shutdown
  <2>2. FreshMemory
    BY <1>23 DEF Shutdown
  <2> QED BY <1>23, <2>1, <2>2, FreshMemoryType DEF Shutdown, storeVars, histVars
<1>24. CASE Crash
  <2>1. LogTypeOK'
    BY <1>24, DieEffect DEF Crash
  <2>2. FreshMemory
    BY <1>24 DEF Crash, ProcessGone
  <2> QED BY <1>24, <2>1, <2>2, FreshMemoryType DEF Crash, ProcessGone, storeVars
<1>25. CASE \E n \in durable..last : PowerLoss(n)
  <2>1. PICK n \in durable..last : PowerLoss(n)
    BY <1>25
  <2>2. LogTypeOK'
    BY <2>1, LosePowerEffect DEF PowerLoss
  <2>3. FreshMemory
    BY <2>1 DEF PowerLoss
  <2> QED BY <2>1, <2>2, <2>3, FreshMemoryType DEF PowerLoss
<1>26. CASE UNCHANGED vars
  BY <1>26 DEF vars, LogTypeOK, logVars, memVars, storeVars, histVars
<1> QED
  BY <1>1, <1>2, <1>3, <1>4, <1>5, <1>6, <1>7, <1>8, <1>9, <1>10, <1>11, <1>12, <1>13,
     <1>14, <1>15, <1>16, <1>17, <1>18, <1>19, <1>20, <1>21, <1>22, <1>23, <1>24, <1>25,
     <1>26 DEF Next, Writer, Startup

\* The log is open while the process runs, and a new process starts empty.
LEMMA FreshStep ==
    ASSUME FreshWhenNotServing, [Next]_vars
    PROVE  FreshWhenNotServing'
<1> USE DEF FreshWhenNotServing
<1>1. CASE \E e \in Payloads : Refuse(e)
  BY <1>1 DEF Refuse, Offer, logVars, memVars, storeVars
<1>2. CASE \E e \in Payloads : LogEvent(e)
  BY <1>2 DEF LogEvent, Offer, Accept, logVars, memVars, storeVars
<1>3. CASE \E e \in Payloads : LogEventFails(e)
  BY <1>3 DEF LogEventFails, Offer, Harden, logVars, memVars, storeVars
<1>4. CASE \E e \in Payloads : CrashLogging(e)
  BY <1>4 DEF CrashLogging, Offer, FreshMemory, ProcessGone, DieAppending, logVars, memVars, storeVars
<1>5. CASE Send
  BY <1>5 DEF Send, logVars, memVars, storeVars
<1>6. CASE Receive
  BY <1>6 DEF Receive, logVars, memVars, storeVars
<1>7. CASE Flush
  BY <1>7 DEF Flush, logVars, memVars, storeVars
<1>8. CASE Exit
  BY <1>8 DEF Exit, logVars, memVars, storeVars
<1>9. CASE SyncLog
  BY <1>9 DEF SyncLog, logVars, memVars, storeVars
<1>10. CASE SyncLogFails
  BY <1>10 DEF SyncLogFails, logVars, memVars, storeVars
<1>11. CASE AppendBatch
  BY <1>11 DEF AppendBatch, logVars, memVars, storeVars
<1>12. CASE AppendBatchFails
  BY <1>12 DEF AppendBatchFails, logVars, memVars, storeVars
<1>13. CASE Checkpoint
  BY <1>13 DEF Checkpoint, Settle, logVars, memVars, storeVars
<1>14. CASE CheckpointFails
  BY <1>14 DEF CheckpointFails, logVars, memVars, storeVars
<1>15. CASE Publish
  BY <1>15 DEF Publish, logVars, memVars, storeVars
<1>16. CASE StoreFlush
  BY <1>16 DEF StoreFlush, logVars, memVars, storeVars
<1>17. CASE Boot
  BY <1>17 DEF Boot, Reopen, logVars, memVars, storeVars
<1>18. CASE RecoverBatch
  BY <1>18 DEF RecoverBatch, logVars, memVars, storeVars
<1>19. CASE RecoverCheckpoint
  BY <1>19 DEF RecoverCheckpoint, Settle, logVars, memVars, storeVars
<1>20. CASE Start
  BY <1>20 DEF Start, logVars, memVars, storeVars
<1>21. CASE RecoverFails
  BY <1>21 DEF RecoverFails, FreshMemory, Die, logVars, memVars, storeVars
<1>22. CASE CloseQueue
  BY <1>22 DEF CloseQueue, logVars, memVars, storeVars
<1>23. CASE Shutdown
  BY <1>23 DEF Shutdown, FreshMemory, Die, logVars, memVars, storeVars
<1>24. CASE Crash
  BY <1>24 DEF Crash, FreshMemory, ProcessGone, Die, logVars, memVars, storeVars
<1>25. CASE \E n \in durable..last : PowerLoss(n)
  BY <1>25 DEF PowerLoss, FreshMemory, LosePowerTo, logVars, memVars, storeVars
<1>26. CASE UNCHANGED vars
  BY <1>26 DEF vars, logVars, memVars, storeVars
<1> QED
  BY <1>1, <1>2, <1>3, <1>4, <1>5, <1>6, <1>7, <1>8, <1>9, <1>10, <1>11, <1>12, <1>13,
     <1>14, <1>15, <1>16, <1>17, <1>18, <1>19, <1>20, <1>21, <1>22, <1>23, <1>24, <1>25,
     <1>26 DEF Next, Writer, Startup

\* Recover's cursor passes a record only after the store has it.
LEMMA RecoveredStep ==
    ASSUME TypeOK, RecoveredToCursor, [Next]_vars
    PROVE  RecoveredToCursor'
<1> USE DEF TypeOK, LogTypeOK, RecoveredToCursor
<1>1. CASE \E e \in Payloads : Refuse(e)
  BY <1>1 DEF Refuse, Offer, logVars, memVars, storeVars
<1>2. CASE \E e \in Payloads : LogEvent(e)
  BY <1>2 DEF LogEvent, Offer, Accept, logVars, memVars, storeVars
<1>3. CASE \E e \in Payloads : LogEventFails(e)
  BY <1>3 DEF LogEventFails, Offer, Harden, logVars, memVars, storeVars
<1>4. CASE \E e \in Payloads : CrashLogging(e)
  BY <1>4 DEF CrashLogging, Offer, FreshMemory, ProcessGone, DieAppending, logVars, memVars, storeVars
<1>5. CASE Send
  BY <1>5 DEF Send, logVars, memVars, storeVars
<1>6. CASE Receive
  BY <1>6 DEF Receive, logVars, memVars, storeVars
<1>7. CASE Flush
  BY <1>7 DEF Flush, logVars, memVars, storeVars
<1>8. CASE Exit
  BY <1>8 DEF Exit, logVars, memVars, storeVars
<1>9. CASE SyncLog
  BY <1>9 DEF SyncLog, logVars, memVars, storeVars
<1>10. CASE SyncLogFails
  BY <1>10 DEF SyncLogFails, logVars, memVars, storeVars
<1>11. CASE AppendBatch
  BY <1>11 DEF AppendBatch, logVars, memVars, storeVars
<1>12. CASE AppendBatchFails
  BY <1>12 DEF AppendBatchFails, logVars, memVars, storeVars
<1>13. CASE Checkpoint
  BY <1>13 DEF Checkpoint, Settle, logVars, memVars, storeVars
<1>14. CASE CheckpointFails
  BY <1>14 DEF CheckpointFails, logVars, memVars, storeVars
<1>15. CASE Publish
  BY <1>15 DEF Publish, logVars, memVars, storeVars
<1>16. CASE StoreFlush
  BY <1>16 DEF StoreFlush, logVars, memVars, storeVars
<1>17. CASE Boot
  BY <1>17 DEF Boot, Reopen, logVars, memVars, storeVars
<1>18. CASE RecoverBatch
  <2>1. /\ cursor \in ckpt..last /\ cursor' \in ckpt..last
        /\ \A s \in (ckpt + 1)..cursor : records[s] \in store
    BY <1>18, IngestAssumption DEF RecoverBatch
  <2>2. \A s \in (ckpt + 1)..cursor' : s \in (ckpt + 1)..cursor \/ s \in (cursor + 1)..cursor'
    BY <2>1
  <2>3. store' = store \cup {records[s] : s \in (cursor + 1)..cursor'}
    BY <1>18 DEF RecoverBatch, Commit
  <2>4. \A s \in (ckpt + 1)..cursor' : records[s] \in store'
    BY <2>1, <2>2, <2>3
  <2> QED BY <1>18, <2>1, <2>4 DEF RecoverBatch, logVars
<1>19. CASE RecoverCheckpoint
  <2>1. cursor' = last /\ ckpt' = last /\ last' = last
    BY <1>19 DEF RecoverCheckpoint, Settle
  <2>2. last \in Nat
    OBVIOUS
  <2> QED BY ONLY <2>1, <2>2 DEF RecoveredToCursor
<1>20. CASE Start
  BY <1>20 DEF Start, logVars, memVars, storeVars
<1>21. CASE RecoverFails
  BY <1>21 DEF RecoverFails, FreshMemory, Die, logVars, memVars, storeVars
<1>22. CASE CloseQueue
  BY <1>22 DEF CloseQueue, logVars, memVars, storeVars
<1>23. CASE Shutdown
  BY <1>23 DEF Shutdown, FreshMemory, Die, logVars, memVars, storeVars
<1>24. CASE Crash
  BY <1>24 DEF Crash, FreshMemory, ProcessGone, Die, logVars, memVars, storeVars
<1>25. CASE \E n \in durable..last : PowerLoss(n)
  BY <1>25 DEF PowerLoss, FreshMemory, LosePowerTo, logVars, memVars, storeVars
<1>26. CASE UNCHANGED vars
  BY <1>26 DEF vars, logVars, memVars, storeVars
<1> QED
  BY <1>1, <1>2, <1>3, <1>4, <1>5, <1>6, <1>7, <1>8, <1>9, <1>10, <1>11, <1>12, <1>13,
     <1>14, <1>15, <1>16, <1>17, <1>18, <1>19, <1>20, <1>21, <1>22, <1>23, <1>24, <1>25,
     <1>26 DEF Next, Writer, Startup

\* The lock keeps the order of the queue the order of the log.
LEMMA QueueStep ==
    ASSUME TypeOK, FreshWhenNotServing, QueueInLogOrder, [Next]_vars
    PROVE  QueueInLogOrder'
<1> USE DEF TypeOK, LogTypeOK, QueueInLogOrder
<1>1. CASE \E e \in Payloads : Refuse(e)
  BY <1>1 DEF Refuse, Offer, logVars, memVars, storeVars
<1>2. CASE \E e \in Payloads : LogEvent(e)
  <2>1. PICK e \in Payloads : LogEvent(e)
    BY <1>2
  <2>2. /\ records'[last + 1] = e
        /\ \A s \in (ckpt + 1)..last : records'[s] = records[s]
    BY <2>1, AcceptEffect DEF LogEvent
  <2>3. /\ sending' = [e |-> e, seq |-> last + 1]
        /\ last' = last + 1 /\ UNCHANGED <<ckpt, queue, maxSeq>>
    BY <2>1 DEF LogEvent, Accept
  <2> QED BY <2>2, <2>3
<1>3. CASE \E e \in Payloads : LogEventFails(e)
  BY <1>3 DEF LogEventFails, Offer, Harden, logVars, memVars, storeVars
<1>4. CASE \E e \in Payloads : CrashLogging(e)
  BY <1>4 DEF CrashLogging, Offer, FreshMemory, ProcessGone, DieAppending, logVars, memVars, storeVars
<1>5. CASE Send
  <2>1. /\ queue' = Append(queue, sending) /\ sending' = Nothing
        /\ UNCHANGED <<ckpt, last, records, maxSeq>>
    BY <1>5 DEF Send, logVars
  <2>2. /\ Len(queue) \in Nat /\ Len(queue') = Len(queue) + 1
        /\ queue'[Len(queue) + 1] = sending
        /\ \A i \in 1..Len(queue) : queue'[i] = queue[i]
    BY <2>1
  <2>3. ~LockFree
    BY <1>5 DEF Send
  <2>4. \A i \in 1..Len(queue') : i \in 1..Len(queue) \/ i = Len(queue) + 1
    BY <2>2
  <2>5. \A i \in 1..Len(queue') :
          /\ queue'[i].seq > maxSeq /\ queue'[i].seq \in (ckpt + 1)..last
          /\ records[queue'[i].seq] = queue'[i].e
    BY <2>2, <2>3, <2>4
  <2>6. ASSUME NEW i \in 1..Len(queue'), NEW j \in 1..Len(queue'), i < j
        PROVE  queue'[i].seq < queue'[j].seq
    <3>1. i \in 1..Len(queue)
      BY ONLY <2>6, <2>2
    <3> QED BY <3>1, <2>6, <2>2, <2>3, <2>4
  <2> QED BY <2>1, <2>5, <2>6
<1>6. CASE Receive
  <2>1. queue \in Seq(Item) /\ queue # <<>>
    BY <1>6 DEF Receive
  <2>2. /\ Head(queue) = queue[1] /\ Len(queue) \in Nat \ {0}
        /\ Len(Tail(queue)) = Len(queue) - 1
        /\ \A i \in 1..Len(Tail(queue)) : Tail(queue)[i] = queue[i + 1]
    <3> HIDE DEF Item
    <3> QED BY ONLY <2>1, HeadTail
  <2>3. /\ queue' = Tail(queue) /\ maxSeq' = queue[1].seq
        /\ UNCHANGED <<ckpt, last, records, sending>>
    BY <1>6, <2>2 DEF Receive, logVars
  <2>4. \A i \in 1..Len(queue') : i + 1 \in 1..Len(queue) /\ queue'[i] = queue[i + 1]
    BY <2>2, <2>3
  <2>5. 1 \in 1..Len(queue)
    BY <2>2
  <2>6. maxSeq' <= last' /\ \A i \in 1..Len(queue') : queue'[i].seq > maxSeq'
    BY <2>3, <2>4, <2>5
  <2>7. \A i \in 1..Len(queue') :
            /\ queue'[i].seq \in (ckpt + 1)..last
            /\ records[queue'[i].seq] = queue'[i].e
    BY <2>4
  <2>8. ASSUME NEW i \in 1..Len(queue'), NEW j \in 1..Len(queue'), i < j
        PROVE  queue'[i].seq < queue'[j].seq
    <3>1. /\ i + 1 \in 1..Len(queue) /\ j + 1 \in 1..Len(queue) /\ i + 1 < j + 1
      BY <2>8, <2>4
    <3>2. queue[i + 1].seq < queue[j + 1].seq
      BY <3>1
    <3> QED BY <3>2, <2>4
  <2>9. ~LockFree => /\ sending.seq > maxSeq'
                     /\ \A i \in 1..Len(queue') : queue'[i].seq < sending.seq
    BY <2>3, <2>4, <2>5
  <2> QED BY <2>3, <2>6, <2>7, <2>9, <2>8
<1>7. CASE Flush
  BY <1>7 DEF Flush, logVars, memVars, storeVars
<1>8. CASE Exit
  BY <1>8 DEF Exit, logVars, memVars, storeVars
<1>9. CASE SyncLog
  BY <1>9 DEF SyncLog, logVars, memVars, storeVars
<1>10. CASE SyncLogFails
  BY <1>10 DEF SyncLogFails, logVars, memVars, storeVars
<1>11. CASE AppendBatch
  BY <1>11 DEF AppendBatch, logVars, memVars, storeVars
<1>12. CASE AppendBatchFails
  BY <1>12 DEF AppendBatchFails, logVars, memVars, storeVars
<1>13. CASE Checkpoint
  <2>1. Settle(maxSeq) /\ UNCHANGED <<queue, sending, maxSeq>>
    BY <1>13 DEF Checkpoint
  <2>2. \A s \in (maxSeq + 1)..last : records'[s] = records[s]
    BY <2>1, SettleEffect
  <2>3. ckpt' = maxSeq /\ last' = last
    BY <2>1 DEF Settle
  <2>4. \A i \in 1..Len(queue) :
          /\ queue[i].seq \in (maxSeq + 1)..last
          /\ records'[queue[i].seq] = queue[i].e
    BY <2>2
  <2>5. ~LockFree => /\ sending.seq \in (maxSeq + 1)..last
                     /\ records'[sending.seq] = sending.e
    BY <2>2
  <2> QED BY <2>1, <2>3, <2>4, <2>5
<1>14. CASE CheckpointFails
  BY <1>14 DEF CheckpointFails, logVars, memVars, storeVars
<1>15. CASE Publish
  BY <1>15 DEF Publish, logVars, memVars, storeVars
<1>16. CASE StoreFlush
  BY <1>16 DEF StoreFlush, logVars, memVars, storeVars
<1>17. CASE Boot
  BY <1>17 DEF Boot, Reopen, logVars, memVars, storeVars
<1>18. CASE RecoverBatch
  BY <1>18 DEF RecoverBatch, logVars, memVars, storeVars
<1>19. CASE RecoverCheckpoint
  <2>1. queue' = <<>> /\ sending' = Nothing /\ maxSeq' = 0 /\ last' \in Nat
    BY <1>19 DEF RecoverCheckpoint, memVars, FreshWhenNotServing, Settle
  <2> QED BY <2>1
<1>20. CASE Start
  BY <1>20 DEF Start, logVars, memVars, storeVars
<1>21. CASE RecoverFails
  BY <1>21 DEF RecoverFails, FreshMemory, Die, logVars, memVars, storeVars
<1>22. CASE CloseQueue
  BY <1>22 DEF CloseQueue, logVars, memVars, storeVars
<1>23. CASE Shutdown
  BY <1>23 DEF Shutdown, FreshMemory, Die, logVars, memVars, storeVars
<1>24. CASE Crash
  BY <1>24 DEF Crash, FreshMemory, ProcessGone, Die, logVars, memVars, storeVars
<1>25. CASE \E n \in durable..last : PowerLoss(n)
  BY <1>25 DEF PowerLoss, FreshMemory, LosePowerTo, logVars, memVars, storeVars
<1>26. CASE UNCHANGED vars
  BY <1>26 DEF vars, logVars, memVars, storeVars
<1> QED
  BY <1>1, <1>2, <1>3, <1>4, <1>5, <1>6, <1>7, <1>8, <1>9, <1>10, <1>11, <1>12, <1>13,
     <1>14, <1>15, <1>16, <1>17, <1>18, <1>19, <1>20, <1>21, <1>22, <1>23, <1>24, <1>25,
     <1>26 DEF Next, Writer, Startup

\* The checkpoint can only move over records that reached the store.
LEMMA SkipStep ==
    ASSUME TypeOK, FreshWhenNotServing, QueueInLogOrder, NothingSkipped, [Next]_vars
    PROVE  NothingSkipped'
<1> USE DEF TypeOK, LogTypeOK, NothingSkipped
<1>1. CASE \E e \in Payloads : Refuse(e)
  BY <1>1 DEF Refuse, Offer, logVars, memVars, storeVars
<1>2. CASE \E e \in Payloads : LogEvent(e)
  <2>1. PICK e \in Payloads : LogEvent(e)
    BY <1>2
  <2>2. \A s \in (ckpt + 1)..last : records'[s] = records[s]
    BY <2>1, AcceptEffect DEF LogEvent
  <2>3. /\ sending' = [e |-> e, seq |-> last + 1] /\ LockFree /\ last' = last + 1
        /\ UNCHANGED <<ckpt, queue, maxSeq, batch, store, writer, stalled, phase>>
    BY <2>1 DEF LogEvent, Accept, storeVars
  <2>4. maxSeq <= last
    BY DEF QueueInLogOrder
  <2>5. \A s \in (ckpt + 1)..maxSeq : s \in (ckpt + 1)..last
    BY <2>4
  <2>6. ~LockFree' /\ sending'.seq = last + 1
    BY <2>3
  <2>7. ASSUME Serving, ~stalled
        PROVE  /\ \A s \in (ckpt + 1)..maxSeq : records'[s] \in store \cup EventsOf(batch)
               /\ \A s \in (ckpt + 1)..(last + 1) : s > maxSeq =>
                     s = last + 1 \/ \E i \in 1..Len(queue) : queue[i].seq = s
    <3>1. \A s \in (ckpt + 1)..(last + 1) : s = last + 1 \/ s \in (ckpt + 1)..last
      OBVIOUS
    <3> QED BY <2>2, <2>3, <2>5, <2>7, <3>1
  <2> QED BY <2>3, <2>6, <2>7
<1>3. CASE \E e \in Payloads : LogEventFails(e)
  BY <1>3 DEF LogEventFails, Offer, Harden, logVars, memVars, storeVars
<1>4. CASE \E e \in Payloads : CrashLogging(e)
  BY <1>4 DEF CrashLogging, Offer, FreshMemory, ProcessGone, DieAppending, logVars, memVars, storeVars
<1>5. CASE Send
  <2>1. /\ queue' = Append(queue, sending)
        /\ UNCHANGED <<ckpt, last, records, maxSeq, batch, store, writer, stalled, phase>>
    BY <1>5 DEF Send, logVars, storeVars
  <2>2. /\ Len(queue') = Len(queue) + 1 /\ queue'[Len(queue) + 1] = sending
        /\ \A i \in 1..Len(queue) : i \in 1..Len(queue') /\ queue'[i] = queue[i]
        /\ Len(queue) + 1 \in 1..Len(queue')
    BY <2>1
  <2> QED BY <2>1, <2>2
<1>6. CASE Receive
  <2>1. queue \in Seq(Item) /\ queue # <<>>
    BY <1>6 DEF Receive
  <2>2. /\ Head(queue) = queue[1] /\ Head(queue) \in Item /\ Len(queue) \in Nat \ {0}
        /\ Len(Tail(queue)) = Len(queue) - 1
        /\ \A i \in 1..Len(Tail(queue)) : Tail(queue)[i] = queue[i + 1]
    <3> HIDE DEF Item
    <3>1. queue[1] \in Item /\ Head(queue) \in Item
      BY ONLY <2>1, HeadTail
    <3> QED BY ONLY <2>1, <3>1, HeadTail
  <2>3. /\ queue' = Tail(queue) /\ maxSeq' = queue[1].seq /\ maxSeq < queue[1].seq
        /\ queue[1].seq \in (ckpt + 1)..last
        /\ UNCHANGED <<ckpt, last, records, sending, store, stalled, phase>>
        /\ writer' # "publish"
    BY <1>6, <2>2 DEF Receive, logVars, storeVars, QueueInLogOrder
  <2>4. EventsOf(batch') = EventsOf(batch) \cup {queue[1].e}
    <3>1. batch \in Seq(Payloads) /\ queue[1].e \in Payloads /\ batch' = Append(batch, queue[1].e)
      BY <1>6, <2>2 DEF Receive
    <3> QED BY ONLY <3>1, EventsOfAppend
  <2>5. records[queue[1].seq] = queue[1].e
    BY <2>2 DEF QueueInLogOrder
  <2>6. \A i \in 1..Len(queue) : queue[i].seq > maxSeq' => i # 1 /\ i - 1 \in 1..Len(queue') /\ queue'[i - 1] = queue[i]
    BY <2>2, <2>3
  <2>7. \A i \in 1..Len(queue) : queue[i].seq <= maxSeq' => i = 1
    BY <2>2, <2>3 DEF QueueInLogOrder
  <2>8. ~LockFree => sending.seq > maxSeq'
    BY <2>2, <2>3 DEF QueueInLogOrder
  <2>9. ASSUME Serving, ~stalled
        PROVE  /\ \A s \in (ckpt + 1)..maxSeq' : records[s] \in store \cup EventsOf(batch')
               /\ \A s \in (ckpt + 1)..last : s > maxSeq' =>
                     \/ \E i \in 1..Len(queue') : queue'[i].seq = s
                     \/ ~LockFree /\ sending.seq = s
    <3>1. ASSUME NEW s \in (ckpt + 1)..maxSeq'
          PROVE  records[s] \in store \cup EventsOf(batch')
      <4>1. CASE s <= maxSeq
        BY <4>1, <2>4, <2>9
      <4>2. CASE s > maxSeq
        <5>1. \/ \E i \in 1..Len(queue) : queue[i].seq = s
              \/ ~LockFree /\ sending.seq = s
          BY <4>2, <2>3, <2>9
        <5>2. s <= maxSeq'
          BY <2>3
        <5>3. ~(~LockFree /\ sending.seq = s)
          BY <5>2, <2>8, <2>3
        <5>4. PICK i \in 1..Len(queue) : queue[i].seq = s
          BY <5>1, <5>3
        <5>5. i = 1
          BY <5>2, <5>4, <2>7
        <5>6. s = queue[1].seq
          BY <5>4, <5>5
        <5> QED BY <5>6, <2>4, <2>5
      <4> QED BY <4>1, <4>2, <2>3
    <3>2. ASSUME NEW s \in (ckpt + 1)..last, s > maxSeq'
          PROVE  \/ \E i \in 1..Len(queue') : queue'[i].seq = s
                 \/ ~LockFree /\ sending.seq = s
      <4>1. s > maxSeq
        BY <3>2, <2>3
      <4>2. CASE \E i \in 1..Len(queue) : queue[i].seq = s
        BY <4>2, <3>2, <2>6
      <4> QED BY <4>1, <4>2, <2>9
    <3> QED BY <3>1, <3>2
  <2> QED BY <2>3, <2>9
<1>7. CASE Flush
  BY <1>7 DEF Flush, logVars, memVars, storeVars
<1>8. CASE Exit
  BY <1>8 DEF Exit, logVars, memVars, storeVars
<1>9. CASE SyncLog
  BY <1>9 DEF SyncLog, logVars, memVars, storeVars
<1>10. CASE SyncLogFails
  BY <1>10 DEF SyncLogFails, logVars, memVars, storeVars
<1>11. CASE AppendBatch
  <2>1. store \subseteq store' /\ (writer' # "publish" \/ stalled)
    BY <1>11 DEF AppendBatch, Commit
  <2>2. UNCHANGED <<ckpt, last, records, maxSeq, batch, queue, sending, stalled, phase>>
    BY <1>11 DEF AppendBatch, logVars
  <2>3. store \subseteq store'
    BY <1>11 DEF AppendBatch, Commit
  <2> QED BY <2>1, <2>2, <2>3
<1>12. CASE AppendBatchFails
  BY <1>12 DEF AppendBatchFails, logVars, memVars, storeVars
<1>13. CASE Checkpoint
  BY <1>13 DEF Checkpoint, Settle, logVars, memVars, storeVars
<1>14. CASE CheckpointFails
  BY <1>14 DEF CheckpointFails, logVars, memVars, storeVars
<1>15. CASE Publish
  BY <1>15 DEF Publish, logVars, memVars, storeVars
<1>16. CASE StoreFlush
  BY <1>16 DEF StoreFlush, logVars, memVars, storeVars
<1>17. CASE Boot
  BY <1>17 DEF Boot, Reopen, logVars, memVars, storeVars
<1>18. CASE RecoverBatch
  BY <1>18 DEF RecoverBatch, logVars, memVars, storeVars
<1>19. CASE RecoverCheckpoint
  BY <1>19 DEF RecoverCheckpoint, Settle, logVars, memVars, storeVars
<1>20. CASE Start
  <2>1. /\ ckpt' = last /\ last' = last /\ maxSeq' = 0 /\ writer' = "select" /\ last \in Nat
    BY <1>20 DEF Start, logVars, memVars, FreshWhenNotServing
  <2> QED BY ONLY <2>1 DEF NothingSkipped
<1>21. CASE RecoverFails
  BY <1>21 DEF RecoverFails, FreshMemory, Die, logVars, memVars, storeVars
<1>22. CASE CloseQueue
  BY <1>22 DEF CloseQueue, logVars, memVars, storeVars
<1>23. CASE Shutdown
  BY <1>23 DEF Shutdown, FreshMemory, Die, logVars, memVars, storeVars
<1>24. CASE Crash
  BY <1>24 DEF Crash, FreshMemory, ProcessGone, Die, logVars, memVars, storeVars
<1>25. CASE \E n \in durable..last : PowerLoss(n)
  BY <1>25 DEF PowerLoss, FreshMemory, LosePowerTo, logVars, memVars, storeVars
<1>26. CASE UNCHANGED vars
  BY <1>26 DEF vars, logVars, memVars, storeVars
<1> QED
  BY <1>1, <1>2, <1>3, <1>4, <1>5, <1>6, <1>7, <1>8, <1>9, <1>10, <1>11, <1>12, <1>13,
     <1>14, <1>15, <1>16, <1>17, <1>18, <1>19, <1>20, <1>21, <1>22, <1>23, <1>24, <1>25,
     <1>26 DEF Next, Writer, Startup

\* What the writer has done is what its program counter says.
LEMMA WriterStep ==
    ASSUME TypeOK, FreshWhenNotServing, QueueInLogOrder, WriterProgress, [Next]_vars
    PROVE  WriterProgress'
<1> USE DEF TypeOK, LogTypeOK, WriterProgress
<1>1. CASE \E e \in Payloads : Refuse(e)
  BY <1>1 DEF Logged, Refuse, Offer, logVars, memVars, storeVars
<1>2. CASE \E e \in Payloads : LogEvent(e)
  <2>1. PICK e \in Payloads : LogEvent(e)
    BY <1>2
  <2>2. Logged' = Logged \cup {e}
    BY <2>1, AcceptEffect DEF LogEvent
  <2>3. durable' \in durable..(last + 1) /\ UNCHANGED <<writer, batch, store, stalled, maxSeq>>
    BY <2>1 DEF LogEvent, Accept, storeVars
  <2> QED BY <2>2, <2>3
<1>3. CASE \E e \in Payloads : LogEventFails(e)
  BY <1>3 DEF Logged, LogEventFails, Offer, Harden, logVars, memVars, storeVars
<1>4. CASE \E e \in Payloads : CrashLogging(e)
  <2>1. FreshMemory
    BY <1>4 DEF Logged, CrashLogging, ProcessGone
  <2> QED BY <2>1, EventsOfEmpty DEF FreshMemory
<1>5. CASE Send
  BY <1>5 DEF Logged, Send, logVars, memVars, storeVars
<1>6. CASE Receive
  <2>1. queue \in Seq(Item) /\ queue # <<>>
    BY <1>6 DEF Logged, Receive
  <2>2. Head(queue) = queue[1] /\ queue[1] \in Item /\ Len(queue) \in Nat \ {0}
    <3> HIDE DEF Item
    <3> QED BY ONLY <2>1, HeadTail
  <2>3. queue[1].seq \in DOMAIN records /\ records[queue[1].seq] = queue[1].e
    BY <2>2 DEF QueueInLogOrder
  <2>4. EventsOf(batch') = EventsOf(batch) \cup {queue[1].e}
    <3>1. batch \in Seq(Payloads) /\ queue[1].e \in Payloads /\ batch' = Append(batch, queue[1].e)
      BY <1>6, <2>2 DEF Receive
    <3> QED BY ONLY <3>1, EventsOfAppend
  <2>5. EventsOf(batch') \subseteq store \cup Logged
    BY <2>3, <2>4 DEF Logged
  <2>6. Logged' = Logged /\ store' = store /\ writer' \in {"select", "sync"}
    BY <1>6 DEF Logged, Receive, logVars, storeVars, Logged
  <2> QED BY <2>5, <2>6
<1>7. CASE Flush
  BY <1>7 DEF Logged, Flush, logVars, memVars, storeVars
<1>8. CASE Exit
  BY <1>8 DEF Logged, Exit, logVars, memVars, storeVars
<1>9. CASE SyncLog
  <2>1. (SyncCovers => durable' = last) /\ maxSeq' <= last /\ writer' = "store"
    BY <1>9 DEF Logged, SyncLog, QueueInLogOrder
  <2>2. Logged' = Logged /\ UNCHANGED <<store, batch>>
    BY <1>9 DEF Logged, SyncLog, Logged, storeVars
  <2> QED BY <2>1, <2>2
<1>10. CASE SyncLogFails
  BY <1>10 DEF Logged, SyncLogFails, logVars, memVars, storeVars
<1>11. CASE AppendBatch
  <2>1. store' = store \cup EventsOf(batch) /\ batch' = batch /\ Logged' = Logged
    BY <1>11 DEF Logged, AppendBatch, Commit, logVars, Logged
  <2>2. writer' = "checkpoint" => ~stalled /\ (SyncCovers => maxSeq <= durable)
    BY <1>11 DEF Logged, AppendBatch
  <2>3. UNCHANGED <<stalled, maxSeq, durable>> /\ writer' \in {"publish", "checkpoint"}
    BY <1>11 DEF Logged, AppendBatch, logVars
  <2> QED BY <2>1, <2>2, <2>3
<1>12. CASE AppendBatchFails
  <2>1. batch' = <<>> /\ writer' = "select"
    BY <1>12 DEF Logged, AppendBatchFails
  <2> QED BY <2>1, EventsOfEmpty
<1>13. CASE Checkpoint
  <2>1. EventsOf(batch) \subseteq store /\ UNCHANGED <<store, batch>> /\ writer' = "publish"
    BY <1>13 DEF Logged, Checkpoint, storeVars
  <2> QED BY <2>1
<1>14. CASE CheckpointFails
  BY <1>14 DEF Logged, CheckpointFails, logVars, memVars, storeVars
<1>15. CASE Publish
  <2>1. batch' = <<>> /\ writer' = "select"
    BY <1>15 DEF Logged, Publish
  <2> QED BY <2>1, EventsOfEmpty
<1>16. CASE StoreFlush
  BY <1>16 DEF Logged, StoreFlush, logVars, memVars, storeVars
<1>17. CASE Boot
  BY <1>17 DEF Logged, Boot, Reopen, logVars, memVars, storeVars
<1>18. CASE RecoverBatch
  <2>1. batch' = <<>> /\ writer' = "select"
    BY <1>18 DEF Logged, RecoverBatch, memVars, FreshWhenNotServing
  <2> QED BY <2>1, EventsOfEmpty
<1>19. CASE RecoverCheckpoint
  <2>1. batch' = <<>> /\ writer' = "select"
    BY <1>19 DEF Logged, RecoverCheckpoint, memVars, FreshWhenNotServing
  <2> QED BY <2>1, EventsOfEmpty
<1>20. CASE Start
  BY <1>20 DEF Logged, Start, logVars, memVars, storeVars
<1>21. CASE RecoverFails
  <2>1. FreshMemory
    BY <1>21 DEF Logged, RecoverFails
  <2> QED BY <2>1, EventsOfEmpty DEF FreshMemory
<1>22. CASE CloseQueue
  BY <1>22 DEF Logged, CloseQueue, logVars, memVars, storeVars
<1>23. CASE Shutdown
  <2>1. FreshMemory
    BY <1>23 DEF Logged, Shutdown
  <2> QED BY <2>1, EventsOfEmpty DEF FreshMemory
<1>24. CASE Crash
  <2>1. FreshMemory
    BY <1>24 DEF Logged, Crash, ProcessGone
  <2> QED BY <2>1, EventsOfEmpty DEF FreshMemory
<1>25. CASE \E n \in durable..last : PowerLoss(n)
  <2>1. FreshMemory
    BY <1>25 DEF Logged, PowerLoss
  <2> QED BY <2>1, EventsOfEmpty DEF FreshMemory
<1>26. CASE UNCHANGED vars
  BY <1>26 DEF Logged, vars, logVars, memVars, storeVars
<1> QED
  BY <1>1, <1>2, <1>3, <1>4, <1>5, <1>6, <1>7, <1>8, <1>9, <1>10, <1>11, <1>12, <1>13,
     <1>14, <1>15, <1>16, <1>17, <1>18, <1>19, <1>20, <1>21, <1>22, <1>23, <1>24, <1>25,
     <1>26 DEF Next, Writer, Startup

\* Only the holder of enqMu adds to the channel or closes it.
LEMMA SlotStep ==
    ASSUME TypeOK, SlotGuaranteed, [Next]_vars
    PROVE  SlotGuaranteed'
<1> USE DEF TypeOK, SlotGuaranteed
<1>1. CASE \E e \in Payloads : Refuse(e)
  BY <1>1 DEF Refuse, Offer, logVars, memVars, storeVars
<1>2. CASE \E e \in Payloads : LogEvent(e)
  BY <1>2 DEF LogEvent, Offer, Accept, logVars, memVars, storeVars
<1>3. CASE \E e \in Payloads : LogEventFails(e)
  BY <1>3 DEF LogEventFails, Offer, Harden, logVars, memVars, storeVars
<1>4. CASE \E e \in Payloads : CrashLogging(e)
  BY <1>4 DEF CrashLogging, Offer, FreshMemory, ProcessGone, DieAppending, logVars, memVars, storeVars
<1>5. CASE Send
  BY <1>5 DEF Send, logVars, memVars, storeVars
<1>6. CASE Receive
  <2>1. queue \in Seq(Item) /\ queue # <<>>
    BY <1>6 DEF Receive
  <2>2. Len(Tail(queue)) = Len(queue) - 1 /\ Len(queue) \in Nat
    BY ONLY <2>1, HeadTail
  <2> QED BY <1>6, <2>2, IngestAssumption DEF Receive
<1>7. CASE Flush
  BY <1>7 DEF Flush, logVars, memVars, storeVars
<1>8. CASE Exit
  BY <1>8 DEF Exit, logVars, memVars, storeVars
<1>9. CASE SyncLog
  BY <1>9 DEF SyncLog, logVars, memVars, storeVars
<1>10. CASE SyncLogFails
  BY <1>10 DEF SyncLogFails, logVars, memVars, storeVars
<1>11. CASE AppendBatch
  BY <1>11 DEF AppendBatch, logVars, memVars, storeVars
<1>12. CASE AppendBatchFails
  BY <1>12 DEF AppendBatchFails, logVars, memVars, storeVars
<1>13. CASE Checkpoint
  BY <1>13 DEF Checkpoint, Settle, logVars, memVars, storeVars
<1>14. CASE CheckpointFails
  BY <1>14 DEF CheckpointFails, logVars, memVars, storeVars
<1>15. CASE Publish
  BY <1>15 DEF Publish, logVars, memVars, storeVars
<1>16. CASE StoreFlush
  BY <1>16 DEF StoreFlush, logVars, memVars, storeVars
<1>17. CASE Boot
  BY <1>17 DEF Boot, Reopen, logVars, memVars, storeVars
<1>18. CASE RecoverBatch
  BY <1>18 DEF RecoverBatch, logVars, memVars, storeVars
<1>19. CASE RecoverCheckpoint
  BY <1>19 DEF RecoverCheckpoint, Settle, logVars, memVars, storeVars
<1>20. CASE Start
  BY <1>20 DEF Start, logVars, memVars, storeVars
<1>21. CASE RecoverFails
  BY <1>21 DEF RecoverFails, FreshMemory, Die, logVars, memVars, storeVars
<1>22. CASE CloseQueue
  BY <1>22 DEF CloseQueue, logVars, memVars, storeVars
<1>23. CASE Shutdown
  BY <1>23 DEF Shutdown, FreshMemory, Die, logVars, memVars, storeVars
<1>24. CASE Crash
  BY <1>24 DEF Crash, FreshMemory, ProcessGone, Die, logVars, memVars, storeVars
<1>25. CASE \E n \in durable..last : PowerLoss(n)
  BY <1>25 DEF PowerLoss, FreshMemory, LosePowerTo, logVars, memVars, storeVars
<1>26. CASE UNCHANGED vars
  BY <1>26 DEF vars, logVars, memVars, storeVars
<1> QED
  BY <1>1, <1>2, <1>3, <1>4, <1>5, <1>6, <1>7, <1>8, <1>9, <1>10, <1>11, <1>12, <1>13,
     <1>14, <1>15, <1>16, <1>17, <1>18, <1>19, <1>20, <1>21, <1>22, <1>23, <1>24, <1>25,
     <1>26 DEF Next, Writer, Startup


\* What the store and the log hold came from Enqueue, and nothing of it was refused.
LEMMA OfferedStep ==
    ASSUME Inv, [Next]_vars
    PROVE  OfferedOnly' /\ RefusedNeverStored'
<1> DEFINE Held == store \cup Logged
<1>0. /\ Held \subseteq offered /\ refused \cap Held = {} /\ refused \subseteq offered
      /\ EventsOf(batch) \subseteq Held /\ flushed \subseteq store /\ LogTypeOK
  BY DEF Inv, TypeOK, OfferedOnly, RefusedNeverStored, WriterProgress
<1>1. CASE \/ Receive \/ Flush \/ Exit \/ SyncLogFails \/ AppendBatchFails \/ CheckpointFails
           \/ Publish \/ StoreFlush \/ Start \/ CloseQueue \/ Send \/ UNCHANGED vars
  <2>1. UNCHANGED <<records, store, refused, offered>>
    BY <1>1 DEF Receive, Flush, Exit, SyncLogFails, AppendBatchFails, CheckpointFails, Publish,
                StoreFlush, Start, CloseQueue, Send, vars, logVars, storeVars, histVars
  <2> QED BY <2>1, <1>0 DEF OfferedOnly, RefusedNeverStored, Logged
<1>2. CASE SyncLog \/ Boot
  <2>1. UNCHANGED <<records, store, refused, offered>>
    BY <1>2 DEF SyncLog, Boot, Reopen, storeVars, histVars
  <2> QED BY <2>1, <1>0 DEF OfferedOnly, RefusedNeverStored, Logged
<1>3. CASE RecoverFails \/ Shutdown \/ Crash
  <2>1. UNCHANGED <<records, store, refused, offered>>
    BY <1>3 DEF RecoverFails, Shutdown, Crash, ProcessGone, Die, storeVars, histVars
  <2> QED BY <2>1, <1>0 DEF OfferedOnly, RefusedNeverStored, Logged
<1>4. CASE \E e \in Payloads : Refuse(e) \/ LogEventFails(e)
  <2>1. PICK e \in Payloads : Refuse(e) \/ LogEventFails(e)
    BY <1>4
  <2>2. /\ e \notin offered /\ offered' = offered \cup {e} /\ refused' = refused \cup {e}
        /\ UNCHANGED <<records, store>>
    BY <2>1 DEF Refuse, LogEventFails, Offer, Harden, logVars, storeVars
  <2> QED BY <2>2, <1>0 DEF OfferedOnly, RefusedNeverStored, Logged
<1>5. CASE \E e \in Payloads : LogEvent(e) \/ CrashLogging(e)
  <2>1. PICK e \in Payloads : LogEvent(e) \/ CrashLogging(e)
    BY <1>5
  <2>2. Logged' = Logged \cup {e}
    BY <2>1, <1>0, AcceptEffect, DieAppendingEffect DEF LogEvent, CrashLogging
  <2>3. /\ e \notin offered /\ offered' = offered \cup {e}
        /\ UNCHANGED <<refused, store>>
    BY <2>1 DEF LogEvent, CrashLogging, Offer, ProcessGone, storeVars
  <2> QED BY <2>2, <2>3, <1>0 DEF OfferedOnly, RefusedNeverStored
<1>6. CASE AppendBatch
  <2>1. /\ store' = store \cup EventsOf(batch) /\ Logged' = Logged
        /\ UNCHANGED <<refused, offered>>
    BY <1>6 DEF AppendBatch, Commit, Logged, logVars, histVars
  <2> QED BY <2>1, <1>0 DEF OfferedOnly, RefusedNeverStored
<1>7. CASE RecoverBatch
  <2>1. /\ store' = store \cup {records[s] : s \in (cursor + 1)..cursor'}
        /\ Logged' = Logged /\ UNCHANGED <<refused, offered>>
    BY <1>7 DEF RecoverBatch, Commit, Logged, logVars, histVars
  <2>2. cursor \in ckpt..last /\ cursor' \in ckpt..last
    BY <1>7, IngestAssumption DEF RecoverBatch, Inv, RecoveredToCursor, LogTypeOK, TypeOK
  <2>3. \A s \in (cursor + 1)..cursor' : s \in DOMAIN records
    BY <2>2, <1>0 DEF LogTypeOK
  <2>4. {records[s] : s \in (cursor + 1)..cursor'} \subseteq Logged
    BY <2>3 DEF Logged
  <2> QED BY <2>1, <2>4, <1>0 DEF OfferedOnly, RefusedNeverStored
<1>8. CASE Checkpoint \/ RecoverCheckpoint
  <2>1. \E n \in Nat : Settle(n)
    BY <1>8, <1>0 DEF Checkpoint, RecoverCheckpoint, Inv, TypeOK, LogTypeOK
  <2>2. Logged' \subseteq Logged
    BY <2>1, <1>0, SettleEffect
  <2>3. UNCHANGED <<refused, offered, store>>
    BY <1>8 DEF Checkpoint, RecoverCheckpoint, storeVars, histVars
  <2> QED BY <2>2, <2>3, <1>0 DEF OfferedOnly, RefusedNeverStored
<1>9. CASE \E n \in durable..last : PowerLoss(n)
  <2>1. PICK n \in durable..last : PowerLoss(n)
    BY <1>9
  <2>2. Logged' \subseteq Logged
    BY <2>1, <1>0, LosePowerEffect DEF PowerLoss
  <2>3. store' = flushed /\ UNCHANGED <<refused, offered>>
    BY <2>1 DEF PowerLoss
  <2> QED BY <2>2, <2>3, <1>0 DEF OfferedOnly, RefusedNeverStored
<1> QED
  BY <1>1, <1>2, <1>3, <1>4, <1>5, <1>6, <1>7, <1>8, <1>9 DEF Next, Writer, Startup

\* A store that syncs its commits has nothing left to flush.
LEMMA FlushedStep ==
    ASSUME Inv, [Next]_vars, StoreSyncs
    PROVE  flushed' = store'
<1>0. flushed = store
  BY DEF Inv
<1>1. CASE AppendBatch \/ RecoverBatch
  BY <1>1 DEF AppendBatch, RecoverBatch, Commit
<1>2. CASE StoreFlush \/ \E n \in durable..last : PowerLoss(n)
  BY <1>2, <1>0 DEF StoreFlush, PowerLoss
<1>3. CASE ~(AppendBatch \/ RecoverBatch \/ StoreFlush \/ \E n \in durable..last : PowerLoss(n))
  <2>1. UNCHANGED <<store, flushed>>
    BY <1>3 DEF Next, Writer, Startup, Refuse, LogEvent, LogEventFails, CrashLogging, ProcessGone,
                Send, Receive, Flush, Exit, SyncLog, SyncLogFails, AppendBatchFails, Checkpoint,
                CheckpointFails, Publish, Boot, RecoverCheckpoint, Start, RecoverFails, CloseQueue,
                Shutdown, Crash, vars, storeVars
  <2> QED BY <2>1, <1>0
<1> QED BY <1>1, <1>2, <1>3

\* While no power loss takes back a commit, an accepted event stays in the store
\* or in the log, and a published one in the store.
LEMMA SurvivesStep ==
    ASSUME Inv, [Next]_vars, StoreKeepsCommits
    PROVE  AcceptedSurvives' /\ PublishedStored'
<1> DEFINE Held == store \cup Logged
<1>0. /\ owed \subseteq Held /\ published \subseteq store /\ LogTypeOK /\ flushed \subseteq store
      /\ (writer \in {"checkpoint", "publish"} => EventsOf(batch) \subseteq store)
  BY DEF Inv, TypeOK, WriterProgress, AcceptedSurvives, PublishedStored
<1>1. CASE \/ Receive \/ Flush \/ Exit \/ SyncLogFails \/ AppendBatchFails \/ CheckpointFails
           \/ StoreFlush \/ Start \/ CloseQueue \/ SyncLog \/ Boot \/ UNCHANGED vars
           \/ \E e \in Payloads : Refuse(e) \/ LogEventFails(e)
  <2>1. UNCHANGED <<records, store, owed, published>>
    BY <1>1 DEF Receive, Flush, Exit, SyncLogFails, AppendBatchFails, CheckpointFails, StoreFlush,
                Start, CloseQueue, SyncLog, Boot, Reopen, Refuse, LogEventFails, Harden,
                vars, logVars, storeVars, histVars
  <2> QED BY <2>1, <1>0 DEF AcceptedSurvives, PublishedStored, Logged
<1>2. CASE RecoverFails \/ Shutdown \/ Crash
  <2>1. UNCHANGED <<records, store, owed, published>>
    BY <1>2 DEF RecoverFails, Shutdown, Crash, ProcessGone, Die, storeVars, histVars
  <2> QED BY <2>1, <1>0 DEF AcceptedSurvives, PublishedStored, Logged
<1>3. CASE Send
  <2>1. /\ owed' = owed \cup {sending.e} /\ ~LockFree
        /\ UNCHANGED <<records, store, published>>
    BY <1>3 DEF Send, logVars, storeVars
  <2>2. sending.e \in Logged
    BY <2>1 DEF Inv, TypeOK, LogTypeOK, QueueInLogOrder, Logged
  <2> QED BY <2>1, <2>2, <1>0 DEF AcceptedSurvives, PublishedStored, Logged
<1>4. CASE \E e \in Payloads : LogEvent(e) \/ CrashLogging(e)
  <2>1. PICK e \in Payloads : LogEvent(e) \/ CrashLogging(e)
    BY <1>4
  <2>2. Logged' = Logged \cup {e}
    BY <2>1, <1>0, AcceptEffect, DieAppendingEffect DEF LogEvent, CrashLogging
  <2>3. UNCHANGED <<store, owed, published>>
    BY <2>1 DEF LogEvent, CrashLogging, ProcessGone, storeVars
  <2> QED BY <2>2, <2>3, <1>0 DEF AcceptedSurvives, PublishedStored
<1>5. CASE AppendBatch \/ RecoverBatch
  <2>1. store \subseteq store' /\ UNCHANGED <<records, owed, published>>
    BY <1>5 DEF AppendBatch, RecoverBatch, Commit, logVars, histVars
  <2> QED BY <2>1, <1>0 DEF AcceptedSurvives, PublishedStored, Logged
<1>6. CASE Publish
  <2>1. /\ published' = published \cup EventsOf(batch) /\ writer = "publish"
        /\ UNCHANGED <<records, store, owed>>
    BY <1>6 DEF Publish, logVars, histVars
  <2> QED BY <2>1, <1>0 DEF AcceptedSurvives, PublishedStored, Logged
<1>7. CASE Checkpoint
  <2>1. Settle(maxSeq) /\ maxSeq \in Nat /\ UNCHANGED <<store, owed, published>>
    BY <1>7 DEF Checkpoint, storeVars, histVars, Inv, TypeOK
  <2>2. \A x \in Logged : x \in Logged' \/ \E s \in (ckpt + 1)..maxSeq : records[s] = x
    BY <2>1, <1>0, SettleEffect
  <2>3. \A s \in (ckpt + 1)..maxSeq : records[s] \in store
    BY <1>7, <1>0 DEF Checkpoint, Inv, NothingSkipped, WriterProgress
  <2> QED BY <2>1, <2>2, <2>3, <1>0 DEF AcceptedSurvives, PublishedStored
<1>8. CASE RecoverCheckpoint
  <2>1. Settle(last) /\ last \in Nat /\ UNCHANGED <<store, owed, published>>
    BY <1>8, <1>0 DEF RecoverCheckpoint, storeVars, histVars, LogTypeOK
  <2>2. \A x \in Logged : x \in Logged' \/ \E s \in (ckpt + 1)..last : records[s] = x
    BY <2>1, <1>0, SettleEffect
  <2>3. \A s \in (ckpt + 1)..last : records[s] \in store
    BY <1>8 DEF RecoverCheckpoint, Inv, RecoveredToCursor
  <2> QED BY <2>1, <2>2, <2>3, <1>0 DEF AcceptedSurvives, PublishedStored
<1>9. CASE \E n \in durable..last : PowerLoss(n)
  <2>1. PICK n \in durable..last : PowerLoss(n)
    BY <1>9
  <2>2. losses < MaxLosses /\ losses \in Nat
    BY <2>1 DEF PowerLoss, Inv, TypeOK
  <2>3. StoreSyncs
    BY <2>2 DEF StoreKeepsCommits
  <2>4. store' = store /\ published' = published
    BY <2>1, <2>3 DEF PowerLoss, Inv
  <2>5. owed' = owed \ {records[s] : s \in {t \in DOMAIN records : t > durable}}
    BY <2>1 DEF PowerLoss
  <2>6. \A s \in (ckpt + 1)..durable : records[s] \in Logged'
    BY <2>1, <1>0, LosePowerEffect DEF PowerLoss
  <2>7. ASSUME NEW e \in owed', e \notin store'
        PROVE  e \in Logged'
    <3>1. PICK s \in DOMAIN records : e = records[s]
      BY <2>4, <2>5, <2>7, <1>0 DEF Logged
    <3>2. ~(s > durable)
      BY <3>1, <2>5, <2>7
    <3>3. s \in (ckpt + 1)..durable
      BY <3>1, <3>2, <1>0 DEF LogTypeOK
    <3> QED BY <3>1, <3>3, <2>6
  <2> QED BY <2>4, <2>7, <1>0 DEF AcceptedSurvives, PublishedStored
<1> QED
  BY <1>1, <1>2, <1>3, <1>4, <1>5, <1>6, <1>7, <1>8, <1>9 DEF Next, Writer, Startup

-----------------------------------------------------------------------------
(* The theorems. *)

\* The first state satisfies the invariant.
LEMMA InitInv == Init => Inv
<1> SUFFICES ASSUME Init PROVE Inv
  OBVIOUS
<1> USE IngestAssumption DEF Init, LogInit
<1>1. TypeOK
  <2>1. open \in BOOLEAN /\ closed \in BOOLEAN /\ stalled \in BOOLEAN
    <3>1. open \in BOOLEAN
      OBVIOUS
    <3>2. closed \in BOOLEAN
      OBVIOUS
    <3>3. stalled \in BOOLEAN
      OBVIOUS
    <3> QED BY <3>1, <3>2, <3>3
  <2>2. records \in [(ckpt + 1)..last -> Payloads]
    OBVIOUS
  <2>3. ckpt \in Nat /\ last \in Nat /\ ckpt <= last /\ durable \in ckpt..last
    OBVIOUS
  <2>4. LogTypeOK
    BY ONLY <2>1, <2>2, <2>3 DEF LogTypeOK
  <2>5. queue \in Seq(Item) /\ batch \in Seq(Payloads)
    OBVIOUS
  <2> QED BY <2>1, <2>4, <2>5 DEF TypeOK, WriterStates
<1>2. EventsOf(batch) = {} /\ Logged = {}
  BY EventsOfEmpty DEF Logged
<1>3. FreshWhenNotServing /\ RecoveredToCursor
  BY DEF FreshWhenNotServing, RecoveredToCursor
<1>4. QueueInLogOrder /\ SlotGuaranteed
  BY DEF QueueInLogOrder, SlotGuaranteed
<1>5. NothingSkipped /\ WriterProgress
  BY <1>2 DEF NothingSkipped, WriterProgress
<1>6. OfferedOnly /\ RefusedNeverStored /\ AcceptedSurvives /\ PublishedStored
  BY <1>2 DEF OfferedOnly, RefusedNeverStored, AcceptedSurvives, PublishedStored
<1> QED BY <1>1, <1>3, <1>4, <1>5, <1>6 DEF Inv

\* Every step keeps it.
LEMMA NextInv == Inv /\ [Next]_vars => Inv'
<1> SUFFICES ASSUME Inv, [Next]_vars PROVE Inv'
  OBVIOUS
<1>1. TypeOK'
  BY TypeStep
<1>2. FreshWhenNotServing' /\ RecoveredToCursor' /\ QueueInLogOrder'
  BY FreshStep, RecoveredStep, QueueStep DEF Inv
<1>3. NothingSkipped' /\ WriterProgress' /\ SlotGuaranteed'
  BY SkipStep, WriterStep, SlotStep DEF Inv
<1>4. OfferedOnly' /\ RefusedNeverStored'
  BY OfferedStep
<1>5. StoreSyncs => flushed' = store'
  BY FlushedStep
<1>6. StoreKeepsCommits => AcceptedSurvives' /\ PublishedStored'
  BY SurvivesStep
<1>7. StoreKeepsCommits' = StoreKeepsCommits
  BY DEF StoreKeepsCommits
<1> QED BY <1>1, <1>2, <1>3, <1>4, <1>5, <1>6, <1>7 DEF Inv

\* Inv holds in every reachable state.
THEOREM Invariance == Spec => []Inv
<1>1. Init => Inv
  BY InitInv
<1>2. Inv /\ [Next]_vars => Inv'
  BY NextInv
<1> QED BY <1>1, <1>2, PTL DEF Spec

\* Every reachable state is of the right type.
THEOREM TypeCorrect == Spec => []TypeOK
<1>1. Inv => TypeOK
  BY DEF Inv
<1> QED BY <1>1, Invariance, PTL

\* No accepted event is lost, whatever fails and whenever the process dies, as
\* long as the store keeps what it has committed.
THEOREM Durability ==
    ASSUME StoreKeepsCommits
    PROVE  Spec => []AcceptedSurvives
<1>1. Inv => AcceptedSurvives
  BY DEF Inv
<1> QED BY <1>1, Invariance, PTL

\* A refused event is never recovered, with no assumption on the store.
THEOREM RefusalIsFinal == Spec => []RefusedNeverStored
<1>1. Inv => RefusedNeverStored
  BY DEF Inv
<1> QED BY <1>1, Invariance, PTL

\* The send in Enqueue never blocks and never meets a closed channel.
THEOREM SendNeverBlocks == Spec => []SlotGuaranteed
<1>1. Inv => SlotGuaranteed
  BY DEF Inv
<1> QED BY <1>1, Invariance, PTL

\* Live tail shows nothing the store does not have.
THEOREM TailShowsStored ==
    ASSUME StoreKeepsCommits
    PROVE  Spec => []PublishedStored
<1>1. Inv => PublishedStored
  BY DEF Inv
<1> QED BY <1>1, Invariance, PTL

\* The writer never moves the checkpoint past what it has fsynced.
THEOREM SyncBeforeCheckpoint ==
    ASSUME SyncCovers
    PROVE  Spec => CheckpointBehindSync
<1>1. ASSUME Inv, [Next]_vars, writer = "checkpoint", ckpt' # ckpt
      PROVE  ckpt' <= durable
  <2>1. /\ Serving /\ ~stalled /\ maxSeq <= durable /\ open /\ durable \in Int /\ ckpt \in Int
    BY <1>1 DEF Inv, TypeOK, LogTypeOK, FreshWhenNotServing, WriterProgress
  <2>2. Checkpoint
    BY <1>1, <2>1 DEF Next, Writer, Startup, Refuse, LogEvent, LogEventFails, CrashLogging,
          Accept, Harden, DieAppending, Send, Receive, Flush, Exit, SyncLog, SyncLogFails,
          AppendBatch, AppendBatchFails, CheckpointFails, Publish, StoreFlush, Boot,
          RecoverBatch, RecoverCheckpoint, Start, RecoverFails, CloseQueue, Shutdown, Crash, Die,
          PowerLoss, LosePowerTo, vars, logVars
  <2>3. ckpt' = maxSeq
    BY <2>2 DEF Checkpoint, Settle
  <2> QED BY <2>1, <2>3
<1>2. Inv /\ [Next]_vars => (writer = "checkpoint" /\ ckpt' # ckpt => ckpt' <= durable)
  BY <1>1
<1> QED BY <1>2, Invariance, PTL DEF Spec, CheckpointBehindSync

\* A restarted server has applied everything it owes before it serves.
THEOREM RecoveryBeforeService ==
    ASSUME StoreKeepsCommits
    PROVE  Spec => ServesRecovered
<1>1. ASSUME Inv, [Next]_vars, phase # "serving", phase' = "serving"
      PROVE  owed \subseteq store'
  <2>1. Start
    BY <1>1 DEF Next, Writer, Startup, Refuse, LogEvent, LogEventFails, CrashLogging, ProcessGone,
          Offer, Send, Receive, Flush, Exit, SyncLog, SyncLogFails, AppendBatch, AppendBatchFails,
          Checkpoint, CheckpointFails, Publish, StoreFlush, Boot, RecoverBatch,
          RecoverCheckpoint, RecoverFails, CloseQueue, Shutdown, Crash, PowerLoss, vars
  <2>2. ckpt = last /\ store' = store
    BY <2>1 DEF Start, storeVars
  <2>3. Logged = {}
    BY <1>1, <2>2 DEF Logged, Inv, TypeOK, LogTypeOK
  <2>4. owed \subseteq store \cup Logged
    BY <1>1 DEF Inv, AcceptedSurvives
  <2> QED BY <2>2, <2>3, <2>4
<1>2. Inv /\ [Next]_vars => (phase # "serving" /\ phase' = "serving" => owed \subseteq store')
  BY <1>1
<1> QED BY <1>2, Invariance, PTL DEF Spec, ServesRecovered
=============================================================================
