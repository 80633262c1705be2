-------------------------- MODULE Delivery_proofs --------------------------
(***************************************************************************)
(* Machine-checked proofs about delivery from the forwarder's spool to the *)
(* server, for every set of batches, every batch size and every bound on   *)
(* restarts, lost answers, forgotten IDs and spool errors.  Inv, defined   *)
(* in Delivery, is inductive; the safety properties follow from it.        *)
(***************************************************************************)
EXTENDS Delivery, TLAPS

-----------------------------------------------------------------------------
(* What the steps of the spool's log do. *)

\* Append adds the batch at the end and changes no other record (wal.go:130-174).
LEMMA AcceptEffect ==
    ASSUME LogTypeOK, NEW p \in Payloads, Accept(p)
    PROVE  /\ LogTypeOK' /\ open' = open /\ ckpt' = ckpt /\ last' = last + 1
           /\ durable <= durable'
           /\ records'[last + 1] = p
           /\ \A s \in (ckpt + 1)..last : records'[s] = records[s]
<1>1. records' \in [(ckpt + 1)..(last + 1) -> Payloads]
  BY DEF LogTypeOK, Accept, Extended
<1>2. LogTypeOK'
  BY <1>1 DEF LogTypeOK, Accept
<1>3. records'[last + 1] = p /\ \A s \in (ckpt + 1)..last : records'[s] = records[s]
  BY DEF LogTypeOK, Accept, Extended
<1> QED BY <1>2, <1>3 DEF Accept, LogTypeOK

\* A failed append, or a Sync, may harden records and does nothing else.
LEMMA HardenEffect ==
    ASSUME LogTypeOK, Harden
    PROVE  LogTypeOK' /\ durable <= durable' /\ UNCHANGED <<open, ckpt, last, records>>
  BY DEF LogTypeOK, Harden

\* SetCheckpoint forgets the records it covers and no other (wal.go:223-237).
LEMMA SettleEffect ==
    ASSUME LogTypeOK, NEW n \in Nat, Settle(n)
    PROVE  /\ LogTypeOK' /\ open' = open /\ n \in (ckpt + 1)..last
           /\ ckpt' = n /\ last' = last /\ durable <= durable'
           /\ \A s \in (n + 1)..last : records'[s] = records[s]
<1>1. n \in (ckpt + 1)..last /\ ckpt' = n /\ last' = last
  BY DEF Settle
<1>2. records' = [s \in (n + 1)..last |-> records[s]]
  BY DEF Settle, Kept
<1>3. records' \in [(n + 1)..last -> Payloads]
  BY <1>1, <1>2 DEF LogTypeOK
<1>4. durable' \in n..last /\ durable <= durable'
  BY <1>1 DEF Settle, LogTypeOK
<1>5. LogTypeOK'
  BY <1>1, <1>3, <1>4 DEF LogTypeOK, Settle
<1> QED BY <1>1, <1>2, <1>4, <1>5 DEF Settle

\* A power loss takes the newest records and leaves the others as they were.
LEMMA LosePowerEffect ==
    ASSUME LogTypeOK, NEW n \in durable..last, LosePowerTo(n)
    PROVE  /\ LogTypeOK' /\ ~open' /\ ckpt' = ckpt /\ last' = n /\ durable' = n
           /\ \A s \in (ckpt + 1)..n : records'[s] = records[s]
<1>1. n \in Nat /\ ckpt <= n /\ n <= last
  BY DEF LogTypeOK
<1>2. records' = [s \in (ckpt + 1)..n |-> records[s]]
  BY DEF LosePowerTo, Kept
<1>3. records' \in [(ckpt + 1)..n -> Payloads]
  BY <1>1, <1>2 DEF LogTypeOK
<1>4. open' = FALSE /\ ckpt' = ckpt /\ last' = n /\ durable' = n
  BY DEF LosePowerTo
<1>5. LogTypeOK'
  <2>1. open' \in BOOLEAN
    BY <1>4
  <2> QED BY <1>1, <1>3, <1>4, <2>1 DEF LogTypeOK
<1> QED BY <1>2, <1>4, <1>5

\* A process that stops leaves the log as it is.
LEMMA DieEffect ==
    ASSUME LogTypeOK, Die
    PROVE  LogTypeOK' /\ ~open' /\ UNCHANGED <<ckpt, last, records, durable>>
<1>1. open' = FALSE /\ UNCHANGED <<ckpt, last, records, durable>>
  BY DEF Die
<1> QED BY <1>1 DEF LogTypeOK

\* A process that starts finds the log as it was.
LEMMA ReopenEffect ==
    ASSUME LogTypeOK, Reopen
    PROVE  LogTypeOK' /\ open' /\ ~open /\ UNCHANGED <<ckpt, last, records, durable>>
<1>1. ~open /\ open' = TRUE /\ UNCHANGED <<ckpt, last, records, durable>>
  BY DEF Reopen
<1> QED BY <1>1 DEF LogTypeOK

\* A step that leaves the log alone leaves its type alone.
LEMMA LogUnchanged ==
    ASSUME LogTypeOK, UNCHANGED logVars
    PROVE  LogTypeOK' /\ UNCHANGED <<open, ckpt, last, records, durable>>
<1>1. UNCHANGED <<open, ckpt, last, records, durable>>
  BY DEF logVars
<1> QED BY <1>1 DEF LogTypeOK

\* The unacknowledged batches are those past the checkpoint.
LEMMA PendingIs ==
    ASSUME LogTypeOK, NEW b
    PROVE  b \in Pending <=> \E s \in (ckpt + 1)..last : records[s] = b
<1>1. DOMAIN records = (ckpt + 1)..last
  BY DEF LogTypeOK
<1> QED BY <1>1 DEF Pending

\* The same after a step.
LEMMA PendingIsAfter ==
    ASSUME LogTypeOK', NEW b
    PROVE  b \in Pending' <=> \E s \in (ckpt' + 1)..last' : records'[s] = b
<1>1. DOMAIN records' = (ckpt' + 1)..last'
  BY DEF LogTypeOK
<1> QED BY <1>1 DEF Pending

-----------------------------------------------------------------------------
(* Counters of handlers, and the lines they accept. *)

\* One more for b, and no change elsewhere.
LEMMA CountEffect ==
    ASSUME NEW f \in [Payloads -> Nat], NEW b \in Payloads
    PROVE  /\ Count(f, b) \in [Payloads -> Nat]
           /\ Count(f, b)[b] = f[b] + 1
           /\ \A c \in Payloads : c # b => Count(f, b)[c] = f[c]
  BY DEF Count

\* A handler that ends accepts a number of lines, and takes none back.
LEMMA AcceptingEffect ==
    ASSUME NEW n \in Reach, NEW b \in Payloads, accepted \in [Payloads -> 0..Lines]
    PROVE  /\ Accepting(b, n) \in [Payloads -> 0..Lines]
           /\ \A c \in Payloads : accepted[c] = Lines => Accepting(b, n)[c] = Lines
           /\ HandlersFinish => Accepting(b, n)[b] = Lines
           /\ \A c \in Payloads : c # b => Accepting(b, n)[c] = accepted[c]
<1>1. n \in 0..Lines /\ (HandlersFinish => n = Lines) /\ Lines \in Nat
  BY DeliveryAssumption DEF Reach
<1> QED BY <1>1 DEF Accepting

\* Whoever waits for an answer when it is cut off leaves a handler behind.
LEMMA OrphanedEffect ==
    ASSUME Orphaned, orphans \in [Payloads -> Nat], handling \in BOOLEAN,
           handling => batch \in Payloads
    PROVE  /\ orphans' \in [Payloads -> Nat]
           /\ \A b \in Payloads : InHand(b) => orphans'[b] > 0
<1>1. CASE handling
  <2>1. orphans' = Count(orphans, batch) /\ batch \in Payloads
    BY <1>1 DEF Orphaned
  <2>2. /\ Count(orphans, batch) \in [Payloads -> Nat]
        /\ Count(orphans, batch)[batch] = orphans[batch] + 1
        /\ \A c \in Payloads : c # batch => Count(orphans, batch)[c] = orphans[c]
    BY <2>1, CountEffect
  <2> QED BY <2>1, <2>2 DEF InHand
<1>2. CASE ~handling
  BY <1>2 DEF Orphaned, InHand
<1> QED BY <1>1, <1>2

-----------------------------------------------------------------------------
(* Inv is inductive: one lemma for each of its parts. *)

\* Whatever ends the process leaves nothing in the forwarder's memory.
LEMMA OffType ==
    ASSUME TypeOK, Off, handling => batch \in Payloads
    PROVE  /\ phase' \in {"off", "draining", "sending"} /\ cursor' \in Nat
           /\ stopping' \in BOOLEAN /\ final' \in BOOLEAN
           /\ batch' \in Payloads \cup {NoBatch} /\ seq' \in Nat
           /\ outcome' \in {"none", "delivered", "permanent", "buried"}
           /\ dead' \subseteq Payloads /\ seen' \subseteq Payloads /\ handling' \in BOOLEAN
           /\ orphans' \in [Payloads -> Nat] /\ accepted' \in [Payloads -> 0..Lines]
           /\ minted' \in Nat /\ spooled' \subseteq Payloads
           /\ handled' \in [Payloads -> Nat] /\ forgotten' \in [Payloads -> Nat]
<1>1. orphans' \in [Payloads -> Nat]
  BY OrphanedEffect DEF Off, TypeOK
<1>2. phase' = "off" /\ cursor' = 0 /\ batch' = NoBatch /\ seq' = 0 /\ outcome' = "none"
  BY DEF Off
<1>3. stopping' \in BOOLEAN
  BY DEF Off
<1>4. final' \in BOOLEAN
  BY DEF Off
<1>5. handling' \in BOOLEAN
  BY DEF Off
<1>6. UNCHANGED <<dead, seen, accepted, minted, spooled, handled, forgotten>>
  BY DEF Off, history
<1> QED BY <1>1, <1>2, <1>3, <1>4, <1>5, <1>6 DEF TypeOK

\* A batch is handled only while it is in hand.
LEMMA HandlingHasBatch ==
    ASSUME TypeOK, IdleIsEmpty
    PROVE  handling => batch \in Payloads
  BY DEF TypeOK, IdleIsEmpty

\* Every value keeps its type in every step.
LEMMA TypeStep ==
    ASSUME TypeOK, IdleIsEmpty, BatchAtSeq, [Next]_vars
    PROVE  TypeOK'
<1> USE DEF TypeOK, bounds
<1>0. handling => batch \in Payloads
  BY HandlingHasBatch
<1>p. Payloads \subseteq Nat \ {0}
  BY DeliveryAssumption
<1>1. CASE Run
  <2>1. LogTypeOK'
    BY <1>1, ReopenEffect DEF Run
  <2>2. cursor' \in Nat
    BY <1>1 DEF Run, LogTypeOK
  <2> QED BY <1>1, <2>1, <2>2 DEF Run, server, history
<1>2. CASE DrainNext
  <2>1. cursor + 1 \in (ckpt + 1)..last
    BY <1>2 DEF DrainNext, BatchAtSeq, LogTypeOK
  <2>2. batch' \in Payloads
    BY <1>2, <2>1 DEF DrainNext, LogTypeOK
  <2> QED BY <1>2, <2>1, <2>2, LogUnchanged DEF DrainNext, server, history
<1>3. CASE DrainDone
  BY <1>3, LogUnchanged DEF DrainDone, server, history
<1>4. CASE \E b \in Payloads : Deliver(b)
  <2>1. PICK b \in Payloads : Deliver(b)
    BY <1>4
  <2>2. LogTypeOK'
    BY <2>1, AcceptEffect DEF Deliver
  <2>3. batch' = b /\ minted' = b /\ b \in Nat /\ final' \in BOOLEAN /\ seq' \in Nat
    BY <2>1, <2>2, <1>p DEF Deliver, Flush, LogTypeOK
  <2> QED BY <2>1, <2>2, <2>3 DEF Deliver, Flush, server
<1>5. CASE \E b \in Payloads : DeliverUnspooled(b)
  <2>1. PICK b \in Payloads : DeliverUnspooled(b)
    BY <1>5
  <2>2. LogTypeOK'
    BY <2>1, HardenEffect DEF DeliverUnspooled
  <2>3. batch' = b /\ minted' = b /\ b \in Nat /\ final' \in BOOLEAN /\ seq' = 0
    BY <2>1, <1>p DEF DeliverUnspooled, Flush
  <2> QED BY <2>1, <2>2, <2>3 DEF DeliverUnspooled, Flush, Fault, server
<1>6. CASE \E b \in Payloads : DeliverUnsynced(b)
  <2>1. PICK b \in Payloads : DeliverUnsynced(b)
    BY <1>6
  <2>2. LogTypeOK'
    BY <2>1, AcceptEffect DEF DeliverUnsynced
  <2>3. batch' = b /\ minted' = b /\ b \in Nat /\ final' \in BOOLEAN /\ seq' \in Nat
    BY <2>1, <2>2, <1>p DEF DeliverUnsynced, Flush, LogTypeOK
  <2> QED BY <2>1, <2>2, <2>3 DEF DeliverUnsynced, Flush, Fault, server
<1>7. CASE \E b \in Payloads : OrphanEnds(b)
  <2>1. PICK b \in Payloads : OrphanEnds(b)
    BY <1>7
  <2>2. accepted' \in [Payloads -> 0..Lines]
    BY <2>1, AcceptingEffect DEF OrphanEnds
  <2>3. orphans' \in [Payloads -> Nat]
    BY <2>1 DEF OrphanEnds
  <2> QED BY <2>1, <2>2, <2>3, LogUnchanged DEF OrphanEnds, forwarder, history
<1>8. CASE \E b \in Payloads : Forget(b)
  <2>1. PICK b \in Payloads : Forget(b)
    BY <1>8
  <2>2. forgotten' \in [Payloads -> Nat]
    BY <2>1, CountEffect DEF Forget
  <2> QED BY <2>1, <2>2, LogUnchanged DEF Forget, forwarder
<1>9. CASE Arrive
  <2>1. batch \in Payloads
    BY <1>9 DEF Arrive, CanSend, Posting
  <2>2. handled' \in [Payloads -> Nat]
    BY <1>9, <2>1, CountEffect DEF Arrive
  <2>3. seen' \subseteq Payloads
    BY <1>9, <2>1 DEF Arrive, RecordSeen
  <2>4. handling' \in BOOLEAN
    BY <1>9 DEF Arrive
  <2> QED BY <1>9, <2>2, <2>3, <2>4, LogUnchanged DEF Arrive, forwarder
<1>10. CASE ArriveDuplicate \/ Refuse
  BY <1>10, LogUnchanged DEF ArriveDuplicate, Refuse, Ends, server, history
<1>11. CASE Answer
  <2>1. batch \in Payloads
    BY <1>11 DEF Answer, Posting
  <2>2. accepted' \in [Payloads -> 0..Lines]
    BY <1>11, <2>1, AcceptingEffect DEF Answer
  <2>3. outcome' \in {"none", "delivered", "permanent"}
    BY <1>11 DEF Answer, Ends
  <2>4. UNCHANGED <<phase, cursor, stopping, final, batch, seq, dead>>
    BY <1>11 DEF Answer, Ends
  <2> QED BY <1>11, <2>2, <2>3, <2>4, LogUnchanged DEF Answer, history
<1>12. CASE CutOff
  <2>1. batch \in Payloads
    BY <1>12 DEF CutOff, Posting
  <2>2. orphans' \in [Payloads -> Nat]
    BY <1>12, <2>1, CountEffect DEF CutOff
  <2>3. handling' \in BOOLEAN
    BY <1>12 DEF CutOff
  <2> QED BY <1>12, <2>2, <2>3, LogUnchanged DEF CutOff, forwarder, history
<1>13. CASE Ack
  <2>1. LogTypeOK'
    BY <1>13, SettleEffect DEF Ack
  <2> QED BY <1>13, <2>1 DEF Ack, Settled, server, history
<1>14. CASE AckNothing
  BY <1>14, LogUnchanged DEF AckNothing, Settled, server, history
<1>15. CASE AckFails
  BY <1>15, LogUnchanged DEF AckFails, Settled, Fault, server, history
<1>16. CASE DeadLetter
  <2>1. batch \in Payloads
    BY <1>16 DEF DeadLetter, IdleIsEmpty
  <2>2. dead' \subseteq Payloads
    BY <1>16, <2>1 DEF DeadLetter, Buried
  <2> QED BY <1>16, <2>2, LogUnchanged DEF DeadLetter, server, history
<1>17. CASE Stop
  BY <1>17, LogUnchanged DEF Stop, Restart, server, history
<1>18. CASE Abandon
  <2>1. orphans' \in [Payloads -> Nat]
    BY <1>18, <1>0, OrphanedEffect DEF Abandon
  <2>2. handling' \in BOOLEAN
    BY <1>18 DEF Abandon
  <2> QED BY <1>18, <2>1, <2>2, LogUnchanged DEF Abandon, LeaveSpooled, history
<1>19. CASE Close
  <2>1. LogTypeOK'
    BY <1>19, DieEffect DEF Close
  <2> QED BY <1>19, <1>0, <2>1, OffType DEF Close
<1>20. CASE Crash
  <2>1. LogTypeOK'
    BY <1>20, DieEffect DEF Crash
  <2> QED BY <1>20, <1>0, <2>1, OffType DEF Crash, Restart
<1>21. CASE \E end \in durable..last : PowerLoss(end)
  <2>1. PICK end \in durable..last : PowerLoss(end)
    BY <1>21
  <2>2. LogTypeOK'
    BY <2>1, LosePowerEffect DEF PowerLoss
  <2> QED BY <2>1, <1>0, <2>2, OffType DEF PowerLoss, Restart
<1>22. CASE ServerRestarts
  <2>1. forgotten' \in [Payloads -> Nat] /\ orphans' \in [Payloads -> Nat]
    BY <1>22 DEF ServerRestarts
  <2>2. PICK reach \in [Payloads -> Reach \cup {0}] :
           accepted' = [b \in Payloads |->
              IF (orphans[b] > 0 \/ (handling /\ b = batch)) /\ accepted[b] < reach[b]
              THEN reach[b] ELSE accepted[b]]
    BY <1>22 DEF ServerRestarts
  <2>3. \A b \in Payloads : reach[b] \in 0..Lines
    BY DeliveryAssumption DEF Reach
  <2>4. accepted' \in [Payloads -> 0..Lines]
    BY <2>2, <2>3
  <2>5. handling' \in BOOLEAN
    BY <1>22 DEF ServerRestarts
  <2> QED BY <1>22, <2>1, <2>4, <2>5, LogUnchanged DEF ServerRestarts, forwarder
<1>23. CASE UNCHANGED vars
  BY <1>23, LogUnchanged DEF vars, forwarder, server, history
<1> QED
  BY <1>1, <1>2, <1>3, <1>4, <1>5, <1>6, <1>7, <1>8, <1>9, <1>10, <1>11, <1>12, <1>13, <1>14,
     <1>15, <1>16, <1>17, <1>18, <1>19, <1>20, <1>21, <1>22, <1>23 DEF Next, Attempt, Settling

\* The log is open while the forwarder runs, and an attempt belongs to a batch.
LEMMA IdleStep ==
    ASSUME TypeOK, IdleIsEmpty, BatchAtSeq, [Next]_vars
    PROVE  IdleIsEmpty'
<1> USE DEF IdleIsEmpty, NoBatch
<1>p. Payloads \subseteq Nat \ {0} /\ LogTypeOK
  BY DeliveryAssumption DEF TypeOK
<1>1. CASE Run
  BY <1>1, <1>p, ReopenEffect DEF Run, server, history
<1>2. CASE DrainNext \/ DrainDone
  <2>1. DrainNext => batch' \in Payloads
    BY <1>p DEF DrainNext, BatchAtSeq, LogTypeOK
  <2> QED BY <1>2, <1>p, <2>1, LogUnchanged DEF DrainNext, DrainDone, server, history
<1>3. CASE \E b \in Payloads : Deliver(b) \/ DeliverUnspooled(b) \/ DeliverUnsynced(b)
  <2>1. PICK b \in Payloads : Deliver(b) \/ DeliverUnspooled(b) \/ DeliverUnsynced(b)
    BY <1>3
  <2>2. open' = open
    BY <2>1 DEF Deliver, DeliverUnspooled, DeliverUnsynced, Accept, Harden
  <2>3. Flush(b)
    BY <2>1 DEF Deliver, DeliverUnspooled, DeliverUnsynced
  <2>4. batch' = b /\ b # 0 /\ phase' = phase /\ phase # "off"
    BY <2>3, <1>p DEF Flush
  <2>5. handling' = handling /\ ~handling
    BY <2>3 DEF Flush, server
  <2>6. final' => LinesAtStop
    BY <2>3 DEF Flush
  <2> QED BY <2>2, <2>4, <2>5, <2>6
<1>4. CASE \E b \in Payloads : OrphanEnds(b) \/ Forget(b)
  BY <1>4, <1>p, LogUnchanged DEF OrphanEnds, Forget, forwarder, history
<1>5. CASE Arrive
  <2>1. batch \in Payloads /\ outcome = "none"
    BY <1>5 DEF Arrive, CanSend, Posting, TypeOK
  <2>2. handled'[batch] > 0
    BY <1>5, <2>1, CountEffect DEF Arrive, TypeOK
  <2> QED BY <1>5, <1>p, <2>1, <2>2, LogUnchanged DEF Arrive, forwarder
<1>6. CASE ArriveDuplicate \/ Refuse
  BY <1>6, <1>p, LogUnchanged DEF ArriveDuplicate, Refuse, CanSend, Posting, Ends, server, history
<1>7. CASE Answer
  BY <1>7, <1>p, LogUnchanged DEF Answer, Posting, Ends, history
<1>8. CASE CutOff
  BY <1>8, <1>p, LogUnchanged DEF CutOff, Posting, forwarder, history
<1>9. CASE Ack \/ AckNothing \/ AckFails
  <2>1. open' = open
    BY <1>9 DEF Ack, AckNothing, AckFails, Settle, logVars
  <2>2. ~handling /\ handling' = handling
    BY <1>9 DEF Ack, AckNothing, AckFails, Acks, server
  <2>3. Settled
    BY <1>9 DEF Ack, AckNothing, AckFails
  <2> QED BY <2>1, <2>2, <2>3 DEF Settled
<1>10. CASE DeadLetter
  BY <1>10, <1>p, LogUnchanged DEF DeadLetter, server, history
<1>11. CASE Stop
  BY <1>11, <1>p, LogUnchanged DEF Stop, server, history
<1>12. CASE Abandon
  BY <1>12, <1>p, LogUnchanged DEF Abandon, Posting, LeaveSpooled, history
<1>13. CASE Close \/ Crash \/ \E end \in durable..last : PowerLoss(end)
  <2>1. ~open'
    BY <1>13, <1>p, DieEffect, LosePowerEffect DEF Close, Crash, PowerLoss
  <2>2. Off
    BY <1>13 DEF Close, Crash, PowerLoss
  <2> QED BY <2>1, <2>2 DEF Off
<1>14. CASE ServerRestarts
  BY <1>14, <1>p, LogUnchanged DEF ServerRestarts, forwarder
<1>15. CASE UNCHANGED vars
  BY <1>15, <1>p, LogUnchanged DEF vars, forwarder, server, history
<1> QED
  BY <1>1, <1>2, <1>3, <1>4, <1>5, <1>6, <1>7, <1>8, <1>9, <1>10, <1>11, <1>12, <1>13, <1>14,
     <1>15 DEF Next, Attempt, Settling

\* A handler begins only when its ID is new to the window.
LEMMA WindowStep ==
    ASSUME TypeOK, WindowCounts, [Next]_vars
    PROVE  WindowCounts'
<1> USE DEF WindowCounts
<1>1. CASE Arrive
  <2>1. batch \in Payloads /\ batch \notin seen /\ forgotten' = forgotten
    BY <1>1 DEF Arrive, CanSend, Posting, TypeOK
  <2>2. seen' = seen \cup {batch} /\ handled' = Count(handled, batch)
    BY <1>1 DEF Arrive, RecordSeen
  <2>3. /\ Count(handled, batch)[batch] = handled[batch] + 1
        /\ \A c \in Payloads : c # batch => Count(handled, batch)[c] = handled[c]
    BY <2>1, CountEffect DEF TypeOK
  <2>4. handled[batch] \in Nat /\ forgotten[batch] \in Nat /\ handled[batch] <= forgotten[batch]
    BY <2>1 DEF TypeOK
  <2> QED BY <2>1, <2>2, <2>3, <2>4 DEF TypeOK
<1>2. CASE \E b \in Payloads : Forget(b)
  <2>1. PICK b \in Payloads : Forget(b)
    BY <1>2
  <2>2. b \in seen /\ seen' = seen \ {b} /\ forgotten' = Count(forgotten, b) /\ handled' = handled
    BY <2>1 DEF Forget
  <2>3. /\ Count(forgotten, b)[b] = forgotten[b] + 1
        /\ \A c \in Payloads : c # b => Count(forgotten, b)[c] = forgotten[c]
    BY CountEffect DEF TypeOK
  <2> QED BY <2>2, <2>3 DEF TypeOK
<1>3. CASE ServerRestarts
  <2>1. seen' = {} /\ handled' = handled
    BY <1>3 DEF ServerRestarts
  <2>2. \A b \in Payloads : forgotten'[b] = IF b \in seen THEN forgotten[b] + 1 ELSE forgotten[b]
    BY <1>3 DEF ServerRestarts
  <2> QED BY <2>1, <2>2 DEF TypeOK
<1>4. CASE ~(Arrive \/ ServerRestarts \/ \E b \in Payloads : Forget(b))
  <2>1. UNCHANGED <<seen, handled, forgotten>>
    BY <1>4 DEF Next, Attempt, Settling, Run, DrainNext, DrainDone, Deliver, DeliverUnspooled,
          DeliverUnsynced, Flush, OrphanEnds, ArriveDuplicate, Refuse, Answer, CutOff, Ack,
          AckNothing, AckFails, DeadLetter, Stop, Abandon, Close, Crash, PowerLoss, Off,
          vars, server, history
  <2> QED BY <2>1
<1> QED BY <1>1, <1>2, <1>3, <1>4

\* A new batch is newer than every batch and every record before it.
LEMMA MintedStep ==
    ASSUME TypeOK, IdleIsEmpty, BatchAtSeq, MintedInOrder, [Next]_vars
    PROVE  MintedInOrder'
<1> USE DEF MintedInOrder
<1>p. /\ Payloads \subseteq Nat \ {0} /\ LogTypeOK /\ minted \in Nat
      /\ handled \in [Payloads -> Nat] /\ spooled \subseteq Payloads
      /\ ckpt \in Nat /\ last \in Nat /\ durable \in Nat
      /\ \A s \in (ckpt + 1)..last : records[s] \in Nat
  <2>1. Payloads \subseteq Nat \ {0} /\ TypeOK /\ LogTypeOK
    BY DeliveryAssumption DEF TypeOK
  <2>2. ckpt \in Nat /\ last \in Nat /\ durable \in Nat
    BY <2>1 DEF LogTypeOK
  <2>3. \A s \in (ckpt + 1)..last : records[s] \in Payloads
    BY <2>1 DEF LogTypeOK
  <2> QED BY <2>1, <2>2, <2>3 DEF TypeOK
<1>1. CASE \E b \in Payloads : Deliver(b) \/ DeliverUnsynced(b)
  <2>1. PICK b \in Payloads : Deliver(b) \/ DeliverUnsynced(b)
    BY <1>1
  <2>2. Flush(b) /\ Accept(b) /\ spooled' \subseteq spooled \cup {b}
    BY <2>1 DEF Deliver, DeliverUnsynced
  <2>3. minted < b /\ minted' = b /\ batch' = b /\ handled' = handled /\ b \in Nat
    BY <2>2, <1>p DEF Flush
  <2>4. /\ ckpt' = ckpt /\ last' = last + 1 /\ records'[last + 1] = b
        /\ \A s \in (ckpt + 1)..last : records'[s] = records[s]
    BY <2>2, <1>p, AcceptEffect
  <2>5. \A c \in Payloads : handled'[c] > 0 => c <= minted'
    BY <2>3, <1>p
  <2>6. \A c \in spooled' : c <= minted'
    BY <2>2, <2>3, <1>p
  <2>7. ASSUME NEW s \in (ckpt' + 1)..last'
        PROVE  records'[s] <= minted' /\ (s # last + 1 => records'[s] < b)
    <3>1. CASE s = last + 1
      BY <3>1, <2>3, <2>4
    <3>2. CASE s # last + 1
      <4>1. s \in (ckpt + 1)..last
        BY <3>2, <2>4, <2>7, <1>p
      <4>2. records'[s] = records[s] /\ records[s] \in Nat /\ records[s] <= minted
        BY <4>1, <2>4, <1>p
      <4> QED BY <4>2, <2>3, <1>p
    <3> QED BY <3>1, <3>2
  <2>8. ASSUME NEW s \in (ckpt' + 1)..last', NEW t \in (ckpt' + 1)..last', s < t
        PROVE  records'[s] < records'[t]
    <3>1. s \in (ckpt + 1)..last /\ s # last + 1
      BY <2>8, <2>4, <1>p
    <3>2. CASE t = last + 1
      BY <3>1, <3>2, <2>7, <2>4
    <3>3. CASE t # last + 1
      <4>1. t \in (ckpt + 1)..last
        BY <3>3, <2>8, <2>4, <1>p
      <4> QED BY <3>1, <4>1, <2>4, <2>8
    <3> QED BY <3>2, <3>3
  <2> QED BY <2>3, <2>5, <2>6, <2>7, <2>8
<1>2. CASE \E b \in Payloads : DeliverUnspooled(b)
  <2>1. PICK b \in Payloads : DeliverUnspooled(b)
    BY <1>2
  <2>2. /\ minted < b /\ minted' = b /\ batch' = b /\ handled' = handled /\ b \in Nat
        /\ spooled' = spooled /\ UNCHANGED <<ckpt, last, records>>
    BY <2>1, <1>p DEF Flush, DeliverUnspooled, Harden
  <2>3. (\A c \in Payloads : handled'[c] > 0 => c <= minted') /\ \A c \in spooled' : c <= minted'
    BY <2>2, <1>p
  <2>4. \A s \in (ckpt + 1)..last : records[s] <= b
    BY <2>2, <1>p
  <2> QED BY <2>2, <2>3, <2>4
<1>3. CASE Arrive
  <2>1. batch \in Payloads /\ handled' = Count(handled, batch)
    BY <1>3 DEF Arrive, CanSend, Posting, TypeOK
  <2>2. \A c \in Payloads : c # batch => handled'[c] = handled[c]
    BY <2>1, <1>p, CountEffect
  <2>3. UNCHANGED <<batch, minted, spooled, ckpt, last, records>>
    BY <1>3 DEF Arrive, forwarder, logVars
  <2> QED BY <2>1, <2>2, <2>3
<1>4. CASE Ack
  <2>1. /\ last' = last /\ ckpt' = seq /\ seq \in (ckpt + 1)..last
        /\ \A s \in (seq + 1)..last : records'[s] = records[s]
    BY <1>4, <1>p, SettleEffect DEF Ack, TypeOK
  <2>2. batch' = NoBatch /\ UNCHANGED <<minted, spooled, handled>>
    BY <1>4 DEF Ack, Settled, history
  <2>3. \A s \in (ckpt' + 1)..last' : s \in (ckpt + 1)..last /\ records'[s] = records[s]
    BY <2>1, <1>p
  <2>4. \A s \in (ckpt' + 1)..last' : records'[s] <= minted'
    BY <2>2, <2>3
  <2>5. \A s, t \in (ckpt' + 1)..last' : s < t => records'[s] < records'[t]
    BY <2>3
  <2>6. batch' <= minted'
    BY <2>2, <1>p DEF NoBatch
  <2> QED BY <2>2, <2>4, <2>5, <2>6
<1>5. CASE \E end \in durable..last : PowerLoss(end)
  <2>1. PICK end \in durable..last : PowerLoss(end)
    BY <1>5
  <2>2. /\ last' = end /\ ckpt' = ckpt /\ end \in Nat /\ end <= last
        /\ \A s \in (ckpt + 1)..end : records'[s] = records[s]
    BY <2>1, <1>p, LosePowerEffect DEF PowerLoss
  <2>3. batch' = NoBatch /\ UNCHANGED <<minted, spooled, handled>>
    BY <2>1 DEF PowerLoss, Off, history
  <2>4. \A s \in (ckpt' + 1)..last' : s \in (ckpt + 1)..last /\ records'[s] = records[s]
    BY <2>2, <1>p
  <2>5. \A s \in (ckpt' + 1)..last' : records'[s] <= minted'
    BY <2>3, <2>4
  <2>6. \A s, t \in (ckpt' + 1)..last' : s < t => records'[s] < records'[t]
    BY <2>4
  <2>7. batch' <= minted'
    BY <2>3, <1>p DEF NoBatch
  <2> QED BY <2>3, <2>5, <2>6, <2>7
<1>6. CASE DrainNext
  <2>1. UNCHANGED <<minted, spooled, handled, ckpt, last, records>>
    BY <1>6 DEF DrainNext, logVars, history
  <2>2. batch' = records[cursor + 1] /\ cursor + 1 \in (ckpt + 1)..last
    BY <1>6, <1>p DEF DrainNext, BatchAtSeq, TypeOK
  <2>3. batch' <= minted
    BY <2>2
  <2> QED BY <2>1, <2>3
<1>7. CASE ~(\/ Arrive \/ Ack \/ DrainNext \/ \E end \in durable..last : PowerLoss(end)
             \/ \E b \in Payloads : Deliver(b) \/ DeliverUnsynced(b) \/ DeliverUnspooled(b))
  <2>1. UNCHANGED <<minted, spooled, handled, ckpt, last, records>>
    BY <1>7 DEF Next, Attempt, Settling, Run, Reopen, DrainDone, OrphanEnds, Forget,
          ArriveDuplicate, Refuse, Answer, CutOff, AckNothing, AckFails, DeadLetter, Stop,
          Abandon, LeaveSpooled, Close, Crash, Die, Off, ServerRestarts, vars, history, logVars
  <2>2. batch' \in {batch, NoBatch}
    BY <1>7 DEF Next, Attempt, Settling, Run, DrainDone, OrphanEnds, Forget,
          ArriveDuplicate, Refuse, Ends, Answer, CutOff, AckNothing, AckFails, Settled,
          DeadLetter, Stop, Abandon, Close, Crash, Off, ServerRestarts, vars, forwarder
  <2>3. batch' <= minted
    BY <2>2, <1>p DEF NoBatch
  <2> QED BY <2>1, <2>3
<1> QED BY <1>1, <1>2, <1>3, <1>4, <1>5, <1>6, <1>7

\* The types the next lemmas calculate with.
LEMMA Types ==
    ASSUME TypeOK
    PROVE  /\ LogTypeOK /\ Payloads \subseteq Nat \ {0}
           /\ ckpt \in Nat /\ last \in Nat /\ durable \in Nat /\ ckpt <= last /\ durable <= last
           /\ ckpt <= durable /\ cursor \in Nat /\ seq \in Nat
           /\ \A s \in (ckpt + 1)..last : records[s] \in Payloads /\ records[s] \in Nat
           /\ spooled \subseteq Payloads /\ dead \subseteq Payloads
<1>1. LogTypeOK /\ Payloads \subseteq Nat \ {0} /\ cursor \in Nat /\ seq \in Nat
  BY DeliveryAssumption DEF TypeOK
<1>2. ckpt \in Nat /\ last \in Nat /\ durable \in Nat /\ ckpt <= last /\ durable <= last
      /\ ckpt <= durable
  BY <1>1 DEF LogTypeOK
<1>3. \A s \in (ckpt + 1)..last : records[s] \in Payloads
  BY <1>1 DEF LogTypeOK
<1> QED BY <1>1, <1>2, <1>3 DEF TypeOK

\* seq names the batch in hand as long as it is in hand (forward.go:384-412).
LEMMA BatchAtSeqStep ==
    ASSUME TypeOK, IdleIsEmpty, BatchAtSeq, [Next]_vars
    PROVE  BatchAtSeq'
<1> USE DEF BatchAtSeq
<1>p. /\ LogTypeOK /\ Payloads \subseteq Nat \ {0}
      /\ ckpt \in Nat /\ last \in Nat /\ durable \in Nat /\ ckpt <= last /\ ckpt <= durable
      /\ durable <= last /\ cursor \in Nat /\ seq \in Nat
  BY Types
<1>1. CASE Run
  <2>1. cursor' = ckpt /\ phase' = "draining" /\ batch' = batch /\ seq' = seq
        /\ ckpt' = ckpt /\ last' = last /\ records' = records /\ phase = "off"
    BY <1>1 DEF Run, Reopen
  <2> QED BY <2>1, <1>p DEF IdleIsEmpty
<1>2. CASE DrainNext
  <2>1. /\ cursor + 1 \in (ckpt + 1)..last /\ cursor' = cursor + 1 /\ seq' = cursor + 1
        /\ batch' = records[cursor + 1] /\ ckpt' = ckpt /\ last' = last /\ records' = records
    BY <1>2, <1>p DEF DrainNext, logVars
  <2> QED BY <2>1, <1>p
<1>3. CASE \E b \in Payloads : Deliver(b) \/ DeliverUnsynced(b)
  <2>1. PICK b \in Payloads : Deliver(b) \/ DeliverUnsynced(b)
    BY <1>3
  <2>2. Accept(b) /\ phase' = phase /\ phase = "sending" /\ batch' = b /\ seq' = last'
    BY <2>1 DEF Deliver, DeliverUnsynced, Flush
  <2>3. ckpt' = ckpt /\ last' = last + 1 /\ records'[last + 1] = b
    BY <2>2, <1>p, AcceptEffect
  <2> QED BY <2>2, <2>3, <1>p
<1>4. CASE \E b \in Payloads : DeliverUnspooled(b)
  BY <1>4 DEF DeliverUnspooled, Flush
<1>5. CASE Ack \/ AckNothing \/ AckFails
  <2>1. /\ seq' = 0 /\ batch' = NoBatch /\ phase' = phase /\ cursor' = cursor
    BY <1>5 DEF Ack, AckNothing, AckFails, Settled
  <2>2. CASE Ack
    <3>1. Settle(seq) /\ seq > ckpt /\ seq # 0
      BY <2>2, <1>p DEF Ack, Acks
    <3>2. ckpt' = seq /\ last' = last /\ seq \in (ckpt + 1)..last
      BY <3>1, <1>p, SettleEffect
    <3>3. batch # NoBatch
      BY <3>1 DEF IdleIsEmpty
    <3> QED BY <2>1, <3>1, <3>2, <3>3, <1>p
  <2>3. CASE AckNothing \/ AckFails
    <3>1. ckpt' = ckpt /\ last' = last
      BY <2>3 DEF AckNothing, AckFails, logVars
    <3> QED BY <2>1, <3>1
  <2> QED BY <1>5, <2>2, <2>3
<1>6. CASE \/ Abandon \/ Close \/ Crash \/ \E end \in durable..last : PowerLoss(end)
  <2>1. seq' = 0 /\ phase' # "draining"
    BY <1>6 DEF Abandon, Close, Crash, PowerLoss, Off
  <2> QED BY <2>1
<1>7. CASE DrainDone
  <2>1. phase' = "sending" /\ UNCHANGED <<seq, batch, ckpt, last, records>>
    BY <1>7 DEF DrainDone, logVars
  <2> QED BY <2>1
<1>8. CASE \/ \E b \in Payloads : OrphanEnds(b) \/ Forget(b)
           \/ Arrive \/ ArriveDuplicate \/ Refuse \/ Answer \/ CutOff \/ DeadLetter
           \/ Stop \/ ServerRestarts \/ UNCHANGED vars
  <2>1. UNCHANGED <<phase, cursor, seq, batch, ckpt, last, records>>
    BY <1>8 DEF OrphanEnds, Forget, Arrive, ArriveDuplicate, Refuse, Ends, Answer, CutOff,
          DeadLetter, Stop, ServerRestarts, vars, forwarder, logVars
  <2> QED BY <2>1
<1> QED
  BY <1>1, <1>2, <1>3, <1>4, <1>5, <1>6, <1>7, <1>8 DEF Next, Attempt, Settling

\* A record whose Add returned nil is on stable storage (spool.go:60-75).
LEMMA SpooledDurableStep ==
    ASSUME TypeOK, MintedInOrder, SpooledDurable, [Next]_vars
    PROVE  SpooledDurable'
<1> USE DEF SpooledDurable
<1>p. /\ LogTypeOK /\ Payloads \subseteq Nat \ {0}
      /\ ckpt \in Nat /\ last \in Nat /\ durable \in Nat /\ ckpt <= last /\ ckpt <= durable
      /\ durable <= last /\ seq \in Nat /\ spooled \subseteq Payloads
      /\ minted \in Nat
  BY Types DEF TypeOK
<1>1. CASE \E b \in Payloads : Deliver(b) \/ DeliverUnsynced(b)
  <2>1. PICK b \in Payloads : Deliver(b) \/ DeliverUnsynced(b)
    BY <1>1
  <2>2. Accept(b) /\ minted < b
    BY <2>1 DEF Deliver, DeliverUnsynced, Flush
  <2>3. /\ ckpt' = ckpt /\ last' = last + 1 /\ records'[last + 1] = b /\ durable <= durable'
        /\ \A s \in (ckpt + 1)..last : records'[s] = records[s]
        /\ durable' \in Nat
    <3>1. LogTypeOK'
      BY <2>2, <1>p, AcceptEffect
    <3>2. durable' \in Nat
      BY <3>1 DEF LogTypeOK
    <3> QED BY <2>2, <3>2, <1>p, AcceptEffect
  <2>4. b \notin spooled
    BY <2>2, <1>p DEF MintedInOrder
  <2>5. CASE Deliver(b)
    <3>1. durable' = last + 1
      BY <2>3, <2>5 DEF Deliver
    <3> QED BY <2>3, <3>1, <1>p
  <2>6. CASE DeliverUnsynced(b)
    <3>1. spooled' = spooled
      BY <2>6 DEF DeliverUnsynced
    <3>2. ASSUME NEW s \in (ckpt' + 1)..last', records'[s] \in spooled'
          PROVE  s <= durable'
      <4>1. s # last + 1
        BY <3>1, <3>2, <2>3, <2>4
      <4>2. s \in (ckpt + 1)..last
        BY <4>1, <2>3, <1>p
      <4> QED BY <4>2, <3>1, <3>2, <2>3, <1>p
    <3> QED BY <3>2
  <2> QED BY <2>1, <2>5, <2>6
<1>2. CASE \E b \in Payloads : DeliverUnspooled(b)
  <2>1. UNCHANGED <<ckpt, last, records, spooled>> /\ durable <= durable'
    BY <1>2, <1>p DEF DeliverUnspooled, Harden
  <2>2. durable' \in Nat
    BY <1>2, <1>p DEF DeliverUnspooled, Harden
  <2> QED BY <2>1, <2>2, <1>p
<1>3. CASE Ack
  <2>1. /\ ckpt' = seq /\ last' = last /\ seq \in (ckpt + 1)..last /\ durable <= durable'
        /\ \A s \in (seq + 1)..last : records'[s] = records[s]
        /\ LogTypeOK'
    BY <1>3, <1>p, SettleEffect DEF Ack
  <2>2. spooled' = spooled
    BY <1>3 DEF Ack, history
  <2>3. durable' \in Nat
    BY <2>1 DEF LogTypeOK
  <2>4. \A s \in (ckpt' + 1)..last' : s \in (ckpt + 1)..last /\ records'[s] = records[s]
    BY <2>1, <1>p
  <2> QED BY <2>1, <2>2, <2>3, <2>4, <1>p
<1>4. CASE \E end \in durable..last : PowerLoss(end)
  <2>1. PICK end \in durable..last : PowerLoss(end)
    BY <1>4
  <2>2. /\ last' = end /\ durable' = end
    BY <2>1, <1>p, LosePowerEffect DEF PowerLoss
  <2> QED BY <2>2, <1>p, LosePowerEffect
<1>5. CASE ~(\/ Ack \/ \E end \in durable..last : PowerLoss(end)
             \/ \E b \in Payloads : Deliver(b) \/ DeliverUnsynced(b) \/ DeliverUnspooled(b))
  <2>1. UNCHANGED <<spooled, ckpt, last, records, durable>>
    BY <1>5 DEF Next, Attempt, Settling, Run, Reopen, DrainNext, DrainDone, OrphanEnds, Forget,
          Arrive, ArriveDuplicate, Refuse, Answer, CutOff, AckNothing, AckFails, DeadLetter, Stop,
          Abandon, LeaveSpooled, Close, Crash, Die, Off, ServerRestarts, vars, history, logVars
  <2> QED BY <2>1
<1> QED BY <1>1, <1>2, <1>3, <1>4, <1>5

\* A handler that has begun stays begun, and the dead-letter file only grows.
LEMMA SentStays ==
    ASSUME TypeOK, [Next]_vars
    PROVE  /\ \A b \in Payloads : handled[b] > 0 => handled'[b] > 0
           /\ dead \subseteq dead'
<1>1. CASE Arrive
  <2>1. batch \in Payloads /\ handled' = Count(handled, batch) /\ dead' = dead
    BY <1>1 DEF Arrive, CanSend, Posting, TypeOK, forwarder
  <2>2. /\ Count(handled, batch)[batch] = handled[batch] + 1
        /\ \A c \in Payloads : c # batch => Count(handled, batch)[c] = handled[c]
    BY <2>1, CountEffect DEF TypeOK
  <2>3. \A c \in Payloads : handled[c] \in Nat
    BY DEF TypeOK
  <2> QED BY <2>1, <2>2, <2>3
<1>2. CASE DeadLetter
  <2>1. handled' = handled
    BY <1>2 DEF DeadLetter, history
  <2>2. dead \subseteq dead'
    BY <1>2 DEF DeadLetter, Buried
  <2> QED BY <2>1, <2>2
<1>3. CASE ~Arrive /\ ~DeadLetter
  <2>1. UNCHANGED <<handled, dead>>
    BY <1>3 DEF Next, Attempt, Settling, Run, DrainNext, DrainDone, Deliver, DeliverUnspooled,
          DeliverUnsynced, Flush, OrphanEnds, Forget, ArriveDuplicate, Refuse, Ends, Answer,
          CutOff, Ack, AckNothing, AckFails, Settled, Stop, Abandon, Close, Crash, PowerLoss, Off,
          ServerRestarts, vars, forwarder, history
  <2> QED BY <2>1
<1> QED BY <1>1, <1>2, <1>3

\* An attempt counts as delivered once the server knows its ID, and a batch as
\* buried once its dead-letter record is written (forward.go:398-420).
LEMMA SettledSentStep ==
    ASSUME TypeOK, IdleIsEmpty, WindowCounts, DeadLetterWorks, SettledSent, [Next]_vars
    PROVE  SettledSent'
<1> USE DEF SettledSent
<1>1. CASE ArriveDuplicate
  <2>1. outcome' = "delivered" /\ batch \in seen /\ UNCHANGED <<batch, handled, dead>>
    BY <1>1 DEF ArriveDuplicate, Ends, history
  <2> QED BY <2>1 DEF WindowCounts
<1>2. CASE Refuse
  BY <1>2 DEF Refuse, Ends
<1>3. CASE Answer
  <2>1. handled[batch] > 0 /\ UNCHANGED <<batch, handled, dead>> /\ outcome' # "buried"
    BY <1>3 DEF Answer, Ends, history, IdleIsEmpty
  <2> QED BY <2>1
<1>4. CASE DeadLetter
  <2>1. outcome' = "buried" /\ batch' = batch /\ dead' = dead \cup {batch}
    BY <1>4 DEF DeadLetter, Buried
  <2> QED BY <2>1
<1>5. CASE \/ Ack \/ AckNothing \/ AckFails \/ Close \/ Crash
           \/ \E end \in durable..last : PowerLoss(end)
  <2>1. outcome' = "none"
    BY <1>5 DEF Ack, AckNothing, AckFails, Settled, Close, Crash, PowerLoss, Off
  <2> QED BY <2>1
<1>6. CASE \/ Run \/ DrainNext \/ DrainDone \/ CutOff \/ Abandon \/ Arrive
           \/ \E b \in Payloads : Deliver(b) \/ DeliverUnspooled(b) \/ DeliverUnsynced(b)
  <2>1. outcome' = outcome /\ outcome = "none"
    BY <1>6 DEF Run, DrainNext, DrainDone, CutOff, Abandon, Arrive, CanSend, Posting, Deliver,
          DeliverUnspooled, DeliverUnsynced, Flush, forwarder, IdleIsEmpty
  <2> QED BY <2>1
<1>7. CASE \/ Stop \/ ServerRestarts \/ UNCHANGED vars
           \/ \E b \in Payloads : OrphanEnds(b) \/ Forget(b)
  <2>1. UNCHANGED <<outcome, batch, dead, handled>>
    BY <1>7 DEF Stop, ServerRestarts, OrphanEnds, Forget, vars, forwarder, history
  <2> QED BY <2>1
<1> QED BY <1>1, <1>2, <1>3, <1>4, <1>5, <1>6, <1>7 DEF Next, Attempt, Settling

\* The forwarder moves past a record only once it has been sent, and never past
\* one it has given up (forward.go:225-247, 384-420).
LEMMA BehindSentStep ==
    ASSUME TypeOK, IdleIsEmpty, BatchAtSeq, SettledSent, ~LinesAtStop, BehindSent, [Next]_vars
    PROVE  BehindSent'
<1>p. /\ LogTypeOK /\ Payloads \subseteq Nat \ {0}
      /\ ckpt \in Nat /\ last \in Nat /\ ckpt <= last /\ cursor \in Nat /\ seq \in Nat
      /\ \A s \in (ckpt + 1)..last : records[s] \in Payloads
  BY Types
<1>q. /\ \A b \in Payloads : Sent(b) => Sent(b)'
      /\ TypeOK'
  BY SentStays, TypeStep DEF Sent
<1>r. Front \in Nat /\ Front <= last
  BY <1>p DEF Front, BatchAtSeq
<1>1. CASE Run
  <2>1. phase' = "draining" /\ cursor' = ckpt /\ ckpt' = ckpt
    BY <1>1 DEF Run, Reopen
  <2> QED BY <2>1, <1>p DEF BehindSent, Front
<1>2. CASE DrainNext
  <2>1. /\ phase = "draining" /\ phase' = "draining" /\ cursor' = cursor + 1 /\ seq' = cursor + 1
        /\ cursor < last /\ seq = 0 /\ UNCHANGED <<ckpt, last, records>>
    BY <1>2 DEF DrainNext, logVars, IdleIsEmpty
  <2>2. ASSUME NEW s \in (ckpt' + 1)..cursor', s # seq'
        PROVE  Sent(records[s])'
    <3>1. s \in (ckpt + 1)..cursor /\ s # 0 /\ s \in (ckpt + 1)..last
      BY <2>1, <2>2, <1>p
    <3>2. Sent(records[s]) /\ records[s] \in Payloads
      BY <3>1, <2>1, <1>p DEF BehindSent, Front
    <3> QED BY <3>2, <2>1, <1>q
  <2> QED BY <2>1, <2>2 DEF BehindSent, Front
<1>3. CASE \E b \in Payloads : Deliver(b) \/ DeliverUnsynced(b)
  <2>1. PICK b \in Payloads : Deliver(b) \/ DeliverUnsynced(b)
    BY <1>3
  <2>2. Accept(b) /\ phase' = "sending" /\ phase = "sending" /\ ~stopping /\ seq' = last'
        /\ batch = NoBatch
    BY <2>1 DEF Deliver, DeliverUnsynced, Flush
  <2>3. /\ ckpt' = ckpt /\ last' = last + 1
        /\ \A s \in (ckpt + 1)..last : records'[s] = records[s]
    BY <2>2, <1>p, AcceptEffect
  <2>4. seq = 0
    BY <2>2 DEF IdleIsEmpty
  <2>5. ASSUME NEW s \in (ckpt' + 1)..last', s # seq'
        PROVE  Sent(records[s])'
    <3>1. s \in (ckpt + 1)..last /\ s # 0
      BY <2>2, <2>3, <2>5, <1>p
    <3>2. Sent(records[s]) /\ records[s] \in Payloads /\ records'[s] = records[s]
      BY <3>1, <2>2, <2>3, <2>4, <1>p DEF BehindSent, Front
    <3> QED BY <3>2, <1>q
  <2> QED BY <2>2, <2>5 DEF BehindSent, Front
<1>4. CASE Ack
  <2>1. /\ ckpt' = seq /\ last' = last /\ seq \in (ckpt + 1)..last
        /\ \A s \in (seq + 1)..last : records'[s] = records[s]
    BY <1>4, <1>p, SettleEffect DEF Ack
  <2>2. /\ phase' = phase /\ cursor' = cursor /\ stopping' = stopping /\ batch' = NoBatch
    BY <1>4 DEF Ack, Settled
  <2>3. batch # NoBatch /\ seq # 0
    BY <2>1, <1>p DEF IdleIsEmpty
  <2>4. ASSUME phase' = "draining" \/ (phase' = "sending" /\ ~stopping'),
               NEW s \in (ckpt' + 1)..Front'
        PROVE  Sent(records[s])'
    <3>1. Front' = Front
      BY <2>1, <2>2 DEF Front
    <3>2. s \in (seq + 1)..last /\ s \in (ckpt + 1)..Front /\ s # seq
      BY <2>1, <2>4, <3>1, <1>p, <1>r
    <3>3. Sent(records[s])
      BY <2>2, <2>3, <2>4, <3>2 DEF BehindSent
    <3>4. records'[s] = records[s] /\ records[s] \in Payloads
      BY <2>1, <3>2, <1>p, <1>r
    <3> QED BY <3>3, <3>4, <1>q
  <2> QED BY <2>2, <2>4 DEF BehindSent
<1>5. CASE AckFails \/ AckNothing
  <2>1. UNCHANGED <<ckpt, last, records, phase, cursor, stopping>> /\ batch' = NoBatch
    BY <1>5 DEF AckFails, AckNothing, Settled, logVars
  <2>2. outcome \in {"delivered", "buried"} /\ batch # NoBatch
    BY <1>5 DEF AckFails, AckNothing, Acks, IdleIsEmpty
  <2>3. Sent(batch)
    BY <2>2 DEF SettledSent, Sent
  <2>4. ASSUME phase' = "draining" \/ (phase' = "sending" /\ ~stopping'),
               NEW s \in (ckpt' + 1)..Front'
        PROVE  Sent(records[s])'
    <3>1. s \in (ckpt + 1)..Front /\ s \in (ckpt + 1)..last
      BY <2>1, <2>4, <1>p, <1>r DEF Front
    <3>2. s = seq \/ Sent(records[s])
      BY <2>1, <2>4, <3>1 DEF BehindSent
    <3>3. s = seq => records[s] = batch
      BY <3>1, <1>p DEF BatchAtSeq
    <3>4. Sent(records[s]) /\ records[s] \in Payloads
      BY <2>3, <3>1, <3>2, <3>3, <1>p
    <3> QED BY <2>1, <3>4, <1>q
  <2> QED BY <2>1, <2>4 DEF BehindSent
<1>6. CASE DrainDone
  <2>1. /\ phase = "draining" /\ phase' = "sending" /\ cursor = last
        /\ UNCHANGED <<seq, ckpt, last, records>>
    BY <1>6 DEF DrainDone, logVars
  <2>2. ASSUME NEW s \in (ckpt + 1)..last, s # seq
        PROVE  Sent(records[s])'
    <3>1. Sent(records[s]) /\ records[s] \in Payloads
      BY <2>1, <2>2, <1>p DEF BehindSent, Front
    <3> QED BY <2>1, <3>1, <1>q
  <2> QED BY <2>1, <2>2 DEF BehindSent, Front
<1>7. CASE \/ Abandon \/ Close \/ Crash \/ \E end \in durable..last : PowerLoss(end)
  <2>1. phase' = "off" \/ (phase' = "sending" /\ stopping' /\ batch' = NoBatch)
    BY <1>7 DEF Abandon, Close, Crash, PowerLoss, Off
  <2> QED BY <2>1 DEF BehindSent
<1>8. CASE \E b \in Payloads : DeliverUnspooled(b)
  <2>1. /\ phase = "sending" /\ phase' = "sending" /\ seq = 0 /\ seq' = 0 /\ ~stopping
        /\ UNCHANGED <<ckpt, last, records>>
    BY <1>8 DEF DeliverUnspooled, Flush, Harden, IdleIsEmpty
  <2>2. ASSUME NEW s \in (ckpt + 1)..last
        PROVE  Sent(records[s])'
    <3>1. s # 0
      BY <2>2, <1>p
    <3>2. Sent(records[s]) /\ records[s] \in Payloads
      BY <2>1, <2>2, <3>1, <1>p DEF BehindSent, Front
    <3> QED BY <2>1, <3>2, <1>q
  <2> QED BY <2>1, <2>2 DEF BehindSent, Front
<1>9. CASE \/ \E b \in Payloads : OrphanEnds(b) \/ Forget(b)
           \/ Arrive \/ ArriveDuplicate \/ Refuse \/ Answer \/ CutOff \/ DeadLetter
           \/ Stop \/ ServerRestarts \/ UNCHANGED vars
  <2>1. UNCHANGED <<phase, cursor, seq, batch, ckpt, last, records>> /\ (~stopping' => ~stopping)
    BY <1>9 DEF OrphanEnds, Forget, Arrive, ArriveDuplicate, Refuse, Ends, Answer, CutOff,
          DeadLetter, Stop, ServerRestarts, vars, forwarder, logVars
  <2>2. ASSUME phase = "draining" \/ (phase = "sending" /\ (~stopping \/ batch # NoBatch)),
               NEW s \in (ckpt + 1)..Front, s # seq
        PROVE  Sent(records[s])'
    <3>1. Sent(records[s]) /\ records[s] \in Payloads
      BY <2>2, <1>p, <1>r DEF BehindSent
    <3> QED BY <2>1, <3>1, <1>q
  <2>3. Front' = Front
    BY <2>1 DEF Front
  <2> QED BY <2>1, <2>2, <2>3 DEF BehindSent
<1> QED
  BY <1>1, <1>2, <1>3, <1>4, <1>5, <1>6, <1>7, <1>8, <1>9 DEF Next, Attempt, Settling

\* A spooled batch leaves the spool only by the acknowledgement of a batch at or
\* after it, when it has itself been sent.
LEMMA SpoolKeptStep ==
    ASSUME TypeOK, IdleIsEmpty, BatchAtSeq, SpooledDurable, SettledSent, BehindSent, SpoolKept,
           [Next]_vars
    PROVE  SpoolKept'
<1>p. /\ LogTypeOK /\ Payloads \subseteq Nat \ {0}
      /\ ckpt \in Nat /\ last \in Nat /\ ckpt <= last /\ durable \in Nat /\ durable <= last
      /\ ckpt <= durable /\ cursor \in Nat /\ seq \in Nat /\ spooled \subseteq Payloads
  BY Types
<1>q. /\ \A b \in Payloads : Sent(b) => Sent(b)'
      /\ LogTypeOK'
  BY SentStays, TypeStep DEF Sent, TypeOK
<1>1. CASE \E b \in Payloads : Deliver(b) \/ DeliverUnsynced(b)
  <2>1. PICK b \in Payloads : Deliver(b) \/ DeliverUnsynced(b)
    BY <1>1
  <2>2. Accept(b) /\ spooled' \subseteq spooled \cup {b}
    BY <2>1 DEF Deliver, DeliverUnsynced
  <2>3. /\ ckpt' = ckpt /\ last' = last + 1 /\ records'[last + 1] = b
        /\ \A s \in (ckpt + 1)..last : records'[s] = records[s]
    BY <2>2, <1>p, AcceptEffect
  <2>4. b \in Pending'
    <3>1. last + 1 \in (ckpt' + 1)..last'
      BY <2>3, <1>p
    <3> QED BY <2>3, <3>1, <1>q, PendingIsAfter
  <2>5. ASSUME NEW c \in spooled, c \in Pending
        PROVE  c \in Pending'
    <3>1. PICK s \in (ckpt + 1)..last : records[s] = c
      BY <2>5, <1>p, PendingIs
    <3>2. s \in (ckpt' + 1)..last' /\ records'[s] = c
      BY <3>1, <2>3, <1>p
    <3> QED BY <3>2, <1>q, PendingIsAfter
  <2> QED BY <2>2, <2>4, <2>5, <1>p, <1>q DEF SpoolKept
<1>2. CASE Ack
  <2>1. /\ ckpt' = seq /\ last' = last /\ seq \in (ckpt + 1)..last
        /\ \A s \in (seq + 1)..last : records'[s] = records[s]
    BY <1>2, <1>p, SettleEffect DEF Ack
  <2>2. seq # 0 /\ batch # NoBatch /\ records[seq] = batch
    BY <2>1, <1>p DEF BatchAtSeq, IdleIsEmpty
  <2>3. Sent(batch) /\ spooled' = spooled
    BY <1>2 DEF Ack, Acks, SettledSent, Sent, history
  <2>4. phase = "draining" \/ phase = "sending"
    <3>1. phase # "off"
      BY <2>2 DEF IdleIsEmpty
    <3> QED BY <3>1 DEF TypeOK
  <2>5. seq <= Front
    BY <2>1, <2>2, <1>p DEF Front, BatchAtSeq
  <2>6. Front \in Nat
    BY <1>p DEF Front
  <2>7. ASSUME NEW c \in spooled, c \in Pending, c \notin Pending'
        PROVE  Sent(c)
    <3>1. PICK s \in (ckpt + 1)..last : records[s] = c
      BY <2>7, <1>p, PendingIs
    <3>2. s \notin (ckpt' + 1)..last'
      <4>1. s \in (ckpt' + 1)..last' => records'[s] = c
        BY <2>1, <3>1
      <4> QED BY <4>1, <2>7, <1>q, PendingIsAfter
    <3>3. s <= seq /\ s \in (ckpt + 1)..Front
      BY <3>1, <3>2, <2>1, <2>5, <2>6, <1>p
    <3>4. s = seq \/ Sent(records[s])
      BY <3>3, <2>2, <2>4 DEF BehindSent
    <3> QED BY <3>1, <3>4, <2>2, <2>3
  <2> QED BY <2>3, <2>7, <1>p, <1>q DEF SpoolKept
<1>3. CASE \E end \in durable..last : PowerLoss(end)
  <2>1. PICK end \in durable..last : PowerLoss(end)
    BY <1>3
  <2>2. /\ last' = end /\ ckpt' = ckpt /\ end \in Nat /\ durable <= end /\ spooled' = spooled
        /\ \A s \in (ckpt + 1)..end : records'[s] = records[s]
    BY <2>1, <1>p, LosePowerEffect DEF PowerLoss, Off, history
  <2>3. ASSUME NEW c \in spooled, c \in Pending
        PROVE  c \in Pending'
    <3>1. PICK s \in (ckpt + 1)..last : records[s] = c
      BY <2>3, <1>p, PendingIs
    <3>2. s <= durable
      BY <3>1 DEF SpooledDurable
    <3>3. s \in (ckpt' + 1)..last' /\ records'[s] = c
      BY <3>1, <3>2, <2>2, <1>p
    <3> QED BY <3>3, <1>q, PendingIsAfter
  <2> QED BY <2>2, <2>3, <1>p, <1>q DEF SpoolKept
<1>4. CASE ~(\/ Ack \/ \E end \in durable..last : PowerLoss(end)
             \/ \E b \in Payloads : Deliver(b) \/ DeliverUnsynced(b))
  <2>1. UNCHANGED <<spooled, records>>
    BY <1>4 DEF Next, Attempt, Settling, Run, Reopen, DrainNext, DrainDone, DeliverUnspooled, Flush,
          Harden, OrphanEnds, Forget, Arrive, ArriveDuplicate, Refuse, Answer, CutOff, AckNothing,
          AckFails, DeadLetter, Stop, Abandon, LeaveSpooled, Close, Crash, Die, Off,
          ServerRestarts, vars, history, logVars
  <2>2. Pending' = Pending
    BY <2>1 DEF Pending
  <2> QED BY <2>1, <2>2, <1>p, <1>q DEF SpoolKept
<1> QED BY <1>1, <1>2, <1>3, <1>4

\* A request goes out only when every older spooled batch has been sent.
LEMMA OldestFirstStep ==
    ASSUME TypeOK, IdleIsEmpty, MintedInOrder, BatchAtSeq, BehindSent, SpoolKept, OldestFirst,
           [Next]_vars
    PROVE  OldestFirst'
<1>p. /\ LogTypeOK /\ Payloads \subseteq Nat \ {0}
      /\ ckpt \in Nat /\ last \in Nat /\ ckpt <= last /\ cursor \in Nat /\ seq \in Nat
      /\ spooled \subseteq Payloads /\ minted \in Nat
  BY Types DEF TypeOK
<1>q. \A b \in Payloads : Sent(b) => Sent(b)'
  BY SentStays DEF Sent
<1>s. OldestFirst <=> \A b \in spooled, c \in Payloads : b < c /\ handled[c] > 0 => Sent(b)
  BY DEF OldestFirst, Sent
<1>t. OldestFirst' <=> \A b \in spooled', c \in Payloads : b < c /\ handled'[c] > 0 => Sent(b)'
  BY DEF OldestFirst, Sent
<1>1. CASE \E b \in Payloads : Deliver(b)
  <2>1. PICK b \in Payloads : Deliver(b)
    BY <1>1
  <2>2. minted < b /\ spooled' = spooled \cup {b} /\ handled' = handled
    BY <2>1 DEF Deliver, Flush
  <2>3. \A c \in Payloads : handled[c] > 0 => ~(b < c)
    BY <2>2, <1>p DEF MintedInOrder
  <2> QED BY <2>2, <2>3, <1>p, <1>q, <1>s, <1>t
<1>2. CASE Arrive
  <2>1. /\ batch \in Payloads /\ batch # NoBatch /\ handled' = Count(handled, batch)
        /\ spooled' = spooled
    BY <1>2 DEF Arrive, CanSend, Posting, TypeOK
  <2>2. \A c \in Payloads : c # batch => handled'[c] = handled[c]
    BY <2>1, CountEffect DEF TypeOK
  <2>3. phase = "draining" \/ phase = "sending"
    <3>1. phase # "off"
      BY <2>1 DEF IdleIsEmpty
    <3> QED BY <3>1 DEF TypeOK
  <2>4. ASSUME NEW b \in spooled, b < batch
        PROVE  Sent(b)
    <3>1. CASE b \notin Pending
      BY <3>1 DEF SpoolKept
    <3>2. CASE b \in Pending
      <4>1. PICK s \in (ckpt + 1)..last : records[s] = b
        BY <3>2, <1>p, PendingIs
      <4>2. s # 0 /\ s # seq
        BY <4>1, <2>4, <1>p DEF BatchAtSeq
      <4>3. s \in (ckpt + 1)..Front
        <5>1. CASE phase = "sending"
          BY <4>1, <5>1 DEF Front
        <5>2. CASE phase = "draining"
          <6>1. seq = cursor /\ cursor \in ckpt..last
            BY <5>2, <2>1 DEF BatchAtSeq
          <6>2. seq # 0 => s < seq
            <7>1. SUFFICES ASSUME seq # 0, ~(s < seq) PROVE FALSE
              OBVIOUS
            <7>2. seq \in (ckpt + 1)..last /\ records[seq] = batch /\ seq < s
              BY <7>1, <4>1, <4>2, <1>p DEF BatchAtSeq
            <7>3. records[seq] < records[s]
              BY <7>2, <4>1 DEF MintedInOrder
            <7> QED BY <7>2, <7>3, <4>1, <2>1, <2>4, <1>p
          <6>3. seq # 0
            BY <5>2, <2>1 DEF BatchAtSeq
          <6> QED BY <6>1, <6>2, <6>3, <4>1, <5>2, <1>p DEF Front
        <5> QED BY <2>3, <5>1, <5>2
      <4> QED BY <4>1, <4>2, <4>3, <2>1, <2>3 DEF BehindSent
    <3> QED BY <3>1, <3>2
  <2> QED BY <2>1, <2>2, <2>4, <1>p, <1>q, <1>s, <1>t
<1>3. CASE ~Arrive /\ ~(\E b \in Payloads : Deliver(b))
  <2>1. UNCHANGED <<spooled, handled>>
    BY <1>3 DEF Next, Attempt, Settling, Run, DrainNext, DrainDone, DeliverUnspooled,
          DeliverUnsynced, Flush, OrphanEnds, Forget, ArriveDuplicate, Refuse, Answer, CutOff, Ack,
          AckNothing, AckFails, DeadLetter, Stop, Abandon, Close, Crash, PowerLoss, Off,
          ServerRestarts, vars, history
  <2> QED BY <2>1, <1>p, <1>q, <1>s, <1>t
<1> QED BY <1>1, <1>2, <1>3

\* A handler that finishes accepts every line of its batch, whoever still waits.
LEMMA HandledAcceptedStep ==
    ASSUME TypeOK, IdleIsEmpty, HandlersFinish, HandledAccepted, [Next]_vars
    PROVE  HandledAccepted'
<1> USE DEF HandledAccepted
<1>p. /\ orphans \in [Payloads -> Nat] /\ handled \in [Payloads -> Nat]
      /\ accepted \in [Payloads -> 0..Lines] /\ handling \in BOOLEAN
      /\ handling => batch \in Payloads
  BY HandlingHasBatch DEF TypeOK
<1>1. CASE Arrive
  <2>1. /\ batch \in Payloads /\ ~handling /\ handling' = TRUE /\ batch' = batch
        /\ orphans' = orphans /\ accepted' = accepted /\ handled' = Count(handled, batch)
    BY <1>1 DEF Arrive, CanSend, Posting, TypeOK, forwarder
  <2>2. \A c \in Payloads : c # batch => handled'[c] = handled[c]
    BY <2>1, <1>p, CountEffect
  <2> QED BY <2>1, <2>2 DEF InHand
<1>2. CASE Answer
  <2>1. PICK n \in Reach : accepted' = Accepting(batch, n)
    BY <1>2 DEF Answer
  <2>2. /\ batch \in Payloads /\ orphans' = orphans /\ handled' = handled
    BY <1>2, <1>p DEF Answer, history
  <2>3. /\ \A c \in Payloads : accepted[c] = Lines => accepted'[c] = Lines
        /\ accepted'[batch] = Lines
    BY <2>1, <2>2, <1>p, AcceptingEffect
  <2> QED BY <2>2, <2>3 DEF InHand
<1>3. CASE \E b \in Payloads : OrphanEnds(b)
  <2>1. PICK b \in Payloads : OrphanEnds(b)
    BY <1>3
  <2>2. PICK n \in Reach : accepted' = Accepting(b, n)
    BY <2>1 DEF OrphanEnds
  <2>3. /\ \A c \in Payloads : c # b => orphans'[c] = orphans[c]
        /\ UNCHANGED <<handled, handling, batch>>
    BY <2>1, <1>p DEF OrphanEnds, forwarder, history
  <2>4. /\ \A c \in Payloads : accepted[c] = Lines => accepted'[c] = Lines
        /\ accepted'[b] = Lines
    BY <2>2, <1>p, AcceptingEffect
  <2> QED BY <2>3, <2>4 DEF InHand
<1>4. CASE CutOff
  <2>1. /\ batch \in Payloads /\ orphans' = Count(orphans, batch)
        /\ UNCHANGED <<accepted, handled>>
    BY <1>4, <1>p DEF CutOff, history
  <2>2. /\ orphans'[batch] = orphans[batch] + 1
        /\ \A c \in Payloads : c # batch => orphans'[c] = orphans[c]
    BY <2>1, <1>p, CountEffect
  <2>3. \A c \in Payloads : InHand(c) => orphans'[c] > 0
    BY <2>1, <2>2, <1>p DEF InHand
  <2> QED BY <2>1, <2>3 DEF InHand
<1>5. CASE \/ Abandon \/ Close \/ Crash \/ \E end \in durable..last : PowerLoss(end)
  <2>1. Orphaned /\ UNCHANGED <<accepted, handled>>
    BY <1>5 DEF Abandon, Close, Crash, PowerLoss, Off, history
  <2>2. \A c \in Payloads : InHand(c) => orphans'[c] > 0
    BY <2>1, <1>p, OrphanedEffect
  <2> QED BY <2>1, <2>2 DEF InHand
<1>6. CASE ServerRestarts
  <2>1. \A c \in Payloads : ~InHand(c)
    BY <1>6 DEF ServerRestarts, InHand
  <2>2. \A c \in Payloads : accepted'[c] = accepted[c]
    BY <1>6, <2>1 DEF ServerRestarts, InHand
  <2>3. handled' = handled
    BY <1>6 DEF ServerRestarts
  <2> QED BY <2>1, <2>2, <2>3
<1>7. CASE \/ Run \/ DrainNext \/ Ack \/ AckNothing \/ AckFails
           \/ \E b \in Payloads : Deliver(b) \/ DeliverUnspooled(b) \/ DeliverUnsynced(b)
  <2>1. UNCHANGED <<orphans, accepted, handled, handling>>
    BY <1>7 DEF Run, DrainNext, Ack, AckNothing, AckFails, Deliver, DeliverUnspooled,
          DeliverUnsynced, Flush, server, history
  <2>2. ~handling
    BY <1>7 DEF Run, DrainNext, Ack, AckNothing, AckFails, Acks, Deliver, DeliverUnspooled,
          DeliverUnsynced, Flush, IdleIsEmpty
  <2> QED BY <2>1, <2>2 DEF InHand
<1>8. CASE \/ DrainDone \/ ArriveDuplicate \/ Refuse \/ DeadLetter \/ Stop
           \/ (\E b \in Payloads : Forget(b)) \/ UNCHANGED vars
  <2>1. UNCHANGED <<orphans, accepted, handled, handling, batch>>
    BY <1>8 DEF DrainDone, ArriveDuplicate, Refuse, Ends, DeadLetter, Stop, Forget, vars,
          forwarder, server, history
  <2> QED BY <2>1 DEF InHand
<1> QED
  BY <1>1, <1>2, <1>3, <1>4, <1>5, <1>6, <1>7, <1>8 DEF Next, Attempt, Settling

-----------------------------------------------------------------------------
(* The theorems. *)

\* The first state satisfies the invariant.
LEMMA InitInv == Init => Inv
<1> SUFFICES ASSUME Init PROVE Inv
  OBVIOUS
<1> USE DeliveryAssumption DEF Init, LogInit
<1>1. TypeOK
  <2>1. open \in BOOLEAN
    OBVIOUS
  <2>2. records \in [(ckpt + 1)..last -> Payloads]
    OBVIOUS
  <2>3. ckpt \in Nat /\ last \in Nat /\ ckpt <= last /\ durable \in ckpt..last
    OBVIOUS
  <2>4. LogTypeOK
    BY ONLY <2>1, <2>2, <2>3 DEF LogTypeOK
  <2>5. stopping \in BOOLEAN
    OBVIOUS
  <2>6. final \in BOOLEAN
    OBVIOUS
  <2>7. handling \in BOOLEAN
    OBVIOUS
  <2>8. accepted \in [Payloads -> 0..Lines]
    OBVIOUS
  <2> QED BY <2>4, <2>5, <2>6, <2>7, <2>8 DEF TypeOK
<1>2. IdleIsEmpty
  BY DEF IdleIsEmpty
<1>3. WindowCounts /\ HandledAccepted
  BY DEF WindowCounts, HandledAccepted
<1>4. MintedInOrder
  BY DEF MintedInOrder, NoBatch
<1>5. BatchAtSeq /\ SpooledDurable
  BY DEF BatchAtSeq, SpooledDurable
<1>6. SettledSent /\ BehindSent /\ SpoolKept /\ OldestFirst
  BY DEF SettledSent, BehindSent, SpoolKept, OldestFirst
<1> QED BY <1>1, <1>2, <1>3, <1>4, <1>5, <1>6 DEF Inv

\* Every step keeps it.
LEMMA NextInv == Inv /\ [Next]_vars => Inv'
<1> SUFFICES ASSUME Inv, [Next]_vars PROVE Inv'
  OBVIOUS
<1>0. TypeOK /\ IdleIsEmpty /\ WindowCounts /\ MintedInOrder /\ BatchAtSeq /\ SpooledDurable
  BY DEF Inv
<1>1. TypeOK' /\ IdleIsEmpty' /\ WindowCounts'
  BY <1>0, TypeStep, IdleStep, WindowStep
<1>2. MintedInOrder' /\ BatchAtSeq' /\ SpooledDurable'
  BY <1>0, MintedStep, BatchAtSeqStep, SpooledDurableStep
<1>3. OrderlyStop => SettledSent' /\ BehindSent' /\ SpoolKept' /\ OldestFirst'
  BY <1>0, SettledSentStep, BehindSentStep, SpoolKeptStep, OldestFirstStep DEF Inv, OrderlyStop
<1>4. HandlersFinish => HandledAccepted'
  BY <1>0, HandledAcceptedStep DEF Inv
<1>5. OrderlyStop' = OrderlyStop
  BY DEF OrderlyStop
<1> QED BY <1>1, <1>2, <1>3, <1>4, <1>5 DEF Inv

\* Inv holds in every reachable state.
THEOREM Invariance == Spec => []Inv
<1>1. Init => Inv
  BY InitInv
<1>2. Inv /\ [Next]_vars => Inv'
  BY NextInv
<1> QED BY <1>1, <1>2, PTL DEF Spec

\* Every reachable state of forwarder, spool and server is of the right type.
THEOREM TypeCorrect == Spec => []TypeOK
<1>1. Inv => TypeOK
  BY DEF Inv
<1> QED BY <1>1, Invariance, PTL

\* "retried until the server accepts it, and only then dropped from the queue"
\* (forward.go:35-39): no batch the spool has synced is lost, whatever crashes,
\* restarts, times out or is retried, when the handlers finish, the dead-letter
\* file can be written and no lines wait for the send loop as it stops.
THEOREM SpooledIsSafe ==
    ASSUME OrderlyStop, HandlersFinish
    PROVE  Spec => []SpooledNotLost
<1>1. Inv => SpooledNotLost
  <2>1. SUFFICES ASSUME Inv, NEW b \in spooled, b \notin Pending, b \notin dead
                 PROVE  accepted[b] = Lines \/ InHand(b)
    BY DEF SpooledNotLost
  <2>2. b \in Payloads /\ handled[b] > 0
    BY <2>1 DEF Inv, TypeOK, SpoolKept, Sent
  <2> QED BY <2>1, <2>2 DEF Inv, HandledAccepted
<1> QED BY <1>1, Invariance, PTL

\* "A retry means the acknowledgement was lost, not the data" (handler.go:44-47):
\* one handler ingests a batch for each time the server forgot its ID, with no
\* assumption on how handlers, requests or the spool fail.
THEOREM OneCopy == Spec => []OneCopyPerMemory
<1>1. Inv => OneCopyPerMemory
  <2>1. SUFFICES ASSUME Inv, NEW b \in Payloads
                 PROVE  handled[b] <= 1 + forgotten[b]
    BY DEF OneCopyPerMemory
  <2>2. handled[b] \in Nat /\ forgotten[b] \in Nat
    BY <2>1 DEF Inv, TypeOK
  <2> QED BY <2>1, <2>2 DEF Inv, WindowCounts
<1> QED BY <1>1, Invariance, PTL

\* "Anything left in the spool from a previous run goes first" (forward.go:133-134):
\* no batch overtakes an older spooled one, across crashes and spool errors.
THEOREM SpooledInOrder ==
    ASSUME OrderlyStop
    PROVE  Spec => []OldestFirst
<1>1. Inv => OldestFirst
  BY DEF Inv
<1> QED BY <1>1, Invariance, PTL
=============================================================================
