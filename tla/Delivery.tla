------------------------------ MODULE Delivery ------------------------------
(***************************************************************************)
(* At-least-once delivery between two processes: the forwarder of          *)
(* internal/forward, which spools every batch to a write-ahead log before  *)
(* it posts it and acknowledges it when the server has answered, and the   *)
(* server's raw ingest handler with the batch-ID window of                 *)
(* internal/ingest/dedupe.go, which answers a retry of a batch it knows    *)
(* without ingesting it again.                                             *)
(*                                                                         *)
(* Abstractions.                                                           *)
(*   - The spool's log is DurableLog (Wal.tla implements it).              *)
(*   - A batch is its ID, minted in increasing order; its lines are        *)
(*     accepted in order, so a handler's effect is how many it accepted.   *)
(*   - A request that does not reach the server, or that it turns away     *)
(*     with a 429 or 5xx before it looks at the batch ID, changes nothing: *)
(*     it and the back-off before the next attempt are stuttering.         *)
(*   - A server that has accepted a line keeps it (Ingest.tla).            *)
(*   - Tailing the files is left out: a line not yet in a batch is lost    *)
(*     with the process, and nothing promises otherwise.                   *)
(***************************************************************************)
EXTENDS DurableLog

CONSTANTS
    Lines,            \* lines in a batch
    HandlersFinish,   \* does a handler that has recorded a batch ID accept every line?
                      \* FALSE: the queue may be full, the body may break off, the
                      \* server may die under it
    DeadLetterWorks,  \* does every write to the dead-letter file succeed?
    LinesAtStop,      \* may lines be waiting for the send loop when it is told to stop?
    MaxRestarts,      \* bound: forwarder stops, crashes and power losses
    MaxForgets,       \* bound: server restarts and batch IDs that leave the window
    MaxCutOffs,       \* bound: requests whose client gives up before the answer
    MaxFaults         \* bound: I/O errors of the spool

ASSUME DeliveryAssumption ==
    /\ Payloads \subseteq Nat \ {0}
    /\ Lines \in Nat \ {0}
    /\ HandlersFinish \in BOOLEAN
    /\ DeadLetterWorks \in BOOLEAN
    /\ LinesAtStop \in BOOLEAN
    /\ MaxRestarts \in Nat
    /\ MaxForgets \in Nat
    /\ MaxCutOffs \in Nat
    /\ MaxFaults \in Nat

VARIABLES
    \* -- the forwarder ---------------------------------------------------
    phase,     \* "off", "draining" the spool of earlier runs, "sending" new batches
    cursor,    \* draining: records up to here have been handed to post
    stopping,  \* has the context been cancelled?
    final,     \* has finalFlush begun?
    batch,     \* the batch post is sending, NoBatch between batches
    seq,       \* its number in the spool, 0 if it is not there
    outcome,   \* how its last attempt ended, "none" while post still tries
    dead,      \* batches in the dead-letter file
    \* -- the server ------------------------------------------------------
    seen,      \* batch IDs in the dedupe window
    handling,  \* is a handler working for the attempt the forwarder waits on?
    orphans,   \* orphans[b]: handlers of b whose client has gone
    accepted,  \* accepted[b]: how many of its lines the server has accepted
    \* -- history ---------------------------------------------------------
    minted,    \* the newest batch
    spooled,   \* batches whose Add returned nil
    handled,   \* handled[b]: handlers that have begun to ingest b
    forgotten, \* forgotten[b]: times the server forgot b
    restarts, forgets, cutOffs, faults

forwarder == <<phase, cursor, stopping, final, batch, seq, outcome, dead>>
server    == <<seen, handling, orphans, accepted>>
history   == <<minted, spooled, handled, forgotten>>
bounds    == <<restarts, forgets, cutOffs, faults>>
vars == <<logVars, forwarder, server, history, bounds>>

NoBatch == 0
Posting == batch # NoBatch /\ outcome = "none"
Pending == {records[s] : s \in DOMAIN records}

Fault ==
    /\ faults < MaxFaults
    /\ faults' = faults + 1
    /\ UNCHANGED <<restarts, forgets, cutOffs>>

-----------------------------------------------------------------------------
(* The forwarder: Run, drainSpool, deliver. *)

\* Mutated: Run does not look at the spool.
RunUndrained ==
    /\ phase = "off"
    /\ Reopen
    /\ phase' = "draining"
    /\ cursor' = last
    /\ UNCHANGED <<stopping, final, batch, seq, outcome, dead, server, history, bounds>>

\* New: openSpool; then Run begins with what an earlier run left.
Run ==
    /\ phase = "off"
    /\ Reopen
    /\ phase' = "draining"
    /\ cursor' = ckpt
    /\ UNCHANGED <<stopping, final, batch, seq, outcome, dead, server, history, bounds>>

\* Pending hands the next record to post.
DrainNext ==
    /\ phase = "draining"
    /\ batch = NoBatch
    /\ cursor < last
    /\ cursor' = cursor + 1
    /\ batch' = records[cursor + 1]
    /\ seq' = cursor + 1
    /\ UNCHANGED <<logVars, phase, stopping, final, outcome, dead, server, history, bounds>>

DrainDone ==
    /\ phase = "draining"
    /\ batch = NoBatch
    /\ cursor = last
    /\ phase' = "sending"
    /\ UNCHANGED <<logVars, cursor, stopping, final, batch, seq, outcome, dead,
                   server, history, bounds>>

\* flush gives deliver a new batch.  After the cancellation the select may
\* still pick a waiting line, and the last batch goes out under finalFlush.
Flush(b) ==
    /\ phase = "sending"
    /\ batch = NoBatch
    /\ ~final
    /\ stopping => LinesAtStop
    /\ minted < b /\ \A c \in Payloads : minted < c => b <= c
    /\ minted' = b
    /\ batch' = b
    /\ final' \in (IF stopping THEN BOOLEAN ELSE {FALSE})
    /\ UNCHANGED <<phase, cursor, stopping, outcome, dead, server, handled, forgotten>>

\* spool.Add appends and syncs.
Deliver(b) ==
    /\ Flush(b)
    /\ Accept(b)
    /\ durable' = last'
    /\ seq' = last'
    /\ spooled' = spooled \cup {b}
    /\ UNCHANGED bounds

\* The record is not written: the batch is sent from memory.
DeliverUnspooled(b) ==
    /\ Flush(b)
    /\ Fault
    /\ Harden
    /\ seq' = 0
    /\ UNCHANGED spooled

\* The record is written and its sync fails.
DeliverUnsynced(b) ==
    /\ Flush(b)
    /\ Fault
    /\ Accept(b)
    /\ seq' = last'
    /\ UNCHANGED spooled

-----------------------------------------------------------------------------
(* One attempt: the request reaches the server. *)

\* attempt sends nothing under a cancelled context.
CanSend == Posting /\ ~handling /\ (stopping => final)

Ends(o) ==
    /\ outcome' = o
    /\ UNCHANGED <<phase, cursor, stopping, final, batch, seq, dead>>

Count(f, b) == [f EXCEPT ![b] = @ + 1]

\* Mutated: the ID is recorded once the batch is accepted.
RecordNone == seen

\* Seen records the ID as it looks it up.
RecordSeen == seen \cup {batch}

\* duplicateBatch: the ID is new, and the handler goes on to the lines.
Arrive ==
    /\ CanSend
    /\ batch \notin seen
    /\ seen' = RecordSeen
    /\ handling' = TRUE
    /\ handled' = Count(handled, batch)
    /\ UNCHANGED <<logVars, forwarder, orphans, accepted, minted, spooled, forgotten, bounds>>

\* duplicateBatch: the ID is known, and the answer is 200.
ArriveDuplicate ==
    /\ CanSend
    /\ batch \in seen
    /\ Ends("delivered")
    /\ UNCHANGED <<logVars, server, history, bounds>>

\* Turned away for good before the handler: a wrong key.
Refuse ==
    /\ CanSend
    /\ Ends("permanent")
    /\ UNCHANGED <<logVars, server, history, bounds>>

\* How many lines a handler accepts: the first refused Enqueue, the first
\* unreadable line or a crash ends it.
Reach == IF HandlersFinish THEN {Lines} ELSE 0..Lines
Accepting(b, n) == [accepted EXCEPT ![b] = IF @ < n THEN n ELSE @]

\* The handler answers: 200, 429 when lines overflowed, 400 or 413 when the
\* body could not be read to its end.
Answer ==
    /\ Posting
    /\ handling
    /\ handling' = FALSE
    /\ \E n \in Reach :
          /\ accepted' = Accepting(batch, n)
          /\ \E o \in (IF n = Lines THEN {"delivered"} ELSE {"none", "permanent"}) : Ends(o)
    /\ UNCHANGED <<logVars, seen, orphans, history, bounds>>

\* The client times out or the connection breaks: the handler goes on alone.
CutOff ==
    /\ Posting
    /\ handling
    /\ cutOffs < MaxCutOffs
    /\ cutOffs' = cutOffs + 1
    /\ handling' = FALSE
    /\ orphans' = Count(orphans, batch)
    /\ UNCHANGED <<logVars, forwarder, seen, accepted, history, restarts, forgets, faults>>

OrphanEnds(b) ==
    /\ orphans[b] > 0
    /\ orphans' = [orphans EXCEPT ![b] = @ - 1]
    /\ \E n \in Reach : accepted' = Accepting(b, n)
    /\ UNCHANGED <<logVars, forwarder, seen, handling, history, bounds>>

-----------------------------------------------------------------------------
(* settle. *)

Settled ==
    /\ batch' = NoBatch
    /\ seq' = 0
    /\ outcome' = "none"
    /\ UNCHANGED <<phase, cursor, stopping, final, dead>>

\* What Ack moves the checkpoint over: every record up to this one.
Acks == outcome \in {"delivered", "buried"} /\ seq > ckpt

Ack ==
    /\ Acks
    /\ Settle(seq)
    /\ Settled
    /\ UNCHANGED <<server, history, bounds>>

AckFails ==
    /\ Acks
    /\ Fault
    /\ Settled
    /\ UNCHANGED <<logVars, server, history>>

\* The batch was never spooled: there is nothing to acknowledge.
AckNothing ==
    /\ outcome \in {"delivered", "buried"}
    /\ seq = 0
    /\ Settled
    /\ UNCHANGED <<logVars, server, history, bounds>>

\* Mutated: the permanent case has no dead-letter record.
BuriedNowhere == dead

Buried == dead \cup {batch}

\* A batch refused for good goes to the dead-letter file, and is acknowledged
\* whether or not that worked.
DeadLetter ==
    /\ outcome = "permanent"
    /\ dead' \in (IF DeadLetterWorks THEN {Buried} ELSE {dead, Buried})
    /\ outcome' = "buried"
    /\ UNCHANGED <<logVars, phase, cursor, stopping, final, batch, seq, server, history, bounds>>

-----------------------------------------------------------------------------
(* Shutdown, crashes, and the window. *)

\* The handler of an attempt the forwarder no longer waits for.
Orphaned == orphans' = IF handling THEN Count(orphans, batch) ELSE orphans

Restart ==
    /\ restarts < MaxRestarts
    /\ restarts' = restarts + 1
    /\ UNCHANGED <<forgets, cutOffs, faults>>

Stop ==
    /\ phase # "off"
    /\ ~stopping
    /\ Restart
    /\ stopping' = TRUE
    /\ UNCHANGED <<logVars, phase, cursor, final, batch, seq, outcome, dead, server, history>>

\* Mutated: settle acknowledges an abandoned batch.
AcknowledgeAbandoned == IF seq > ckpt THEN Settle(seq) ELSE UNCHANGED logVars

LeaveSpooled == UNCHANGED logVars

\* post gives up at once, or when finalFlush's own deadline has passed: the
\* batch stays in the spool.
Abandon ==
    /\ Posting
    /\ stopping
    /\ phase' = "sending"
    /\ batch' = NoBatch
    /\ seq' = 0
    /\ handling' = FALSE
    /\ Orphaned
    /\ LeaveSpooled
    /\ UNCHANGED <<cursor, stopping, final, outcome, dead, seen, accepted, history, bounds>>

Off ==
    /\ phase' = "off"
    /\ cursor' = 0
    /\ stopping' = FALSE
    /\ final' = FALSE
    /\ batch' = NoBatch
    /\ seq' = 0
    /\ outcome' = "none"
    /\ handling' = FALSE
    /\ Orphaned
    /\ UNCHANGED <<dead, seen, accepted, history>>

Close ==
    /\ phase = "sending"
    /\ stopping
    /\ batch = NoBatch
    /\ Die
    /\ Off
    /\ UNCHANGED bounds

Crash ==
    /\ Die
    /\ Restart
    /\ Off

PowerLoss(end) ==
    /\ phase # "off"
    /\ LosePowerTo(end)
    /\ Restart
    /\ Off

\* The server dies with its handlers and starts again with an empty window.
ServerRestarts ==
    /\ forgets < MaxForgets
    /\ forgets' = forgets + 1
    /\ HandlersFinish => ~handling /\ \A b \in Payloads : orphans[b] = 0
    /\ seen' = {}
    /\ forgotten' = [b \in Payloads |-> IF b \in seen THEN forgotten[b] + 1 ELSE forgotten[b]]
    /\ handling' = FALSE
    /\ orphans' = [b \in Payloads |-> 0]
    /\ \E reach \in [Payloads -> Reach \cup {0}] :
          accepted' = [b \in Payloads |->
              IF (orphans[b] > 0 \/ (handling /\ b = batch)) /\ accepted[b] < reach[b]
              THEN reach[b] ELSE accepted[b]]
    /\ UNCHANGED <<logVars, forwarder, minted, spooled, handled, restarts, cutOffs, faults>>

\* Ten minutes pass, or the window is full and sheds its older half.
Forget(b) ==
    /\ b \in seen
    /\ forgets < MaxForgets
    /\ forgets' = forgets + 1
    /\ seen' = seen \ {b}
    /\ forgotten' = Count(forgotten, b)
    /\ UNCHANGED <<logVars, forwarder, handling, orphans, accepted, minted, spooled, handled,
                   restarts, cutOffs, faults>>

-----------------------------------------------------------------------------
Init ==
    /\ LogInit
    /\ phase = "off"
    /\ cursor = 0
    /\ stopping = FALSE
    /\ final = FALSE
    /\ batch = NoBatch
    /\ seq = 0
    /\ outcome = "none"
    /\ dead = {}
    /\ seen = {}
    /\ handling = FALSE
    /\ orphans = [b \in Payloads |-> 0]
    /\ accepted = [b \in Payloads |-> 0]
    /\ minted = 0
    /\ spooled = {}
    /\ handled = [b \in Payloads |-> 0]
    /\ forgotten = [b \in Payloads |-> 0]
    /\ restarts = 0
    /\ forgets = 0
    /\ cutOffs = 0
    /\ faults = 0

Attempt == Arrive \/ ArriveDuplicate

Settling == Ack \/ AckNothing \/ DeadLetter

Next ==
    \/ Run \/ DrainNext \/ DrainDone
    \/ \E b \in Payloads :
          Deliver(b) \/ DeliverUnspooled(b) \/ DeliverUnsynced(b) \/ OrphanEnds(b) \/ Forget(b)
    \/ Attempt \/ Refuse \/ Answer \/ CutOff
    \/ Settling \/ AckFails
    \/ Stop \/ Abandon \/ Close \/ Crash
    \/ \E end \in durable..last : PowerLoss(end)
    \/ ServerRestarts

Spec == Init /\ [][Next]_vars

\* A forwarder that is down is started again; post retries for as long as it
\* takes, and the server is reachable and willing at some attempt; handlers end.
Fairness ==
    /\ WF_vars(Run)
    /\ WF_vars(DrainNext \/ DrainDone)
    /\ WF_vars(Attempt)
    /\ WF_vars(Answer)
    /\ WF_vars(Settling)
    /\ WF_vars(Abandon \/ Close)
    /\ \A b \in Payloads : WF_vars(OrphanEnds(b))

FairSpec == Spec /\ Fairness

-----------------------------------------------------------------------------
(* Properties. *)

TypeOK ==
    /\ LogTypeOK
    /\ phase \in {"off", "draining", "sending"}
    /\ cursor \in Nat
    /\ stopping \in BOOLEAN
    /\ final \in BOOLEAN
    /\ batch \in Payloads \cup {NoBatch}
    /\ seq \in Nat
    /\ outcome \in {"none", "delivered", "permanent", "buried"}
    /\ dead \subseteq Payloads
    /\ seen \subseteq Payloads
    /\ handling \in BOOLEAN
    /\ orphans \in [Payloads -> Nat]
    /\ accepted \in [Payloads -> 0..Lines]
    /\ minted \in Nat
    /\ spooled \subseteq Payloads
    /\ handled \in [Payloads -> Nat]
    /\ forgotten \in [Payloads -> Nat]
    /\ restarts \in Nat
    /\ forgets \in Nat
    /\ cutOffs \in Nat
    /\ faults \in Nat

InHand(b) == orphans[b] > 0 \/ (handling /\ b = batch)

\* "retried until the server accepts it, and only then dropped from the queue"
\* (forward.go:35-39): a batch whose Add returned nil is still in the spool, or
\* the server has all its lines or is at work on them, or it is in the
\* dead-letter file, whatever crashes, restarts, times out or is retried.
SpooledNotLost ==
    \A b \in spooled :
        b \in Pending \/ accepted[b] = Lines \/ InHand(b) \/ b \in dead

\* "A retry means the acknowledgement was lost, not the data, so re-ingesting
\* would duplicate every event in it" (handler.go:44-47): a batch is ingested a
\* second time only if the server has forgotten its ID, even when the retry
\* overtakes the first request.
OneCopyPerMemory == \A b \in Payloads : handled[b] <= 1 + forgotten[b]

\* "Anything left in the spool from a previous run goes first, so restart order
\* matches ingest order" (forward.go:133-134): no batch reaches the server
\* before an older spooled one has, unless that one was refused for good.
OldestFirst ==
    \A b \in spooled, c \in Payloads :
        b < c /\ handled[c] > 0 => handled[b] > 0 \/ b \in dead

\* A spooled batch is delivered or dead-lettered in the end, through restarts of
\* both sides (forward.go:455-460: the retry budget is unbounded).
DeliveredInTheEnd ==
    \A b \in Payloads : (b \in spooled) ~> (accepted[b] = Lines \/ b \in dead)

-----------------------------------------------------------------------------
(* The inductive invariant behind the safety properties; Delivery_proofs     *)
(* proves it.  What it assumes of the constants is said where it is used.    *)

\* The handler has looked up the batch ID, or the batch is in the dead-letter file.
Sent(b) == handled[b] > 0 \/ b \in dead

\* Between batches, and in a forwarder that is down, nothing is under way.
IdleIsEmpty ==
    /\ open <=> phase # "off"
    /\ phase = "off" => batch = NoBatch /\ ~stopping
    /\ batch = NoBatch => seq = 0 /\ outcome = "none" /\ ~handling
    /\ handling => outcome = "none" /\ handled[batch] > 0
    /\ final => LinesAtStop

\* An ID in the window is there for one handler the server has not forgotten.
WindowCounts ==
    /\ \A b \in Payloads : handled[b] <= forgotten[b] + (IF b \in seen THEN 1 ELSE 0)
    /\ \A b \in seen : handled[b] > 0

\* Batches are numbered as they are minted, in the spool too.
MintedInOrder ==
    /\ batch <= minted
    /\ \A b \in spooled : b <= minted
    /\ \A b \in Payloads : handled[b] > 0 => b <= minted
    /\ \A s \in (ckpt + 1)..last : records[s] <= minted
    /\ \A s, t \in (ckpt + 1)..last : s < t => records[s] < records[t]

\* The batch in hand is the record it will acknowledge, the drained one the newest.
BatchAtSeq ==
    /\ seq # 0 => seq \in (ckpt + 1)..last /\ records[seq] = batch
    /\ phase = "draining" => cursor \in ckpt..last /\ (batch # NoBatch => seq = cursor /\ seq # 0)

\* What a synced Add wrote is on stable storage.
SpooledDurable ==
    \A s \in (ckpt + 1)..last : records[s] \in spooled => s <= durable

\* A settled attempt left its batch at the server or in the dead-letter file.
SettledSent ==
    /\ outcome = "delivered" => handled[batch] > 0
    /\ outcome = "buried" => batch \in dead

\* Every record the forwarder is past has been sent, but for the one in hand.
\* After a batch is abandoned nothing more is flushed, so nothing need hold.
Front == IF phase = "draining" THEN cursor ELSE last

BehindSent ==
    phase = "draining" \/ (phase = "sending" /\ (~stopping \/ batch # NoBatch)) =>
        \A s \in (ckpt + 1)..Front : s = seq \/ Sent(records[s])

\* A spooled batch leaves the spool only when it has been sent.
SpoolKept == \A b \in spooled : b \in Pending \/ Sent(b)

\* What a handler began to ingest it has accepted or is still at.
HandledAccepted ==
    \A b \in Payloads : handled[b] > 0 => accepted[b] = Lines \/ InHand(b)

\* The send loop has nothing waiting when it is told to stop, and the
\* dead-letter file can be written.
OrderlyStop == ~LinesAtStop /\ DeadLetterWorks

Inv ==
    /\ TypeOK
    /\ IdleIsEmpty
    /\ WindowCounts
    /\ MintedInOrder
    /\ BatchAtSeq
    /\ SpooledDurable
    /\ OrderlyStop => SettledSent /\ BehindSent /\ SpoolKept /\ OldestFirst
    /\ HandlersFinish => HandledAccepted
=============================================================================
