----------------------------- MODULE DurableLog -----------------------------
(***************************************************************************)
(* What a write-ahead log promises its callers, with no segments, files or *)
(* handles: a numbered list of payloads past a checkpoint, of which a      *)
(* power loss can take at most the newest unsynced part.  Wal.tla is shown *)
(* to implement this module; Ingest.tla is built on it.                    *)
(***************************************************************************)
EXTENDS Integers

CONSTANT Payloads

VARIABLES
    open,     \* is the log open in a running process?
    ckpt,     \* the checkpoint on disk
    last,     \* the number of the newest record; the next one gets last + 1
    records,  \* records[s] = the payload of record s, for s in ckpt+1..last
    durable   \* records up to this number are on stable storage

logVars == <<open, ckpt, last, records, durable>>

LogTypeOK ==
    /\ open \in BOOLEAN
    /\ ckpt \in Nat
    /\ last \in Nat /\ ckpt <= last
    /\ records \in [(ckpt + 1)..last -> Payloads]
    /\ durable \in ckpt..last

\* Mutated: the newest record is dropped too.
KeptShort(lo, hi) == [s \in (lo + 1)..(hi - 1) |-> records[s]]

\* The records from lo + 1 to hi.
Kept(lo, hi) == [s \in (lo + 1)..hi |-> records[s]]

\* The records with p as the next one.
Extended(p) ==
    [s \in (ckpt + 1)..(last + 1) |-> IF s = last + 1 THEN p ELSE records[s]]

\* Append returns nil.  Rotation may have made older records durable, and
\* SyncOnAppend the new one.
Accept(p) ==
    /\ open
    /\ last' = last + 1
    /\ records' = Extended(p)
    /\ durable' \in durable..(last + 1)
    /\ UNCHANGED <<open, ckpt>>

\* Append returns an error, or Sync is called.
Harden ==
    /\ open
    /\ durable' \in durable..last
    /\ UNCHANGED <<open, ckpt, last, records>>

\* SetCheckpoint: the consumer is done with every record up to seq.  Records
\* that a failed rotation left unsynced may be among them.
Settle(seq) ==
    /\ open
    /\ seq \in (ckpt + 1)..last
    /\ ckpt' = seq
    /\ records' = Kept(seq, last)
    /\ durable' \in (IF durable < seq THEN seq ELSE durable)..last
    /\ UNCHANGED <<open, last>>

\* A process crash keeps every record, and perhaps one whose Append had not
\* returned.
Die ==
    /\ open
    /\ open' = FALSE
    /\ UNCHANGED <<ckpt, last, records, durable>>

DieAppending(p) ==
    /\ open
    /\ open' = FALSE
    /\ last' = last + 1
    /\ records' = Extended(p)
    /\ durable' \in durable..last
    /\ UNCHANGED ckpt

DieSettling(seq) ==
    /\ open
    /\ open' = FALSE
    /\ seq \in (ckpt + 1)..last
    /\ ckpt' = seq
    /\ records' = Kept(seq, last)
    /\ durable' \in (IF durable < seq THEN seq ELSE durable)..last
    /\ UNCHANGED last

\* A power loss keeps what is durable, and of the rest the oldest part or none.
LosePowerTo(end) ==
    /\ end \in durable..last
    /\ open' = FALSE
    /\ last' = end
    /\ records' = Kept(ckpt, end)
    /\ durable' = end
    /\ UNCHANGED ckpt

Reopen ==
    /\ ~open
    /\ open' = TRUE
    /\ UNCHANGED <<ckpt, last, records, durable>>

LogInit ==
    /\ open = FALSE
    /\ ckpt = 0
    /\ last = 0
    /\ records = [s \in 1..0 |-> 0]
    /\ durable = 0

LogNext ==
    \/ \E p \in Payloads : Accept(p) \/ DieAppending(p)
    \/ Harden
    \/ \E seq \in (ckpt + 1)..last : Settle(seq) \/ DieSettling(seq)
    \/ Die
    \/ \E end \in durable..last : LosePowerTo(end)
    \/ Reopen

LogSpec == LogInit /\ [][LogNext]_logVars
=============================================================================
