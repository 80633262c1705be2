-------------------------------- MODULE Wal --------------------------------
(***************************************************************************)
(* The segment write-ahead log of internal/wal/wal.go: an append-only,     *)
(* sequence-numbered log split across segment files, with a checkpoint     *)
(* that marks how far the consumer has processed and lets applied segments *)
(* be deleted.  The ingest path and the forwarder's spool both sit on it.  *)
(*                                                                         *)
(* Abstractions.                                                           *)
(*   - Every record is one unit long, so MaxSegment counts records.        *)
(*   - A payload is the ordinal of the Append call that carried it.        *)
(*   - Bytes that do not decode to a record (short header, short payload,  *)
(*     bad CRC) are the single entry Torn.                                 *)
(*   - w.mu makes every method atomic; what can be seen of the middle of a *)
(*     method is what a crash leaves behind, so the crash actions say it.  *)
(*   - Truncate, directory fsync and segment removal are assumed to work.  *)
(***************************************************************************)
EXTENDS Integers, Sequences, FiniteSets

CONSTANTS
    MaxSegment,     \* Options.MaxSegmentBytes, in records
    SyncOnAppend,   \* Options.SyncOnAppend
    CkptLossy,      \* may a power loss empty the checkpoint file, whose data is never fsynced?
    MaxAppends,     \* bound: Append calls
    MaxCrashes,     \* bound: process crashes and clean closes
    MaxLosses,      \* bound: power losses
    MaxFaults       \* bound: I/O errors returned by the operating system

ASSUME WalAssumption ==
    /\ MaxSegment \in Nat \ {0}
    /\ SyncOnAppend \in BOOLEAN
    /\ CkptLossy \in BOOLEAN
    /\ MaxAppends \in Nat
    /\ MaxCrashes \in Nat
    /\ MaxLosses \in Nat
    /\ MaxFaults \in Nat

VARIABLES
    \* -- the directory ---------------------------------------------------
    files,       \* files[s] = the entries of the segment file wal-<s>.log
    synced,      \* synced[s] = how many of them are on stable storage
    ckptFile,    \* the number in the checkpoint file (0: no file)
    \* -- the WAL struct --------------------------------------------------
    up,          \* is the log open in a running process?
    segments,    \* w.segments, as start sequence numbers
    active,      \* start of the active segment, NoSegment for a nil handle
    activeSize,  \* w.activeSize
    nextSeq,     \* w.nextSeq
    checkpoint,  \* w.checkpoint
    \* -- history ---------------------------------------------------------
    appends,     \* Append calls so far
    owed,        \* records whose Append returned nil, that no checkpoint on disk
                 \* covers and no power loss took back: the log owes their replay
    refused,     \* payloads whose Append returned an error
    crashes, losses, faults

disk  == <<files, synced, ckptFile>>
mem   == <<up, segments, active, activeSize, nextSeq, checkpoint>>
hist  == <<appends, owed, refused>>
bounds == <<crashes, losses, faults>>
vars  == <<disk, mem, hist, bounds>>

NoSegment == 0
Torn == [seq |-> 0, val |-> 0]
Record == [seq : Nat \ {0}, val : Nat \ {0}]
Entry == Record \cup {Torn}

-----------------------------------------------------------------------------
(* Scanning and replay. *)

\* scanSegment: a scan stops at the first entry that does not decode.
ValidTo(f, i) == \A j \in 1..i : f[j] # Torn

\* The records a scan of the file delivers.
Scanned(f) == {f[i] : i \in {j \in 1..Len(f) : ValidTo(f, j)}}

\* The offset just past the last valid record (endOff of scanSegment).
ScanEnd(f) ==
    CHOOSE n \in 0..Len(f) : ValidTo(f, n) /\ (n = Len(f) \/ f[n + 1] = Torn)

\* Everything Open finds when it scans every segment.
OnDisk == UNION {Scanned(files[s]) : s \in DOMAIN files}

\* Replay: the records past the checkpoint.
Replayable(ckpt) == {r \in OnDisk : r.seq > ckpt}

\* listSegments, and maxSeq of Open.
LastSegment == CHOOSE s \in DOMAIN files : \A t \in DOMAIN files : t <= s

\* Mutated: only the last segment is scanned for it.
HighestSeqOfLast ==
    LET seqs == IF DOMAIN files = {} THEN {} ELSE {r.seq : r \in Scanned(files[LastSegment])}
    IN IF seqs = {} THEN 0 ELSE CHOOSE n \in seqs : \A m \in seqs : m <= n

HighestSeq ==
    IF OnDisk = {} THEN 0
    ELSE CHOOSE n \in {r.seq : r \in OnDisk} : \A r \in OnDisk : r.seq <= n

\* The records known to be on stable storage.
Stable ==
    UNION {{files[s][i] : i \in {j \in 1..synced[s] : ValidTo(files[s], j)}} : s \in DOMAIN files}

-----------------------------------------------------------------------------
(* Append: the handle is rotated and reopened first where that is due. *)

NeedRotate ==
    /\ active # NoSegment
    /\ activeSize > 0
    /\ activeSize + 1 > MaxSegment
NeedOpen == NeedRotate \/ active = NoSegment

\* The segment the record goes to, and w.activeSize before the write.
Target == IF NeedOpen THEN nextSeq ELSE active
StartSize == IF NeedOpen THEN 0 ELSE activeSize

\* Mutated: rotateLocked closes the segment without fsync.
SyncedUnrotated == synced

\* rotateLocked fsyncs the segment it retires.
SyncedRotated ==
    [s \in DOMAIN files |-> IF NeedRotate /\ s = active THEN Len(files[s]) ELSE synced[s]]

\* openNewSegmentLocked: O_CREATE|O_APPEND, so a file of that name is reused.
StartsOpened == IF NeedOpen THEN DOMAIN files \cup {Target} ELSE DOMAIN files
FilesOpened == [s \in StartsOpened |-> IF s \in DOMAIN files THEN files[s] ELSE <<>>]
SyncedOpened == [s \in StartsOpened |-> IF s \in DOMAIN files THEN SyncedRotated[s] ELSE 0]
SegmentsOpened == IF NeedOpen THEN Append(segments, Target) ELSE segments

Payload == appends + 1
NewRecord == [seq |-> nextSeq, val |-> Payload]

Called ==
    /\ up
    /\ appends < MaxAppends
    /\ appends' = Payload

\* The call returned an error: the caller treats the payload as not accepted.
Refuse ==
    /\ faults < MaxFaults
    /\ faults' = faults + 1
    /\ refused' = refused \cup {Payload}
    /\ UNCHANGED <<up, nextSeq, checkpoint, ckptFile, owed, crashes, losses>>

AppendOk ==
    /\ Called
    /\ files' = [FilesOpened EXCEPT ![Target] = Append(@, NewRecord)]
    /\ synced' = IF SyncOnAppend
                 THEN [SyncedOpened EXCEPT ![Target] = Len(FilesOpened[Target]) + 1]
                 ELSE SyncedOpened
    /\ segments' = SegmentsOpened
    /\ active' = Target
    /\ activeSize' = StartSize + 1
    /\ nextSeq' = nextSeq + 1
    /\ owed' = owed \cup {NewRecord}
    /\ UNCHANGED <<up, checkpoint, ckptFile, refused, bounds>>

\* rotateLocked: the handle is dropped even when Sync or Close reports an error.
RotateFails ==
    /\ Called
    /\ NeedRotate
    /\ synced' \in {synced, SyncedRotated}
    /\ active' = NoSegment
    /\ activeSize' = 0
    /\ Refuse
    /\ UNCHANGED <<files, segments>>

\* The new segment file cannot be created, after a rotation or without one.
OpenSegmentFails ==
    /\ Called
    /\ NeedOpen
    /\ synced' = SyncedRotated
    /\ active' = NoSegment
    /\ activeSize' = 0
    /\ Refuse
    /\ UNCHANGED <<files, segments>>

\* Mutated: what was written of the record stays in the file.
RollBackNothing(f) ==
    [f EXCEPT ![Target] = IF Len(@) > StartSize THEN @ ELSE Append(@, Torn)]

\* Truncate(activeSize), as it stood before the record.
RollBack(f) == [f EXCEPT ![Target] = SubSeq(@, 1, StartSize)]

\* What is cut off a file is no longer on stable storage.
LoweredTo(sy, n) == IF sy > n THEN n ELSE sy

\* The write fails, perhaps part way: the partial bytes are truncated away.
WriteFails ==
    /\ Called
    /\ files' = RollBack(FilesOpened)
    /\ synced' = [SyncedOpened EXCEPT ![Target] = LoweredTo(@, StartSize)]
    /\ segments' = SegmentsOpened
    /\ active' = Target
    /\ activeSize' = StartSize
    /\ Refuse

\* The record is written and its fsync fails: it is rolled back.
AppendSyncFails ==
    /\ SyncOnAppend
    /\ Called
    /\ LET written == [FilesOpened EXCEPT ![Target] = Append(@, NewRecord)]
       IN files' = RollBack(written)
    /\ synced' = [SyncedOpened EXCEPT ![Target] = LoweredTo(@, StartSize)]
    /\ segments' = SegmentsOpened
    /\ active' = Target
    /\ activeSize' = StartSize
    /\ Refuse

-----------------------------------------------------------------------------
(* Sync and SetCheckpoint. *)

\* Sync flushes the active segment, and only that one.
SyncActive ==
    /\ up
    /\ active \in DOMAIN files
    /\ synced[active] < Len(files[active])
    /\ synced' = [synced EXCEPT ![active] = Len(files[active])]
    /\ UNCHANGED <<files, ckptFile, mem, hist, bounds>>

\* Mutated: a segment is taken to end one record early.
CoveredEarly(ckpt) == {i \in 1..(Len(segments) - 1) : segments[i + 1] - 2 <= ckpt}

\* pruneSegmentsLocked: a segment ends just before the next one starts, and the
\* last one is never removed.
Covered(ckpt) == {i \in 1..(Len(segments) - 1) : segments[i + 1] - 1 <= ckpt}
Without(sq, gone) ==
    LET keep == (1..Len(sq)) \ gone
    IN [k \in 1..Cardinality(keep) |->
            sq[CHOOSE i \in keep : Cardinality({j \in keep : j <= i}) = k]]
Remove(gone) ==
    LET left == DOMAIN files \ {segments[i] : i \in gone}
    IN /\ files' = [s \in left |-> files[s]]
       /\ synced' = [s \in left |-> synced[s]]

\* The consumer has processed every record up to seq and says so; a regression
\* is ignored.
Advances(seq) ==
    /\ up
    /\ seq > checkpoint

Settles(seq) == owed' = {r \in owed : r.seq > seq}

SetCheckpoint(seq) ==
    /\ Advances(seq)
    /\ checkpoint' = seq
    /\ ckptFile' = seq
    /\ Settles(seq)
    /\ Remove(Covered(seq))
    /\ segments' = Without(segments, Covered(seq))
    /\ UNCHANGED <<up, active, activeSize, nextSeq, appends, refused, bounds>>

\* writeCheckpoint fails: w.checkpoint has moved, the file has not.
CheckpointFails(seq) ==
    /\ Advances(seq)
    /\ faults < MaxFaults
    /\ faults' = faults + 1
    /\ checkpoint' = seq
    /\ UNCHANGED <<disk, up, segments, active, activeSize, nextSeq,
                   hist, crashes, losses>>

-----------------------------------------------------------------------------
(* Crashes, restarts and Open. *)

Stops ==
    /\ up' = FALSE
    /\ segments' = <<>>
    /\ active' = NoSegment
    /\ activeSize' = 0
    /\ nextSeq' = 0
    /\ checkpoint' = 0
    /\ UNCHANGED faults

ProcessStops ==
    /\ crashes < MaxCrashes
    /\ crashes' = crashes + 1
    /\ UNCHANGED losses
    /\ Stops

\* The process dies, or Close is called: the page cache keeps every write.
Crash ==
    /\ up
    /\ ProcessStops
    /\ UNCHANGED <<disk, hist>>

\* The process dies inside Append: nothing, part or all of the record is
\* written, and the caller never hears.
CrashInAppend ==
    /\ Called
    /\ ProcessStops
    /\ \E tail \in {<<>>, <<Torn>>, <<NewRecord>>} :
          files' = [FilesOpened EXCEPT ![Target] = @ \o tail]
    /\ synced' = SyncedOpened
    /\ UNCHANGED <<ckptFile, owed, refused>>

\* The process dies inside SetCheckpoint: the file is renamed and only some of
\* the covered segments are removed.
CrashInCheckpoint(seq) ==
    /\ Advances(seq)
    /\ ProcessStops
    /\ ckptFile' = seq
    /\ Settles(seq)
    /\ \E n \in 0..Len(segments) : Remove({i \in Covered(seq) : i <= n})
    /\ UNCHANGED <<appends, refused>>

\* Power loss takes back what was never synced: a file keeps its synced prefix
\* and any amount of the rest, perhaps with a torn record where it was cut.
PowerLoss ==
    /\ losses < MaxLosses
    /\ losses' = losses + 1
    /\ Stops
    /\ \E cut \in [DOMAIN files -> {"whole", "short", "torn"}] :
          \E at \in [DOMAIN files -> 0..MaxSegment] :
             /\ \A s \in DOMAIN files :
                   IF cut[s] = "whole" THEN at[s] = 0
                   ELSE synced[s] <= at[s] /\ at[s] < Len(files[s])
             /\ files' = [s \in DOMAIN files |->
                   CASE cut[s] = "whole" -> files[s]
                     [] cut[s] = "short" -> SubSeq(files[s], 1, at[s])
                     [] cut[s] = "torn"  -> Append(SubSeq(files[s], 1, at[s]), Torn)]
    /\ synced' = [s \in DOMAIN files |-> Len(files'[s])]
    /\ ckptFile' \in (IF CkptLossy THEN {ckptFile, 0} ELSE {ckptFile})
    /\ owed' = owed \cap Stable
    /\ UNCHANGED <<appends, refused, crashes>>

\* The starts of the segment files, sorted.
Sorted(S) ==
    CHOOSE q \in [1..Cardinality(S) -> S] : \A i, j \in DOMAIN q : i < j => q[i] < q[j]

\* Mutated: the checkpoint does not push the numbering up.
NextNumberOfRecords == HighestSeq + 1

\* Mutated: the numbering resumes at the highest number, not after it.
NextNumberRepeated == IF ckptFile > HighestSeq THEN ckptFile ELSE HighestSeq

NextNumber == IF ckptFile > HighestSeq THEN ckptFile + 1 ELSE HighestSeq + 1

\* Open: scan every segment, truncate a torn tail of the last one, resume the
\* numbering after the highest record and never at or below the checkpoint.
Open ==
    /\ ~up
    /\ up' = TRUE
    /\ IF DOMAIN files = {}
       THEN /\ active' = NoSegment
            /\ activeSize' = 0
            /\ UNCHANGED <<files, synced>>
       ELSE LET end == ScanEnd(files[LastSegment])
            IN /\ active' = LastSegment
               /\ activeSize' = end
               /\ files' = [files EXCEPT ![LastSegment] = SubSeq(@, 1, end)]
               /\ synced' = [synced EXCEPT ![LastSegment] = LoweredTo(@, end)]
    /\ segments' = Sorted(DOMAIN files)
    /\ checkpoint' = ckptFile
    /\ nextSeq' = NextNumber
    /\ UNCHANGED <<ckptFile, hist, bounds>>

-----------------------------------------------------------------------------
Init ==
    /\ files = [s \in {} |-> <<>>]
    /\ synced = [s \in {} |-> 0]
    /\ ckptFile = 0
    /\ up = FALSE
    /\ segments = <<>>
    /\ active = NoSegment
    /\ activeSize = 0
    /\ nextSeq = 0
    /\ checkpoint = 0
    /\ appends = 0
    /\ owed = {}
    /\ refused = {}
    /\ crashes = 0
    /\ losses = 0
    /\ faults = 0

Next ==
    \/ Open
    \/ AppendOk
    \/ RotateFails
    \/ OpenSegmentFails
    \/ WriteFails
    \/ AppendSyncFails
    \/ SyncActive
    \/ \E seq \in 1..(nextSeq - 1) :
          \/ SetCheckpoint(seq)
          \/ CheckpointFails(seq)
          \/ CrashInCheckpoint(seq)
    \/ Crash
    \/ CrashInAppend
    \/ PowerLoss

Spec == Init /\ [][Next]_vars

-----------------------------------------------------------------------------
(* Properties. *)

\* The files and the WAL struct have their types.  Numbers are never 0: a
\* checkpoint of 0 stands for none, so a record numbered 0 would never be
\* replayed (wal.go:122-125, 255-275).
TypeOK ==
    /\ DOMAIN files \subseteq Nat \ {0}
    /\ \A s \in DOMAIN files : files[s] \in Seq(Entry)
    /\ DOMAIN synced = DOMAIN files
    /\ \A s \in DOMAIN synced : synced[s] \in 0..Len(files[s])
    /\ ckptFile \in Nat
    /\ up \in BOOLEAN
    /\ segments \in Seq(Nat \ {0})
    /\ active \in Nat
    /\ activeSize \in Nat
    /\ nextSeq \in Nat
    /\ checkpoint \in Nat
    /\ appends \in Nat
    /\ owed \subseteq Record
    /\ refused \subseteq Nat
    /\ crashes \in Nat
    /\ losses \in Nat
    /\ faults \in Nat

\* The promise of Append (wal.go:130-132) and of Open's renumbering
\* (wal.go:123-126): a record whose Append returned nil is delivered by the next
\* Replay until a checkpoint covers it, whatever is rotated, pruned, torn,
\* renumbered or restarted in between.
AckedReplayable == owed \subseteq Replayable(ckptFile)

\* The promise of the rollbacks in Append (wal.go:151-166): a payload the caller
\* reported as rejected is never replayed.
RefusedNotReplayed ==
    \A r \in OnDisk : r.val \notin refused

\* Replay (wal.go:255-275) walks w.segments in order and delivers strictly
\* increasing sequence numbers: Recover takes the last one for the highest, and
\* pruning takes a segment to end where the next one starts.
ReplayInOrder ==
    up => /\ \A s \in DOMAIN files : \A i, j \in 1..Len(files[s]) :
                i < j /\ ValidTo(files[s], j) => files[s][i].seq < files[s][j].seq
          /\ \A i, j \in 1..Len(segments) : i < j =>
                \A r \in Scanned(files[segments[i]]), q \in Scanned(files[segments[j]]) :
                    r.seq < q.seq

\* SetCheckpoint deletes only segments "fully covered" by the checkpoint
\* (wal.go:223-224): no removed file held a record that is still owed.
PruneOnlyApplied ==
    [][\A s \in DOMAIN files \ DOMAIN files' : Scanned(files[s]) \cap owed' = {}]_vars

\* "call Sync for durability against power loss" (wal.go:131-132): when Sync has
\* returned nil, every record accepted before it is on stable storage.
SyncCoversAcked == [][SyncActive => (owed \subseteq Stable)']_vars

\* The view of the log its callers have: the numbered payloads past the
\* checkpoint, and how far they are on stable storage.
LastRecord == IF ckptFile > HighestSeq THEN ckptFile ELSE HighestSeq
PayloadAt(s) ==
    IF \E r \in OnDisk : r.seq = s THEN (CHOOSE r \in OnDisk : r.seq = s).val ELSE 0
StableTo ==
    CHOOSE n \in ckptFile..LastRecord :
        /\ \A r \in Replayable(ckptFile) \ Stable : n < r.seq
        /\ n < LastRecord => \E r \in Replayable(ckptFile) \ Stable : r.seq = n + 1

Log == INSTANCE DurableLog WITH
    Payloads <- 1..MaxAppends,
    open <- up,
    ckpt <- ckptFile,
    last <- LastRecord,
    records <- [s \in (ckptFile + 1)..LastRecord |-> PayloadAt(s)],
    durable <- StableTo

\* The whole of the log seen by its callers (wal.go:1-8): segments, torn tails,
\* pruning and renumbering on restart never show through a numbered log without
\* gaps that loses at most its newest unsynced records.
ImplementsDurableLog == Log!LogSpec

-----------------------------------------------------------------------------
(* The inductive invariant behind the safety properties; Wal_proofs proves   *)
(* it.  The first parts need no assumption.                                  *)

FilesFinite == IsFiniteSet(DOMAIN files)

\* The rollbacks truncate the active file to a length it has, and numbers run
\* no further than the calls.
HandleBacked ==
    /\ active \in DOMAIN files => activeSize <= Len(files[active])
    /\ up => nextSeq > 0
    /\ nextSeq <= appends + 1
    /\ ckptFile <= appends

\* Whatever is in a file, torn or valid, came from a call that was not refused.
PayloadsAccounted ==
    /\ \A n \in refused : 1 <= n /\ n <= appends
    /\ \A s \in DOMAIN files : \A i \in 1..Len(files[s]) :
          /\ files[s][i].seq <= appends
          /\ files[s][i].val <= appends
          /\ files[s][i].val \notin refused

\* The checkpoint file keeps what was renamed into place, and no power loss
\* follows or precedes an I/O error: a segment whose last fsync failed can be
\* cut after newer segments were begun, and a number then meets its old file.
Sound == ~CkptLossy /\ (faults = 0 \/ losses = 0)

\* Only the end of the newest file can be torn, and Open takes that away.
TornAtEnd ==
    \A s \in DOMAIN files : \A i \in 1..Len(files[s]) : files[s][i] = Torn =>
        ~up /\ i = Len(files[s]) /\ \A t \in DOMAIN files : t <= s

\* A retired segment was fsynced, unless that failed; only then is there a file
\* and no handle on the newest one.
RetiredSynced ==
    faults = 0 =>
        /\ \A s, t \in DOMAIN files : s < t => synced[s] = Len(files[s])
        /\ up /\ active = NoSegment => DOMAIN files = {}

\* Numbers grow along a file and from file to file, and name the files.
Numbered ==
    \A s \in DOMAIN files : \A i \in 1..Len(files[s]) : files[s][i] # Torn =>
        /\ s <= files[s][i].seq
        /\ \A j \in 1..Len(files[s]) : j < i => files[s][j].seq < files[s][i].seq
        /\ \A t \in DOMAIN files : s < t => files[s][i].seq < t

\* A file begins where an older one ends, or where the checkpoint is past it.
StartsFollow ==
    \A s \in DOMAIN files : s <= ckptFile + 1 \/
        \E t \in DOMAIN files : t < s /\ \E r \in Scanned(files[t]) : r.seq = s - 1

\* The handle is on the newest file, whose size it knows.
ActiveIsLast ==
    up => IF active = NoSegment
          THEN \A s \in DOMAIN files : s < nextSeq
          ELSE /\ active \in DOMAIN files
               /\ \A s \in DOMAIN files : s <= active
               /\ activeSize = Len(files[active])

\* w.segments lists the files in order.
SegmentsListFiles ==
    up => /\ {segments[i] : i \in 1..Len(segments)} = DOMAIN files
          /\ \A i, j \in 1..Len(segments) : i < j => segments[i] < segments[j]

\* The next number is the first that neither a record nor the checkpoint has.
NextIsFree ==
    up => /\ ckptFile <= checkpoint /\ checkpoint < nextSeq
          /\ \A r \in OnDisk : r.seq < nextSeq
          /\ nextSeq = ckptFile + 1 \/ \E r \in OnDisk : r.seq = nextSeq - 1

\* Past the checkpoint no number is missing.
NoGap ==
    \A r \in OnDisk : \A n \in (ckptFile + 1)..r.seq : \E q \in OnDisk : q.seq = n

Inv ==
    /\ TypeOK
    /\ FilesFinite
    /\ HandleBacked
    /\ PayloadsAccounted
    /\ Sound =>
        /\ TornAtEnd
        /\ RetiredSynced
        /\ Numbered
        /\ StartsFollow
        /\ ActiveIsLast
        /\ SegmentsListFiles
        /\ NextIsFree
        /\ NoGap
        /\ AckedReplayable
=============================================================================
