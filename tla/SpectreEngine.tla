--------------------------- MODULE SpectreEngine ---------------------------
(***************************************************************************)
(* The native storage engine of spectre.db, crates/core/src/engine.rs, in  *)
(* its v2 format: the in-memory store, the write-ahead log, the snapshot   *)
(* and its rotating backups, the segments and their manifest, compaction   *)
(* (full rewrite, delta, full merge, and the two-phase compactAsync), a    *)
(* crash of the process at any point of a call, and recovery.              *)
(*                                                                         *)
(* Calls run under the Mutex of crates/napi/src/lib.rs, one at a time; a   *)
(* call that touches several files is a sequence of steps (variable pc),   *)
(* between which only a crash can happen.  The process owns the lock file  *)
(* (module FileLock), so no other process acts on these files.             *)
(***************************************************************************)
EXTENDS WalReplay, FiniteSets

CONSTANTS
    NoFile,          \* the file does not exist
    NoJob,           \* the job slot is free
    CompactMode,     \* "legacy", "segments" or "auto"
    LegacyThreshold, \* auto: segments above this many keys
    MergeEvery,      \* segment_merge_every
    BackupCount,     \* backup_count
    FlushAt,         \* frames that fill wal_buf; 1: no wal_buffering
    Jobs,            \* slots for compactAsync promises in flight
    CrashAt,         \* the pcs at which the process may die (beside "idle")
    TornWrites,      \* BOOLEAN: a crash may cut a write() inside a frame
    MaxWal,          \* bound: frames in the log
    MaxSeg           \* bound: segment ids and generations

PCs == {"down", "idle", "flush", "run", "rotate", "snap", "reset", "purge",
        "segman", "dropsegs", "commit", "closing"}

Modes == {"legacy", "segments", "auto"}

ASSUME EngineAssumption ==
    /\ CompactMode \in Modes
    /\ LegacyThreshold \in Nat
    /\ MergeEvery \in Nat
    /\ BackupCount \in Nat
    /\ FlushAt \in Nat \ {0}
    /\ CrashAt \subseteq PCs \ {"down"}
    /\ TornWrites \in BOOLEAN
    /\ MaxWal \in Nat
    /\ MaxSeg \in Nat
    /\ NoFile \notin Stores \cup Patches

VARIABLES
    \* memory of the process
    store,      \* Engine.store
    dirty,      \* Engine.dirty
    dirtyAll,   \* Engine.dirty_all
    walBuf,     \* Engine.wal_buf, as frames
    walOps,     \* Engine.wal_ops
    man,        \* Engine.manifest
    nextSeg,    \* Engine.next_seg_id
    jobs,       \* CompactTask per slot
    \* files
    wal,        \* .spwal after its header
    spdb,       \* .spdb
    baks,       \* .spdb.N.bak
    segFile,    \* .spseg-*
    manDisk,    \* .spman
    \* control
    pc, call, rot,
    \* history
    promised,   \* the maps a recovery may return: the last acknowledged one,
                \* and those of writes in flight or still buffered
    lastSnap    \* the newest snapshot ever completed

memory  == <<store, dirty, dirtyAll, walBuf, walOps, man, nextSeg, jobs>>
disk    == <<wal, spdb, baks, segFile, manDisk>>
control == <<pc, call, rot>>
history == <<promised, lastSnap>>
vars    == <<memory, disk, control, history>>

-----------------------------------------------------------------------------
(* Types.  A manifest entry carries the CRC of its segment file; a CRC     *)
(* matches exactly the bytes it was computed from, so it stands here as    *)
(* the content itself.                                                     *)

SegNames == {"delta", "full"} \X (1..MaxSeg)
Entries  == [id : 1..MaxSeg, name : SegNames, crc : Patches]
Manifests == [gen : 0..MaxSeg, segs : Seq(Entries)]
NoManifest == [gen |-> 0, segs |-> <<>>]

JobRecords == [kind : {"legacy", "delta", "full"}, gen : 0..MaxSeg,
               id : 0..MaxSeg, body : Patches]

Ops == {"none", "write", "batch", "compact", "close", "prepare", "finish"}
Calls == [op : Ops, full : BOOLEAN, clears : BOOLEAN, patch : Patches,
          job : JobRecords \cup {NoJob}]
NoCall == [op |-> "none", full |-> FALSE, clears |-> FALSE,
           patch |-> NoChange, job |-> NoJob]

TypeOK ==
    /\ store \in Stores
    /\ dirty \subseteq Keys
    /\ dirtyAll \in BOOLEAN
    /\ walBuf \in Seq(Patches)
    /\ walOps \in Nat
    /\ man \in Manifests
    /\ nextSeg \in 1..(MaxSeg + 1)
    /\ jobs \in [Jobs -> JobRecords \cup {NoJob}]
    /\ wal \in Seq(Patches \cup {Torn})
    /\ spdb \in Stores \cup {NoFile}
    /\ baks \in [1..BackupCount -> Stores \cup {NoFile}]
    /\ segFile \in [SegNames -> Patches \cup {NoFile}]
    /\ manDisk \in Manifests
    /\ pc \in PCs
    /\ call \in Calls
    /\ rot \in 0..BackupCount
    /\ promised \subseteq Stores
    /\ lastSnap \in Stores \cup {NoFile}

-----------------------------------------------------------------------------
(* load_state: manifest segments in order, a segment whose file is missing *)
(* or fails its CRC skipped; the snapshot inserted over them; then the WAL.*)

SegBodies(m) == [i \in DOMAIN m.segs |-> m.segs[i].crc]

LoadedSegs ==
    {i \in DOMAIN manDisk.segs :
        segFile[manDisk.segs[i].name] = manDisk.segs[i].crc}

SegStore == Overlay(EmptyStore, SegBodies(manDisk), LoadedSegs)

Base ==
    IF spdb = NoFile THEN SegStore
    ELSE [k \in Keys |-> IF spdb[k] # Absent THEN spdb[k] ELSE SegStore[k]]

\* The store that Engine::open would build from the files as they are now.
Recovered == Replay(Base, wal)

\* next_seg_id after load: one above the largest id in the manifest.
NextSegId(m) ==
    IF m.segs = <<>> THEN 1
    ELSE 1 + Latest({m.segs[i].id : i \in DOMAIN m.segs})

Down ==
    /\ pc' = "down"
    /\ call' = NoCall
    /\ rot' = 0
    /\ store' = EmptyStore
    /\ dirty' = {}
    /\ dirtyAll' = FALSE
    /\ walBuf' = <<>>
    /\ walOps' = 0
    /\ man' = NoManifest
    /\ nextSeg' = 1
    /\ jobs' = [j \in Jobs |-> NoJob]

Open ==
    /\ pc = "down"
    /\ pc' = "idle"
    /\ store' = Recovered
    /\ walOps' = Cardinality(Readable(wal))
    /\ man' = manDisk
    /\ nextSeg' = NextSegId(manDisk)
    /\ promised' = {Recovered}
    /\ UNCHANGED <<dirty, dirtyAll, walBuf, jobs, disk, call, rot, lastSnap>>

-----------------------------------------------------------------------------
(* Writes.  wal_append puts the frame in wal_buf and flushes it, unless    *)
(* wal_buffering is on and the buffer is not full.                         *)

Room == Len(wal) + Len(walBuf) < MaxWal

\* Mutant: the frame that comes is not counted.
FillsLate(buf) == Len(buf) >= FlushAt

Fills(buf) == Len(buf) + 1 >= FlushAt

LogFrame(f) ==
    /\ walBuf' = Append(walBuf, f)
    /\ walOps' = walOps + 1
    /\ UNCHANGED <<man, nextSeg, jobs, disk, rot, lastSnap>>

\* set, delete and clear change the store first and log afterwards.
Write(f, dirt, all) ==
    /\ pc = "idle"
    /\ Room
    /\ store' = ApplyPatch(store, f)
    /\ dirty' = dirt
    /\ dirtyAll' = all
    /\ LogFrame(f)
    /\ promised' = promised \cup {ApplyPatch(store, f)}
    /\ IF Fills(walBuf) THEN /\ pc' = "flush"
                            /\ call' = [NoCall EXCEPT !.op = "write"]
                       ELSE UNCHANGED <<pc, call>>

Set(k, v) == Write(SetFrame(k, v), dirty \cup {k}, dirtyAll)

\* Deleting a key the store does not hold returns false and logs nothing.
Delete(k) ==
    /\ store[k] # Absent
    /\ Write(DelFrame(k), dirty \cup {k}, dirtyAll)

Clear == Write(ClearFrame, {}, TRUE)

\* Mutant: a Clear inside the batch is logged but not applied.
ApplyBatchWithoutClear(clears, p) ==
    /\ store' = ApplyPatch(store, p)
    /\ dirty' = dirty \cup Touched(p)
    /\ dirtyAll' = (dirtyAll \/ clears)

\* A batch is logged as one frame first and applied to the store when the log
\* call has returned.  A Clear among its operations forgets the dirty keys.
ApplyBatch(clears, p) ==
    /\ store' = ApplyPatch(store, BatchFrame(clears, p))
    /\ dirty' = IF clears THEN Touched(p) ELSE dirty \cup Touched(p)
    /\ dirtyAll' = (dirtyAll \/ clears)

Batch(clears, p) ==
    /\ pc = "idle"
    /\ Room
    /\ LogFrame(BatchFrame(clears, p))
    /\ promised' = promised \cup {ApplyPatch(store, BatchFrame(clears, p))}
    /\ IF Fills(walBuf)
       THEN /\ pc' = "flush"
            /\ call' = [NoCall EXCEPT !.op = "batch", !.clears = clears, !.patch = p]
            /\ UNCHANGED <<store, dirty, dirtyAll>>
       ELSE /\ ApplyBatch(clears, p)
            /\ UNCHANGED <<pc, call>>

\* wal_flush, the write having succeeded: write and batch return, the other
\* calls go on.
WalFlush ==
    /\ pc = "flush"
    /\ wal' = wal \o walBuf
    /\ walBuf' = <<>>
    /\ \/ /\ call.op = "batch"
          /\ ApplyBatch(call.clears, call.patch)
          /\ promised' = {ApplyPatch(store, BatchFrame(call.clears, call.patch))}
          /\ pc' = "idle"
          /\ call' = NoCall
       \/ /\ call.op = "write"
          /\ promised' = {store}
          /\ pc' = "idle"
          /\ call' = NoCall
          /\ UNCHANGED <<store, dirty, dirtyAll>>
       \/ /\ call.op \in {"compact", "close", "prepare"}
          /\ promised' = {store}
          /\ pc' = "run"
          /\ UNCHANGED <<store, dirty, dirtyAll, call>>
    /\ UNCHANGED <<walOps, man, nextSeg, jobs, spdb, baks, segFile, manDisk,
                   rot, lastSnap>>

-----------------------------------------------------------------------------
(* compact, close and prepare_compact flush the log, then run.             *)

\* Bound: no compaction starts that could need an id above MaxSeg.
SegRoom == nextSeg <= MaxSeg /\ man.gen < MaxSeg

Begin(op) ==
    /\ pc = "idle"
    /\ SegRoom
    /\ call' = [NoCall EXCEPT !.op = op]
    /\ pc' = IF walBuf = <<>> THEN "run" ELSE "flush"

Compact ==
    /\ Begin("compact")
    /\ UNCHANGED <<memory, disk, rot, history>>

Close ==
    /\ Begin("close")
    /\ UNCHANGED <<memory, disk, rot, history>>

UseSegments ==
    \/ CompactMode = "segments"
    \/ (CompactMode = "auto") /\ Cardinality(Present(store)) > LegacyThreshold

FullMerge ==
    \/ dirtyAll
    \/ (man.segs = <<>>) /\ Cardinality(dirty) >= Cardinality(Present(store))
    \/ Len(man.segs) >= MergeEvery

\* Mutant: the replayed operations are forgotten.
NeedsCompactIfDirty == dirty # {} \/ dirtyAll

NeedsCompact == walOps > 0 \/ dirty # {} \/ dirtyAll

Compacting ==
    /\ pc = "run"
    /\ call.op = "compact" \/ (call.op = "close" /\ NeedsCompact)

\* close() releases everything: after its compaction, or with none to do.
CloseDone ==
    /\ \/ pc = "closing"
       \/ pc = "run" /\ call.op = "close" /\ ~NeedsCompact
    /\ Down
    /\ UNCHANGED <<disk, history>>

\* Mutant: the log is truncated before there is a new snapshot.
StartRewriteTruncating ==
    /\ Compacting
    /\ UseSegments => FullMerge
    /\ call' = [call EXCEPT !.full = UseSegments]
    /\ rot' = BackupCount
    /\ pc' = IF BackupCount = 0 THEN "snap" ELSE "rotate"
    /\ wal' = <<>>
    /\ UNCHANGED <<memory, spdb, baks, segFile, manDisk, history>>

\* compact_legacy, alone or as the first half of a full merge.
StartRewrite ==
    /\ Compacting
    /\ UseSegments => FullMerge
    /\ call' = [call EXCEPT !.full = UseSegments]
    /\ rot' = BackupCount
    /\ pc' = IF BackupCount = 0 THEN "snap" ELSE "rotate"
    /\ UNCHANGED <<memory, disk, history>>

\* Mutant: a missing source is not skipped; its target is removed.
RotateUnskipped ==
    /\ pc = "rotate"
    /\ rot' = rot - 1
    /\ pc' = IF rot = 1 THEN "snap" ELSE "rotate"
    /\ IF rot = 1
       THEN baks' = [baks EXCEPT ![1] = spdb] /\ spdb' = NoFile
       ELSE /\ baks' = [baks EXCEPT ![rot] = baks[rot - 1], ![rot - 1] = NoFile]
            /\ UNCHANGED spdb
    /\ UNCHANGED <<memory, wal, segFile, manDisk, call, history>>

\* rotate_backups: one rename per generation, oldest first; a missing source
\* is skipped.  The last one moves .spdb itself to .spdb.1.bak.
Rotate ==
    /\ pc = "rotate"
    /\ rot' = rot - 1
    /\ pc' = IF rot = 1 THEN "snap" ELSE "rotate"
    /\ IF rot = 1
       THEN IF spdb = NoFile THEN UNCHANGED <<spdb, baks>>
            ELSE /\ baks' = [baks EXCEPT ![1] = spdb]
                 /\ spdb' = NoFile
       ELSE /\ baks' = IF baks[rot - 1] = NoFile THEN baks
                       ELSE [baks EXCEPT ![rot] = baks[rot - 1],
                                         ![rot - 1] = NoFile]
            /\ UNCHANGED spdb
    /\ UNCHANGED <<memory, wal, segFile, manDisk, call, history>>

\* The new snapshot, complete in its temporary file, is renamed to .spdb.
RenameSnapshot ==
    /\ pc = "snap"
    /\ spdb' = store
    /\ lastSnap' = store
    /\ pc' = "reset"
    /\ UNCHANGED <<memory, wal, baks, segFile, manDisk, call, rot, promised>>

\* compact() is over; close() goes on to release everything.
CompactReturns ==
    /\ pc' = IF call.op = "close" THEN "closing" ELSE "idle"
    /\ call' = NoCall

\* Mutant: a full merge leaves the segments it has merged in place.
ResetWalOnly ==
    /\ pc = "reset"
    /\ dirty' = {}
    /\ dirtyAll' = FALSE
    /\ wal' = <<>>
    /\ walBuf' = <<>>
    /\ walOps' = 0
    /\ CompactReturns
    /\ UNCHANGED <<store, man, nextSeg, jobs, spdb, baks, segFile, manDisk,
                   rot, history>>

\* End of compact_legacy: the dirty sets are cleared and the log is truncated.
ResetWal ==
    /\ pc = "reset"
    /\ dirty' = {}
    /\ dirtyAll' = FALSE
    /\ wal' = <<>>
    /\ walBuf' = <<>>
    /\ walOps' = 0
    /\ IF call.full THEN pc' = "purge" /\ UNCHANGED call
                    ELSE CompactReturns
    /\ UNCHANGED <<store, man, nextSeg, jobs, spdb, baks, segFile, manDisk,
                   rot, history>>

\* Both kinds of full merge delete the files of the old segments one by one.
DropSegment ==
    /\ pc \in {"purge", "dropsegs"}
    /\ man.segs # <<>>
    /\ segFile' = [segFile EXCEPT ![Head(man.segs).name] = NoFile]
    /\ man' = [man EXCEPT !.segs = Tail(man.segs)]
    /\ UNCHANGED <<store, dirty, dirtyAll, walBuf, walOps, nextSeg, jobs, wal,
                   spdb, baks, manDisk, control, history>>

\* End of a full merge: an empty manifest of the next generation, then the log
\* is reset once more.
MergeManifest ==
    /\ pc = "purge"
    /\ man.segs = <<>>
    /\ man' = [man EXCEPT !.gen = man.gen + 1]
    /\ manDisk' = [man EXCEPT !.gen = man.gen + 1]
    /\ wal' = <<>>
    /\ walBuf' = <<>>
    /\ walOps' = 0
    /\ CompactReturns
    /\ UNCHANGED <<store, dirty, dirtyAll, nextSeg, jobs, spdb, baks, segFile,
                   rot, history>>

\* A delta holds the dirty keys: their values, or tombstones.
DeltaBody == [k \in Keys |-> IF k \in dirty THEN store[k] ELSE Keep]

WriteDelta ==
    /\ Compacting
    /\ UseSegments
    /\ ~FullMerge
    /\ segFile' = [segFile EXCEPT ![<<"delta", nextSeg>>] = DeltaBody]
    /\ pc' = "segman"
    /\ UNCHANGED <<memory, wal, spdb, baks, manDisk, call, rot, history>>

\* Mutant: the log is truncated once the delta is in the manifest.
DeltaManifestTruncating ==
    /\ pc = "segman"
    /\ LET entry == [id |-> nextSeg, name |-> <<"delta", nextSeg>>, crc |-> DeltaBody]
       IN  man' = [man EXCEPT !.segs = Append(man.segs, entry)]
    /\ manDisk' = man'
    /\ nextSeg' = nextSeg + 1
    /\ dirty' = {}
    /\ dirtyAll' = FALSE
    /\ wal' = <<>>
    /\ walOps' = 0
    /\ CompactReturns
    /\ UNCHANGED <<store, walBuf, jobs, spdb, baks, segFile, rot, history>>

\* The manifest gains the delta.  Its generation stays and the log is kept.
DeltaManifest ==
    /\ pc = "segman"
    /\ LET entry == [id |-> nextSeg, name |-> <<"delta", nextSeg>>, crc |-> DeltaBody]
       IN  man' = [man EXCEPT !.segs = Append(man.segs, entry)]
    /\ manDisk' = man'
    /\ nextSeg' = nextSeg + 1
    /\ dirty' = {}
    /\ dirtyAll' = FALSE
    /\ CompactReturns
    /\ UNCHANGED <<store, walBuf, walOps, jobs, wal, spdb, baks, segFile, rot,
                   history>>

-----------------------------------------------------------------------------
(* compactAsync: prepare_compact under the mutex, serialization on a       *)
(* worker, finish_compact (or compact(), for a legacy job) later under the *)
(* mutex.  Any number of other calls run in between.                       *)

Prepare ==
    /\ \E j \in Jobs : jobs[j] = NoJob
    /\ Begin("prepare")
    /\ UNCHANGED <<memory, disk, rot, history>>

FullBody == [k \in Keys |-> IF store[k] = Absent THEN Keep ELSE store[k]]

NewJob ==
    IF ~UseSegments
    THEN [kind |-> "legacy", gen |-> 0, id |-> 0, body |-> NoChange]
    ELSE IF FullMerge
    THEN [kind |-> "full", gen |-> man.gen + 1, id |-> man.gen + 1, body |-> FullBody]
    ELSE [kind |-> "delta", gen |-> man.gen + 1, id |-> nextSeg, body |-> DeltaBody]

\* Only a legacy job leaves the dirty sets alone.
PrepareCompact(j) ==
    /\ pc = "run"
    /\ call.op = "prepare"
    /\ jobs[j] = NoJob
    /\ jobs' = [jobs EXCEPT ![j] = NewJob]
    /\ IF UseSegments THEN dirty' = {} /\ dirtyAll' = FALSE
                      ELSE UNCHANGED <<dirty, dirtyAll>>
    /\ pc' = "idle"
    /\ call' = NoCall
    /\ UNCHANGED <<store, walBuf, walOps, man, nextSeg, disk, rot, history>>

FreeJob(j) == jobs' = [jobs EXCEPT ![j] = NoJob]

FinishLegacy(j) ==
    /\ jobs[j] # NoJob
    /\ jobs[j].kind = "legacy"
    /\ Begin("compact")
    /\ FreeJob(j)
    /\ UNCHANGED <<store, dirty, dirtyAll, walBuf, walOps, man, nextSeg, disk,
                   rot, history>>

Pending(j) == jobs[j] # NoJob /\ jobs[j].kind # "legacy"

\* Another compaction has taken the generation: nothing is applied.
FinishStale(j) ==
    /\ pc = "idle"
    /\ Pending(j)
    /\ jobs[j].gen # man.gen + 1
    /\ FreeJob(j)
    /\ UNCHANGED <<store, dirty, dirtyAll, walBuf, walOps, man, nextSeg, disk,
                   control, history>>

JobName(job) == <<job.kind, job.id>>

\* Mutant: the generation is not compared.
FinishWriteUnchecked(j) ==
    /\ pc = "idle"
    /\ Pending(j)
    /\ FreeJob(j)
    /\ segFile' = [segFile EXCEPT ![JobName(jobs[j])] = jobs[j].body]
    /\ call' = [NoCall EXCEPT !.op = "finish", !.job = jobs[j]]
    /\ pc' = IF jobs[j].kind = "full" THEN "dropsegs" ELSE "commit"
    /\ UNCHANGED <<store, dirty, dirtyAll, walBuf, walOps, man, nextSeg, wal,
                   spdb, baks, manDisk, rot, history>>

FinishWrite(j) ==
    /\ pc = "idle"
    /\ Pending(j)
    /\ jobs[j].gen = man.gen + 1
    /\ FreeJob(j)
    /\ segFile' = [segFile EXCEPT ![JobName(jobs[j])] = jobs[j].body]
    /\ call' = [NoCall EXCEPT !.op = "finish", !.job = jobs[j]]
    /\ pc' = IF jobs[j].kind = "full" THEN "dropsegs" ELSE "commit"
    /\ UNCHANGED <<store, dirty, dirtyAll, walBuf, walOps, man, nextSeg, wal,
                   spdb, baks, manDisk, rot, history>>

\* Mutant: next_seg_id is advanced past the job's id from where it is.
FinishCommitAdvancing ==
    /\ \/ pc = "commit"
       \/ pc = "dropsegs" /\ man.segs = <<>>
    /\ LET entry == [id |-> call.job.id, name |-> JobName(call.job),
                     crc |-> call.job.body]
       IN  man' = [gen |-> call.job.gen, segs |-> Append(man.segs, entry)]
    /\ manDisk' = man'
    /\ nextSeg' = nextSeg + call.job.id
    /\ pc' = "idle"
    /\ call' = NoCall
    /\ UNCHANGED <<store, dirty, dirtyAll, walBuf, walOps, jobs, wal, spdb,
                   baks, segFile, rot, history>>

\* Mutant: the log is truncated once the segment is in the manifest.
FinishCommitTruncating ==
    /\ \/ pc = "commit"
       \/ pc = "dropsegs" /\ man.segs = <<>>
    /\ LET entry == [id |-> call.job.id, name |-> JobName(call.job),
                     crc |-> call.job.body]
       IN  man' = [gen |-> call.job.gen, segs |-> Append(man.segs, entry)]
    /\ manDisk' = man'
    /\ nextSeg' = IF nextSeg > call.job.id THEN nextSeg ELSE call.job.id + 1
    /\ pc' = "idle"
    /\ call' = NoCall
    /\ wal' = <<>>
    /\ walOps' = 0
    /\ UNCHANGED <<store, dirty, dirtyAll, walBuf, jobs, spdb, baks, segFile,
                   rot, history>>

\* The manifest gains the segment and takes the job's generation; the log is
\* kept.
FinishCommit ==
    /\ \/ pc = "commit"
       \/ pc = "dropsegs" /\ man.segs = <<>>
    /\ LET entry == [id |-> call.job.id, name |-> JobName(call.job),
                     crc |-> call.job.body]
       IN  man' = [gen |-> call.job.gen, segs |-> Append(man.segs, entry)]
    /\ manDisk' = man'
    /\ nextSeg' = IF nextSeg > call.job.id THEN nextSeg ELSE call.job.id + 1
    /\ pc' = "idle"
    /\ call' = NoCall
    /\ UNCHANGED <<store, dirty, dirtyAll, walBuf, walOps, jobs, wal, spdb,
                   baks, segFile, rot, history>>

-----------------------------------------------------------------------------
(* The death of the process.  Every file keeps what was written to it.     *)

Crash ==
    /\ pc # "flush"
    /\ pc \in CrashAt \cup {"idle"}
    /\ Down
    /\ UNCHANGED <<disk, history>>

\* Inside the write() of wal_flush: some of the frames have reached the file,
\* the next one perhaps in part.
CrashInFlush(n, torn) ==
    /\ pc = "flush"
    /\ pc \in CrashAt
    /\ torn => n < Len(walBuf)
    /\ wal' = wal \o SubSeq(walBuf, 1, n) \o (IF torn THEN <<Torn>> ELSE <<>>)
    /\ Down
    /\ UNCHANGED <<spdb, baks, segFile, manDisk, history>>

-----------------------------------------------------------------------------

Init ==
    /\ store = EmptyStore
    /\ dirty = {}
    /\ dirtyAll = FALSE
    /\ walBuf = <<>>
    /\ walOps = 0
    /\ man = NoManifest
    /\ nextSeg = 1
    /\ jobs = [j \in Jobs |-> NoJob]
    /\ wal = <<>>
    /\ spdb = NoFile
    /\ baks = [g \in 1..BackupCount |-> NoFile]
    /\ segFile = [n \in SegNames |-> NoFile]
    /\ manDisk = NoManifest
    /\ pc = "down"
    /\ call = NoCall
    /\ rot = 0
    /\ promised = {EmptyStore}
    /\ lastSnap = NoFile

ClientStep ==
    \/ \E k \in Keys, v \in Values : Set(k, v)
    \/ \E k \in Keys : Delete(k)
    \/ Clear
    \/ \E clears \in BOOLEAN, p \in Patches : Batch(clears, p)
    \/ WalFlush

CompactStep ==
    \/ Compact
    \/ Close
    \/ CloseDone
    \/ StartRewrite
    \/ Rotate
    \/ RenameSnapshot
    \/ ResetWal
    \/ DropSegment
    \/ MergeManifest
    \/ WriteDelta
    \/ DeltaManifest

AsyncStep ==
    \/ Prepare
    \/ \E j \in Jobs : PrepareCompact(j) \/ FinishLegacy(j) \/ FinishStale(j) \/ FinishWrite(j)
    \/ FinishCommit

CrashStep ==
    \/ Crash
    \/ \E n \in 0..Len(walBuf), torn \in {FALSE, TornWrites} : CrashInFlush(n, torn)

Next == Open \/ ClientStep \/ CompactStep \/ AsyncStep \/ CrashStep

Spec == Init /\ [][Next]_vars

-----------------------------------------------------------------------------
(* Properties.                                                             *)

\* A frame is, or will be, behind a torn one: replay will never reach it.
BehindTorn ==
    LET log == wal \o walBuf
    IN  \E i, j \in DOMAIN log : i < j /\ log[i] = Torn

\* Whenever the process is down, what the files recover to is the last
\* acknowledged map, or that of a write that was in flight or still in the
\* buffer of wal_buffering: no acknowledged write is lost, no deleted key comes
\* back, no batch is half there (engine.rs, load_state and compact).
AckedDurable == pc = "down" => Recovered \in promised

\* With nothing logged behind a torn frame, and the newest backup put back by
\* hand where a crash between the rotation and the rename has left no .spdb, no
\* acknowledged write is lost for good (rotate_backups, compact_legacy).
AckedRepairable ==
    pc = "down" /\ ~BehindTorn =>
        \/ Recovered \in promised
        \/ /\ spdb = NoFile
           /\ lastSnap # NoFile
           /\ Replay(lastSnap, wal) \in promised

\* Between two calls the files and the unflushed buffer together recover to
\* exactly the live store: compaction, in whatever order its delta, merge and
\* asynchronous forms are mixed, never makes the files say something else.
LiveIsRecoverable ==
    pc = "idle" /\ ~BehindTorn => Replay(Base, wal \o walBuf) = store

\* The newest completed snapshot is always in .spdb or in one of its backups,
\* whatever crashes interrupt the rotation (rotate_backups).
NewestSnapshotKept ==
    lastSnap # NoFile =>
        lastSnap \in {spdb} \cup {baks[g] : g \in 1..BackupCount}

\* Segments are loaded before the snapshot, so their tombstones never hide a
\* key of it; that is harmless because whatever a segment brings in that the
\* snapshot lacks, the log rewrites.
SegmentsRedundant ==
    pc = "idle" /\ ~BehindTorn =>
        \A k \in Keys :
            SegStore[k] # Absent /\ (spdb = NoFile \/ spdb[k] = Absent) =>
                Hit(wal, k)

\* close() in legacy mode leaves nothing to replay and a snapshot of the store.
CleanShutdown ==
    [][CloseDone => Readable(wal) = {} /\ (spdb = store \/ (spdb = NoFile /\ store = EmptyStore))]_vars

=============================================================================
