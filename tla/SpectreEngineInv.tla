-------------------------- MODULE SpectreEngineInv --------------------------
(***************************************************************************)
(* The inductive invariant behind the durability of SpectreEngine, in a    *)
(* module of its own so that TLC checks what SpectreEngine_proofs proves.  *)
(*                                                                         *)
(* The argument: between two full rewrites the log alone, replayed over    *)
(* the snapshot alone, stands for the store.  Segments add nothing: every  *)
(* key a listed segment touches is rewritten by the log or hidden by the   *)
(* snapshot.  So whatever compactions, crashes and reopenings happened,    *)
(* loading the segments first makes no difference.                         *)
(***************************************************************************)
EXTENDS SpectreEngine

\* The configurations in which the code keeps its promise: see the runs for
\* what happens in the others.
SafeConfig ==
    /\ CompactMode # "auto"
    /\ ~TornWrites
    /\ "purge" \notin CrashAt
    /\ "snap" \in CrashAt => BackupCount = 0

\* What the log is replayed over.  Between the rotation of .spdb and the rename
\* of the new snapshot there is none, and the rename will put the store there.
Ground ==
    IF pc = "snap" /\ BackupCount # 0 THEN store
    ELSE IF spdb = NoFile THEN EmptyStore
    ELSE spdb

Logged == wal \o walBuf

Covered(k) == Hit(wal, k) \/ Ground[k] # Absent

\* What the log stands for: the store, and a batch that is still being logged.
Expected ==
    IF pc = "flush" /\ call.op = "batch"
    THEN ApplyPatch(store, BatchFrame(call.clears, call.patch))
    ELSE store

-----------------------------------------------------------------------------

\* Where a call can be, and what its earlier steps have established.
PhaseOK ==
    /\ pc \in {"down", "idle", "closing"} => call.op = "none"
    /\ pc = "flush" => call.op \in {"write", "batch", "compact", "close", "prepare"}
    /\ pc = "run" => call.op \in {"compact", "close", "prepare"}
    /\ pc \in {"rotate", "snap", "reset", "purge", "segman"} =>
          call.op \in {"compact", "close"}
    /\ call.op \in {"compact", "close", "prepare"} => SegRoom
    /\ pc \in {"dropsegs", "commit"} =>
          /\ call.op = "finish"
          /\ call.job \in JobRecords
          /\ call.job.kind # "legacy"
          /\ call.job.id # 0
          /\ call.job.gen = man.gen + 1
    /\ pc = "rotate" => rot # 0
    /\ pc \notin {"idle", "flush", "dropsegs", "commit"} => walBuf = <<>>
    /\ pc = "down" => dirty = {} /\ \A j \in Jobs : jobs[j] = NoJob

\* A pending job was prepared at the manifest's generation or before it.
JobsOK ==
    \A j \in Jobs : Pending(j) =>
        /\ jobs[j].id # 0
        /\ jobs[j].gen <= man.gen + 1

TypeInv == TypeOK /\ PhaseOK /\ JobsOK

\* In legacy mode there are no segments; otherwise every rewrite is a merge.
ModeOK ==
    /\ CompactMode = "legacy" =>
          /\ man.segs = <<>> /\ manDisk.segs = <<>>
          /\ \A j \in Jobs : ~Pending(j)
          /\ pc \notin {"purge", "segman", "dropsegs", "commit"}
    /\ pc \in {"rotate", "snap", "reset"} => call.full = (CompactMode = "segments")

LogStandsForStore ==
    /\ wal \in Seq(Patches)
    /\ pc # "down" => Replay(Ground, Logged) = Expected
    /\ pc \in {"reset", "purge"} => spdb = store

SegmentsCovered ==
    pc # "purge" => \A k \in Keys :
        /\ \A i \in DOMAIN manDisk.segs : manDisk.segs[i].crc[k] # Keep => Covered(k)
        /\ \A i \in DOMAIN man.segs : man.segs[i].crc[k] # Keep => Covered(k)
        /\ \A j \in Jobs : Pending(j) /\ jobs[j].gen = man.gen + 1
                              /\ jobs[j].body[k] # Keep => Covered(k)
        /\ pc \in {"dropsegs", "commit"} /\ call.job.body[k] # Keep => Covered(k)

DirtyLogged ==
    /\ pc = "purge" => dirty = {}
    /\ \A k \in Keys :
        /\ k \in dirty => Hit(Logged, k)
        /\ pc = "flush" /\ call.op = "batch" /\ call.patch[k] # Keep => Hit(Logged, k)

\* Whatever part of the buffer a crash lets reach the file.
PrefixesPromised ==
    \A n \in 0..Len(walBuf) :
        Replay(Ground, wal \o SubSeq(walBuf, 1, n)) \in promised

DurabilityInv ==
    /\ TypeInv
    /\ ModeOK
    /\ LogStandsForStore
    /\ SegmentsCovered
    /\ DirtyLogged
    /\ PrefixesPromised

-----------------------------------------------------------------------------
(* The engine that always rewrites the whole database, with torn writes    *)
(* and a crash at any step.                                                *)

Snapshot == IF spdb = NoFile THEN EmptyStore ELSE spdb

\* A torn frame is not the last one.
Behind(w) == \E i, j \in DOMAIN w : i < j /\ w[i] = Torn

\* There are no segments, and .spdb is the newest snapshot or nothing.
LegacyFiles ==
    /\ man.segs = <<>> /\ manDisk.segs = <<>>
    /\ \A j \in Jobs : ~Pending(j)
    /\ pc \notin {"purge", "segman", "dropsegs", "commit"}
    /\ pc \in {"rotate", "snap", "reset"} => ~call.full
    /\ spdb # NoFile => spdb = lastSnap

\* The backup that holds the newest snapshot, put back, would do.
Repairable ==
    /\ pc \in {"snap", "down"}
    /\ spdb = NoFile /\ lastSnap # NoFile
    /\ Replay(lastSnap, wal) \in promised

\* What snapshot and log together say, as far as replay reaches.
LegacyKept ==
    /\ pc # "down" => Expected \in promised
    /\ pc = "reset" => spdb = store
    /\ pc \notin {"down", "snap"} /\ ~Behind(Logged) => Replay(Snapshot, Logged) = Expected
    /\ pc = "snap" /\ ~Behind(wal) => Replay(store, wal) = store

\* Whatever part of the buffer a crash lets reach the file.
LegacyPromised ==
    \A n \in 0..Len(walBuf) :
        LET w == wal \o SubSeq(walBuf, 1, n)
        IN  ~Behind(w) => Replay(Snapshot, w) \in promised \/ Repairable

\* close compacts unless there is nothing in the log: wal_ops counts the frames
\* that load_state has read and those written since.
LegacyCount ==
    /\ walOps = 0 /\ pc # "down" =>
        /\ Readable(wal) = {} /\ walBuf = <<>>
        /\ pc \notin {"rotate", "snap"} => Snapshot = store
    /\ pc = "flush" /\ call.op \in {"write", "batch"} => walOps # 0
    /\ pc = "closing" => walOps = 0

\* In legacy mode, whatever is torn and wherever the process dies: log and
\* snapshot stand for the store as far as replay reaches, and where the rotation
\* has taken the snapshot away the newest backup is it (compact_legacy,
\* rotate_backups, wal_flush, close).
LegacyInv ==
    /\ TypeInv
    /\ LegacyFiles
    /\ LegacyKept
    /\ LegacyPromised
    /\ LegacyCount

-----------------------------------------------------------------------------
(* The rotation of the backups, in any configuration.                      *)

\* The snapshots from the newest place to the oldest.
SnapshotAt(g) == IF g = 0 THEN spdb ELSE baks[g]

\* The first of these files that exists is the newest snapshot completed.
NewestFirst ==
    lastSnap # NoFile =>
        \E g \in 0..BackupCount :
            /\ SnapshotAt(g) = lastSnap
            /\ \A h \in 0..BackupCount : h < g => SnapshotAt(h) = NoFile
=============================================================================
