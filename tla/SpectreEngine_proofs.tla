------------------------ MODULE SpectreEngine_proofs ------------------------
(***************************************************************************)
(* For every set of keys and values, every number of backups, segments and *)
(* jobs, and every log length: the types of SpectreEngine; in the          *)
(* configurations SafeConfig describes, the durability of acknowledged     *)
(* writes, and that the engine implements DurableMap; the fate of the      *)
(* newest snapshot in any configuration; and, in legacy mode, what torn    *)
(* writes and crashes at any step leave.                                   *)
(***************************************************************************)
EXTENDS DurableEngine, WalReplay_proofs, FiniteSetTheorems

-----------------------------------------------------------------------------
(* Types.                                                                  *)

LEMMA FrameTypes ==
    /\ EmptyStore \in Stores /\ EmptyStore \in Patches /\ NoChange \in Patches
    /\ \A k \in Keys, v \in Values : SetFrame(k, v) \in Patches
    /\ \A k \in Keys : DelFrame(k) \in Patches
    /\ ClearFrame \in Patches
    /\ \A c \in BOOLEAN, p \in Patches : BatchFrame(c, p) \in Patches
BY DEF EmptyStore, NoChange, Stores, Patches, SetFrame, DelFrame, ClearFrame, BatchFrame

LEMMA EntryType ==
    ASSUME NEW m \in Manifests, NEW i \in DOMAIN m.segs
    PROVE  /\ m.segs[i] \in Entries
           /\ m.segs[i].id \in 1..MaxSeg
           /\ m.segs[i].name \in SegNames
           /\ m.segs[i].crc \in Patches
<1>1. m.segs \in Seq(Entries)
  BY DEF Manifests
<1>2. m.segs[i] \in Entries
  BY <1>1
<1> QED
  BY <1>2 DEF Entries

\* What a recovery would build is a map, whatever the files hold.
LEMMA RecoveredType ==
    ASSUME TypeOK
    PROVE  Base \in Stores /\ Recovered \in Stores
<1>1. LoadedSegs \in SUBSET (1..Len(manDisk.segs)) /\ Len(manDisk.segs) \in Nat
  BY DEF LoadedSegs, TypeOK, Manifests
<1>2. \A i \in LoadedSegs : SegBodies(manDisk)[i] \in Patches
  BY EntryType DEF SegBodies, LoadedSegs, TypeOK
<1>3. SegStore \in Stores
  BY <1>1, <1>2, FrameTypes, OverlayType DEF SegStore
<1>4. Base \in Stores
  BY <1>3 DEF Base, TypeOK, Stores
<1>5. Recovered \in Stores
  BY <1>4, ReplayType DEF Recovered, TypeOK
<1> QED
  BY <1>4, <1>5

LEMMA NextSegIdType ==
    ASSUME NEW m \in Manifests
    PROVE  NextSegId(m) \in 1..(MaxSeg + 1)
<1> DEFINE ids == {m.segs[i].id : i \in DOMAIN m.segs}
<1>1. CASE m.segs = <<>>
  BY <1>1, EngineAssumption DEF NextSegId
<1>2. CASE m.segs # <<>>
  <2>1. 1 \in DOMAIN m.segs
    BY <1>2 DEF Manifests
  <2>2. ids \in SUBSET (1..MaxSeg) /\ ids # {}
    BY <2>1, EntryType
  <2>3. Latest(ids) \in ids
    <3> HIDE DEF ids
    <3> QED
      BY <2>2, LatestIsLast, EngineAssumption
  <2>4. NextSegId(m) = 1 + Latest(ids)
    BY <1>2 DEF NextSegId
  <2>5. Latest(ids) \in 1..MaxSeg
    <3> HIDE DEF ids
    <3> QED
      BY <2>2, <2>3
  <2> QED
    <3> HIDE DEF ids
    <3> QED
      BY <2>4, <2>5, EngineAssumption
<1> QED
  BY <1>1, <1>2

\* Nothing is left in the memory of a process that has ended.
LEMMA DownType ==
    ASSUME Down
    PROVE  /\ store' \in Stores /\ dirty' = {} /\ dirtyAll' = FALSE
           /\ walBuf' = <<>> /\ walOps' = 0
           /\ man' = NoManifest /\ man' \in Manifests
           /\ nextSeg' \in 1..(MaxSeg + 1)
           /\ jobs' \in [Jobs -> JobRecords \cup {NoJob}]
           /\ call' = NoCall /\ call' \in Calls /\ pc' = "down" /\ pc' \in PCs
           /\ rot' \in 0..BackupCount
           /\ \A j \in Jobs : jobs'[j] = NoJob
BY FrameTypes, EngineAssumption
   DEF Down, NoManifest, Manifests, NoCall, Calls, Ops, PCs

LEMMA TypeInit == Init => TypeInv
<1> SUFFICES ASSUME Init
             PROVE  TypeInv
  OBVIOUS
<1>1. NoManifest \in Manifests
  BY EngineAssumption DEF NoManifest, Manifests
<1>2. NoCall \in Calls
  BY FrameTypes DEF NoCall, Calls, Ops
<1>3. TypeOK
  <2>1. /\ store \in Stores /\ promised \subseteq Stores
        /\ dirty \subseteq Keys /\ dirtyAll \in BOOLEAN
        /\ lastSnap \in Stores \cup {NoFile} /\ spdb \in Stores \cup {NoFile}
    BY FrameTypes DEF Init
  <2>2. /\ walBuf \in Seq(Patches) /\ wal \in Seq(Patches \cup {Torn})
        /\ walOps \in Nat /\ nextSeg \in 1..(MaxSeg + 1) /\ rot \in 0..BackupCount
    BY EngineAssumption DEF Init
  <2>3. /\ jobs \in [Jobs -> JobRecords \cup {NoJob}]
        /\ baks \in [1..BackupCount -> Stores \cup {NoFile}]
        /\ segFile \in [SegNames -> Patches \cup {NoFile}]
    BY DEF Init
  <2>4. man \in Manifests /\ manDisk \in Manifests /\ call \in Calls /\ pc \in PCs
    BY <1>1, <1>2 DEF Init, PCs
  <2> QED
    BY <2>1, <2>2, <2>3, <2>4 DEF TypeOK
<1>4. PhaseOK
  BY DEF Init, PhaseOK, NoCall
<1>5. JobsOK
  BY DEF Init, JobsOK, Pending
<1> QED
  BY <1>3, <1>4, <1>5 DEF TypeInv

LEMMA OpenType == TypeInv /\ Open => TypeInv'
<1> SUFFICES ASSUME TypeInv, Open
             PROVE  TypeInv'
  OBVIOUS
<1> USE DEF TypeInv, Open
<1>1. store' \in Stores /\ promised' \subseteq Stores
  BY RecoveredType
<1>2. nextSeg' \in 1..(MaxSeg + 1) /\ man' \in Manifests
  BY NextSegIdType DEF TypeOK
<1>3. walOps' \in Nat
  <2>1. Readable(wal) \subseteq 1..Len(wal) /\ Len(wal) \in Nat
    BY DEF Readable, TypeOK
  <2>2. IsFiniteSet(Readable(wal))
    <3>1. IsFiniteSet(1..Len(wal))
      BY <2>1, FS_Interval
    <3> QED
      BY <2>1, <3>1, FS_Subset
  <2> QED
    BY <2>2, FS_CardinalityType
<1>4. TypeOK'
  BY <1>1, <1>2, <1>3 DEF TypeOK, PCs, disk
<1>5. PhaseOK'
  BY DEF PhaseOK
<1>6. JobsOK'
  BY DEF JobsOK, Pending, PhaseOK
<1> QED
  BY <1>4, <1>5, <1>6

\* What every write does to the log buffer.
LEMMA LogFrameType ==
    ASSUME TypeInv, NEW f \in Patches, LogFrame(f), dirty' \subseteq Keys,
           dirtyAll' \in BOOLEAN, store' \in Stores, promised' \subseteq Stores,
           pc = "idle",
           \/ pc' = "idle" /\ call' = call
           \/ pc' = "flush" /\ call' \in Calls /\ call'.op \in {"write", "batch"}
    PROVE  TypeInv'
<1> USE DEF TypeInv, LogFrame
<1>1. walBuf' \in Seq(Patches) /\ walOps' \in Nat
  BY DEF TypeOK
<1>2. call' \in Calls /\ pc' \in PCs
  BY DEF TypeOK, PCs
<1>3. TypeOK'
  BY <1>1, <1>2 DEF TypeOK, disk
<1>4. PhaseOK'
  BY DEF PhaseOK
<1>5. JobsOK'
  BY DEF JobsOK, Pending
<1> QED
  BY <1>3, <1>4, <1>5

LEMMA ApplyBatchType ==
    ASSUME TypeOK, NEW c \in BOOLEAN, NEW p \in Patches, ApplyBatch(c, p)
    PROVE  store' \in Stores /\ dirty' \subseteq Keys /\ dirtyAll' \in BOOLEAN
BY FrameTypes, ApplyType DEF ApplyBatch, TypeOK, Touched

LEMMA WriteType ==
    ASSUME TypeInv, NEW f \in Patches, NEW dirt \in SUBSET Keys, NEW all \in BOOLEAN,
           Write(f, dirt, all)
    PROVE  TypeInv'
<1>1. store' \in Stores /\ promised' \subseteq Stores
  BY ApplyType DEF Write, TypeInv, TypeOK
<1>2. [NoCall EXCEPT !.op = "write"] \in Calls
  BY FrameTypes DEF NoCall, Calls, Ops
<1>3. \/ pc' = "idle" /\ call' = call
      \/ pc' = "flush" /\ call' \in Calls /\ call'.op \in {"write", "batch"}
  BY <1>2 DEF Write, NoCall
<1> QED
  BY <1>1, <1>3, LogFrameType DEF Write

LEMMA SetType ==
    ASSUME TypeInv, NEW k \in Keys, NEW v \in Values, Set(k, v)
    PROVE  TypeInv'
BY FrameTypes, WriteType DEF Set, TypeInv, TypeOK

LEMMA DeleteType ==
    ASSUME TypeInv, NEW k \in Keys, Delete(k)
    PROVE  TypeInv'
BY FrameTypes, WriteType DEF Delete, TypeInv, TypeOK

LEMMA ClearType == TypeInv /\ Clear => TypeInv'
BY FrameTypes, WriteType DEF Clear, TypeInv, TypeOK

LEMMA BatchType ==
    ASSUME TypeInv, NEW c \in BOOLEAN, NEW p \in Patches, Batch(c, p)
    PROVE  TypeInv'
<1>1. BatchFrame(c, p) \in Patches
  BY FrameTypes
<1>2. promised' \subseteq Stores
  BY <1>1, ApplyType DEF Batch, TypeInv, TypeOK
<1>3. store' \in Stores /\ dirty' \subseteq Keys /\ dirtyAll' \in BOOLEAN
  BY ApplyBatchType DEF Batch, TypeInv, TypeOK
<1>4. [NoCall EXCEPT !.op = "batch", !.clears = c, !.patch = p] \in Calls
  BY FrameTypes DEF NoCall, Calls, Ops
<1>5. \/ pc' = "idle" /\ call' = call
      \/ pc' = "flush" /\ call' \in Calls /\ call'.op \in {"write", "batch"}
  BY <1>4 DEF Batch, NoCall
<1> QED
  BY <1>1, <1>2, <1>3, <1>5, LogFrameType DEF Batch

LEMMA WalFlushType == TypeInv /\ WalFlush => TypeInv'
<1> SUFFICES ASSUME TypeInv, WalFlush
             PROVE  TypeInv'
  OBVIOUS
<1> USE DEF TypeInv
<1>1. wal' \in Seq(Patches \cup {Torn}) /\ walBuf' \in Seq(Patches)
  BY DEF WalFlush, TypeOK
<1>2. call.clears \in BOOLEAN /\ call.patch \in Patches /\ NoCall \in Calls
  BY FrameTypes DEF TypeOK, Calls, NoCall, Ops
<1>3. CASE call.op = "batch"
  <2>1. ApplyBatch(call.clears, call.patch) /\ pc' = "idle" /\ call' = NoCall
        /\ promised' = {ApplyPatch(store, BatchFrame(call.clears, call.patch))}
    BY <1>3 DEF WalFlush
  <2>2. store' \in Stores /\ dirty' \subseteq Keys /\ dirtyAll' \in BOOLEAN
    BY <1>2, <2>1, ApplyBatchType
  <2>3. promised' \subseteq Stores
    BY <1>2, <2>1, FrameTypes, ApplyType DEF TypeOK
  <2>4. TypeOK'
    BY <1>1, <1>2, <2>1, <2>2, <2>3 DEF WalFlush, TypeOK, PCs
  <2>5. PhaseOK' /\ JobsOK'
    BY <2>1 DEF WalFlush, PhaseOK, JobsOK, Pending, NoCall
  <2> QED
    BY <2>4, <2>5
<1>4. CASE call.op = "write"
  <2>1. pc' = "idle" /\ call' = NoCall /\ promised' = {store}
        /\ UNCHANGED <<store, dirty, dirtyAll>>
    BY <1>4 DEF WalFlush
  <2>2. TypeOK'
    BY <1>1, <1>2, <2>1 DEF WalFlush, TypeOK, PCs
  <2>3. PhaseOK' /\ JobsOK'
    BY <2>1 DEF WalFlush, PhaseOK, JobsOK, Pending, NoCall
  <2> QED
    BY <2>2, <2>3
<1>5. CASE call.op \in {"compact", "close", "prepare"}
  <2>1. pc' = "run" /\ promised' = {store} /\ UNCHANGED <<store, dirty, dirtyAll, call>>
    BY <1>5 DEF WalFlush
  <2>2. TypeOK'
    BY <1>1, <1>2, <2>1 DEF WalFlush, TypeOK, PCs
  <2>3. PhaseOK' /\ JobsOK'
    BY <1>5, <2>1 DEF WalFlush, PhaseOK, JobsOK, Pending, SegRoom
  <2> QED
    BY <2>2, <2>3
<1> QED
  BY <1>3, <1>4, <1>5 DEF WalFlush

-----------------------------------------------------------------------------
(* Types: compaction.                                                      *)

LEMMA BeginType ==
    ASSUME TypeInv, NEW op \in {"compact", "close", "prepare"}, Begin(op),
           UNCHANGED <<store, dirty, dirtyAll, walBuf, walOps, man, nextSeg, disk,
                       rot, history>>,
           jobs' \in [Jobs -> JobRecords \cup {NoJob}],
           JobsOK'
    PROVE  TypeInv'
<1>1. call' \in Calls /\ call'.op = op
  BY FrameTypes DEF Begin, NoCall, Calls, Ops
<1>2. pc' \in {"run", "flush"} /\ (pc' = "run" => walBuf = <<>>)
  BY DEF Begin
<1>3. TypeOK'
  BY <1>1, <1>2 DEF TypeInv, TypeOK, PCs, disk, history
<1>4. PhaseOK'
  BY <1>1, <1>2 DEF Begin, PhaseOK, SegRoom
<1> QED
  BY <1>3, <1>4 DEF TypeInv

LEMMA CallsType ==
    ASSUME TypeInv,
           Compact \/ Close \/ Prepare
    PROVE  TypeInv'
<1>1. jobs' = jobs /\ man' = man
  BY DEF Compact, Close, Prepare, memory
<1>2. JobsOK'
  BY <1>1 DEF TypeInv, JobsOK, Pending
<1> QED
  BY <1>1, <1>2, BeginType DEF Compact, Close, Prepare, memory, TypeInv, TypeOK

\* Whatever ends the process leaves the files as they are, or the log longer.
LEMMA DownStepType ==
    ASSUME TypeInv, Down, wal' \in Seq(Patches \cup {Torn}),
           UNCHANGED <<spdb, baks, segFile, manDisk, history>>
    PROVE  TypeInv'
<1>1. TypeOK'
  BY DownType DEF TypeInv, TypeOK, history
<1>2. PhaseOK'
  BY DownType DEF PhaseOK, NoCall
<1>3. JobsOK'
  BY DownType DEF JobsOK, Pending
<1> QED
  BY <1>1, <1>2, <1>3 DEF TypeInv

LEMMA CloseDoneType == TypeInv /\ CloseDone => TypeInv'
BY DownStepType DEF CloseDone, disk, TypeInv, TypeOK

LEMMA CrashType == TypeInv /\ Crash => TypeInv'
BY DownStepType DEF Crash, disk, TypeInv, TypeOK

LEMMA CrashInFlushType ==
    ASSUME TypeInv, NEW n \in 0..Len(walBuf), NEW torn \in BOOLEAN, CrashInFlush(n, torn)
    PROVE  TypeInv'
<1> DEFINE tail == IF torn THEN <<Torn>> ELSE <<>>
<1>1. SubSeq(walBuf, 1, n) \in Seq(Patches)
  BY DEF TypeInv, TypeOK
<1>2. tail \in Seq(Patches \cup {Torn})
  <2>1. Torn \in Patches \cup {Torn}
    OBVIOUS
  <2>2. <<Torn>> \in Seq(Patches \cup {Torn}) /\ <<>> \in Seq(Patches \cup {Torn})
    BY <2>1
  <2> QED
    BY <2>2
<1>3. wal \o SubSeq(walBuf, 1, n) \o tail \in Seq(Patches \cup {Torn})
  <2> HIDE DEF tail
  <2> QED
    BY <1>1, <1>2 DEF TypeInv, TypeOK
<1>4. wal' \in Seq(Patches \cup {Torn})
  BY <1>3 DEF CrashInFlush
<1> QED
  BY <1>4, DownStepType DEF CrashInFlush

LEMMA StartRewriteType == TypeInv /\ StartRewrite => TypeInv'
<1> SUFFICES ASSUME TypeInv, StartRewrite
             PROVE  TypeInv'
  OBVIOUS
<1> USE DEF TypeInv
<1>1. call' \in Calls /\ call'.op = call.op
  BY DEF StartRewrite, TypeOK, Calls, UseSegments
<1>2. pc = "run" /\ call.op \in {"compact", "close"} /\ pc' \in {"snap", "rotate"}
  BY DEF StartRewrite, Compacting
<1>3. rot' \in 0..BackupCount /\ (pc' = "rotate" => rot' # 0)
  BY EngineAssumption DEF StartRewrite
<1>4. TypeOK'
  BY <1>1, <1>2, <1>3 DEF StartRewrite, TypeOK, PCs, memory, disk, history
<1>5. PhaseOK' /\ JobsOK'
  BY <1>1, <1>2, <1>3 DEF StartRewrite, PhaseOK, JobsOK, Pending, SegRoom, memory
<1> QED
  BY <1>4, <1>5

LEMMA RotateType == TypeInv /\ Rotate => TypeInv'
<1> SUFFICES ASSUME TypeInv, Rotate
             PROVE  TypeInv'
  OBVIOUS
<1> USE DEF TypeInv
<1>1. rot \in 1..BackupCount /\ pc' \in {"snap", "rotate"}
      /\ (pc' = "rotate" => rot' # 0) /\ rot' \in 0..BackupCount
  BY EngineAssumption DEF Rotate, PhaseOK, TypeOK
<1>2. baks' \in [1..BackupCount -> Stores \cup {NoFile}] /\ spdb' \in Stores \cup {NoFile}
  <2>1. CASE rot = 1
    BY <2>1, <1>1, EngineAssumption DEF Rotate, TypeOK
  <2>2. CASE rot # 1
    BY <2>2, <1>1, EngineAssumption DEF Rotate, TypeOK
  <2> QED
    BY <2>1, <2>2
<1>3. TypeOK'
  BY <1>1, <1>2 DEF Rotate, TypeOK, PCs, memory, history
<1>4. PhaseOK' /\ JobsOK'
  BY <1>1 DEF Rotate, PhaseOK, JobsOK, Pending, SegRoom, memory
<1> QED
  BY <1>3, <1>4

LEMMA RenameSnapshotType == TypeInv /\ RenameSnapshot => TypeInv'
<1> SUFFICES ASSUME TypeInv, RenameSnapshot
             PROVE  TypeInv'
  OBVIOUS
<1> USE DEF TypeInv
<1>1. TypeOK'
  BY DEF RenameSnapshot, TypeOK, PCs, memory
<1>2. PhaseOK' /\ JobsOK'
  BY DEF RenameSnapshot, PhaseOK, JobsOK, Pending, SegRoom, memory
<1> QED
  BY <1>1, <1>2

LEMMA NoCallType == NoCall \in Calls /\ NoCall.op = "none"
BY FrameTypes DEF NoCall, Calls, Ops

LEMMA ResetWalType == TypeInv /\ ResetWal => TypeInv'
<1> SUFFICES ASSUME TypeInv, ResetWal
             PROVE  TypeInv'
  OBVIOUS
<1> USE DEF TypeInv
<1>1. \/ pc' = "purge" /\ call' = call
      \/ pc' \in {"closing", "idle"} /\ call' = NoCall
  BY DEF ResetWal, CompactReturns
<1>2. TypeOK'
  <2>1. /\ walBuf' \in Seq(Patches) /\ wal' \in Seq(Patches \cup {Torn})
        /\ walOps' \in Nat
    BY DEF ResetWal
  <2>3. dirty' \subseteq Keys /\ dirtyAll' \in BOOLEAN
    BY DEF ResetWal
  <2>2. call' \in Calls /\ pc' \in PCs
    BY <1>1, NoCallType DEF TypeOK, PCs
  <2> QED
    BY <2>1, <2>2, <2>3 DEF ResetWal, TypeOK, history
<1>3. PhaseOK' /\ JobsOK'
  BY <1>1, NoCallType DEF ResetWal, PhaseOK, JobsOK, Pending, SegRoom
<1> QED
  BY <1>2, <1>3

LEMMA TailEntries ==
    ASSUME NEW m \in Manifests, m.segs # <<>>
    PROVE  /\ [m EXCEPT !.segs = Tail(m.segs)] \in Manifests
           /\ Head(m.segs) \in Entries
           /\ Head(m.segs).name \in SegNames
<1>1. m.segs \in Seq(Entries)
  BY DEF Manifests
<1>2. Tail(m.segs) \in Seq(Entries) /\ Head(m.segs) \in Entries
  BY <1>1
<1>3. [m EXCEPT !.segs = Tail(m.segs)] \in Manifests
  BY <1>2 DEF Manifests
<1> QED
  BY <1>2, <1>3 DEF Entries

LEMMA DropSegmentType == TypeInv /\ DropSegment => TypeInv'
<1> SUFFICES ASSUME TypeInv, DropSegment
             PROVE  TypeInv'
  OBVIOUS
<1> USE DEF TypeInv
<1>1. man' \in Manifests /\ man'.gen = man.gen /\ Head(man.segs).name \in SegNames
  BY TailEntries DEF DropSegment, TypeOK, Manifests
<1>2. segFile' \in [SegNames -> Patches \cup {NoFile}]
  BY <1>1 DEF DropSegment, TypeOK
<1>3. TypeOK'
  BY <1>1, <1>2 DEF DropSegment, TypeOK, control, history
<1>4. PhaseOK' /\ JobsOK'
  BY <1>1 DEF DropSegment, PhaseOK, JobsOK, Pending, SegRoom, control
<1> QED
  BY <1>3, <1>4

LEMMA MergeManifestType == TypeInv /\ MergeManifest => TypeInv'
<1> SUFFICES ASSUME TypeInv, MergeManifest
             PROVE  TypeInv'
  OBVIOUS
<1> USE DEF TypeInv
<1>1. man.gen < MaxSeg /\ man.gen \in 0..MaxSeg
  BY DEF MergeManifest, PhaseOK, SegRoom, TypeOK, Manifests
<1>2. man' \in Manifests /\ manDisk' \in Manifests /\ man'.gen = man.gen + 1
  <2>1. man \in Manifests /\ man.gen + 1 \in 0..MaxSeg
    BY <1>1, EngineAssumption DEF TypeOK
  <2>2. man' = [man EXCEPT !.gen = man.gen + 1] /\ manDisk' = man'
    BY DEF MergeManifest
  <2> QED
    BY <2>1, <2>2 DEF Manifests
<1>3. pc' \in {"closing", "idle"} /\ call' = NoCall
  BY DEF MergeManifest, CompactReturns
<1>4. TypeOK'
  <2>1. /\ walBuf' \in Seq(Patches) /\ wal' \in Seq(Patches \cup {Torn})
        /\ walOps' \in Nat
    BY DEF MergeManifest
  <2>2. call' \in Calls /\ pc' \in PCs
    BY <1>3, NoCallType DEF PCs
  <2> QED
    BY <1>2, <2>1, <2>2 DEF MergeManifest, TypeOK, history
<1>5. PhaseOK'
  BY <1>3, NoCallType DEF MergeManifest, PhaseOK
<1>6. JobsOK'
  <2> SUFFICES ASSUME NEW j \in Jobs, Pending(j)'
               PROVE  jobs'[j].id # 0 /\ jobs'[j].gen <= man'.gen + 1
    BY DEF JobsOK
  <2>1. jobs' = jobs /\ Pending(j)
    BY DEF MergeManifest, Pending
  <2>2. jobs[j].gen \in Nat
    BY <2>1, EngineAssumption DEF TypeOK, JobRecords, Pending
  <2> QED
    BY <2>1, <2>2, <1>1, <1>2, EngineAssumption DEF JobsOK
<1> QED
  BY <1>4, <1>5, <1>6

LEMMA BodyTypes ==
    ASSUME TypeOK
    PROVE  DeltaBody \in Patches /\ FullBody \in Patches
BY DEF TypeOK, DeltaBody, FullBody, Stores, Patches

LEMMA WriteDeltaType == TypeInv /\ WriteDelta => TypeInv'
<1> SUFFICES ASSUME TypeInv, WriteDelta
             PROVE  TypeInv'
  OBVIOUS
<1> USE DEF TypeInv
<1>1. segFile' \in [SegNames -> Patches \cup {NoFile}]
  BY BodyTypes DEF WriteDelta, TypeOK
<1>2. TypeOK'
  BY <1>1 DEF WriteDelta, TypeOK, PCs, memory, history
<1>3. PhaseOK' /\ JobsOK'
  BY DEF WriteDelta, Compacting, PhaseOK, JobsOK, Pending, SegRoom, memory
<1> QED
  BY <1>2, <1>3

LEMMA AppendEntry ==
    ASSUME NEW m \in Manifests, NEW e \in Entries, NEW g \in 0..MaxSeg
    PROVE  [gen |-> g, segs |-> Append(m.segs, e)] \in Manifests
<1>1. Append(m.segs, e) \in Seq(Entries)
  BY DEF Manifests
<1> QED
  BY <1>1 DEF Manifests

LEMMA DeltaManifestType == TypeInv /\ DeltaManifest => TypeInv'
<1> SUFFICES ASSUME TypeInv, DeltaManifest
             PROVE  TypeInv'
  OBVIOUS
<1> USE DEF TypeInv
<1> DEFINE entry == [id |-> nextSeg, name |-> <<"delta", nextSeg>>, crc |-> DeltaBody]
<1>1. nextSeg \in 1..MaxSeg
  BY EngineAssumption DEF DeltaManifest, PhaseOK, SegRoom, TypeOK
<1>2. entry \in Entries
  BY <1>1, BodyTypes DEF Entries, SegNames
<1>3. man' = [man EXCEPT !.segs = Append(man.segs, entry)] /\ manDisk' = man'
  BY DEF DeltaManifest
<1>4. man' \in Manifests /\ manDisk' \in Manifests /\ man'.gen = man.gen
  <2> HIDE DEF entry
  <2>1. Append(man.segs, entry) \in Seq(Entries)
    BY <1>2 DEF TypeOK, Manifests
  <2> QED
    BY <2>1, <1>3 DEF TypeOK, Manifests
<1>5. nextSeg' \in 1..(MaxSeg + 1)
  BY <1>1, EngineAssumption DEF DeltaManifest
<1>6. pc' \in {"closing", "idle"} /\ call' = NoCall
  BY DEF DeltaManifest, CompactReturns
<1>7. TypeOK'
  <2>1. call' \in Calls /\ pc' \in PCs
    BY <1>6, NoCallType DEF PCs
  <2>2. dirty' \subseteq Keys /\ dirtyAll' \in BOOLEAN
    BY DEF DeltaManifest
  <2> QED
    BY <1>4, <1>5, <2>1, <2>2 DEF DeltaManifest, TypeOK, history
<1>8. PhaseOK' /\ JobsOK'
  BY <1>4, <1>6, NoCallType DEF DeltaManifest, PhaseOK, JobsOK, Pending
<1> QED
  BY <1>7, <1>8

-----------------------------------------------------------------------------
(* Types: compactAsync.                                                    *)

LEMMA NewJobType ==
    ASSUME TypeOK, SegRoom
    PROVE  /\ NewJob \in JobRecords
           /\ NewJob.kind # "legacy" => NewJob.id # 0 /\ NewJob.gen = man.gen + 1
<1>1. man.gen + 1 \in 1..MaxSeg /\ nextSeg \in 1..MaxSeg
  BY EngineAssumption DEF SegRoom, TypeOK, Manifests
<1> QED
  BY <1>1, BodyTypes, FrameTypes, EngineAssumption DEF NewJob, JobRecords

LEMMA PrepareCompactType ==
    ASSUME TypeInv, NEW j \in Jobs, PrepareCompact(j)
    PROVE  TypeInv'
<1> USE DEF TypeInv
<1>1. NewJob \in JobRecords
      /\ (NewJob.kind # "legacy" => NewJob.id # 0 /\ NewJob.gen = man.gen + 1)
  BY NewJobType DEF PrepareCompact, PhaseOK
<1>2. jobs' = [jobs EXCEPT ![j] = NewJob] /\ man' = man
  BY DEF PrepareCompact
<1>3. TypeOK'
  BY <1>1, NoCallType DEF PrepareCompact, TypeOK, PCs, disk, history
<1>4. PhaseOK'
  BY NoCallType DEF PrepareCompact, PhaseOK
<1>5. JobsOK'
  <2> SUFFICES ASSUME NEW i \in Jobs, Pending(i)'
               PROVE  jobs'[i].id # 0 /\ jobs'[i].gen <= man'.gen + 1
    BY DEF JobsOK
  <2>1. CASE i = j
    <3>1. jobs'[i] = NewJob
      BY <2>1, <1>2 DEF TypeOK
    <3>2. NewJob.gen = man.gen + 1 /\ NewJob.id # 0 /\ man.gen \in Nat
      BY <3>1, <1>1, EngineAssumption DEF Pending, TypeOK, Manifests
    <3> QED
      BY <3>1, <3>2, <1>2
  <2>2. CASE i # j
    BY <2>2, <1>2 DEF JobsOK, Pending, TypeOK
  <2> QED
    BY <2>1, <2>2
<1> QED
  BY <1>3, <1>4, <1>5

\* A finished job frees its slot; the others are as they were.
LEMMA FreeJobType ==
    ASSUME TypeInv, NEW j \in Jobs, FreeJob(j)
    PROVE  /\ jobs' \in [Jobs -> JobRecords \cup {NoJob}]
           /\ \A i \in Jobs : Pending(i)' => i # j /\ jobs'[i] = jobs[i] /\ Pending(i)
BY DEF TypeInv, TypeOK, FreeJob, Pending

LEMMA FinishLegacyType ==
    ASSUME TypeInv, NEW j \in Jobs, FinishLegacy(j)
    PROVE  TypeInv'
<1>1. jobs' \in [Jobs -> JobRecords \cup {NoJob}] /\ JobsOK'
  BY FreeJobType DEF FinishLegacy, TypeInv, JobsOK
<1> QED
  BY <1>1, BeginType DEF FinishLegacy, history, disk

LEMMA FinishStaleType ==
    ASSUME TypeInv, NEW j \in Jobs, FinishStale(j)
    PROVE  TypeInv'
<1>1. jobs' \in [Jobs -> JobRecords \cup {NoJob}] /\ JobsOK'
  BY FreeJobType DEF FinishStale, TypeInv, JobsOK
<1>2. TypeOK'
  BY <1>1 DEF FinishStale, TypeInv, TypeOK, disk, control, history
<1>3. PhaseOK'
  BY DEF FinishStale, TypeInv, PhaseOK, control
<1> QED
  BY <1>1, <1>2, <1>3 DEF TypeInv

LEMMA FinishWriteType ==
    ASSUME TypeInv, NEW j \in Jobs, FinishWrite(j)
    PROVE  TypeInv'
<1>1. jobs' \in [Jobs -> JobRecords \cup {NoJob}] /\ JobsOK'
  BY FreeJobType DEF FinishWrite, TypeInv, JobsOK
<1>2. jobs[j] \in JobRecords /\ jobs[j].kind # "legacy" /\ jobs[j].id # 0
  BY DEF FinishWrite, Pending, TypeInv, TypeOK, JobsOK
<1>3. JobName(jobs[j]) \in SegNames /\ jobs[j].body \in Patches
  BY <1>2 DEF JobName, SegNames, JobRecords
<1>4. segFile' \in [SegNames -> Patches \cup {NoFile}]
  BY <1>3 DEF FinishWrite, TypeInv, TypeOK
<1>5. call' \in Calls /\ call'.op = "finish" /\ call'.job = jobs[j]
      /\ pc' \in {"dropsegs", "commit"}
  BY <1>2, FrameTypes DEF FinishWrite, NoCall, Calls, Ops
<1>6. TypeOK'
  BY <1>1, <1>4, <1>5 DEF FinishWrite, TypeInv, TypeOK, PCs, history
<1>7. PhaseOK'
  BY <1>2, <1>5 DEF FinishWrite, PhaseOK
<1> QED
  BY <1>1, <1>6, <1>7 DEF TypeInv

LEMMA FinishCommitType == TypeInv /\ FinishCommit => TypeInv'
<1> SUFFICES ASSUME TypeInv, FinishCommit
             PROVE  TypeInv'
  OBVIOUS
<1> USE DEF TypeInv
<1> DEFINE entry == [id |-> call.job.id, name |-> JobName(call.job), crc |-> call.job.body]
<1>1. /\ call.job \in JobRecords /\ call.job.kind # "legacy"
      /\ call.job.id \in 1..MaxSeg /\ call.job.gen = man.gen + 1
  BY EngineAssumption DEF FinishCommit, PhaseOK, JobRecords
<1>2. entry \in Entries
  BY <1>1 DEF Entries, SegNames, JobName, JobRecords
<1>3. man' = [gen |-> call.job.gen, segs |-> Append(man.segs, entry)] /\ manDisk' = man'
  BY DEF FinishCommit
<1>4. man' \in Manifests /\ man'.gen = man.gen + 1
  <2> HIDE DEF entry
  <2>1. call.job.gen \in 0..MaxSeg
    BY <1>1 DEF JobRecords
  <2> QED
    BY <2>1, <1>1, <1>2, <1>3, AppendEntry DEF TypeOK
<1>5. nextSeg' \in 1..(MaxSeg + 1)
  BY <1>1, EngineAssumption DEF FinishCommit, TypeOK
<1>6. pc' = "idle" /\ call' = NoCall
  BY DEF FinishCommit
<1>7. TypeOK'
  BY <1>3, <1>4, <1>5, <1>6, NoCallType DEF FinishCommit, TypeOK, PCs, history
<1>8. PhaseOK'
  BY <1>6, NoCallType DEF PhaseOK
<1>9. JobsOK'
  <2> SUFFICES ASSUME NEW j \in Jobs, Pending(j)'
               PROVE  jobs'[j].id # 0 /\ jobs'[j].gen <= man'.gen + 1
    BY DEF JobsOK
  <2>1. jobs' = jobs /\ Pending(j)
    BY DEF FinishCommit, Pending
  <2>2. jobs[j].gen \in Nat /\ man.gen \in Nat
    BY <2>1, EngineAssumption DEF TypeOK, JobRecords, Pending, Manifests
  <2> QED
    BY <2>1, <2>2, <1>4, EngineAssumption DEF JobsOK
<1> QED
  BY <1>7, <1>8, <1>9

-----------------------------------------------------------------------------

LEMMA TypeStep == TypeInv /\ [Next]_vars => TypeInv'
<1> SUFFICES ASSUME TypeInv, [Next]_vars
             PROVE  TypeInv'
  OBVIOUS
<1>1. CASE Open
  BY <1>1, OpenType
<1>2. CASE ClientStep
  BY <1>2, SetType, DeleteType, ClearType, BatchType, WalFlushType DEF ClientStep
<1>3. CASE CompactStep
  BY <1>3, CallsType, CloseDoneType, StartRewriteType, RotateType, RenameSnapshotType,
     ResetWalType, DropSegmentType, MergeManifestType, WriteDeltaType, DeltaManifestType
     DEF CompactStep
<1>4. CASE AsyncStep
  BY <1>4, CallsType, PrepareCompactType, FinishLegacyType, FinishStaleType,
     FinishWriteType, FinishCommitType DEF AsyncStep
<1>5. CASE CrashStep
  BY <1>5, CrashType, CrashInFlushType, EngineAssumption DEF CrashStep
<1>6. CASE UNCHANGED vars
  BY <1>6 DEF vars, memory, disk, control, history, TypeInv, TypeOK, PhaseOK,
              SegRoom, JobsOK, Pending
<1> QED
  BY <1>1, <1>2, <1>3, <1>4, <1>5, <1>6 DEF Next

\* Every variable has its type, at every step of every behaviour.
THEOREM TypeCorrect == Spec => []TypeOK
<1>1. TypeInv => TypeOK
  BY DEF TypeInv
<1> QED
  BY <1>1, TypeInit, TypeStep, PTL DEF Spec

-----------------------------------------------------------------------------
(* The log and what it is replayed over.                                   *)

LEMMA LogTypes ==
    ASSUME TypeInv, LogStandsForStore
    PROVE  /\ wal \in Seq(Patches) /\ walBuf \in Seq(Patches)
           /\ Logged \in Seq(Patches)
           /\ walBuf = <<>> => Logged = wal
BY DEF TypeInv, TypeOK, LogStandsForStore, Logged

LEMMA GroundType ==
    ASSUME TypeInv
    PROVE  Ground \in Stores
BY FrameTypes DEF TypeInv, TypeOK, Ground

\* Where no frame of the log touches a key, the store is the snapshot.
LEMMA StoreIsGround ==
    ASSUME TypeInv, LogStandsForStore, pc # "down", walBuf = <<>>,
           Expected = store, NEW k \in Keys, ~Hit(wal, k)
    PROVE  store[k] = Ground[k]
<1>1. Replay(Ground, wal) = store
  BY LogTypes DEF LogStandsForStore
<1> QED
  BY <1>1, LogTypes, ReplayAt

\* So a key the store holds is covered.
LEMMA PresentIsCovered ==
    ASSUME TypeInv, LogStandsForStore, pc # "down", walBuf = <<>>,
           Expected = store, NEW k \in Keys, store[k] # Absent
    PROVE  Covered(k)
BY StoreIsGround DEF Covered

\* A compaction starts with every frame in the file: the snapshot and the log
\* stand for the store, and that is the map promised.
LEMMA AllFlushed ==
    ASSUME TypeInv, LogStandsForStore, PrefixesPromised, pc # "down",
           walBuf = <<>>, Expected = store
    PROVE  Replay(Ground, wal) = store /\ store \in promised
<1>1. Replay(Ground, wal) = store
  BY LogTypes DEF LogStandsForStore
<1>2. wal \o SubSeq(walBuf, 1, 0) = wal /\ 0 \in 0..Len(walBuf)
  BY LogTypes
<1>3. Replay(Ground, wal) \in promised
  BY <1>2 DEF PrefixesPromised
<1> QED
  BY <1>1, <1>3

\* With an empty buffer there is one prefix.
LEMMA OnePrefix ==
    ASSUME TypeInv', wal' \in Seq(Patches), walBuf' = <<>>,
           Replay(Ground, wal)' \in promised'
    PROVE  PrefixesPromised'
<1>1. Len(walBuf') = 0 /\ wal' \o SubSeq(walBuf', 1, 0) = wal'
  OBVIOUS
<1>2. ASSUME NEW n \in 0..Len(walBuf')
      PROVE  n = 0
  BY <1>1
<1> QED
  BY <1>1, <1>2 DEF PrefixesPromised

\* The invariant looks at the files, the buffer and promised only through these.
LEMMA LogUntouched ==
    ASSUME DurabilityInv, UNCHANGED <<wal, walBuf, promised>>, Ground' = Ground
    PROVE  /\ PrefixesPromised'
           /\ \A k \in Keys : Covered(k)' = Covered(k)
           /\ Logged' = Logged
BY DEF DurabilityInv, PrefixesPromised, Covered, Logged

-----------------------------------------------------------------------------
(* Writes.                                                                 *)

\* A frame at the end of the buffer: the log stands for the store with the
\* frame applied, and every part of the buffer that a crash may write is
\* promised.
LEMMA FrameLogged ==
    ASSUME TypeInv, LogStandsForStore, PrefixesPromised, pc = "idle",
           NEW f \in Patches, walBuf' = Append(walBuf, f), wal' = wal,
           Ground' = Ground, promised' = promised \cup {ApplyPatch(store, f)}
    PROVE  /\ Replay(Ground', Logged') = ApplyPatch(store, f)
           /\ PrefixesPromised'
           /\ \A k \in Keys : Hit(Logged, k) \/ f[k] # Keep => Hit(Logged', k)
<1>1. wal \in Seq(Patches) /\ walBuf \in Seq(Patches) /\ Logged \in Seq(Patches)
  BY LogTypes
<1>2. Logged' = Append(Logged, f)
  BY <1>1 DEF Logged
<1>3. Replay(Ground, Logged) = store
  BY DEF LogStandsForStore, Expected
<1>4. Replay(Ground', Logged') = ApplyPatch(store, f)
  BY <1>1, <1>2, <1>3, GroundType, ReplayAppend
<1>5. PrefixesPromised'
  <2> SUFFICES ASSUME NEW n \in 0..Len(walBuf')
               PROVE  Replay(Ground', wal' \o SubSeq(walBuf', 1, n)) \in promised'
    BY DEF PrefixesPromised
  <2>1. CASE n \in 0..Len(walBuf)
    <3>1. SubSeq(walBuf', 1, n) = SubSeq(walBuf, 1, n)
      BY <1>1, <2>1
    <3>2. Replay(Ground, wal \o SubSeq(walBuf, 1, n)) \in promised
      BY <2>1 DEF PrefixesPromised
    <3> QED
      BY <3>1, <3>2
  <2>2. CASE n = Len(walBuf) + 1
    <3>1. SubSeq(walBuf', 1, n) = walBuf'
      BY <1>1, <2>2
    <3>2. wal' \o SubSeq(walBuf', 1, n) = Logged'
      BY <3>1 DEF Logged
    <3> QED
      BY <1>4, <3>2
  <2> QED
    BY <1>1, <2>1, <2>2
<1>6. ASSUME NEW k \in Keys, Hit(Logged, k) \/ f[k] # Keep
      PROVE  Hit(Logged', k)
  <2>1. CASE Hit(Logged, k)
    <3>1. PICK i \in DOMAIN Logged : Logged[i][k] # Keep
      BY <2>1 DEF Hit
    <3>2. i \in DOMAIN Logged' /\ Logged'[i] = Logged[i]
      BY <1>1, <1>2, <3>1
    <3> QED
      BY <3>1, <3>2 DEF Hit
  <2>2. CASE f[k] # Keep
    <3>1. Len(Logged) + 1 \in DOMAIN Logged' /\ Logged'[Len(Logged) + 1] = f
      BY <1>1, <1>2
    <3> QED
      BY <2>2, <3>1 DEF Hit
  <2> QED
    BY <1>6, <2>1, <2>2
<1> QED
  BY <1>4, <1>5, <1>6

\* Steps that leave both manifests alone and prepare no job.
LEMMA CoverageKept ==
    ASSUME DurabilityInv, pc # "purge", man' = man, manDisk' = manDisk,
           \A k \in Keys : Covered(k) => Covered(k)',
           \A j \in Jobs : Pending(j)' => Pending(j) /\ jobs'[j] = jobs[j],
           pc' \in {"dropsegs", "commit"} =>
               pc \in {"dropsegs", "commit"} /\ call' = call
    PROVE  SegmentsCovered'
<1>1. SegmentsCovered
  BY DEF DurabilityInv
<1> QED
  BY <1>1 DEF SegmentsCovered

\* What all writes have in common: the modes, the segments.
LEMMA WriteQuiet ==
    ASSUME DurabilityInv, NEW f \in Patches, pc = "idle", LogFrame(f),
           pc' \in {"idle", "flush"}
    PROVE  /\ Ground' = Ground
           /\ wal' = wal /\ walBuf' = Append(walBuf, f)
           /\ ModeOK' /\ SegmentsCovered'
<1>1. Ground' = Ground /\ wal' = wal /\ walBuf' = Append(walBuf, f)
  BY DEF LogFrame, disk, Ground
<1>2. ModeOK'
  BY DEF LogFrame, disk, DurabilityInv, ModeOK, Pending
<1>3. SegmentsCovered'
  <2>1. \A k \in Keys : Covered(k)' = Covered(k)
    BY <1>1 DEF Covered
  <2>2. man' = man /\ manDisk' = manDisk /\ jobs' = jobs
    BY DEF LogFrame, disk
  <2>3. \A j \in Jobs : Pending(j)' => Pending(j) /\ jobs'[j] = jobs[j]
    BY <2>2 DEF Pending
  <2> QED
    BY <2>1, <2>2, <2>3, CoverageKept
<1> QED
  BY <1>1, <1>2, <1>3

LEMMA WriteDurable ==
    ASSUME DurabilityInv, NEW f \in Patches, NEW dirt \in SUBSET Keys,
           NEW all \in BOOLEAN, \A k \in dirt : k \in dirty \/ f[k] # Keep,
           Write(f, dirt, all)
    PROVE  DurabilityInv'
<1>1. TypeInv' /\ pc = "idle" /\ LogFrame(f)
  BY WriteType DEF DurabilityInv, Write
<1>2. \/ pc' = "idle" /\ call' = call
      \/ pc' = "flush" /\ call'.op = "write"
  BY DEF Write, NoCall
<1>3. Ground' = Ground /\ wal' = wal /\ walBuf' = Append(walBuf, f)
      /\ ModeOK' /\ SegmentsCovered'
  BY <1>1, <1>2, WriteQuiet
<1>4. store' = ApplyPatch(store, f) /\ promised' = promised \cup {ApplyPatch(store, f)}
      /\ dirty' = dirt
  BY DEF Write
<1>5. /\ Replay(Ground', Logged') = ApplyPatch(store, f)
      /\ PrefixesPromised'
      /\ \A k \in Keys : Hit(Logged, k) \/ f[k] # Keep => Hit(Logged', k)
  BY <1>1, <1>3, <1>4, FrameLogged DEF DurabilityInv
<1>6. LogStandsForStore'
  BY <1>2, <1>3, <1>4, <1>5 DEF DurabilityInv, LogStandsForStore, Expected
<1>7. DirtyLogged'
  BY <1>2, <1>4, <1>5 DEF DurabilityInv, DirtyLogged
<1> QED
  BY <1>1, <1>3, <1>5, <1>6, <1>7 DEF DurabilityInv

LEMMA ClientWritesDurable ==
    ASSUME DurabilityInv,
           \/ \E k \in Keys, v \in Values : Set(k, v)
           \/ \E k \in Keys : Delete(k)
           \/ Clear
    PROVE  DurabilityInv'
<1>1. dirty \in SUBSET Keys /\ dirtyAll \in BOOLEAN
  BY DEF DurabilityInv, TypeInv, TypeOK
<1>2. ASSUME NEW k \in Keys, NEW v \in Values, Set(k, v)
      PROVE  DurabilityInv'
  <2>1. SetFrame(k, v) \in Patches /\ SetFrame(k, v)[k] # Keep
    BY FrameTypes, ReplayAssumption DEF SetFrame, NoChange
  <2> QED
    BY <1>1, <1>2, <2>1, WriteDurable DEF Set
<1>3. ASSUME NEW k \in Keys, Delete(k)
      PROVE  DurabilityInv'
  <2>1. DelFrame(k) \in Patches /\ DelFrame(k)[k] # Keep
    BY FrameTypes, ReplayAssumption DEF DelFrame, NoChange
  <2> QED
    BY <1>1, <1>3, <2>1, WriteDurable DEF Delete
<1>4. CASE Clear
  <2>1. ClearFrame \in Patches /\ {} \in SUBSET Keys /\ TRUE \in BOOLEAN
    BY FrameTypes
  <2>2. \A k \in {} : k \in dirty \/ ClearFrame[k] # Keep
    OBVIOUS
  <2>3. Write(ClearFrame, {}, TRUE)
    BY <1>4 DEF Clear
  <2> QED
    BY <2>1, <2>2, <2>3, WriteDurable
<1> QED
  BY <1>2, <1>3, <1>4

\* A batch is logged as one frame; the log is ahead of the store until it is
\* flushed, which is what Expected says.
LEMMA BatchDurable ==
    ASSUME DurabilityInv, NEW c \in BOOLEAN, NEW p \in Patches, Batch(c, p)
    PROVE  DurabilityInv'
<1> DEFINE f == BatchFrame(c, p)
<1>0. f \in Patches /\ \A k \in Keys : p[k] # Keep => f[k] # Keep
  BY FrameTypes DEF BatchFrame
<1>1. TypeInv' /\ pc = "idle" /\ LogFrame(f)
      /\ promised' = promised \cup {ApplyPatch(store, f)}
  BY BatchType DEF DurabilityInv, Batch
<1>2. \/ pc' = "idle" /\ call' = call /\ ApplyBatch(c, p)
      \/ /\ pc' = "flush" /\ call'.op = "batch" /\ call'.clears = c /\ call'.patch = p
         /\ store' = store /\ dirty' = dirty
  BY <1>1 DEF Batch, NoCall
<1> HIDE DEF f
<1>3. Ground' = Ground /\ wal' = wal /\ walBuf' = Append(walBuf, f)
      /\ ModeOK' /\ SegmentsCovered'
  BY <1>0, <1>1, <1>2, WriteQuiet
<1>5. /\ Replay(Ground', Logged') = ApplyPatch(store, f)
      /\ PrefixesPromised'
      /\ \A k \in Keys : Hit(Logged, k) \/ f[k] # Keep => Hit(Logged', k)
  BY <1>0, <1>1, <1>3, FrameLogged DEF DurabilityInv
<1>6. Expected' = ApplyPatch(store, f)
  BY <1>2 DEF Expected, ApplyBatch, f
<1>7. LogStandsForStore'
  BY <1>2, <1>3, <1>5, <1>6 DEF DurabilityInv, LogStandsForStore
<1>8. DirtyLogged'
  <2>1. \A k \in dirty' : k \in dirty \/ f[k] # Keep
    BY <1>0, <1>2 DEF ApplyBatch, Touched
  <2>2. pc' = "flush" /\ call'.op = "batch" => call'.patch = p
    BY <1>2
  <2> QED
    BY <1>0, <1>2, <1>5, <2>1, <2>2 DEF DurabilityInv, DirtyLogged
<1> QED
  BY <1>1, <1>3, <1>5, <1>7, <1>8 DEF DurabilityInv

\* Flushing the buffer leaves the log as it is, in one piece; what was being
\* logged is now the store.
LEMMA WalFlushDurable == DurabilityInv /\ WalFlush => DurabilityInv'
<1> SUFFICES ASSUME DurabilityInv, WalFlush
             PROVE  DurabilityInv'
  OBVIOUS
<1>1. TypeInv /\ TypeInv' /\ LogStandsForStore
  BY WalFlushType DEF DurabilityInv
<1>2. wal' = Logged /\ walBuf' = <<>> /\ pc = "flush" /\ spdb' = spdb
      /\ pc' \in {"idle", "run"}
  BY DEF WalFlush, Logged
<1>3. wal' \in Seq(Patches) /\ Logged' = Logged
  BY <1>1, <1>2, LogTypes DEF Logged
<1>4. Ground' = Ground
  BY <1>2 DEF Ground
<1>5. Expected' = store'
  BY <1>2 DEF Expected
<1>13. store' = Expected /\ promised' = {store'}
  <2>1. CASE call.op = "batch"
    BY <1>2, <2>1 DEF WalFlush, Expected, ApplyBatch
  <2>2. CASE call.op # "batch"
    BY <1>2, <2>2 DEF WalFlush, Expected
  <2> QED
    BY <2>1, <2>2
<1>6. Replay(Ground', Logged') = Expected'
  BY <1>1, <1>2, <1>3, <1>4, <1>5, <1>13 DEF LogStandsForStore
<1>7. LogStandsForStore'
  BY <1>2, <1>3, <1>6 DEF LogStandsForStore
<1>8. PrefixesPromised'
  BY <1>1, <1>2, <1>3, <1>5, <1>6, <1>13, OnePrefix
<1>9. \A k \in Keys : Hit(wal, k) => Hit(wal', k)
  <2>1. walBuf \in Seq(Patches) /\ wal \in Seq(Patches)
    BY <1>1, LogTypes
  <2> QED
    BY <1>2, <2>1, HitConcat DEF Logged
<1>10. SegmentsCovered'
  <2>1. \A k \in Keys : Covered(k) => Covered(k)'
    BY <1>4, <1>9 DEF Covered
  <2>2. man' = man /\ manDisk' = manDisk /\ jobs' = jobs
    BY DEF WalFlush
  <2>3. \A j \in Jobs : Pending(j)' => Pending(j) /\ jobs'[j] = jobs[j]
    BY <2>2 DEF Pending
  <2> QED
    BY <1>2, <2>1, <2>2, <2>3, CoverageKept
<1>11. DirtyLogged'
  <2>1. \A k \in dirty' : k \in dirty \/ (call.op = "batch" /\ call.patch[k] # Keep)
    BY DEF WalFlush, ApplyBatch, Touched
  <2> QED
    BY <1>1, <1>2, <1>3, <2>1 DEF TypeInv, TypeOK, DurabilityInv, DirtyLogged
<1>12. ModeOK'
  BY <1>2 DEF WalFlush, DurabilityInv, ModeOK, Pending
<1> QED
  BY <1>1, <1>7, <1>8, <1>10, <1>11, <1>12 DEF DurabilityInv

-----------------------------------------------------------------------------
(* Calls that begin, and jobs that are dropped.                            *)

\* Steps that touch neither log, nor snapshot, nor manifests, and prepare no
\* job: what remains to be said is the mode.
LEMMA ControlDurable ==
    ASSUME DurabilityInv, TypeInv', ModeOK', pc # "down", pc # "purge",
           UNCHANGED <<wal, walBuf, promised, store, dirty, man, manDisk>>,
           Ground' = Ground, Expected = store, Expected' = store,
           pc' = "flush" => call'.op # "batch",
           pc' # "purge", pc' = "reset" => spdb' = store,
           pc' \in {"dropsegs", "commit"} =>
               pc \in {"dropsegs", "commit"} /\ call' = call,
           \A j \in Jobs : Pending(j)' => Pending(j) /\ jobs'[j] = jobs[j]
    PROVE  DurabilityInv'
<1>1. PrefixesPromised' /\ (\A k \in Keys : Covered(k)' = Covered(k)) /\ Logged' = Logged
  BY LogUntouched
<1>2. LogStandsForStore'
  BY <1>1 DEF DurabilityInv, LogStandsForStore
<1>3. SegmentsCovered'
  BY <1>1, CoverageKept
<1>4. DirtyLogged'
  BY <1>1 DEF DurabilityInv, DirtyLogged
<1> QED
  BY <1>1, <1>2, <1>3, <1>4 DEF DurabilityInv

LEMMA BeginDurable ==
    ASSUME DurabilityInv, TypeInv',
           NEW op \in {"compact", "close", "prepare"}, Begin(op),
           UNCHANGED <<store, dirty, dirtyAll, walBuf, walOps, man, nextSeg, disk,
                       rot, history>>,
           \A j \in Jobs : Pending(j)' => Pending(j) /\ jobs'[j] = jobs[j]
    PROVE  DurabilityInv'
<1>1. pc = "idle" /\ pc' \in {"run", "flush"} /\ call'.op = op
  BY DEF Begin, NoCall
<1>2. Ground' = Ground /\ Expected = store /\ Expected' = store
  BY <1>1 DEF Ground, Expected, disk
<1>3. ModeOK'
  BY <1>1 DEF DurabilityInv, ModeOK, disk
<1>4. UNCHANGED <<wal, walBuf, promised, store, dirty, man, manDisk>>
  BY DEF disk, history
<1> QED
  BY <1>1, <1>2, <1>3, <1>4, ControlDurable

LEMMA CallsDurable ==
    ASSUME DurabilityInv, Compact \/ Close \/ Prepare
    PROVE  DurabilityInv'
<1>1. TypeInv' /\ jobs' = jobs
  BY CallsType DEF DurabilityInv, Compact, Close, Prepare, memory
<1>2. \A j \in Jobs : Pending(j)' => Pending(j) /\ jobs'[j] = jobs[j]
  BY <1>1 DEF Pending
<1> QED
  BY <1>1, <1>2, BeginDurable DEF Compact, Close, Prepare, memory

LEMMA FinishLegacyDurable ==
    ASSUME DurabilityInv, NEW j \in Jobs, FinishLegacy(j)
    PROVE  DurabilityInv'
<1>1. TypeInv'
  BY FinishLegacyType DEF DurabilityInv
<1>2. \A i \in Jobs : Pending(i)' => Pending(i) /\ jobs'[i] = jobs[i]
  BY FreeJobType DEF FinishLegacy, DurabilityInv
<1> QED
  BY <1>1, <1>2, BeginDurable DEF FinishLegacy

LEMMA FinishStaleDurable ==
    ASSUME DurabilityInv, NEW j \in Jobs, FinishStale(j)
    PROVE  DurabilityInv'
<1>1. TypeInv' /\ pc = "idle" /\ pc' = "idle" /\ call' = call
  BY FinishStaleType DEF DurabilityInv, FinishStale, control
<1>2. \A i \in Jobs : Pending(i)' => Pending(i) /\ jobs'[i] = jobs[i]
  BY FreeJobType DEF FinishStale, DurabilityInv
<1>3. UNCHANGED <<wal, walBuf, promised, store, dirty, man, manDisk, spdb>>
  BY DEF FinishStale, disk, history
<1>4. Ground' = Ground /\ Expected = store /\ Expected' = store
  BY <1>1, <1>3 DEF Ground, Expected
<1>5. ModeOK'
  BY <1>1, <1>2, <1>3 DEF DurabilityInv, ModeOK
<1> QED
  BY <1>1, <1>2, <1>3, <1>4, <1>5, ControlDurable

-----------------------------------------------------------------------------
(* The end of a process, and the next one.                                 *)

\* Nothing is left of the process; the log in the file stands for a map that
\* was promised, and has not lost a frame.
LEMMA DownDurable ==
    ASSUME DurabilityInv, TypeInv', Down, pc # "purge",
           UNCHANGED <<spdb, manDisk, promised>>, Ground' = Ground,
           wal' \in Seq(Patches), Replay(Ground, wal') \in promised,
           \A k \in Keys : Hit(wal, k) => Hit(wal', k)
    PROVE  DurabilityInv'
<1>1. /\ pc' = "down" /\ call' = NoCall /\ dirty' = {} /\ walBuf' = <<>>
      /\ man'.segs = <<>> /\ \A j \in Jobs : ~Pending(j)'
  BY DEF Down, NoManifest, Pending
<1>2. ModeOK'
  BY <1>1 DEF DurabilityInv, ModeOK
<1>3. LogStandsForStore'
  BY <1>1 DEF LogStandsForStore
<1>4. PrefixesPromised'
  BY <1>1, OnePrefix
<1>5. SegmentsCovered'
  <2>1. \A k \in Keys : Covered(k) => Covered(k)'
    BY DEF Covered
  <2>2. SegmentsCovered
    BY DEF DurabilityInv
  <2> QED
    BY <1>1, <2>1, <2>2 DEF SegmentsCovered
<1>6. DirtyLogged'
  BY <1>1 DEF DirtyLogged
<1> QED
  BY <1>2, <1>3, <1>4, <1>5, <1>6 DEF DurabilityInv

\* With the buffer as it is, lost.
LEMMA FileLogPromised ==
    ASSUME DurabilityInv
    PROVE  wal \in Seq(Patches) /\ Replay(Ground, wal) \in promised
<1>1. wal \in Seq(Patches) /\ walBuf \in Seq(Patches)
  BY LogTypes DEF DurabilityInv
<1>2. wal \o SubSeq(walBuf, 1, 0) = wal /\ 0 \in 0..Len(walBuf)
  BY <1>1
<1> QED
  BY <1>1, <1>2 DEF DurabilityInv, PrefixesPromised

LEMMA CloseDoneDurable == DurabilityInv /\ CloseDone => DurabilityInv'
<1> SUFFICES ASSUME DurabilityInv, CloseDone
             PROVE  DurabilityInv'
  OBVIOUS
<1>1. TypeInv' /\ Down /\ pc \in {"closing", "run"} /\ pc' = "down"
  BY CloseDoneType DEF DurabilityInv, CloseDone, Down
<1>2. UNCHANGED <<wal, spdb, manDisk, promised>>
  BY DEF CloseDone, disk, history
<1>3. Ground' = Ground
  BY <1>1, <1>2 DEF Ground
<1> QED
  BY <1>1, <1>2, <1>3, FileLogPromised, DownDurable

LEMMA CrashDurable == SafeConfig /\ DurabilityInv /\ Crash => DurabilityInv'
<1> SUFFICES ASSUME SafeConfig, DurabilityInv, Crash
             PROVE  DurabilityInv'
  OBVIOUS
<1>1. TypeInv' /\ Down /\ pc' = "down"
  BY CrashType DEF DurabilityInv, Crash, Down
<1>2. pc # "purge" /\ (pc = "snap" => BackupCount = 0)
  BY DEF SafeConfig, Crash
<1>3. UNCHANGED <<wal, spdb, manDisk, promised>>
  BY DEF Crash, disk, history
<1>4. Ground' = Ground
  BY <1>1, <1>2, <1>3 DEF Ground
<1> QED
  BY <1>1, <1>2, <1>3, <1>4, FileLogPromised, DownDurable

LEMMA CrashInFlushDurable ==
    ASSUME SafeConfig, DurabilityInv, NEW n \in 0..Len(walBuf),
           NEW torn \in {FALSE, TornWrites}, CrashInFlush(n, torn)
    PROVE  DurabilityInv'
<1>1. TypeInv' /\ Down /\ pc = "flush" /\ pc' = "down"
  BY CrashInFlushType, EngineAssumption DEF DurabilityInv, CrashInFlush, Down
<1>2. wal \in Seq(Patches) /\ walBuf \in Seq(Patches)
  BY LogTypes DEF DurabilityInv
<1>3. SubSeq(walBuf, 1, n) \in Seq(Patches)
  BY <1>2
<1>4. wal' = wal \o SubSeq(walBuf, 1, n)
  <2>1. ~torn
    BY Zenon DEF SafeConfig
  <2> DEFINE v == wal \o SubSeq(walBuf, 1, n)
  <2>2. wal' = v \o <<>>
    BY <2>1 DEF CrashInFlush
  <2>3. v \in Seq(Patches)
    BY <1>2, <1>3
  <2>4. v \o <<>> = v
    <3> HIDE DEF v
    <3> QED
      BY <2>3
  <2> QED
    BY <2>2, <2>4
<1>5. wal' \in Seq(Patches) /\ \A k \in Keys : Hit(wal, k) => Hit(wal', k)
  <2>1. wal' \in Seq(Patches)
    BY <1>2, <1>3, <1>4
  <2> DEFINE w == SubSeq(walBuf, 1, n)
  <2> HIDE DEF w
  <2>2. w \in Seq(Patches) /\ wal' = wal \o w
    BY <1>3, <1>4 DEF w
  <2>3. \A k \in Keys : Hit(wal \o w, k) <=> Hit(wal, k) \/ Hit(w, k)
    BY <1>2, <2>2, HitConcat
  <2> QED
    BY <2>1, <2>2, <2>3
<1>6. UNCHANGED <<spdb, manDisk, promised>>
  BY DEF CrashInFlush, history
<1>7. Ground' = Ground
  BY <1>1, <1>6 DEF Ground
<1>8. Replay(Ground, wal') \in promised
  BY <1>4 DEF DurabilityInv, PrefixesPromised
<1> QED
  BY <1>1, <1>5, <1>6, <1>7, <1>8, DownDurable

\* What a segment in the manifest brings in, the log rewrites or the snapshot
\* hides: loading the segments first changes nothing.
LEMMA SegmentsAddNothing ==
    ASSUME TypeInv, SegmentsCovered, pc # "purge", NEW k \in Keys, ~Covered(k)
    PROVE  SegStore[k] = Absent
<1>1. \A i \in LoadedSegs : SegBodies(manDisk)[i][k] = Keep
  BY DEF LoadedSegs, SegBodies, SegmentsCovered
<1> QED
  BY <1>1 DEF SegStore, Overlay, EmptyStore

LEMMA RecoveredFromGround ==
    ASSUME TypeInv, LogStandsForStore, SegmentsCovered, pc # "purge",
           pc = "snap" => BackupCount = 0,
           NEW w \in Seq(Patches), \A k \in Keys : Hit(wal, k) => Hit(w, k)
    PROVE  Replay(Base, w) = Replay(Ground, w)
<1>1. spdb \in Stores \/ spdb = NoFile
  BY DEF TypeInv, TypeOK
<1>2. Ground = IF spdb = NoFile THEN EmptyStore ELSE spdb
  BY EngineAssumption DEF Ground
<1>3. ASSUME NEW k \in Keys, ~Hit(w, k)
      PROVE  Base[k] = Ground[k]
  <2>1. CASE Ground[k] # Absent
    <3>1. spdb # NoFile
      BY <1>2, <2>1 DEF EmptyStore
    <3> QED
      BY <1>2, <2>1, <3>1 DEF Base
  <2>2. CASE Ground[k] = Absent
    <3>1. SegStore[k] = Absent
      BY <1>3, <2>2, SegmentsAddNothing DEF Covered
    <3>2. spdb = NoFile \/ spdb[k] = Absent
      BY <1>2, <2>2
    <3>3. Base[k] = SegStore[k]
      BY <3>2 DEF Base
    <3> QED
      BY <2>2, <3>1, <3>3
  <2> QED
    BY <2>1, <2>2
<1> QED
  BY <1>3, ReplayAgrees

LEMMA OpenDurable == DurabilityInv /\ Open => DurabilityInv'
<1> SUFFICES ASSUME DurabilityInv, Open
             PROVE  DurabilityInv'
  OBVIOUS
<1>1. TypeInv /\ TypeInv' /\ PhaseOK
  BY OpenType DEF DurabilityInv, TypeInv
<1>2. pc = "down" /\ pc' = "idle" /\ call' = call
      /\ walBuf = <<>> /\ walBuf' = walBuf /\ dirty = {} /\ dirty' = dirty
      /\ UNCHANGED <<wal, spdb, manDisk>>
  BY <1>1 DEF Open, PhaseOK, disk
<1>3. jobs' = jobs /\ man' = manDisk /\ \A j \in Jobs : jobs[j] = NoJob
  BY <1>1, <1>2 DEF Open, PhaseOK
<1>4. Ground' = Ground /\ Expected' = store' /\ wal \in Seq(Patches)
  BY <1>2 DEF Ground, Expected, DurabilityInv, LogStandsForStore
<1>5. store' = Replay(Ground, wal) /\ promised' = {store'}
  BY <1>1, <1>2, <1>4, RecoveredFromGround DEF Open, Recovered, DurabilityInv
<1>6. Logged' = wal
  BY <1>2, <1>4 DEF Logged
<1>7. LogStandsForStore'
  BY <1>2, <1>4, <1>5, <1>6 DEF LogStandsForStore
<1>8. PrefixesPromised'
  BY <1>1, <1>2, <1>4, <1>5, OnePrefix
<1>9. SegmentsCovered'
  <2>1. \A k \in Keys : Covered(k)' = Covered(k)
    BY <1>2, <1>4 DEF Covered
  <2>2. \A j \in Jobs : ~Pending(j)'
    BY <1>3 DEF Pending
  <2>3. \A k \in Keys, i \in DOMAIN manDisk.segs : manDisk.segs[i].crc[k] # Keep => Covered(k)
    BY <1>2 DEF DurabilityInv, SegmentsCovered
  <2> QED
    BY <1>2, <1>3, <2>1, <2>2, <2>3 DEF SegmentsCovered
<1>10. DirtyLogged'
  BY <1>2 DEF DirtyLogged
<1>11. ModeOK'
  BY <1>2, <1>3 DEF DurabilityInv, ModeOK, Pending
<1> QED
  BY <1>1, <1>7, <1>8, <1>9, <1>10, <1>11 DEF DurabilityInv

-----------------------------------------------------------------------------
(* Full rewrites.                                                          *)

LEMMA StartRewriteDurable == SafeConfig /\ DurabilityInv /\ StartRewrite => DurabilityInv'
<1> SUFFICES ASSUME SafeConfig, DurabilityInv, StartRewrite
             PROVE  DurabilityInv'
  OBVIOUS
<1>1. TypeInv'
  BY StartRewriteType DEF DurabilityInv
<1>2. /\ pc = "run" /\ pc' \in {"snap", "rotate"} /\ (pc' = "snap" => BackupCount = 0)
      /\ call'.op = call.op
  BY DEF StartRewrite, Compacting, DurabilityInv, TypeInv, TypeOK, Calls
<1>3. UNCHANGED <<wal, walBuf, promised, store, dirty, man, manDisk, jobs, spdb>>
  BY DEF StartRewrite, memory, disk, history
<1>4. Ground' = Ground /\ Expected = store /\ Expected' = store
  BY <1>2, <1>3 DEF Ground, Expected
<1>5. call'.full = (CompactMode = "segments")
  BY DEF StartRewrite, UseSegments, SafeConfig, DurabilityInv, TypeInv, TypeOK, Calls
<1>6. ModeOK'
  BY <1>2, <1>3, <1>5 DEF DurabilityInv, ModeOK, Pending
<1>7. \A j \in Jobs : Pending(j)' => Pending(j) /\ jobs'[j] = jobs[j]
  BY <1>3 DEF Pending
<1> QED
  BY <1>1, <1>2, <1>3, <1>4, <1>6, <1>7, ControlDurable

\* The store takes the place of the snapshot: the log that led from one to the
\* other, replayed over it, changes nothing.
LEMMA GroundReplaced ==
    ASSUME DurabilityInv, TypeInv', ModeOK', pc # "down", pc # "purge",
           UNCHANGED <<wal, walBuf, promised, store, dirty, man, manDisk, jobs>>,
           walBuf = <<>>, Expected = store, Expected' = store, Ground' = store,
           pc' # "purge", pc' = "reset" => spdb' = store,
           pc' \notin {"flush", "dropsegs", "commit"}
    PROVE  DurabilityInv'
<1>1. wal \in Seq(Patches) /\ Logged = wal /\ Logged' = wal
  BY LogTypes DEF DurabilityInv, Logged
<1>2. Replay(Ground, wal) = store /\ store \in promised
  BY AllFlushed DEF DurabilityInv
<1>3. Replay(store, wal) = store
  BY <1>1, <1>2, GroundType, ReplayIdempotent DEF DurabilityInv
<1>4. LogStandsForStore'
  BY <1>1, <1>3 DEF DurabilityInv, LogStandsForStore
<1>5. PrefixesPromised'
  BY <1>1, <1>2, <1>3, OnePrefix
<1>6. \A k \in Keys : Covered(k) => Covered(k)'
  BY StoreIsGround DEF Covered, DurabilityInv
<1>7. SegmentsCovered'
  BY <1>6, CoverageKept DEF Pending
<1>8. DirtyLogged'
  BY <1>1 DEF DurabilityInv, DirtyLogged
<1> QED
  BY <1>4, <1>5, <1>7, <1>8 DEF DurabilityInv

LEMMA RotateDurable == DurabilityInv /\ Rotate => DurabilityInv'
<1> SUFFICES ASSUME DurabilityInv, Rotate
             PROVE  DurabilityInv'
  OBVIOUS
<1>1. TypeInv' /\ TypeInv /\ PhaseOK
  BY RotateType DEF DurabilityInv, TypeInv
<1>2. pc = "rotate" /\ pc' = (IF rot = 1 THEN "snap" ELSE "rotate") /\ call' = call
      /\ walBuf = <<>> /\ rot \in 1..BackupCount
  BY <1>1, EngineAssumption DEF Rotate, PhaseOK, TypeInv, TypeOK
<1>3. UNCHANGED <<wal, walBuf, promised, store, dirty, man, manDisk, jobs>>
  BY DEF Rotate, memory, history
<1>4. Expected = store /\ Expected' = store
  BY <1>2, <1>3 DEF Expected
<1>5. ModeOK'
  BY <1>2, <1>3 DEF DurabilityInv, ModeOK, Pending
<1>6. CASE rot = 1
  <2>1. Ground' = store /\ pc' = "snap"
    BY <1>2, <1>3, <1>6, EngineAssumption DEF Ground
  <2> QED
    BY <1>1, <1>2, <1>3, <1>4, <1>5, <2>1, GroundReplaced
<1>7. CASE rot # 1
  <2>1. spdb' = spdb /\ pc' = "rotate"
    BY <1>2, <1>7 DEF Rotate
  <2>2. Ground' = Ground
    BY <1>2, <2>1 DEF Ground
  <2>3. \A j \in Jobs : Pending(j)' => Pending(j) /\ jobs'[j] = jobs[j]
    BY <1>3 DEF Pending
  <2> QED
    BY <1>1, <1>2, <1>3, <1>4, <1>5, <2>1, <2>2, <2>3, ControlDurable
<1> QED
  BY <1>6, <1>7

LEMMA RenameSnapshotDurable == DurabilityInv /\ RenameSnapshot => DurabilityInv'
<1> SUFFICES ASSUME DurabilityInv, RenameSnapshot
             PROVE  DurabilityInv'
  OBVIOUS
<1>1. TypeInv' /\ TypeInv /\ PhaseOK
  BY RenameSnapshotType DEF DurabilityInv, TypeInv
<1>2. pc = "snap" /\ pc' = "reset" /\ call' = call /\ walBuf = <<>> /\ spdb' = store
  BY <1>1 DEF RenameSnapshot, PhaseOK
<1>3. UNCHANGED <<wal, walBuf, promised, store, dirty, man, manDisk, jobs>>
  BY DEF RenameSnapshot, memory
<1>4. Expected = store /\ Expected' = store
  BY <1>2, <1>3 DEF Expected
<1>5. ModeOK'
  BY <1>2, <1>3 DEF DurabilityInv, ModeOK, Pending
<1>6. Ground' = store
  BY <1>1, <1>2, EngineAssumption DEF Ground, TypeInv, TypeOK
<1> QED
  BY <1>1, <1>2, <1>3, <1>4, <1>5, <1>6, GroundReplaced

\* An empty log over a snapshot of the store.
LEMMA LogEmptied ==
    ASSUME DurabilityInv, TypeInv', pc \in {"reset", "purge"}, wal' = <<>>, walBuf' = <<>>,
           UNCHANGED <<store, spdb, promised>>,
           pc' \in {"purge", "closing", "idle"}
    PROVE  LogStandsForStore' /\ PrefixesPromised'
<1>1. TypeInv /\ PhaseOK /\ LogStandsForStore /\ PrefixesPromised
  BY DEF DurabilityInv, TypeInv
<1>2. walBuf = <<>> /\ Expected = store /\ spdb = store /\ store \in Stores
  BY <1>1 DEF PhaseOK, Expected, LogStandsForStore, TypeInv, TypeOK
<1>3. store \in promised
  BY <1>1, <1>2, AllFlushed
<1>4. Ground' = store /\ Expected' = store
  BY <1>2, EngineAssumption DEF Ground, Expected
<1>5. wal' \in Seq(Patches) /\ Logged' = <<>>
  BY DEF Logged
<1>6. Replay(store, <<>>) = store
  BY <1>2, ReplayEmpty
<1>7. LogStandsForStore'
  BY <1>2, <1>4, <1>5, <1>6 DEF LogStandsForStore
<1>8. PrefixesPromised'
  BY <1>3, <1>4, <1>5, <1>6, OnePrefix
<1> QED
  BY <1>7, <1>8

LEMMA ResetWalDurable == SafeConfig /\ DurabilityInv /\ ResetWal => DurabilityInv'
<1> SUFFICES ASSUME SafeConfig, DurabilityInv, ResetWal
             PROVE  DurabilityInv'
  OBVIOUS
<1>1. TypeInv'
  BY ResetWalType DEF DurabilityInv
<1>2. /\ pc = "reset" /\ wal' = <<>> /\ walBuf' = <<>> /\ dirty' = {}
      /\ UNCHANGED <<store, spdb, promised, man, manDisk, jobs>>
  BY DEF ResetWal, history
<1>3. \/ CompactMode = "segments" /\ pc' = "purge"
      \/ CompactMode = "legacy" /\ pc' \in {"closing", "idle"}
  BY EngineAssumption
     DEF ResetWal, CompactReturns, DurabilityInv, ModeOK, SafeConfig, Modes
<1>4. LogStandsForStore' /\ PrefixesPromised'
  BY <1>1, <1>2, <1>3, LogEmptied
<1>5. ModeOK'
  BY <1>2, <1>3 DEF DurabilityInv, ModeOK, Pending
<1>6. SegmentsCovered'
  BY <1>2, <1>3 DEF DurabilityInv, ModeOK, SegmentsCovered, Pending
<1>7. DirtyLogged'
  BY <1>2, <1>3 DEF DirtyLogged
<1> QED
  BY <1>1, <1>4, <1>5, <1>6, <1>7 DEF DurabilityInv

\* The generation moves on: every job that is still pending has become stale.
LEMMA JobsStale ==
    ASSUME TypeInv, jobs' = jobs, man'.gen = man.gen + 1
    PROVE  \A j \in Jobs : Pending(j)' => jobs'[j].gen # man'.gen + 1
<1> SUFFICES ASSUME NEW j \in Jobs, Pending(j)'
             PROVE  jobs'[j].gen # man'.gen + 1
  OBVIOUS
<1>1. Pending(j)
  BY DEF Pending
<1>2. jobs[j].gen \in Nat /\ man.gen \in Nat
  BY <1>1, EngineAssumption DEF TypeInv, TypeOK, JobRecords, Pending, Manifests
<1>3. jobs[j].gen <= man.gen + 1
  BY <1>1 DEF TypeInv, JobsOK
<1> QED
  BY <1>2, <1>3

LEMMA MergeManifestDurable == DurabilityInv /\ MergeManifest => DurabilityInv'
<1> SUFFICES ASSUME DurabilityInv, MergeManifest
             PROVE  DurabilityInv'
  OBVIOUS
<1>1. TypeInv /\ TypeInv' /\ PhaseOK
  BY MergeManifestType DEF DurabilityInv, TypeInv
<1>2. /\ pc = "purge" /\ wal' = <<>> /\ walBuf' = <<>> /\ pc' \in {"closing", "idle"}
      /\ UNCHANGED <<store, spdb, promised, jobs, dirty>>
      /\ man.segs = <<>>
  BY DEF MergeManifest, CompactReturns, history
<1>3. man'.gen = man.gen + 1 /\ man'.segs = <<>> /\ manDisk' = man'
  <2>1. man \in Manifests
    BY <1>1 DEF TypeInv, TypeOK
  <2> QED
    BY <1>2, <2>1 DEF MergeManifest, Manifests
<1>4. LogStandsForStore' /\ PrefixesPromised'
  BY <1>1, <1>2, LogEmptied
<1>5. ModeOK'
  BY <1>2, <1>3 DEF DurabilityInv, ModeOK, Pending
<1>6. SegmentsCovered'
  BY <1>1, <1>2, <1>3, JobsStale DEF SegmentsCovered
<1>7. DirtyLogged'
  BY <1>2 DEF MergeManifest, DurabilityInv, DirtyLogged
<1> QED
  BY <1>1, <1>4, <1>5, <1>6, <1>7 DEF DurabilityInv

-----------------------------------------------------------------------------
(* Segments.                                                               *)

LEMMA DropSegmentDurable == DurabilityInv /\ DropSegment => DurabilityInv'
<1> SUFFICES ASSUME DurabilityInv, DropSegment
             PROVE  DurabilityInv'
  OBVIOUS
<1>1. TypeInv /\ TypeInv'
  BY DropSegmentType DEF DurabilityInv
<1>2. /\ pc \in {"purge", "dropsegs"}
      /\ UNCHANGED <<pc, call, wal, walBuf, promised, store, dirty, spdb, manDisk, jobs>>
  BY DEF DropSegment, control, history
<1>3. man'.gen = man.gen /\ man'.segs = Tail(man.segs) /\ man.segs \in Seq(Entries)
      /\ man.segs # <<>>
  BY <1>1 DEF DropSegment, TypeInv, TypeOK, Manifests
<1>4. Ground' = Ground /\ Expected' = Expected
  BY <1>2 DEF Ground, Expected
<1>5. PrefixesPromised' /\ (\A k \in Keys : Covered(k)' = Covered(k)) /\ Logged' = Logged
  BY <1>2, <1>4, LogUntouched
<1>6. LogStandsForStore'
  BY <1>2, <1>4, <1>5 DEF DurabilityInv, LogStandsForStore
<1>7. DirtyLogged'
  BY <1>2, <1>5 DEF DurabilityInv, DirtyLogged
<1>8. ModeOK'
  BY <1>2, <1>3 DEF DurabilityInv, ModeOK, Pending
<1>9. SegmentsCovered'
  <2>1. CASE pc = "purge"
    BY <1>2, <2>1 DEF SegmentsCovered
  <2>2. CASE pc # "purge"
    <3>1. SegmentsCovered
      BY DEF DurabilityInv
    <3>2. ASSUME NEW i \in DOMAIN man'.segs
          PROVE  i + 1 \in DOMAIN man.segs /\ man'.segs[i] = man.segs[i + 1]
      BY <1>3
    <3>3. ASSUME NEW k \in Keys, NEW i \in DOMAIN man'.segs, man'.segs[i].crc[k] # Keep
          PROVE  Covered(k)'
      BY <1>5, <2>2, <3>1, <3>2, <3>3 DEF SegmentsCovered
    <3> QED
      BY <1>2, <1>3, <1>5, <2>2, <3>1, <3>3 DEF SegmentsCovered, Pending
  <2> QED
    BY <2>1, <2>2
<1> QED
  BY <1>1, <1>5, <1>6, <1>7, <1>8, <1>9 DEF DurabilityInv

LEMMA WriteDeltaDurable == SafeConfig /\ DurabilityInv /\ WriteDelta => DurabilityInv'
<1> SUFFICES ASSUME SafeConfig, DurabilityInv, WriteDelta
             PROVE  DurabilityInv'
  OBVIOUS
<1>1. TypeInv'
  BY WriteDeltaType DEF DurabilityInv
<1>2. pc = "run" /\ pc' = "segman" /\ call' = call
      /\ UNCHANGED <<wal, walBuf, promised, store, dirty, man, manDisk, jobs, spdb>>
  BY DEF WriteDelta, Compacting, memory, history
<1>3. Ground' = Ground /\ Expected = store /\ Expected' = store
  BY <1>2 DEF Ground, Expected
<1>4. CompactMode = "segments"
  BY DEF WriteDelta, UseSegments, SafeConfig
<1>5. ModeOK'
  BY <1>2, <1>4 DEF DurabilityInv, ModeOK
<1>6. \A j \in Jobs : Pending(j)' => Pending(j) /\ jobs'[j] = jobs[j]
  BY <1>2 DEF Pending
<1> QED
  BY <1>1, <1>2, <1>3, <1>5, <1>6, ControlDurable

\* What the manifest lists after one more entry.
LEMMA AppendedSegs ==
    ASSUME NEW m \in Manifests, NEW e \in Entries,
           NEW i \in DOMAIN Append(m.segs, e)
    PROVE  \/ i \in DOMAIN m.segs /\ Append(m.segs, e)[i] = m.segs[i]
           \/ Append(m.segs, e)[i] = e
<1>1. m.segs \in Seq(Entries)
  BY DEF Manifests
<1> QED
  BY <1>1

\* A delta holds dirty keys only, and every dirty key is in the log.
LEMMA DeltaCovered ==
    ASSUME TypeInv, LogStandsForStore, DirtyLogged, walBuf = <<>>, NEW k \in Keys,
           DeltaBody[k] # Keep
    PROVE  Covered(k)
<1>1. k \in dirty
  BY DEF DeltaBody
<1>2. Hit(wal, k)
  BY <1>1, LogTypes DEF DirtyLogged
<1> QED
  BY <1>2 DEF Covered

LEMMA DeltaManifestDurable == DurabilityInv /\ DeltaManifest => DurabilityInv'
<1> SUFFICES ASSUME DurabilityInv, DeltaManifest
             PROVE  DurabilityInv'
  OBVIOUS
<1> DEFINE entry == [id |-> nextSeg, name |-> <<"delta", nextSeg>>, crc |-> DeltaBody]
<1>1. TypeInv /\ TypeInv' /\ PhaseOK /\ DirtyLogged /\ LogStandsForStore
  BY DeltaManifestType DEF DurabilityInv, TypeInv
<1>2. /\ pc = "segman" /\ pc' \in {"closing", "idle"} /\ walBuf = <<>> /\ dirty' = {}
      /\ UNCHANGED <<wal, walBuf, promised, store, spdb, jobs>>
  BY <1>1 DEF DeltaManifest, CompactReturns, PhaseOK, history
<1>3. man'.gen = man.gen /\ man'.segs = Append(man.segs, entry) /\ manDisk' = man'
  BY <1>1 DEF DeltaManifest, TypeInv, TypeOK, Manifests
<1>4. Ground' = Ground /\ Expected = store /\ Expected' = store
  BY <1>2 DEF Ground, Expected
<1>5. PrefixesPromised' /\ (\A k \in Keys : Covered(k)' = Covered(k)) /\ Logged' = Logged
  BY <1>2, <1>4, LogUntouched
<1>6. LogStandsForStore'
  BY <1>2, <1>4, <1>5 DEF DurabilityInv, LogStandsForStore
<1>7. DirtyLogged'
  BY <1>2 DEF DirtyLogged
<1>8. ModeOK'
  BY <1>2 DEF DurabilityInv, ModeOK
<1>9. entry \in Entries
  <2>1. nextSeg \in 1..MaxSeg
    BY <1>1, <1>2, EngineAssumption DEF PhaseOK, SegRoom, TypeInv, TypeOK
  <2> QED
    BY <1>1, <2>1, BodyTypes DEF Entries, SegNames, TypeInv
<1>10. ASSUME NEW k \in Keys, NEW i \in DOMAIN man'.segs, man'.segs[i].crc[k] # Keep
       PROVE  Covered(k)
  <2>1. CASE i \in DOMAIN man.segs /\ man'.segs[i] = man.segs[i]
    BY <1>2, <1>10, <2>1 DEF DurabilityInv, SegmentsCovered
  <2>2. CASE man'.segs[i] = entry
    <3>1. DeltaBody[k] # Keep
      BY <1>10, <2>2
    <3> QED
      BY <1>1, <1>2, <3>1, DeltaCovered
  <2>3. man \in Manifests
    BY <1>1 DEF TypeInv, TypeOK
  <2> QED
    <3> HIDE DEF entry
    <3> QED
      BY <1>3, <1>9, <2>1, <2>2, <2>3, AppendedSegs
<1>11. SegmentsCovered'
  BY <1>2, <1>3, <1>5, <1>10 DEF DurabilityInv, SegmentsCovered, Pending
<1> QED
  BY <1>1, <1>5, <1>6, <1>7, <1>8, <1>11 DEF DurabilityInv

-----------------------------------------------------------------------------
(* compactAsync.                                                           *)

\* A new job's segment holds covered keys only.
LEMMA NewJobCovered ==
    ASSUME TypeInv, LogStandsForStore, DirtyLogged, walBuf = <<>>, pc # "down",
           Expected = store, NEW k \in Keys, NewJob.body[k] # Keep
    PROVE  Covered(k)
<1>1. CASE NewJob.body = NoChange
  BY <1>1 DEF NoChange
<1>2. CASE NewJob.body = FullBody
  <2>1. store[k] # Absent
    BY <1>2 DEF FullBody
  <2> QED
    BY <2>1, PresentIsCovered
<1>3. CASE NewJob.body = DeltaBody
  BY <1>3, DeltaCovered
<1> QED
  BY <1>1, <1>2, <1>3 DEF NewJob

LEMMA PrepareCompactDurable ==
    ASSUME SafeConfig, DurabilityInv, NEW j \in Jobs, PrepareCompact(j)
    PROVE  DurabilityInv'
<1>1. TypeInv /\ TypeInv' /\ PhaseOK /\ DirtyLogged /\ LogStandsForStore
  BY PrepareCompactType DEF DurabilityInv, TypeInv
<1>2. /\ pc = "run" /\ pc' = "idle" /\ walBuf = <<>> /\ dirty' \subseteq dirty
      /\ UNCHANGED <<wal, walBuf, promised, store, spdb, man, manDisk>>
  BY <1>1 DEF PrepareCompact, PhaseOK, disk, history
<1>3. jobs' = [jobs EXCEPT ![j] = NewJob] /\ jobs \in [Jobs -> JobRecords \cup {NoJob}]
  BY <1>1 DEF PrepareCompact, TypeInv, TypeOK
<1>4. Ground' = Ground /\ Expected = store /\ Expected' = store
  BY <1>2 DEF Ground, Expected
<1>5. PrefixesPromised' /\ (\A k \in Keys : Covered(k)' = Covered(k)) /\ Logged' = Logged
  BY <1>2, <1>4, LogUntouched
<1>6. LogStandsForStore'
  BY <1>2, <1>4, <1>5 DEF DurabilityInv, LogStandsForStore
<1>7. DirtyLogged'
  BY <1>2, <1>5 DEF DurabilityInv, DirtyLogged
<1>8. ModeOK'
  <2>1. CompactMode = "legacy" => NewJob.kind = "legacy"
    BY DEF NewJob, UseSegments
  <2> QED
    BY <1>2, <1>3, <2>1 DEF DurabilityInv, ModeOK, Pending
<1>9. SegmentsCovered'
  <2>1. SegmentsCovered
    BY DEF DurabilityInv
  <2>2. ASSUME NEW k \in Keys, NEW i \in Jobs, Pending(i)', jobs'[i].gen = man'.gen + 1,
               jobs'[i].body[k] # Keep
        PROVE  Covered(k)
    <3>1. CASE i = j
      BY <1>1, <1>2, <1>3, <1>4, <2>2, <3>1, NewJobCovered
    <3>2. CASE i # j
      <4>1. jobs'[i] = jobs[i]
        BY <1>3, <3>2
      <4> QED
        BY <1>2, <2>1, <2>2, <4>1 DEF SegmentsCovered, Pending
    <3> QED
      BY <3>1, <3>2
  <2> QED
    BY <1>2, <1>5, <2>1, <2>2 DEF SegmentsCovered
<1> QED
  BY <1>1, <1>5, <1>6, <1>7, <1>8, <1>9 DEF DurabilityInv

LEMMA FinishWriteDurable ==
    ASSUME DurabilityInv, NEW j \in Jobs, FinishWrite(j)
    PROVE  DurabilityInv'
<1>1. TypeInv /\ TypeInv'
  BY FinishWriteType DEF DurabilityInv
<1>2. /\ pc = "idle" /\ pc' \in {"dropsegs", "commit"} /\ Pending(j)
      /\ jobs[j].gen = man.gen + 1 /\ call'.job = jobs[j]
      /\ UNCHANGED <<wal, walBuf, promised, store, dirty, spdb, man, manDisk>>
  BY DEF FinishWrite, NoCall, history
<1>3. \A i \in Jobs : Pending(i)' => Pending(i) /\ jobs'[i] = jobs[i]
  BY <1>1, FreeJobType DEF FinishWrite
<1>4. Ground' = Ground /\ Expected = store /\ Expected' = store
  BY <1>2 DEF Ground, Expected
<1>5. PrefixesPromised' /\ (\A k \in Keys : Covered(k)' = Covered(k)) /\ Logged' = Logged
  BY <1>2, <1>4, LogUntouched
<1>6. LogStandsForStore'
  BY <1>2, <1>4, <1>5 DEF DurabilityInv, LogStandsForStore
<1>7. DirtyLogged'
  BY <1>2, <1>5 DEF DurabilityInv, DirtyLogged
<1>8. ModeOK'
  BY <1>2, <1>3 DEF DurabilityInv, ModeOK
<1>9. SegmentsCovered'
  BY <1>2, <1>3, <1>5 DEF DurabilityInv, SegmentsCovered
<1> QED
  BY <1>1, <1>5, <1>6, <1>7, <1>8, <1>9 DEF DurabilityInv

LEMMA FinishCommitDurable == DurabilityInv /\ FinishCommit => DurabilityInv'
<1> SUFFICES ASSUME DurabilityInv, FinishCommit
             PROVE  DurabilityInv'
  OBVIOUS
<1> DEFINE entry == [id |-> call.job.id, name |-> JobName(call.job), crc |-> call.job.body]
<1>1. TypeInv /\ TypeInv' /\ PhaseOK
  BY FinishCommitType DEF DurabilityInv, TypeInv
<1>2. /\ pc \in {"dropsegs", "commit"} /\ pc' = "idle"
      /\ UNCHANGED <<wal, walBuf, promised, store, dirty, spdb, jobs>>
  BY DEF FinishCommit, history
<1>3. man'.gen = man.gen + 1 /\ man'.segs = Append(man.segs, entry) /\ manDisk' = man'
  BY <1>1, <1>2 DEF FinishCommit, PhaseOK
<1>4. Ground' = Ground /\ Expected = store /\ Expected' = store
  BY <1>2 DEF Ground, Expected
<1>5. PrefixesPromised' /\ (\A k \in Keys : Covered(k)' = Covered(k)) /\ Logged' = Logged
  BY <1>2, <1>4, LogUntouched
<1>6. LogStandsForStore'
  BY <1>2, <1>4, <1>5 DEF DurabilityInv, LogStandsForStore
<1>7. DirtyLogged'
  BY <1>2, <1>5 DEF DurabilityInv, DirtyLogged
<1>8. ModeOK'
  BY <1>2 DEF DurabilityInv, ModeOK
<1>9. entry \in Entries
  <2>1. /\ call.job \in JobRecords /\ call.job.kind # "legacy"
        /\ call.job.id \in 1..MaxSeg
    BY <1>1, <1>2, EngineAssumption DEF PhaseOK, JobRecords
  <2> QED
    BY <2>1 DEF Entries, SegNames, JobName, JobRecords
<1>10. ASSUME NEW k \in Keys, NEW i \in DOMAIN man'.segs, man'.segs[i].crc[k] # Keep
       PROVE  Covered(k)
  <2>1. CASE i \in DOMAIN man.segs /\ man'.segs[i] = man.segs[i]
    BY <1>2, <1>10, <2>1 DEF DurabilityInv, SegmentsCovered
  <2>2. CASE man'.segs[i] = entry
    <3>1. call.job.body[k] # Keep
      BY <1>10, <2>2
    <3> QED
      BY <1>2, <3>1 DEF DurabilityInv, SegmentsCovered
  <2>3. man \in Manifests
    BY <1>1 DEF TypeInv, TypeOK
  <2> QED
    <3> HIDE DEF entry
    <3> QED
      BY <1>3, <1>9, <2>1, <2>2, <2>3, AppendedSegs
<1>11. SegmentsCovered'
  BY <1>1, <1>2, <1>3, <1>5, <1>10, JobsStale DEF SegmentsCovered
<1> QED
  BY <1>1, <1>5, <1>6, <1>7, <1>8, <1>11 DEF DurabilityInv

-----------------------------------------------------------------------------

LEMMA DurabilityInit == Init => DurabilityInv
<1> SUFFICES ASSUME Init
             PROVE  DurabilityInv
  OBVIOUS
<1>1. TypeInv
  BY TypeInit
<1>2. ModeOK /\ SegmentsCovered /\ DirtyLogged
  BY DEF Init, ModeOK, SegmentsCovered, DirtyLogged, NoManifest, NoCall, Pending
<1>3. wal \in Seq(Patches) /\ wal = <<>> /\ walBuf = <<>> /\ pc = "down"
      /\ Ground = EmptyStore /\ promised = {EmptyStore}
  BY DEF Init, Ground
<1>4. LogStandsForStore
  BY <1>3 DEF LogStandsForStore
<1>5. PrefixesPromised
  <2>1. Replay(Ground, wal) \in promised
    BY <1>3, FrameTypes, ReplayEmpty
  <2>2. Len(walBuf) = 0 /\ wal \o SubSeq(walBuf, 1, 0) = wal
    BY <1>3
  <2>3. ASSUME NEW n \in 0..Len(walBuf)
        PROVE  n = 0
    BY <2>2
  <2> QED
    BY <2>1, <2>2, <2>3 DEF PrefixesPromised
<1> QED
  BY <1>1, <1>2, <1>4, <1>5 DEF DurabilityInv

LEMMA DurabilityStep == SafeConfig /\ DurabilityInv /\ [Next]_vars => DurabilityInv'
<1> SUFFICES ASSUME SafeConfig, DurabilityInv, [Next]_vars
             PROVE  DurabilityInv'
  OBVIOUS
<1>1. CASE Open
  BY <1>1, OpenDurable
<1>2. CASE ClientStep
  BY <1>2, ClientWritesDurable, BatchDurable, WalFlushDurable DEF ClientStep
<1>3. CASE CompactStep
  BY <1>3, CallsDurable, CloseDoneDurable, StartRewriteDurable, RotateDurable,
     RenameSnapshotDurable, ResetWalDurable, DropSegmentDurable, MergeManifestDurable,
     WriteDeltaDurable, DeltaManifestDurable DEF CompactStep
<1>4. CASE AsyncStep
  BY <1>4, CallsDurable, PrepareCompactDurable, FinishLegacyDurable, FinishStaleDurable,
     FinishWriteDurable, FinishCommitDurable DEF AsyncStep
<1>5. CASE CrashStep
  BY <1>5, CrashDurable, CrashInFlushDurable DEF CrashStep
<1>6. CASE UNCHANGED vars
  <2>1. UNCHANGED <<store, dirty, walBuf, man, jobs, wal, spdb, manDisk, pc, call, promised>>
    BY <1>6 DEF vars, memory, disk, control, history
  <2>2. TypeInv'
    BY <1>6, TypeStep DEF DurabilityInv
  <2>3. ModeOK' /\ LogStandsForStore'
    BY <2>1 DEF DurabilityInv, ModeOK, LogStandsForStore, Ground, Logged, Expected, Pending
  <2>4. SegmentsCovered' /\ DirtyLogged' /\ PrefixesPromised'
    BY <2>1 DEF DurabilityInv, SegmentsCovered, DirtyLogged, PrefixesPromised, Covered,
                Ground, Logged, Pending
  <2> QED
    BY <2>2, <2>3, <2>4 DEF DurabilityInv
<1> QED
  BY <1>1, <1>2, <1>3, <1>4, <1>5, <1>6 DEF Next

\* The invariant gives the three properties.
LEMMA DurabilityGivesAcked == DurabilityInv => AckedDurable
<1> SUFFICES ASSUME DurabilityInv, pc = "down"
             PROVE  Recovered \in promised
  BY DEF AckedDurable
<1>1. wal \in Seq(Patches) /\ Replay(Ground, wal) \in promised
  BY FileLogPromised
<1>2. Replay(Base, wal) = Replay(Ground, wal)
  BY <1>1, RecoveredFromGround DEF DurabilityInv
<1> QED
  BY <1>1, <1>2 DEF Recovered

LEMMA DurabilityGivesLive == DurabilityInv => LiveIsRecoverable
<1> SUFFICES ASSUME DurabilityInv, pc = "idle"
             PROVE  Replay(Base, Logged) = store
  BY DEF LiveIsRecoverable, Logged
<1>1. wal \in Seq(Patches) /\ walBuf \in Seq(Patches) /\ Logged \in Seq(Patches)
  BY LogTypes DEF DurabilityInv
<1>2. \A k \in Keys : Hit(wal, k) => Hit(Logged, k)
  BY <1>1, HitConcat DEF Logged
<1>3. Replay(Base, Logged) = Replay(Ground, Logged)
  BY <1>1, <1>2, RecoveredFromGround DEF DurabilityInv
<1> QED
  BY <1>3 DEF DurabilityInv, LogStandsForStore, Expected

LEMMA DurabilityGivesRedundant == DurabilityInv => SegmentsRedundant
<1> SUFFICES ASSUME DurabilityInv, pc = "idle", NEW k \in Keys, SegStore[k] # Absent,
                    spdb = NoFile \/ spdb[k] = Absent
             PROVE  Hit(wal, k)
  BY DEF SegmentsRedundant
<1>1. Covered(k)
  BY SegmentsAddNothing DEF DurabilityInv
<1>2. Ground[k] = Absent
  BY DEF Ground, EmptyStore
<1> QED
  BY <1>1, <1>2 DEF Covered

\* In the configurations SafeConfig describes, a recovery returns the last
\* acknowledged map or that of a write still in flight, whatever compactions,
\* crashes and reopenings came before (engine.rs, load_state, compact).
THEOREM Durability == ASSUME SafeConfig PROVE Spec => []AckedDurable
<1>1. DurabilityInv /\ [Next]_vars => DurabilityInv'
  BY DurabilityStep
<1> QED
  BY <1>1, DurabilityInit, DurabilityGivesAcked, PTL DEF Spec

\* There, the invariant itself holds at every step.
THEOREM DurabilityInvariant == ASSUME SafeConfig PROVE Spec => []DurabilityInv
<1>1. DurabilityInv /\ [Next]_vars => DurabilityInv'
  BY DurabilityStep
<1> QED
  BY <1>1, DurabilityInit, PTL DEF Spec

\* There, between two calls, files and buffer recover to the live store.
THEOREM LiveRecovery == ASSUME SafeConfig PROVE Spec => []LiveIsRecoverable
<1>1. DurabilityInv /\ [Next]_vars => DurabilityInv'
  BY DurabilityStep
<1> QED
  BY <1>1, DurabilityInit, DurabilityGivesLive, PTL DEF Spec

\* There, what segments bring in that the snapshot lacks, the log rewrites.
THEOREM Redundancy == ASSUME SafeConfig PROVE Spec => []SegmentsRedundant
<1>1. DurabilityInv /\ [Next]_vars => DurabilityInv'
  BY DurabilityStep
<1> QED
  BY <1>1, DurabilityInit, DurabilityGivesRedundant, PTL DEF Spec

-----------------------------------------------------------------------------
(* The newest snapshot, whatever the configuration.                        *)

\* A rename of the rotation moves the newest snapshot or leaves it alone: it is
\* never a target, because the place before it is empty.
LEMMA RotateKeepsNewest == TypeInv /\ NewestFirst /\ Rotate => NewestFirst'
<1> SUFFICES ASSUME TypeInv, NewestFirst, Rotate, lastSnap # NoFile
             PROVE  NewestFirst'
  BY DEF Rotate, history, NewestFirst
<1>1. rot \in 1..BackupCount /\ lastSnap' = lastSnap
  BY EngineAssumption DEF Rotate, TypeInv, TypeOK, PhaseOK, history
<1>2. PICK g \in 0..BackupCount :
            /\ SnapshotAt(g) = lastSnap
            /\ \A h \in 0..BackupCount : h < g => SnapshotAt(h) = NoFile
  BY DEF NewestFirst
<1>3. PICK r \in 1..BackupCount : r = rot
  BY <1>1
<1>4. r \in 0..BackupCount /\ r - 1 \in 0..BackupCount /\ BackupCount \in Nat
  BY EngineAssumption
<1>5. \/ /\ SnapshotAt(r - 1) = NoFile
         /\ \A h \in 0..BackupCount : SnapshotAt(h)' = SnapshotAt(h)
      \/ /\ SnapshotAt(r - 1) # NoFile
         /\ SnapshotAt(r)' = SnapshotAt(r - 1)
         /\ SnapshotAt(r - 1)' = NoFile
         /\ \A h \in 0..BackupCount \ {r, r - 1} : SnapshotAt(h)' = SnapshotAt(h)
  <2>1. baks \in [1..BackupCount -> Stores \cup {NoFile}]
    BY DEF TypeInv, TypeOK
  <2>2. CASE r = 1
    <3>1. IF spdb = NoFile THEN UNCHANGED <<spdb, baks>>
          ELSE baks' = [baks EXCEPT ![1] = spdb] /\ spdb' = NoFile
      BY <1>3, <2>2 DEF Rotate
    <3> QED
      BY <1>4, <2>1, <2>2, <3>1 DEF SnapshotAt
  <2>3. CASE r # 1
    <3>1. spdb' = spdb /\ r - 1 \in 1..BackupCount
          /\ baks' = IF baks[r - 1] = NoFile THEN baks
                     ELSE [baks EXCEPT ![r] = baks[r - 1], ![r - 1] = NoFile]
      BY <1>3, <1>4, <2>3 DEF Rotate
    <3> QED
      BY <1>4, <2>1, <2>3, <3>1 DEF SnapshotAt
  <2> QED
    BY <2>2, <2>3
<1>6. CASE g = r - 1
  <2>1. SnapshotAt(r)' = lastSnap /\ SnapshotAt(r - 1)' = NoFile
        /\ \A h \in 0..BackupCount \ {r, r - 1} : SnapshotAt(h)' = SnapshotAt(h)
    BY <1>2, <1>5, <1>6
  <2>2. \A h \in 0..BackupCount : h < r => SnapshotAt(h)' = NoFile
    BY <1>2, <1>4, <1>6, <2>1
  <2> QED
    BY <1>1, <1>4, <2>1, <2>2 DEF NewestFirst
<1>7. CASE g # r - 1
  <2>1. \A h \in 0..BackupCount : h <= g => SnapshotAt(h)' = SnapshotAt(h)
    <3>1. CASE \A h \in 0..BackupCount : SnapshotAt(h)' = SnapshotAt(h)
      BY <3>1
    <3>2. CASE g < r - 1
      BY <1>4, <1>5, <3>2
    <3>3. CASE r - 1 < g
      BY <1>2, <1>4, <1>5, <3>3
    <3> QED
      BY <1>2, <1>4, <1>7, <3>2, <3>3
  <2> QED
    BY <1>1, <1>2, <1>4, <2>1 DEF NewestFirst
<1> QED
  BY <1>6, <1>7

LEMMA NewestStep == TypeInv /\ NewestFirst /\ [Next]_vars => NewestFirst'
<1> SUFFICES ASSUME TypeInv, NewestFirst, [Next]_vars
             PROVE  NewestFirst'
  OBVIOUS
<1>1. CASE Rotate
  BY <1>1, RotateKeepsNewest
<1>2. CASE RenameSnapshot
  <2>1. SnapshotAt(0)' = lastSnap' /\ 0 \in 0..BackupCount
    BY <1>2, EngineAssumption DEF RenameSnapshot, SnapshotAt
  <2> QED
    BY <2>1, EngineAssumption DEF NewestFirst
<1>3. CASE ~Rotate /\ ~RenameSnapshot
  <2>1. UNCHANGED <<spdb, baks, lastSnap>>
    <3>1. CASE Open
      BY <3>1 DEF Open, disk
    <3>2. CASE ClientStep
      BY <3>2 DEF ClientStep, Set, Delete, Clear, Write, Batch, LogFrame, WalFlush, disk
    <3>3. CASE CompactStep
      BY <1>3, <3>3 DEF CompactStep, Compact, Close, CloseDone, StartRewrite, ResetWal,
         DropSegment, MergeManifest, WriteDelta, DeltaManifest, disk, history
    <3>4. CASE AsyncStep
      BY <3>4 DEF AsyncStep, Prepare, PrepareCompact, FinishLegacy, FinishStale,
         FinishWrite, FinishCommit, disk, history
    <3>5. CASE CrashStep
      BY <3>5 DEF CrashStep, Crash, CrashInFlush, disk, history
    <3>6. CASE UNCHANGED vars
      BY <3>6 DEF vars, disk, history
    <3> QED
      BY <3>1, <3>2, <3>3, <3>4, <3>5, <3>6 DEF Next
  <2> QED
    BY <2>1 DEF NewestFirst, SnapshotAt
<1> QED
  BY <1>1, <1>2, <1>3

\* In every configuration the newest completed snapshot is in .spdb or in one of
\* the backups, however many rotations a crash has interrupted (rotate_backups).
THEOREM SnapshotSafety == Spec => []NewestSnapshotKept
<1>1. Init => TypeInv /\ NewestFirst
  BY TypeInit DEF Init, NewestFirst
<1>2. NewestFirst => NewestSnapshotKept
  BY DEF NewestFirst, NewestSnapshotKept, SnapshotAt
<1> QED
  BY <1>1, <1>2, TypeStep, NewestStep, PTL DEF Spec

-----------------------------------------------------------------------------
(* Legacy mode: torn writes and a crash at any step.                       *)

Logs == Seq(Patches \cup {Torn})

\* A frame appended behind a torn one is behind it for good.
LEMMA AppendedBehind ==
    ASSUME NEW w \in Logs, NEW x, ~Behind(Append(w, x))
    PROVE  w \in Seq(Patches)
<1> DEFINE v == Append(w, x)
<1>1. /\ Len(w) \in Nat /\ DOMAIN w = 1..Len(w)
      /\ DOMAIN v = 1..(Len(w) + 1)
      /\ \A i \in 1..Len(w) : v[i] = w[i] /\ w[i] \in Patches \cup {Torn}
  BY DEF Logs
<1>2. ASSUME NEW i \in 1..Len(w)
      PROVE  w[i] # Torn
  <2>1. i \in DOMAIN v /\ Len(w) + 1 \in DOMAIN v /\ i < Len(w) + 1 /\ v[i] = w[i]
    BY <1>1
  <2> HIDE DEF v
  <2> QED
    BY <2>1 DEF Behind, v
<1>3. \A i \in 1..Len(w) : w[i] \in Patches
  BY <1>1, <1>2
<1> QED
  BY <1>1, <1>3 DEF Logs

\* So a log with nothing behind a torn frame is all readable, or all but its
\* last frame.
LEMMA NotBehindCases ==
    ASSUME NEW w \in Logs, ~Behind(w)
    PROVE  w \in Seq(Patches) \/ \E u \in Seq(Patches) : w = Append(u, Torn)
<1>1. CASE w = <<>>
  BY <1>1
<1>2. CASE w # <<>>
  <2> DEFINE u == SubSeq(w, 1, Len(w) - 1)
             x == w[Len(w)]
  <2>1. Len(w) \in Nat /\ Len(w) >= 1 /\ x \in Patches \cup {Torn}
    BY <1>2 DEF Logs
  <2>2. u \in Logs /\ w = Append(u, x)
    BY <2>1 DEF Logs
  <2>3. u \in Seq(Patches)
    <3> HIDE DEF u, x
    <3> QED
      BY <2>2, AppendedBehind
  <2>4. CASE x = Torn
    BY <2>2, <2>3, <2>4
  <2>5. CASE x \in Patches
    <3> HIDE DEF u, x
    <3> QED
      BY <2>2, <2>3, <2>5
  <2> QED
    BY <2>1, <2>4, <2>5
<1> QED
  BY <1>1, <1>2

\* Replay stops at a torn frame.
LEMMA ReplayTorn ==
    ASSUME NEW s, NEW w \in Seq(Patches)
    PROVE  Append(w, Torn) \in Logs /\ Replay(s, Append(w, Torn)) = Replay(s, w)
<1> DEFINE v == Append(w, Torn)
<1>1. /\ Len(w) \in Nat /\ DOMAIN w = 1..Len(w)
      /\ DOMAIN v = 1..(Len(w) + 1) /\ v[Len(w) + 1] = Torn
      /\ \A i \in 1..Len(w) : v[i] = w[i] /\ w[i] \in Patches
  OBVIOUS
<1>2. Torn \notin Patches
  BY ReplayAssumption DEF Patches
<1>3. Readable(w) = 1..Len(w)
  BY <1>1, ReadableAll
<1>4. Readable(v) = 1..Len(w)
  <2>1. \A i \in 1..Len(w) : \A j \in 1..i : v[j] # Torn
    BY <1>1, <1>2
  <2>2. ~ \A j \in 1..(Len(w) + 1) : v[j] # Torn
    BY <1>1
  <2>3. \A i \in DOMAIN v : i \in 1..Len(w) \/ i = Len(w) + 1
    BY <1>1
  <2> HIDE DEF v
  <2> QED
    BY <1>1, <2>1, <2>2, <2>3 DEF Readable
<1>5. \A i \in Readable(w) : v[i] = w[i]
  BY <1>1, <1>3
<1>6. \A k \in Keys : LET hits == {i \in Readable(w) : w[i][k] # Keep}
                      IN  /\ {i \in Readable(w) : v[i][k] # Keep} = hits
                          /\ hits # {} => v[Latest(hits)] = w[Latest(hits)]
  <2> TAKE k \in Keys
  <2> DEFINE hits == {i \in Readable(w) : w[i][k] # Keep}
  <2>1. {i \in Readable(w) : v[i][k] # Keep} = hits
    BY <1>5
  <2>2. hits \in SUBSET (1..Len(w))
    BY <1>3
  <2>3. hits # {} => Latest(hits) \in hits
    <3> HIDE DEF hits
    <3> QED
      BY <1>1, <2>2, LatestIsLast
  <2>4. hits # {} => v[Latest(hits)] = w[Latest(hits)]
    BY <1>5, <2>3
  <2> HIDE DEF v
  <2> QED
    BY <2>1, <2>4
<1>7. Replay(s, v) = Replay(s, w)
  <2> HIDE DEF v
  <2> QED
    BY <1>3, <1>4, <1>6 DEF Replay, Overlay
<1> QED
  BY <1>7 DEF Logs

\* A snapshot into which a log has been replayed stands for itself under it.
LEMMA ReplayTwice ==
    ASSUME NEW s \in Stores, NEW w \in Logs, ~Behind(w)
    PROVE  Replay(Replay(s, w), w) = Replay(s, w)
<1>1. CASE w \in Seq(Patches)
  BY <1>1, ReplayIdempotent
<1>2. ASSUME NEW u \in Seq(Patches), w = Append(u, Torn)
      PROVE  Replay(Replay(s, w), w) = Replay(s, w)
  <2>1. Replay(s, w) = Replay(s, u) /\ Replay(Replay(s, u), w) = Replay(Replay(s, u), u)
    BY <1>2, ReplayTorn
  <2> QED
    BY <2>1, ReplayIdempotent
<1> QED
  BY <1>1, <1>2, NotBehindCases

\* Of a log with nothing behind a torn frame, every first part has nothing
\* behind one.
LEMMA FirstPartNotBehind ==
    ASSUME NEW v \in Logs, NEW w \in Logs, ~Behind(v \o w)
    PROVE  ~Behind(v)
<1>1. \A i \in DOMAIN v : i \in DOMAIN (v \o w) /\ (v \o w)[i] = v[i]
  BY DEF Logs
<1> DEFINE u == v \o w
<1> HIDE DEF u
<1>2. \A i \in DOMAIN v : i \in DOMAIN u /\ u[i] = v[i]
  BY <1>1 DEF u
<1> QED
  BY <1>2 DEF Behind, u

-----------------------------------------------------------------------------
(* In legacy mode, step by step.                                           *)

LEMMA LegacyTypes ==
    ASSUME TypeInv
    PROVE  /\ wal \in Logs /\ walBuf \in Seq(Patches) /\ walBuf \in Logs /\ Logged \in Logs
           /\ Snapshot \in Stores /\ store \in Stores
           /\ walBuf = <<>> => Logged = wal
BY FrameTypes DEF TypeInv, TypeOK, Logs, Logged, Snapshot

LEMMA LegacyLoads ==
    ASSUME LegacyInv
    PROVE  Base = Snapshot /\ Recovered = Replay(Snapshot, wal)
<1>1. LoadedSegs = {}
  BY DEF LoadedSegs, LegacyInv, LegacyFiles
<1>2. SegStore = EmptyStore
  BY <1>1 DEF SegStore, Overlay, EmptyStore
<1>3. spdb # NoFile => spdb \in Stores
  BY DEF LegacyInv, TypeInv, TypeOK
<1>4. Base = Snapshot
  BY <1>2, <1>3 DEF Base, Snapshot, EmptyStore, Stores
<1> QED
  BY <1>4 DEF Recovered

\* The log as it is in the file is one of the parts a crash can leave.
LEMMA FilePart ==
    ASSUME LegacyInv
    PROVE  /\ ~Behind(wal) => Replay(Snapshot, wal) \in promised \/ Repairable
           /\ wal \o SubSeq(walBuf, 1, 0) = wal
<1>1. Len(walBuf) \in Nat /\ wal \o SubSeq(walBuf, 1, 0) = wal
  BY LegacyTypes DEF LegacyInv, Logs
<1>2. 0 \in 0..Len(walBuf)
  BY <1>1
<1> QED
  BY <1>1, <1>2 DEF LegacyInv, LegacyPromised

\* And the only one once the buffer is empty.
LEMMA OnePart ==
    ASSUME TypeInv', walBuf' = <<>>,
           ~Behind(wal') => Replay(Snapshot', wal') \in promised' \/ Repairable'
    PROVE  LegacyPromised'
<1>1. Len(walBuf') = 0 /\ wal' \o SubSeq(walBuf', 1, 0) = wal'
  BY DEF TypeInv, TypeOK
<1>2. \A n \in 0..Len(walBuf') : n = 0
  BY <1>1
<1> QED
  BY <1>1, <1>2 DEF LegacyPromised

\* With every frame in the file, snapshot and log stand for the store, and the
\* store under its own log for itself.
LEMMA StandsForStore ==
    ASSUME LegacyInv, walBuf = <<>>, pc \notin {"down", "snap"}, Expected = store, ~Behind(wal)
    PROVE  /\ Replay(Snapshot, wal) = store
           /\ Replay(store, wal) = store
           /\ store \in promised
<1>1. Replay(Snapshot, wal) = store /\ store \in promised
  BY LegacyTypes DEF LegacyInv, LegacyKept
<1> QED
  BY <1>1, LegacyTypes, ReplayTwice DEF LegacyInv

\* A frame in the buffer changes what the log stands for by its patch.
LEMMA LegacyFrame ==
    ASSUME LegacyInv, pc = "idle", NEW f \in Patches, walBuf' = Append(walBuf, f),
           promised' = promised \cup {ApplyPatch(store, f)},
           UNCHANGED <<wal, spdb, lastSnap>>
    PROVE  /\ ~Behind(Logged') => Replay(Snapshot', Logged') = ApplyPatch(store, f)
           /\ LegacyPromised'
<1>1. /\ wal \in Logs /\ walBuf \in Seq(Patches) /\ Logged \in Logs
      /\ Snapshot \in Stores /\ Snapshot' = Snapshot
  BY LegacyTypes DEF LegacyInv, Snapshot
<1>2. Logged' = Append(Logged, f)
  BY <1>1 DEF Logged, Logs
<1>3. ASSUME ~Behind(Logged')
      PROVE  Replay(Snapshot, Logged') = ApplyPatch(store, f)
  <2>1. Logged \in Seq(Patches)
    BY <1>1, <1>2, <1>3, AppendedBehind
  <2>2. ~Behind(Logged)
    <3>1. \A i \in DOMAIN Logged : Logged[i] # Torn
      BY <2>1, ReplayAssumption DEF Patches
    <3> QED
      BY <3>1 DEF Behind
  <2>3. Replay(Snapshot, Logged) = store
    BY <2>2 DEF LegacyInv, LegacyKept, Expected
  <2> QED
    BY <1>1, <1>2, <2>1, <2>3, ReplayAppend
<1>4. ASSUME NEW n \in 0..Len(walBuf'), ~Behind(wal \o SubSeq(walBuf', 1, n))
      PROVE  Replay(Snapshot, wal \o SubSeq(walBuf', 1, n)) \in promised'
  <2>1. Len(walBuf) \in Nat /\ Len(walBuf') = Len(walBuf) + 1
    BY <1>1
  <2>2. CASE n \in 0..Len(walBuf)
    <3>1. SubSeq(walBuf', 1, n) = SubSeq(walBuf, 1, n)
      BY <1>1, <2>1, <2>2
    <3>2. Replay(Snapshot, wal \o SubSeq(walBuf, 1, n)) \in promised
      BY <1>4, <2>2, <3>1 DEF LegacyInv, LegacyPromised, Repairable
    <3> QED
      BY <3>1, <3>2
  <2>3. CASE n = Len(walBuf) + 1
    <3>1. SubSeq(walBuf', 1, n) = walBuf'
      BY <1>1, <2>1, <2>3
    <3>2. wal \o SubSeq(walBuf', 1, n) = Logged'
      BY <3>1 DEF Logged
    <3> QED
      BY <1>3, <1>4, <3>2
  <2> QED
    BY <2>1, <2>2, <2>3
<1> QED
  BY <1>1, <1>3, <1>4 DEF LegacyPromised

LEMMA LegacyWrite ==
    ASSUME LegacyInv, TypeInv', NEW f \in Patches, pc = "idle", LogFrame(f),
           promised' = promised \cup {ApplyPatch(store, f)},
           \/ pc' = "idle" /\ store' = ApplyPatch(store, f)
           \/ pc' = "flush" /\ call'.op # "batch" /\ store' = ApplyPatch(store, f)
           \/ pc' = "flush" /\ Expected' = ApplyPatch(store, f)
    PROVE  LegacyInv'
<1>1. /\ walBuf' = Append(walBuf, f) /\ UNCHANGED <<wal, spdb, lastSnap>>
      /\ UNCHANGED <<man, manDisk, jobs>> /\ walOps' = walOps + 1
  BY DEF LogFrame, disk
<1>2. /\ ~Behind(Logged') => Replay(Snapshot', Logged') = ApplyPatch(store, f)
      /\ LegacyPromised'
  BY <1>1, LegacyFrame
<1>3. Expected' = ApplyPatch(store, f)
  BY DEF Expected
<1>4. LegacyKept'
  BY <1>2, <1>3 DEF LegacyKept
<1>5. LegacyFiles'
  BY <1>1 DEF LegacyInv, LegacyFiles, Pending
<1>6. walOps' # 0
  BY <1>1 DEF LegacyInv, TypeInv, TypeOK
<1>7. LegacyCount'
  BY <1>6 DEF LegacyCount
<1> QED
  BY <1>2, <1>4, <1>5, <1>7 DEF LegacyInv

LEMMA LegacyWrites ==
    ASSUME LegacyInv,
           \/ \E k \in Keys, v \in Values : Set(k, v)
           \/ \E k \in Keys : Delete(k)
           \/ Clear
    PROVE  LegacyInv'
<1>1. TypeInv'
  BY SetType, DeleteType, ClearType DEF LegacyInv
<1>2. ASSUME NEW f \in Patches, NEW dirt, NEW all, Write(f, dirt, all)
      PROVE  LegacyInv'
  BY <1>1, <1>2, LegacyWrite DEF Write, NoCall
<1> QED
  BY <1>2, FrameTypes DEF Set, Delete, Clear

LEMMA LegacyBatch ==
    ASSUME LegacyInv, NEW c \in BOOLEAN, NEW p \in Patches, Batch(c, p)
    PROVE  LegacyInv'
<1>1. BatchFrame(c, p) \in Patches /\ TypeInv'
  BY FrameTypes, BatchType DEF LegacyInv
<1>2. CASE Fills(walBuf)
  <2>1. pc' = "flush" /\ call' = [NoCall EXCEPT !.op = "batch", !.clears = c, !.patch = p]
        /\ store' = store
    BY <1>2 DEF Batch
  <2>2. Expected' = ApplyPatch(store, BatchFrame(c, p))
    BY <2>1 DEF Expected, NoCall
  <2> QED
    BY <1>1, <2>1, <2>2, LegacyWrite DEF Batch
<1>3. CASE ~Fills(walBuf)
  <2>1. pc' = "idle" /\ store' = ApplyPatch(store, BatchFrame(c, p))
    BY <1>3 DEF Batch, ApplyBatch
  <2> QED
    BY <1>1, <2>1, LegacyWrite DEF Batch
<1> QED
  BY <1>2, <1>3

LEMMA LegacyWalFlush == LegacyInv /\ WalFlush => LegacyInv'
<1> SUFFICES ASSUME LegacyInv, WalFlush
             PROVE  LegacyInv'
  OBVIOUS
<1>1. TypeInv'
  BY WalFlushType DEF LegacyInv
<1>2. /\ pc = "flush" /\ wal' = Logged /\ walBuf' = <<>> /\ pc' \in {"idle", "run"}
      /\ UNCHANGED <<walOps, man, manDisk, jobs, spdb, lastSnap>>
  BY DEF WalFlush, Logged
<1>3. store' = Expected /\ promised' = {Expected} /\ Expected' = store'
  BY <1>2 DEF WalFlush, Expected, ApplyBatch
<1>4. Logged' = Logged /\ Snapshot' = Snapshot
  BY <1>1, <1>2, LegacyTypes DEF LegacyInv, Logged, Snapshot, Logs
<1>5. ~Behind(Logged) => Replay(Snapshot, Logged) = Expected
  BY <1>2 DEF LegacyInv, LegacyKept
<1>6. LegacyKept'
  BY <1>2, <1>3, <1>4, <1>5 DEF LegacyKept
<1>7. LegacyPromised'
  BY <1>1, <1>2, <1>3, <1>4, <1>5, OnePart
<1>8. LegacyFiles'
  BY <1>2 DEF LegacyInv, LegacyFiles, Pending
<1>9. LegacyCount'
  <2>1. SUFFICES ASSUME walOps = 0
                 PROVE  Readable(wal') = {} /\ Snapshot = store'
    BY <1>2, <1>4 DEF LegacyCount
  <2>2. Readable(wal) = {} /\ walBuf = <<>> /\ Snapshot = store /\ call.op \notin {"write", "batch"}
    BY <1>2, <2>1 DEF LegacyInv, LegacyCount
  <2>3. wal' = wal /\ Expected = store
    BY <1>2, <2>2, LegacyTypes DEF LegacyInv, Expected
  <2> QED
    BY <1>3, <2>2, <2>3
<1> QED
  BY <1>1, <1>6, <1>7, <1>8, <1>9 DEF LegacyInv

LEMMA LegacyBegin ==
    ASSUME LegacyInv, TypeInv', NEW op \in {"compact", "close", "prepare"}, Begin(op),
           UNCHANGED <<store, walBuf, walOps, man, disk, history>>,
           \A j \in Jobs : ~Pending(j)'
    PROVE  LegacyInv'
<1>1. pc = "idle" /\ pc' \in {"run", "flush"} /\ call'.op = op
  BY DEF Begin, NoCall
<1>2. UNCHANGED <<wal, spdb, manDisk, promised, lastSnap>>
  BY DEF disk, history
<1>3. Expected = store /\ Expected' = store
  BY <1>1 DEF Expected
<1>4. Logged' = Logged /\ Snapshot' = Snapshot
  BY <1>2 DEF Logged, Snapshot
<1>5. LegacyKept'
  BY <1>1, <1>2, <1>3, <1>4 DEF LegacyInv, LegacyKept
<1>6. LegacyPromised'
  BY <1>1, <1>2, <1>4 DEF LegacyInv, LegacyPromised, Repairable
<1>7. LegacyFiles'
  BY <1>1, <1>2 DEF LegacyInv, LegacyFiles
<1>8. LegacyCount'
  BY <1>1, <1>2, <1>4 DEF LegacyInv, LegacyCount
<1> QED
  BY <1>5, <1>6, <1>7, <1>8 DEF LegacyInv

LEMMA LegacyCalls ==
    ASSUME LegacyInv, Compact \/ Close \/ Prepare
    PROVE  LegacyInv'
<1>1. TypeInv' /\ jobs' = jobs
  BY CallsType DEF LegacyInv, Compact, Close, Prepare, memory
<1>2. \A j \in Jobs : ~Pending(j)'
  BY <1>1 DEF LegacyInv, LegacyFiles, Pending
<1> QED
  BY <1>1, <1>2, LegacyBegin DEF Compact, Close, Prepare, memory

LEMMA LegacyFinish ==
    ASSUME LegacyInv, NEW j \in Jobs, FinishLegacy(j)
    PROVE  LegacyInv'
<1>1. TypeInv'
  BY FinishLegacyType DEF LegacyInv
<1>2. \A i \in Jobs : ~Pending(i)'
  BY FreeJobType DEF FinishLegacy, LegacyInv, LegacyFiles
<1> QED
  BY <1>1, <1>2, LegacyBegin DEF FinishLegacy

LEMMA LegacyOpen == LegacyInv /\ Open => LegacyInv'
<1> SUFFICES ASSUME LegacyInv, Open
             PROVE  LegacyInv'
  OBVIOUS
<1>1. TypeInv'
  BY OpenType DEF LegacyInv
<1>2. /\ pc = "down" /\ pc' = "idle" /\ walBuf = <<>> /\ walBuf' = <<>>
      /\ UNCHANGED <<wal, spdb, manDisk, jobs, lastSnap>> /\ man' = manDisk
  BY DEF Open, disk, LegacyInv, TypeInv, PhaseOK
<1>3. store' = Replay(Snapshot, wal) /\ promised' = {store'}
  BY LegacyLoads DEF Open
<1>4. Expected' = store' /\ Snapshot' = Snapshot /\ Logged' = wal
  BY <1>1, <1>2, LegacyTypes DEF LegacyInv, Expected, Snapshot, Logged
<1>5. LegacyKept'
  BY <1>2, <1>3, <1>4 DEF LegacyKept
<1>6. LegacyPromised'
  BY <1>1, <1>2, <1>3, <1>4, OnePart
<1>7. LegacyFiles'
  BY <1>2 DEF LegacyInv, LegacyFiles, Pending
<1>8. LegacyCount'
  <2>1. SUFFICES ASSUME walOps' = 0
                 PROVE  Readable(wal) = {} /\ Snapshot = store'
    BY <1>2, <1>4 DEF LegacyCount
  <2>2. Readable(wal) \subseteq 1..Len(wal) /\ Len(wal) \in Nat
    BY LegacyTypes DEF LegacyInv, Readable, Logs
  <2>3. IsFiniteSet(Readable(wal))
    <3>1. IsFiniteSet(1..Len(wal))
      BY <2>2, FS_Interval
    <3> QED
      BY <2>2, <3>1, FS_Subset
  <2>4. Cardinality(Readable(wal)) = 0
    BY <2>1 DEF Open
  <2>5. Readable(wal) = {}
    BY <2>3, <2>4, FS_EmptySet
  <2>6. Snapshot \in Stores
    BY LegacyTypes DEF LegacyInv
  <2>7. Replay(Snapshot, wal) = Snapshot
    BY <2>5, <2>6 DEF Replay, Overlay, Stores
  <2> QED
    BY <1>3, <2>5, <2>7
<1> QED
  BY <1>1, <1>5, <1>6, <1>7, <1>8 DEF LegacyInv

LEMMA LegacyStartRewrite ==
    ASSUME CompactMode = "legacy", LegacyInv, StartRewrite
    PROVE  LegacyInv'
<1>1. TypeInv'
  BY StartRewriteType DEF LegacyInv
<1>2. /\ pc = "run" /\ pc' \in {"rotate", "snap"} /\ walBuf = <<>> /\ ~call'.full
      /\ UNCHANGED <<store, wal, walBuf, walOps, man, manDisk, jobs, spdb, promised, lastSnap>>
  BY DEF StartRewrite, Compacting, UseSegments, LegacyInv, TypeInv, TypeOK, Calls, PhaseOK,
         memory, disk, history
<1>3. Expected = store /\ Expected' = store /\ Snapshot' = Snapshot /\ Logged' = wal /\ Logged = wal
  BY <1>2, LegacyTypes DEF LegacyInv, Expected, Snapshot, Logged
<1>4. LegacyKept'
  <2>1. store \in promised
    BY <1>2, <1>3 DEF LegacyInv, LegacyKept
  <2>2. ~Behind(wal) => Replay(Snapshot, wal) = store /\ Replay(store, wal) = store
    BY <1>2, <1>3, StandsForStore
  <2> QED
    BY <1>2, <1>3, <2>1, <2>2 DEF LegacyKept
<1>5. LegacyPromised'
  <2>1. ~Behind(wal) => Replay(Snapshot, wal) \in promised
    BY <1>2, <1>3, StandsForStore
  <2> QED
    BY <1>1, <1>2, <1>3, <2>1, OnePart
<1>6. LegacyFiles'
  BY <1>2 DEF LegacyInv, LegacyFiles, Pending
<1>7. LegacyCount'
  BY <1>2 DEF LegacyInv, LegacyCount
<1> QED
  BY <1>1, <1>4, <1>5, <1>6, <1>7 DEF LegacyInv

\* The rename that takes .spdb away leaves the newest snapshot in a backup.
LEMMA LegacyRotate == LegacyInv /\ Rotate => LegacyInv'
<1> SUFFICES ASSUME LegacyInv, Rotate
             PROVE  LegacyInv'
  OBVIOUS
<1>1. TypeInv'
  BY RotateType DEF LegacyInv
<1>2. /\ pc = "rotate" /\ walBuf = <<>> /\ call' = call /\ pc' \in {"rotate", "snap"}
      /\ UNCHANGED <<store, wal, walBuf, walOps, man, manDisk, jobs, promised, lastSnap>>
      /\ spdb' = spdb \/ (pc' = "snap" /\ spdb # NoFile /\ spdb' = NoFile)
  BY DEF Rotate, LegacyInv, TypeInv, PhaseOK, memory, history
<1>3. Expected = store /\ Expected' = store /\ Logged' = wal /\ Logged = wal
  BY <1>2, LegacyTypes DEF LegacyInv, Expected, Logged
<1>4. ~Behind(wal) =>
          Replay(Snapshot, wal) = store /\ Replay(store, wal) = store /\ store \in promised
  BY <1>2, <1>3, StandsForStore
<1>5. LegacyKept'
  <2>1. store \in promised
    BY <1>2, <1>3 DEF LegacyInv, LegacyKept
  <2>2. pc' = "rotate" => Snapshot' = Snapshot
    BY <1>2 DEF Snapshot
  <2> QED
    BY <1>2, <1>3, <1>4, <2>1, <2>2 DEF LegacyKept
<1>6. LegacyPromised'
  <2>1. CASE spdb' = spdb
    <3>1. Snapshot' = Snapshot
      BY <2>1 DEF Snapshot
    <3> QED
      BY <1>1, <1>2, <1>4, <3>1, OnePart
  <2>2. CASE pc' = "snap" /\ spdb # NoFile /\ spdb' = NoFile
    <3>1. Snapshot = lastSnap /\ lastSnap # NoFile
      BY <2>2 DEF LegacyInv, LegacyFiles, Snapshot
    <3>2. ~Behind(wal) => Repairable'
      BY <1>2, <1>4, <2>2, <3>1 DEF Repairable
    <3> QED
      BY <1>1, <1>2, <3>2, OnePart
  <2> QED
    BY <1>2, <2>1, <2>2
<1>7. LegacyFiles'
  BY <1>2 DEF LegacyInv, LegacyFiles, Pending
<1>8. LegacyCount'
  BY <1>2 DEF LegacyInv, LegacyCount
<1> QED
  BY <1>1, <1>5, <1>6, <1>7, <1>8 DEF LegacyInv

LEMMA LegacyRename == LegacyInv /\ RenameSnapshot => LegacyInv'
<1> SUFFICES ASSUME LegacyInv, RenameSnapshot
             PROVE  LegacyInv'
  OBVIOUS
<1>1. TypeInv'
  BY RenameSnapshotType DEF LegacyInv
<1>2. /\ pc = "snap" /\ pc' = "reset" /\ walBuf = <<>> /\ call' = call
      /\ spdb' = store /\ lastSnap' = store
      /\ UNCHANGED <<store, wal, walBuf, walOps, man, manDisk, jobs, promised>>
  BY DEF RenameSnapshot, LegacyInv, TypeInv, PhaseOK, memory
<1>3. Expected = store /\ Expected' = store /\ Logged' = wal /\ Snapshot' = store
  BY <1>1, <1>2, LegacyTypes, EngineAssumption DEF LegacyInv, Expected, Logged, Snapshot
<1>4. store \in promised /\ (~Behind(wal) => Replay(store, wal) = store)
  BY <1>2, <1>3 DEF LegacyInv, LegacyKept
<1>5. LegacyKept'
  BY <1>2, <1>3, <1>4 DEF LegacyKept
<1>6. LegacyPromised'
  BY <1>1, <1>2, <1>3, <1>4, OnePart
<1>7. LegacyFiles'
  BY <1>2 DEF LegacyInv, LegacyFiles, Pending
<1>8. LegacyCount'
  BY <1>2, <1>3 DEF LegacyInv, LegacyCount
<1> QED
  BY <1>1, <1>5, <1>6, <1>7, <1>8 DEF LegacyInv

LEMMA LegacyReset == LegacyInv /\ ResetWal => LegacyInv'
<1> SUFFICES ASSUME LegacyInv, ResetWal
             PROVE  LegacyInv'
  OBVIOUS
<1>1. TypeInv'
  BY ResetWalType DEF LegacyInv
<1>2. /\ pc = "reset" /\ pc' \in {"closing", "idle"}
      /\ wal' = <<>> /\ walBuf' = <<>> /\ walOps' = 0
      /\ UNCHANGED <<store, man, manDisk, jobs, spdb, promised, lastSnap>>
  BY DEF ResetWal, CompactReturns, LegacyInv, LegacyFiles, history
<1>3. spdb = store /\ Expected = store /\ store \in promised
  BY <1>2 DEF LegacyInv, LegacyKept, Expected
<1>4. Snapshot' = store /\ Expected' = store /\ Logged' = <<>>
  BY <1>2, <1>3, LegacyTypes, EngineAssumption DEF LegacyInv, Snapshot, Expected, Logged
<1>5. Replay(store, <<>>) = store
  BY LegacyTypes, ReplayEmpty DEF LegacyInv
<1>6. LegacyKept'
  BY <1>2, <1>3, <1>4, <1>5 DEF LegacyKept
<1>7. LegacyPromised'
  BY <1>1, <1>2, <1>3, <1>4, <1>5, OnePart
<1>8. LegacyFiles'
  BY <1>2 DEF LegacyInv, LegacyFiles, Pending
<1>9. LegacyCount'
  BY <1>2, <1>4 DEF LegacyCount, Readable
<1> QED
  BY <1>1, <1>6, <1>7, <1>8, <1>9 DEF LegacyInv

LEMMA LegacyPrepareCompact ==
    ASSUME CompactMode = "legacy", LegacyInv, NEW j \in Jobs, PrepareCompact(j)
    PROVE  LegacyInv'
<1>1. TypeInv'
  BY PrepareCompactType DEF LegacyInv
<1>2. /\ pc = "run" /\ pc' = "idle" /\ walBuf = <<>>
      /\ UNCHANGED <<store, wal, walBuf, walOps, man, manDisk, spdb, promised, lastSnap>>
  BY DEF PrepareCompact, LegacyInv, TypeInv, PhaseOK, disk, history
<1>3. NewJob.kind = "legacy" /\ jobs' = [jobs EXCEPT ![j] = NewJob]
  BY DEF NewJob, UseSegments, PrepareCompact
<1>4. \A i \in Jobs : ~Pending(i)'
  BY <1>3 DEF LegacyInv, LegacyFiles, TypeInv, TypeOK, Pending
<1>5. Expected = store /\ Expected' = store /\ Snapshot' = Snapshot /\ Logged' = Logged
  BY <1>2 DEF Expected, Snapshot, Logged
<1>6. LegacyKept'
  BY <1>2, <1>5 DEF LegacyInv, LegacyKept
<1>7. LegacyPromised'
  BY <1>2, <1>5 DEF LegacyInv, LegacyPromised, Repairable
<1>8. LegacyFiles'
  BY <1>2, <1>4 DEF LegacyInv, LegacyFiles
<1>9. LegacyCount'
  BY <1>2, <1>5 DEF LegacyInv, LegacyCount
<1> QED
  BY <1>1, <1>6, <1>7, <1>8, <1>9 DEF LegacyInv

\* The process ends, and a part of the buffer may be in the file.
LEMMA LegacyDown ==
    ASSUME LegacyInv, TypeInv', Down, UNCHANGED <<spdb, manDisk, promised, lastSnap>>,
           ~Behind(wal') => Replay(Snapshot, wal') \in promised \/ (Repairable /\ wal' = wal)
    PROVE  LegacyInv'
<1>1. walBuf' = <<>> /\ pc' = "down" /\ man' = NoManifest /\ \A j \in Jobs : jobs'[j] = NoJob
  BY DownType
<1>2. Snapshot' = Snapshot
  BY DEF Snapshot
<1>3. Repairable /\ wal' = wal => Repairable'
  BY <1>1 DEF Repairable
<1>4. LegacyPromised'
  BY <1>1, <1>2, <1>3, OnePart
<1>5. LegacyKept' /\ LegacyCount'
  BY <1>1 DEF LegacyKept, LegacyCount
<1>6. LegacyFiles'
  BY <1>1 DEF LegacyInv, LegacyFiles, Pending, NoManifest
<1> QED
  BY <1>4, <1>5, <1>6 DEF LegacyInv

LEMMA LegacyEnds == LegacyInv /\ (CloseDone \/ Crash) => LegacyInv'
<1> SUFFICES ASSUME LegacyInv, CloseDone \/ Crash
             PROVE  LegacyInv'
  OBVIOUS
<1>1. TypeInv' /\ Down /\ UNCHANGED <<wal, spdb, manDisk, promised, lastSnap>>
  BY CloseDoneType, CrashType DEF LegacyInv, CloseDone, Crash, disk, history
<1> QED
  BY <1>1, FilePart, LegacyDown

LEMMA LegacyCrashInFlush ==
    ASSUME LegacyInv, NEW n \in 0..Len(walBuf), NEW torn \in BOOLEAN, CrashInFlush(n, torn)
    PROVE  LegacyInv'
<1>1. TypeInv' /\ Down /\ pc = "flush" /\ UNCHANGED <<spdb, manDisk, promised, lastSnap>>
  BY CrashInFlushType DEF LegacyInv, CrashInFlush, history
<1> DEFINE part == wal \o SubSeq(walBuf, 1, n)
<1>2. ~Behind(part) => Replay(Snapshot, part) \in promised
  BY <1>1 DEF LegacyInv, LegacyPromised, Repairable
<1>3. part \in Logs
  BY LegacyTypes DEF LegacyInv, Logs
<1>4. CASE ~torn
  <2>1. wal' = part
    BY <1>3, <1>4 DEF CrashInFlush, Logs
  <2> QED
    BY <1>1, <1>2, <2>1, LegacyDown
<1>5. CASE torn
  <2>1. wal' = Append(part, Torn)
    BY <1>3, <1>5 DEF CrashInFlush, Logs
  <2>2. ASSUME ~Behind(wal')
        PROVE  Replay(Snapshot, wal') \in promised
    <3> HIDE DEF part
    <3>1. part \in Seq(Patches)
      BY <1>3, <2>1, <2>2, AppendedBehind
    <3>2. ~Behind(part)
      <4>1. \A i \in DOMAIN part : part[i] # Torn
        BY <3>1, ReplayAssumption DEF Patches
      <4> QED
        BY <4>1 DEF Behind
    <3>3. Replay(Snapshot, wal') = Replay(Snapshot, part)
      BY <2>1, <3>1, ReplayTorn
    <3> QED
      BY <1>2, <3>2, <3>3
  <2> QED
    BY <1>1, <2>2, LegacyDown
<1> QED
  BY <1>4, <1>5

LEMMA LegacyInit == Init => LegacyInv
<1> SUFFICES ASSUME Init
             PROVE  LegacyInv
  OBVIOUS
<1>1. TypeInv
  BY TypeInit
<1>2. LegacyFiles
  BY DEF Init, LegacyFiles, NoManifest, Pending
<1>3. LegacyKept /\ LegacyCount
  BY DEF Init, LegacyKept, LegacyCount
<1>4. LegacyPromised
  <2>1. Len(walBuf) = 0 /\ wal \o SubSeq(walBuf, 1, 0) = <<>> /\ Snapshot = EmptyStore
        /\ promised = {EmptyStore}
    BY DEF Init, Snapshot
  <2>2. Replay(EmptyStore, <<>>) = EmptyStore
    BY FrameTypes, ReplayEmpty
  <2>3. \A n \in 0..Len(walBuf) : n = 0
    BY <2>1
  <2> QED
    BY <2>1, <2>2, <2>3 DEF LegacyPromised
<1> QED
  BY <1>1, <1>2, <1>3, <1>4 DEF LegacyInv

LEMMA LegacyStep == CompactMode = "legacy" /\ LegacyInv /\ [Next]_vars => LegacyInv'
<1> SUFFICES ASSUME CompactMode = "legacy", LegacyInv, [Next]_vars
             PROVE  LegacyInv'
  OBVIOUS
<1>1. CASE Open
  BY <1>1, LegacyOpen
<1>2. CASE ClientStep
  BY <1>2, LegacyWrites, LegacyBatch, LegacyWalFlush DEF ClientStep
<1>3. CASE CompactStep
  <2>1. ~UseSegments
    BY DEF UseSegments
  <2>2. ~(DropSegment \/ MergeManifest \/ WriteDelta \/ DeltaManifest)
    BY <2>1 DEF DropSegment, MergeManifest, WriteDelta, DeltaManifest, LegacyInv, LegacyFiles
  <2> QED
    BY <1>3, <2>2, LegacyCalls, LegacyEnds, LegacyStartRewrite, LegacyRotate,
       LegacyRename, LegacyReset DEF CompactStep
<1>4. CASE AsyncStep
  <2>1. ~FinishCommit /\ \A j \in Jobs : ~FinishStale(j) /\ ~FinishWrite(j)
    BY DEF FinishCommit, FinishStale, FinishWrite, LegacyInv, LegacyFiles
  <2> QED
    BY <1>4, <2>1, LegacyCalls, LegacyPrepareCompact, LegacyFinish DEF AsyncStep
<1>5. CASE CrashStep
  <2>1. CASE Crash
    BY <2>1, LegacyEnds
  <2>2. ASSUME NEW n \in 0..Len(walBuf), NEW torn \in {FALSE, TornWrites}, CrashInFlush(n, torn)
        PROVE  LegacyInv'
    <3>1. torn \in BOOLEAN
      BY EngineAssumption
    <3> QED
      BY <2>2, <3>1, LegacyCrashInFlush
  <2> QED
    BY <1>5, <2>1, <2>2 DEF CrashStep
<1>6. CASE UNCHANGED vars
  <2>1. TypeInv'
    BY <1>6, TypeStep DEF LegacyInv
  <2>2. UNCHANGED <<store, walBuf, walOps, man, jobs, wal, spdb, manDisk, pc, call,
                    promised, lastSnap>>
    BY <1>6 DEF vars, memory, disk, control, history
  <2>3. Snapshot' = Snapshot /\ Logged' = Logged /\ Expected' = Expected
    BY <2>2 DEF Snapshot, Logged, Expected
  <2>4. LegacyKept' /\ LegacyCount' /\ LegacyFiles'
    BY <2>2, <2>3 DEF LegacyInv, LegacyKept, LegacyCount, LegacyFiles, Pending
  <2>5. LegacyPromised'
    BY <2>2, <2>3 DEF LegacyInv, LegacyPromised, Repairable
  <2> QED
    BY <2>1, <2>4, <2>5 DEF LegacyInv
<1> QED
  BY <1>1, <1>2, <1>3, <1>4, <1>5, <1>6 DEF Next

\* What the invariant says of a database that is closed, or between two calls.
LEMMA LegacyGives == LegacyInv => AckedRepairable /\ LiveIsRecoverable
<1> SUFFICES ASSUME LegacyInv
             PROVE  AckedRepairable /\ LiveIsRecoverable
  OBVIOUS
<1>1. BehindTorn <=> Behind(Logged)
  BY DEF BehindTorn, Behind, Logged
<1>2. AckedRepairable
  <2>1. SUFFICES ASSUME pc = "down", ~Behind(Logged)
                 PROVE  Recovered \in promised \/ Repairable
    BY <1>1 DEF AckedRepairable, Repairable
  <2>2. Logged = wal
    BY <2>1, LegacyTypes DEF LegacyInv, TypeInv, PhaseOK
  <2> QED
    BY <2>1, <2>2, FilePart, LegacyLoads
<1>3. LiveIsRecoverable
  <2>1. SUFFICES ASSUME pc = "idle", ~Behind(Logged)
                 PROVE  Replay(Base, Logged) = store
    BY <1>1 DEF LiveIsRecoverable, Logged
  <2>2. Replay(Snapshot, Logged) = Expected /\ Expected = store
    BY <2>1 DEF LegacyInv, LegacyKept, Expected
  <2> QED
    BY <2>2, LegacyLoads
<1> QED
  BY <1>2, <1>3

\* An engine that always rewrites the whole database keeps log and snapshot
\* together standing for its store, through torn writes and a crash at any step
\* of a compaction (compact_legacy, wal_flush, load_state).
THEOREM LegacyInvariant == ASSUME CompactMode = "legacy" PROVE Spec => []LegacyInv
<1>1. LegacyInv /\ [Next]_vars => LegacyInv'
  BY LegacyStep
<1> QED
  BY <1>1, LegacyInit, PTL DEF Spec

\* There, no acknowledged write is lost for good, wherever the process dies:
\* what the files recover to is a map that was promised, or the newest backup
\* put back makes it one (rotate_backups, compact_legacy).
THEOREM Repair == ASSUME CompactMode = "legacy" PROVE Spec => []AckedRepairable
<1>1. LegacyInv /\ [Next]_vars => LegacyInv'
  BY LegacyStep
<1> QED
  BY <1>1, LegacyInit, LegacyGives, PTL DEF Spec

\* There, between two calls, files and buffer recover to the live store.
THEOREM LegacyLive == ASSUME CompactMode = "legacy" PROVE Spec => []LiveIsRecoverable
<1>1. LegacyInv /\ [Next]_vars => LegacyInv'
  BY LegacyStep
<1> QED
  BY <1>1, LegacyInit, LegacyGives, PTL DEF Spec

\* There, close leaves nothing to replay and a snapshot of the store: wal_ops is
\* zero only if log and store hold nothing the snapshot does not (close, and
\* wal_ops in load_state).
THEOREM CleanClose == ASSUME CompactMode = "legacy" PROVE Spec => CleanShutdown
<1>1. LegacyInv /\ [Next]_vars => LegacyInv'
  BY LegacyStep
<1>2. LegacyInv /\ CloseDone =>
          Readable(wal) = {} /\ (spdb = store \/ (spdb = NoFile /\ store = EmptyStore))
  <2> SUFFICES ASSUME LegacyInv, CloseDone
               PROVE  Readable(wal) = {} /\ (spdb = store \/ (spdb = NoFile /\ store = EmptyStore))
    OBVIOUS
  <2>1. walOps = 0 /\ pc \in {"run", "closing"}
    BY DEF CloseDone, NeedsCompact, LegacyInv, LegacyCount, TypeInv, TypeOK
  <2>2. Readable(wal) = {} /\ Snapshot = store
    BY <2>1 DEF LegacyInv, LegacyCount
  <2> QED
    BY <2>2 DEF Snapshot
<1> QED
  BY <1>1, <1>2, LegacyInit, PTL DEF Spec, CleanShutdown

-----------------------------------------------------------------------------
(* Between two calls wal_buf is not full.                                  *)

LEMMA EmptyFits ==
    ASSUME walBuf' = <<>>
    PROVE  BufferBounded'
BY EngineAssumption DEF BufferBounded

LEMMA SameFits ==
    ASSUME BufferBounded, walBuf' = walBuf,
           pc' \in {"idle", "dropsegs", "commit"} =>
               pc \in {"idle", "dropsegs", "commit"}
    PROVE  BufferBounded'
BY DEF BufferBounded

\* A frame that fills the buffer takes the call to the flush.
LEMMA LoggedFits ==
    ASSUME TypeInv, NEW f \in Patches, LogFrame(f),
           IF Fills(walBuf) THEN pc' = "flush" ELSE TRUE
    PROVE  BufferBounded'
<1>1. walBuf \in Seq(Patches) /\ walBuf' = Append(walBuf, f) /\ FlushAt \in Nat
  BY EngineAssumption DEF TypeInv, TypeOK, LogFrame
<1>2. Len(walBuf') = Len(walBuf) + 1 /\ Len(walBuf) \in Nat
  BY <1>1
<1> QED
  BY <1>1, <1>2 DEF BufferBounded, Fills

LEMMA BufferStep == DurabilityInv /\ BufferBounded /\ [Next]_vars => BufferBounded'
<1> SUFFICES ASSUME DurabilityInv, BufferBounded, [Next]_vars
             PROVE  BufferBounded'
  OBVIOUS
<1>0. TypeInv /\ PhaseOK
  BY DEF DurabilityInv, TypeInv
<1>1. CASE Open
  BY <1>0, <1>1, EmptyFits DEF Open, PhaseOK
<1>2. CASE ClientStep
  <2>1. ASSUME NEW f \in Patches, NEW dirt, NEW all, Write(f, dirt, all)
        PROVE  BufferBounded'
    BY <1>0, <2>1, LoggedFits DEF Write
  <2>2. ASSUME NEW k \in Keys, NEW v \in Values, Set(k, v)
        PROVE  BufferBounded'
    BY <2>1, <2>2, FrameTypes DEF Set
  <2>3. ASSUME NEW k \in Keys, Delete(k)
        PROVE  BufferBounded'
    BY <2>1, <2>3, FrameTypes DEF Delete
  <2>4. CASE Clear
    BY <2>1, <2>4, FrameTypes DEF Clear
  <2>5. ASSUME NEW c \in BOOLEAN, NEW p \in Patches, Batch(c, p)
        PROVE  BufferBounded'
    <3>1. BatchFrame(c, p) \in Patches
      BY FrameTypes
    <3> QED
      BY <1>0, <2>5, <3>1, LoggedFits DEF Batch
  <2>6. CASE WalFlush
    BY <2>6, EmptyFits DEF WalFlush
  <2> QED
    BY <1>2, <2>2, <2>3, <2>4, <2>5, <2>6 DEF ClientStep
<1>3. CASE CompactStep
  <2>1. CASE Compact \/ Close
    BY <2>1, SameFits DEF Compact, Close, Begin, memory
  <2>2. CASE CloseDone \/ ResetWal \/ MergeManifest
    BY <2>2, EmptyFits DEF CloseDone, Down, ResetWal, MergeManifest
  <2>3. CASE StartRewrite \/ Rotate \/ RenameSnapshot \/ WriteDelta
    BY <1>0, <2>3, EmptyFits
       DEF StartRewrite, Rotate, RenameSnapshot, WriteDelta, Compacting, PhaseOK, memory
  <2>4. CASE DropSegment
    BY <2>4, SameFits DEF DropSegment, control
  <2>5. CASE DeltaManifest
    BY <1>0, <2>5, EmptyFits DEF DeltaManifest, PhaseOK
  <2> QED
    BY <1>3, <2>1, <2>2, <2>3, <2>4, <2>5 DEF CompactStep
<1>4. CASE AsyncStep
  <2>1. CASE Prepare
    BY <2>1, SameFits DEF Prepare, Begin, memory
  <2>2. ASSUME NEW j \in Jobs, PrepareCompact(j)
        PROVE  BufferBounded'
    BY <1>0, <2>2, EmptyFits DEF PrepareCompact, PhaseOK
  <2>3. ASSUME NEW j \in Jobs, FinishLegacy(j) \/ FinishStale(j) \/ FinishWrite(j)
        PROVE  BufferBounded'
    BY <2>3, SameFits DEF FinishLegacy, Begin, FinishStale, FinishWrite, control
  <2>4. CASE FinishCommit
    BY <2>4, SameFits DEF FinishCommit
  <2> QED
    BY <1>4, <2>1, <2>2, <2>3, <2>4 DEF AsyncStep
<1>5. CASE CrashStep
  BY <1>5, EmptyFits DEF CrashStep, Crash, CrashInFlush, Down
<1>6. CASE UNCHANGED vars
  BY <1>6, SameFits DEF vars, memory, control
<1> QED
  BY <1>1, <1>2, <1>3, <1>4, <1>5, <1>6 DEF Next

-----------------------------------------------------------------------------
(* The maps the engine has been.                                           *)

\* Each is a map; the first is what the file stands for, the last what file and
\* buffer stand for together.
LEMMA LineFacts ==
    ASSUME NEW g \in Stores, NEW w \in Seq(Patches), NEW b \in Seq(Patches)
    PROVE  /\ LineOf(g, w, b) \in Seq(Stores) /\ Len(LineOf(g, w, b)) = Len(b) + 1
           /\ \A n \in 0..Len(b) :
                 LineOf(g, w, b)[n + 1] = Replay(g, w \o SubSeq(b, 1, n))
           /\ LineOf(g, w, b)[1] = Replay(g, w)
           /\ LineOf(g, w, b)[Len(b) + 1] = Replay(g, w \o b)
<1>1. ASSUME NEW n \in 1..(Len(b) + 1)
      PROVE  Replay(g, w \o SubSeq(b, 1, n - 1)) \in Stores
  <2>1. SubSeq(b, 1, n - 1) \in Seq(Patches)
    OBVIOUS
  <2>2. w \o SubSeq(b, 1, n - 1) \in Seq(Patches \cup {Torn})
    BY <2>1
  <2> QED
    BY <2>2, ReplayType
<1>2. LineOf(g, w, b) \in Seq(Stores) /\ Len(LineOf(g, w, b)) = Len(b) + 1
  BY <1>1 DEF LineOf
<1>3. ASSUME NEW n \in 0..Len(b)
      PROVE  LineOf(g, w, b)[n + 1] = Replay(g, w \o SubSeq(b, 1, n))
  <2>1. n + 1 \in 1..(Len(b) + 1) /\ (n + 1) - 1 = n
    OBVIOUS
  <2> QED
    BY <2>1 DEF LineOf
<1>4. SubSeq(b, 1, 0) = <<>> /\ w \o <<>> = w /\ 0 \in 0..Len(b) /\ 0 + 1 = 1
  OBVIOUS
<1>5. SubSeq(b, 1, Len(b)) = b /\ Len(b) \in 0..Len(b)
  OBVIOUS
<1>6. LineOf(g, w, b)[1] = Replay(g, w)
  BY <1>3, <1>4
<1>7. LineOf(g, w, b)[Len(b) + 1] = Replay(g, w \o b)
  BY <1>3, <1>5
<1> QED
  BY <1>2, <1>3, <1>6, <1>7

LEMMA ShortLine ==
    ASSUME NEW g \in Stores, NEW w \in Seq(Patches)
    PROVE  LineOf(g, w, <<>>) = <<Replay(g, w)>>
<1>1. <<>> \in Seq(Patches) /\ Len(<<>>) = 0
  OBVIOUS
<1>2. /\ LineOf(g, w, <<>>) \in Seq(Stores)
      /\ Len(LineOf(g, w, <<>>)) = Len(<<>>) + 1
      /\ LineOf(g, w, <<>>)[1] = Replay(g, w)
  BY <1>1, LineFacts, Zenon
<1> DEFINE l == LineOf(g, w, <<>>)
<1>3. l \in Seq(Stores) /\ Len(l) = 1 /\ l[1] = Replay(g, w)
  BY <1>1, <1>2
<1> HIDE DEF l
<1>4. l = <<Replay(g, w)>>
  BY <1>3
<1> QED
  BY <1>4 DEF l

LEMMA LogTypesNow ==
    ASSUME DurabilityInv
    PROVE  Ground \in Stores /\ wal \in Seq(Patches) /\ walBuf \in Seq(Patches)
BY LogTypes, GroundType DEF DurabilityInv

LEMMA LogTypesNext ==
    ASSUME DurabilityInv'
    PROVE  Ground' \in Stores /\ wal' \in Seq(Patches) /\ walBuf' \in Seq(Patches)
<1>1. TypeInv' /\ LogStandsForStore'
  BY DEF DurabilityInv
<1> QED
  BY <1>1, FrameTypes DEF TypeInv, TypeOK, LogStandsForStore, Ground

\* Steps that leave the log and its ground alone do not show.
LEMMA SameLine ==
    ASSUME UNCHANGED <<wal, walBuf>>, Ground' = Ground
    PROVE  Line' = Line
BY DEF Line

\* Nor do steps that move what is durable from one file to another.
LEMMA QuietMove ==
    ASSUME DurabilityInv, DurabilityInv', pc # "down", pc' # "down",
           walBuf = <<>>, walBuf' = <<>>, UNCHANGED store,
           Expected = store, Expected' = store
    PROVE  Line' = Line
<1>1. Logged = wal /\ Logged' = wal'
  BY LogTypesNow, LogTypesNext DEF Logged
<1>2. Replay(Ground, wal) = store /\ Replay(Ground', wal') = store'
  BY <1>1 DEF DurabilityInv, LogStandsForStore
<1>3. Line = <<store>>
  BY <1>2, ShortLine, LogTypesNow DEF Line
<1>4. Line' = <<store'>>
  BY <1>2, ShortLine, LogTypesNext DEF Line
<1> QED
  BY <1>3, <1>4

-----------------------------------------------------------------------------
(* Writes.                                                                 *)

LEMMA LastOf ==
    ASSUME NEW s \in Seq(Stores), s # <<>>
    PROVE  Durable!Last(s) = s[Len(s)]
BY DEF Durable!Last

LEMMA LastLine ==
    ASSUME DurabilityInv, pc # "down"
    PROVE  /\ Line \in Seq(Stores) /\ Line # <<>> /\ Len(Line) = Len(walBuf) + 1
           /\ Durable!Last(Line) = Expected
<1>1. /\ Line \in Seq(Stores) /\ Len(Line) = Len(walBuf) + 1
      /\ Line[Len(walBuf) + 1] = Replay(Ground, Logged)
  BY LogTypesNow, LineFacts DEF Line, Logged
<1>2. Line # <<>> /\ Line[Len(Line)] = Expected
  BY <1>1, LogTypesNow DEF DurabilityInv, LogStandsForStore
<1> QED
  BY <1>1, <1>2, LastOf

\* A frame in the buffer is one more map.
LEMMA LineGrows ==
    ASSUME DurabilityInv, DurabilityInv', NEW f \in Patches, pc = "idle", LogFrame(f),
           pc' \in {"idle", "flush"}
    PROVE  /\ Line' # <<>> /\ Durable!Front(Line') = Line
           /\ Durable!Last(Line') = ApplyPatch(store, f)
<1>1. /\ Ground' = Ground /\ wal' = wal /\ walBuf' = Append(walBuf, f)
      /\ Ground \in Stores /\ wal \in Seq(Patches) /\ walBuf \in Seq(Patches)
  BY WriteQuiet, LogTypesNow
<1>2. /\ Line \in Seq(Stores) /\ Len(Line) = Len(walBuf) + 1
      /\ \A n \in 0..Len(walBuf) :
            Line[n + 1] = Replay(Ground, wal \o SubSeq(walBuf, 1, n))
  BY <1>1, LineFacts DEF Line
<1>3. walBuf' \in Seq(Patches) /\ Len(walBuf') = Len(walBuf) + 1
  BY <1>1
<1>4. /\ Line' \in Seq(Stores) /\ Len(Line') = Len(Line) + 1
      /\ \A n \in 0..Len(walBuf') :
            Line'[n + 1] = Replay(Ground, wal \o SubSeq(walBuf', 1, n))
      /\ Line'[Len(Line')] = Replay(Ground, wal \o walBuf')
  <2> DEFINE b == walBuf'
  <2>1. b \in Seq(Patches) /\ Ground \in Stores /\ wal \in Seq(Patches)
        /\ Len(b) = Len(Line)
    BY <1>1, <1>2, <1>3
  <2>2. Line' = LineOf(Ground, wal, b)
    BY <1>1 DEF Line
  <2> HIDE DEF b
  <2>3. /\ LineOf(Ground, wal, b) \in Seq(Stores)
        /\ Len(LineOf(Ground, wal, b)) = Len(b) + 1
        /\ \A n \in 0..Len(b) : LineOf(Ground, wal, b)[n + 1]
                                    = Replay(Ground, wal \o SubSeq(b, 1, n))
        /\ LineOf(Ground, wal, b)[Len(b) + 1] = Replay(Ground, wal \o b)
    BY <2>1, LineFacts
  <2>4. Line' \in Seq(Stores) /\ Len(Line') = Len(Line) + 1
        /\ Line'[Len(Line')] = Replay(Ground, wal \o b)
    BY <2>1, <2>2, <2>3
  <2>5. \A n \in 0..Len(b) :
           Line'[n + 1] = Replay(Ground, wal \o SubSeq(b, 1, n))
    BY <2>2, <2>3
  <2> QED
    BY <2>4, <2>5 DEF b
<1>5. ASSUME NEW n \in 0..Len(walBuf)
      PROVE  Line'[n + 1] = Line[n + 1]
  <2>1. SubSeq(walBuf', 1, n) = SubSeq(walBuf, 1, n)
    BY <1>1
  <2>2. n \in 0..Len(walBuf')
    BY <1>1, <1>3
  <2>3. Line'[n + 1] = Replay(Ground, wal \o SubSeq(walBuf', 1, n))
    BY <1>4, <2>2
  <2>4. Line[n + 1] = Replay(Ground, wal \o SubSeq(walBuf, 1, n))
    BY <1>2
  <2> QED
    BY <2>1, <2>3, <2>4
<1>6. \A i \in 1..Len(Line) : Line'[i] = Line[i]
  <2> SUFFICES ASSUME NEW i \in 1..Len(Line)
               PROVE  Line'[i] = Line[i]
    OBVIOUS
  <2>1. i - 1 \in 0..Len(walBuf) /\ (i - 1) + 1 = i
    BY <1>1, <1>2
  <2> QED
    BY <1>5, <2>1
<1>7. Line' # <<>> /\ SubSeq(Line', 1, Len(Line') - 1) = Line
  BY <1>2, <1>4, <1>6
<1>8. /\ Replay(Ground, Logged) = store /\ Logged \in Seq(Patches)
      /\ wal \o walBuf' = Append(Logged, f)
  BY <1>1, LogTypes DEF DurabilityInv, LogStandsForStore, Expected, Logged
<1>9. Line'[Len(Line')] = ApplyPatch(store, f)
  BY <1>1, <1>4, <1>8, ReplayAppend
<1> QED
  BY <1>4, <1>7, <1>9, LastOf DEF Durable!Front

LEMMA ChangeStep ==
    ASSUME DurabilityInv, DurabilityInv', BufferBounded, NEW f \in Patches,
           pc = "idle", LogFrame(f), pc' \in {"idle", "flush"},
           store' \in {store, ApplyPatch(store, f)}
    PROVE  Durable!Change
<1>1. /\ Line' # <<>> /\ Durable!Front(Line') = Line
      /\ Durable!Last(Line') = ApplyPatch(store, f)
  BY LineGrows
<1>2. Durable!Last(Line) = store /\ Len(Line) = Len(walBuf) + 1
  BY LastLine DEF Expected
<1>3. Len(Line) <= FlushAt
  BY <1>2, LogTypesNow, EngineAssumption DEF BufferBounded
<1>4. ApplyPatch(store, f) \in Stores
  BY ApplyType DEF DurabilityInv, TypeInv, TypeOK
<1> QED
  BY <1>1, <1>2, <1>3, <1>4 DEF Durable!Change

LEMMA WritesChange ==
    ASSUME DurabilityInv, DurabilityInv', BufferBounded,
           \/ \E k \in Keys, v \in Values : Set(k, v)
           \/ \E k \in Keys : Delete(k)
           \/ Clear
           \/ \E c \in BOOLEAN, p \in Patches : Batch(c, p)
    PROVE  Durable!Change
<1>1. ASSUME NEW f \in Patches, NEW dirt, NEW all, Write(f, dirt, all)
      PROVE  Durable!Change
  BY <1>1, ChangeStep DEF Write
<1>2. ASSUME NEW c \in BOOLEAN, NEW p \in Patches, Batch(c, p)
      PROVE  Durable!Change
  <2>1. BatchFrame(c, p) \in Patches
    BY FrameTypes
  <2>2. pc' \in {"idle", "flush"} /\ store' \in {store, ApplyPatch(store, BatchFrame(c, p))}
    BY <1>2 DEF Batch, ApplyBatch
  <2> QED
    BY <1>2, <2>1, <2>2, ChangeStep DEF Batch
<1>3. ASSUME NEW k \in Keys, NEW v \in Values, Set(k, v)
      PROVE  Durable!Change
  BY <1>1, <1>3, FrameTypes DEF Set
<1>4. ASSUME NEW k \in Keys, Delete(k)
      PROVE  Durable!Change
  BY <1>1, <1>4, FrameTypes DEF Delete
<1>5. CASE Clear
  BY <1>1, <1>5, FrameTypes DEF Clear
<1> QED
  BY <1>2, <1>3, <1>4, <1>5

\* The flush makes the newest map the only one, and the one readers see.
LEMMA FlushSettles ==
    ASSUME DurabilityInv, DurabilityInv', WalFlush
    PROVE  Durable!Settle
<1>1. /\ pc = "flush" /\ pc' \in {"idle", "run"} /\ spdb' = spdb
      /\ wal' = Logged /\ walBuf' = <<>>
  BY DEF WalFlush, Logged
<1>2. Ground' = Ground
  BY <1>1 DEF Ground
<1>3. store' = Expected
  <2>1. CASE call.op = "batch"
    BY <1>1, <2>1 DEF WalFlush, Expected, ApplyBatch
  <2>2. CASE call.op # "batch"
    BY <1>1, <2>2 DEF WalFlush, Expected
  <2> QED
    BY <2>1, <2>2
<1>4. Replay(Ground, Logged) = Expected
  BY <1>1 DEF DurabilityInv, LogStandsForStore
<1>5. Line' = <<Expected>>
  BY <1>1, <1>2, <1>4, ShortLine, LogTypesNext DEF Line
<1>6. Durable!Last(Line) = Expected
  BY <1>1, LastLine
<1> QED
  BY <1>1, <1>3, <1>5, <1>6 DEF Durable!Settle

-----------------------------------------------------------------------------
(* The end of a process, and the next one.                                 *)

\* A process that ends with n frames of its buffer in the file leaves the map
\* the database was after these.
LEMMA EndsAt ==
    ASSUME DurabilityInv, DurabilityInv', Down, NEW n \in 0..Len(walBuf),
           wal' = wal \o SubSeq(walBuf, 1, n), Ground' = Ground
    PROVE  /\ n + 1 \in DOMAIN Line /\ Line' = <<Line[n + 1]>>
           /\ pc' = "down" /\ store' = EmptyStore
<1>1. pc' = "down" /\ store' = EmptyStore /\ walBuf' = <<>>
  BY DEF Down
<1>2. /\ Line \in Seq(Stores) /\ Len(Line) = Len(walBuf) + 1
      /\ Line[n + 1] = Replay(Ground, wal \o SubSeq(walBuf, 1, n))
  BY LogTypesNow, LineFacts DEF Line
<1>3. Line' = <<Replay(Ground', wal')>>
  BY <1>1, ShortLine, LogTypesNext DEF Line
<1>4. n + 1 \in DOMAIN Line
  BY <1>2, LogTypesNow
<1> QED
  BY <1>1, <1>2, <1>3, <1>4

LEMMA LogKept ==
    ASSUME DurabilityInv, wal' = wal
    PROVE  0 \in 0..Len(walBuf) /\ wal' = wal \o SubSeq(walBuf, 1, 0) /\ 0 + 1 = 1
BY LogTypesNow

LEMMA WholeFrames ==
    ASSUME SafeConfig, DurabilityInv, NEW n \in 0..Len(walBuf),
           NEW torn \in {FALSE, TornWrites}, CrashInFlush(n, torn)
    PROVE  wal' = wal \o SubSeq(walBuf, 1, n)
<1>1. ~torn
  BY Zenon DEF SafeConfig
<1> DEFINE v == wal \o SubSeq(walBuf, 1, n)
<1>2. wal' = v \o <<>>
  BY <1>1 DEF CrashInFlush
<1>3. v \in Seq(Patches)
  BY LogTypesNow
<1>4. v \o <<>> = v
  <2> HIDE DEF v
  <2> QED
    BY <1>3
<1> QED
  BY <1>2, <1>4

LEMMA CloseDoneCloses ==
    ASSUME DurabilityInv, DurabilityInv', CloseDone
    PROVE  Durable!Close
<1>1. /\ pc \in {"run", "closing"} /\ walBuf = <<>> /\ Down
      /\ wal' = wal /\ spdb' = spdb /\ pc' = "down"
  BY DEF CloseDone, Down, disk, DurabilityInv, TypeInv, PhaseOK
<1>2. Ground' = Ground
  BY <1>1 DEF Ground
<1>3. 1 \in DOMAIN Line /\ Line' = <<Line[1]>> /\ store' = EmptyStore
  BY <1>1, <1>2, LogKept, EndsAt
<1>4. Line = <<Replay(Ground, wal)>>
  BY <1>1, ShortLine, LogTypesNow DEF Line
<1>5. Len(Line) = 1 /\ Line' = Line
  BY <1>3, <1>4
<1> QED
  BY <1>1, <1>3, <1>5 DEF Durable!Close

LEMMA CrashStepCrashes ==
    ASSUME SafeConfig, DurabilityInv, DurabilityInv', CrashStep
    PROVE  Durable!Crash
<1>1. CASE Crash
  <2>1. Down /\ wal' = wal /\ spdb' = spdb /\ pc # "down" /\ pc' = "down"
    BY <1>1, EngineAssumption DEF Crash, Down, disk
  <2>2. pc = "snap" => BackupCount = 0
    BY <1>1 DEF Crash, SafeConfig
  <2>3. Ground' = Ground
    BY <2>1, <2>2 DEF Ground
  <2>4. 1 \in DOMAIN Line /\ Line' = <<Line[1]>> /\ store' = EmptyStore
    BY <2>1, <2>3, LogKept, EndsAt
  <2> QED
    BY <2>1, <2>4 DEF Durable!Crash
<1>2. ASSUME NEW n \in 0..Len(walBuf), NEW torn \in {FALSE, TornWrites},
             CrashInFlush(n, torn)
      PROVE  Durable!Crash
  <2>1. Down /\ spdb' = spdb /\ pc = "flush" /\ pc' = "down"
    BY <1>2 DEF CrashInFlush, Down
  <2>2. Ground' = Ground
    BY <2>1 DEF Ground
  <2>3. wal' = wal \o SubSeq(walBuf, 1, n)
    BY <1>2, WholeFrames
  <2>4. n + 1 \in DOMAIN Line /\ Line' = <<Line[n + 1]>> /\ store' = EmptyStore
    BY <2>1, <2>2, <2>3, EndsAt
  <2> QED
    BY <2>1, <2>4 DEF Durable!Crash
<1> QED
  BY <1>1, <1>2 DEF CrashStep

LEMMA OpenOpens ==
    ASSUME DurabilityInv, DurabilityInv', Open
    PROVE  Durable!Open
<1>1. pc = "down" /\ pc' = "idle" /\ walBuf = <<>> /\ UNCHANGED <<wal, walBuf, spdb>>
  BY DEF Open, disk, DurabilityInv, TypeInv, PhaseOK
<1>2. Ground' = Ground
  BY <1>1 DEF Ground
<1>3. store' = Replay(Ground, wal)
  BY <1>1, LogTypesNow, RecoveredFromGround DEF Open, Recovered, DurabilityInv
<1>4. Line = <<store'>> /\ Line' = Line
  BY <1>1, <1>2, <1>3, ShortLine, SameLine, LogTypesNow DEF Line
<1>5. Durable!Last(<<store'>>) = store'
  BY DEF Durable!Last
<1> QED
  BY <1>1, <1>4, <1>5 DEF Durable!Open

-----------------------------------------------------------------------------
(* Everything else: compaction in all its forms does not show.             *)

LEMMA QuietStep ==
    ASSUME UNCHANGED <<wal, walBuf, spdb, store>>, pc # "down", pc' # "down",
           pc = "snap" \/ pc' = "snap" => BackupCount = 0
    PROVE  UNCHANGED <<pc # "down", store, Line>>
<1>1. Ground' = Ground
  BY DEF Ground
<1> QED
  BY <1>1, SameLine

LEMMA CompactionQuiet ==
    ASSUME DurabilityInv, DurabilityInv', CompactStep, ~CloseDone
    PROVE  UNCHANGED <<pc # "down", store, Line>>
<1>0. PhaseOK
  BY DEF DurabilityInv, TypeInv
<1>1. CASE Compact \/ Close
  BY <1>1, QuietStep DEF Compact, Close, Begin, memory, disk
<1>2. CASE StartRewrite
  BY <1>2, QuietStep DEF StartRewrite, Compacting, memory, disk
<1>3. CASE DropSegment
  BY <1>3, QuietStep DEF DropSegment, control
<1>4. CASE WriteDelta
  BY <1>4, QuietStep DEF WriteDelta, Compacting, memory
<1>5. CASE DeltaManifest
  BY <1>5, QuietStep DEF DeltaManifest, CompactReturns
<1>6. CASE Rotate \/ RenameSnapshot \/ ResetWal \/ MergeManifest
  <2>1. /\ walBuf = <<>> /\ walBuf' = <<>> /\ store' = store
        /\ pc \in {"rotate", "snap", "reset", "purge"}
        /\ pc' \in {"rotate", "snap", "reset", "purge", "idle", "closing"}
    BY <1>0, <1>6
       DEF Rotate, RenameSnapshot, ResetWal, MergeManifest, CompactReturns, PhaseOK, memory
  <2>2. Expected = store /\ Expected' = store
    BY <2>1 DEF Expected
  <2> QED
    BY <2>1, <2>2, QuietMove
<1> QED
  BY <1>1, <1>2, <1>3, <1>4, <1>5, <1>6 DEF CompactStep

LEMMA AsyncQuiet ==
    ASSUME AsyncStep
    PROVE  UNCHANGED <<pc # "down", store, Line>>
<1>1. CASE Prepare
  BY <1>1, QuietStep DEF Prepare, Begin, memory, disk
<1>2. ASSUME NEW j \in Jobs, PrepareCompact(j)
      PROVE  UNCHANGED <<pc # "down", store, Line>>
  BY <1>2, QuietStep DEF PrepareCompact, disk
<1>3. ASSUME NEW j \in Jobs, FinishLegacy(j)
      PROVE  UNCHANGED <<pc # "down", store, Line>>
  BY <1>3, QuietStep DEF FinishLegacy, Begin, disk
<1>4. ASSUME NEW j \in Jobs, FinishStale(j)
      PROVE  UNCHANGED <<pc # "down", store, Line>>
  BY <1>4, QuietStep DEF FinishStale, disk, control
<1>5. ASSUME NEW j \in Jobs, FinishWrite(j)
      PROVE  UNCHANGED <<pc # "down", store, Line>>
  BY <1>5, QuietStep DEF FinishWrite
<1>6. CASE FinishCommit
  BY <1>6, QuietStep DEF FinishCommit
<1> QED
  BY <1>1, <1>2, <1>3, <1>4, <1>5, <1>6 DEF AsyncStep

-----------------------------------------------------------------------------

LEMMA StepsImplement ==
    ASSUME SafeConfig, DurabilityInv, DurabilityInv', BufferBounded, [Next]_vars
    PROVE  [Durable!Next]_<<pc # "down", store, Line>>
<1>1. CASE Open
  BY <1>1, OpenOpens DEF Durable!Next
<1>2. CASE ClientStep
  BY <1>2, WritesChange, FlushSettles DEF ClientStep, Durable!Next
<1>3. CASE CompactStep
  BY <1>3, CloseDoneCloses, CompactionQuiet DEF Durable!Next
<1>4. CASE AsyncStep
  BY <1>4, AsyncQuiet
<1>5. CASE CrashStep
  BY <1>5, CrashStepCrashes DEF Durable!Next
<1>6. CASE UNCHANGED vars
  <2>1. UNCHANGED <<store, wal, walBuf, spdb, pc>>
    BY <1>6 DEF vars, memory, disk, control
  <2>2. Ground' = Ground
    BY <2>1 DEF Ground
  <2> QED
    BY <2>1, <2>2, SameLine
<1> QED
  BY <1>1, <1>2, <1>3, <1>4, <1>5, <1>6 DEF Next

LEMMA InitImplements == Init => Durable!Init /\ BufferBounded
<1> SUFFICES ASSUME Init
             PROVE  Durable!Init /\ BufferBounded
  OBVIOUS
<1>1. pc = "down" /\ store = EmptyStore /\ wal = <<>> /\ walBuf = <<>> /\ Ground = EmptyStore
  BY DEF Init, Ground
<1>2. EmptyStore \in Stores /\ wal \in Seq(Patches)
  BY <1>1, FrameTypes
<1>3. Line = <<Replay(EmptyStore, <<>>)>>
  BY <1>1, <1>2, ShortLine DEF Line
<1>4. Line = <<EmptyStore>>
  BY <1>2, <1>3, ReplayEmpty
<1> QED
  BY <1>1, <1>4 DEF Durable!Init, BufferBounded

\* There, between two calls, wal_buf has room for one frame more.
THEOREM BufferRoom == ASSUME SafeConfig PROVE Spec => []BufferBounded
<1>1. DurabilityInv /\ [Next]_vars => DurabilityInv'
  BY DurabilityStep
<1>2. DurabilityInv /\ BufferBounded /\ [Next]_vars => BufferBounded'
  BY BufferStep
<1> QED
  BY <1>1, <1>2, DurabilityInit, InitImplements, PTL DEF Spec

\* In the configurations SafeConfig describes, the engine implements the
\* durable map: an acknowledged write is at risk only while the buffer of
\* wal_buffering holds it, a crash goes back to a map the database has been,
\* and no compaction, merge or asynchronous job ever shows (engine.rs).
THEOREM Refinement == ASSUME SafeConfig PROVE Spec => ImplementsDurableMap
<1>1. DurabilityInv /\ [Next]_vars => DurabilityInv'
  BY DurabilityStep
<1>2. DurabilityInv /\ BufferBounded /\ [Next]_vars => BufferBounded'
  BY BufferStep
<1>3. DurabilityInv /\ DurabilityInv' /\ BufferBounded /\ [Next]_vars
      => [Durable!Next]_<<pc # "down", store, Line>>
  BY StepsImplement
<1> QED
  BY <1>1, <1>2, <1>3, DurabilityInit, InitImplements, PTL
     DEF Spec, ImplementsDurableMap, Durable!Spec
=============================================================================
