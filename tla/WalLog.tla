------------------------------- MODULE WalLog -------------------------------
(***************************************************************************)
(* The write-ahead log of the native engine when the file system fails:    *)
(* wal_append, wal_append_batch, wal_flush, open_wal and reset_wal of      *)
(* crates/core/src/engine.rs, in both formats: the frames of formats.rs    *)
(* (header, LSN, CRC; replay stops at the first bad frame) and the lines   *)
(* of json_compat.rs (a bad line is skipped).                              *)
(*                                                                         *)
(* A write may fail after any part of the buffer has reached the file, or  *)
(* after all of it (a failed sync).  The call returns an error, the buffer *)
(* keeps its frames and the next flush writes all of them again.  The      *)
(* snapshot is one file, replaced in one step, and there are no backups;   *)
(* SpectreEngine has its steps.  walOps > 0 whenever a key is dirty, so    *)
(* the dirty sets add nothing to the condition of close.                   *)
(***************************************************************************)
EXTENDS WalReplay, FiniteSets

CONSTANTS
    Modes,      \* the formats: a subset of {"v2", "json"}
    Batches,    \* the frames of the batches that occur
    NoHead,     \* the file does not begin with a header
    CutHead,    \* it begins with a part of one
    FlushAt,    \* frames that fill wal_buf; 1: no wal_buffering
    MaxLog,     \* bound: frames and parts of them in file and buffer after a write
    MaxLsn,     \* bound: last_lsn when a write begins
    MaxFails    \* bound: writes that fail

ASSUME LogAssumption ==
    /\ Modes \subseteq {"v2", "json"}
    /\ Batches \subseteq Patches
    /\ NoHead \notin Nat /\ CutHead \notin Nat
    /\ {FlushAt, MaxLog, MaxLsn, MaxFails} \subseteq Nat

VARIABLES
    \* memory
    mode,      \* Engine.mode
    store,     \* Engine.store
    walBuf,    \* Engine.wal_buf
    walOps,    \* Engine.wal_ops
    lastLsn,   \* Engine.last_lsn
    opened,    \* Engine.wal_file is Some
    \* files
    head,      \* the header of the log: its base_lsn
    log,       \* what follows it
    snap,      \* the snapshot
    \* control
    pc,        \* "down", "idle", or "reset": between the new snapshot and reset_wal
    call,      \* the call at "reset": "compact" or "close"
    \* history
    logical,     \* the map of all frames given to the log
    promised,    \* the maps a recovery may return
    batchFailed, \* a batch has failed since the log was reset
    sent,        \* how far into the buffer a failed flush has got
    rewound,     \* the last failed flush did not get as far as one before it
    fails        \* writes that have failed

memory  == <<store, walBuf, walOps, lastLsn, opened>>
files   == <<head, log, snap>>
history == <<logical, promised, batchFailed, sent, rewound, fails>>
vars    == <<mode, memory, files, pc, call, history>>

\* A frame as it is in the file: whole, cut, or (a line) without its newline.
Ends   == {"whole", "cut", "eol"}
Pieces == [lsn : Nat, patch : Patches, end : Ends]

TypeOK ==
    /\ mode \in Modes
    /\ store \in Stores
    /\ walBuf \in Seq(Pieces)
    /\ walOps \in Nat
    /\ lastLsn \in Nat
    /\ opened \in BOOLEAN
    /\ head \in Nat \cup {NoHead, CutHead}
    /\ log \in Seq(Pieces)
    /\ snap \in Stores
    /\ pc \in {"down", "idle", "reset"}
    /\ call \in {"none", "compact", "close"}
    /\ logical \in Stores
    /\ promised \subseteq Stores
    /\ batchFailed \in BOOLEAN
    /\ sent \in Nat
    /\ rewound \in BOOLEAN
    /\ fails \in 0..MaxFails

-----------------------------------------------------------------------------
(* Reading a log back.                                                     *)

\* replay_wal: without its header the file is read as one of version 2.0, in
\* which no frame of version 3 passes its CRC; otherwise up to the first bad one.
ReadableFrames ==
    IF head \in Nat THEN {i \in DOMAIN log : \A j \in 1..i : log[j].end = "whole"}
                    ELSE {}

\* decode_json_wal: a line that begins with the rest of another is not JSON;
\* the last line needs no newline.
ReadableLines ==
    {i \in DOMAIN log :
        /\ i = 1 \/ log[i - 1].end = "whole"
        /\ log[i].end = "whole" \/ (log[i].end = "eol" /\ i = Len(log))}

Read == IF mode = "v2" THEN ReadableFrames ELSE ReadableLines

Recovered == Overlay(snap, [i \in DOMAIN log |-> log[i].patch], Read)

\* WalReplay.last_lsn: the highest LSN of the frames read, or 0.
ReplayLsn == IF Read = {} THEN 0 ELSE Latest({log[i].lsn : i \in Read})

\* Mutant: the frames of the log are not counted.
LsnAfterLoadBase == IF mode = "v2" /\ head \in Nat THEN head ELSE 0

\* load_state adds the LSN of the last frame, which already counts from the
\* beginning, to the base of the header.
LsnAfterLoad ==
    IF mode = "v2" /\ head \in Nat THEN head + ReplayLsn ELSE 0

\* A header written at the front of an empty log, or as much of it as arrives;
\* the lines of JSON have none.
Headers(lsn) == IF mode = "v2" THEN {lsn} ELSE {NoHead}
CutHeaders   == IF mode = "v2" THEN {NoHead, CutHead} ELSE {}

\* load_state and open_wal, which writes a header into an empty file and does
\* not look whether it got there.
Open ==
    /\ pc = "down"
    /\ pc' = "idle"
    /\ store' = Recovered
    /\ walOps' = Cardinality(Read)
    /\ lastLsn' = LsnAfterLoad
    /\ opened' = TRUE
    /\ \/ /\ head' \in IF head = NoHead /\ log = <<>> THEN Headers(LsnAfterLoad) ELSE {head}
          /\ UNCHANGED fails
       \/ /\ head = NoHead /\ log = <<>>
          /\ fails < MaxFails
          /\ head' \in CutHeaders
          /\ fails' = fails + 1
    /\ logical' = Recovered
    /\ promised' = {Recovered}
    /\ UNCHANGED <<mode, walBuf, log, snap, call, batchFailed, sent, rewound>>

-----------------------------------------------------------------------------
(* wal_flush of the frames b, after which the log stands for m.            *)

FlushSucceeds(b, m) ==
    /\ opened
    /\ log' = log \o b
    /\ walBuf' = <<>>
    /\ promised' = {m}
    /\ sent' = 0
    /\ rewound' = FALSE
    /\ UNCHANGED fails

\* What a failed write of b leaves in the file: n frames whole, and perhaps a
\* part of the next.  n = Len(b) is a sync that fails.
Arrives(b, n, end) ==
    /\ end # "whole" => n < Len(b)
    /\ end = "eol" => mode = "json"
    /\ log' = log \o SubSeq(b, 1, n) \o
              (IF end = "whole" THEN <<>> ELSE <<[b[n + 1] EXCEPT !.end = end]>>)

\* Mutant: the buffer is cleared whatever the write returned.
FlushFailsClearing(b, m) ==
    /\ walBuf' = <<>>
    /\ promised' = promised \cup {m}
    /\ \/ /\ ~opened
          /\ UNCHANGED <<log, sent, rewound, fails>>
       \/ /\ opened
          /\ fails < MaxFails
          /\ fails' = fails + 1
          /\ \E n \in 0..Len(b), end \in Ends : Arrives(b, n, end)
          /\ UNCHANGED <<sent, rewound>>

\* The buffer keeps its frames.  Without a file, nothing arrives.
FlushFails(b, m) ==
    /\ walBuf' = b
    /\ promised' = promised \cup {m}
    /\ \/ /\ ~opened
          /\ UNCHANGED <<log, sent, rewound, fails>>
       \/ /\ opened
          /\ fails < MaxFails
          /\ fails' = fails + 1
          /\ \E n \in 0..Len(b), end \in Ends :
                /\ Arrives(b, n, end)
                /\ sent' = IF n > sent THEN n ELSE sent
                /\ rewound' = (n < sent)

\* wal_append, wal_append_batch: the frame goes into the buffer, which is
\* flushed when it is full; ok is what the caller is told.
LogFrame(f, ok) ==
    LET lsn == IF mode = "v2" THEN lastLsn + 1 ELSE 0
        b   == Append(walBuf, [lsn |-> lsn, patch |-> f, end |-> "whole"])
        m   == ApplyPatch(logical, f)
    IN  /\ pc = "idle"
        /\ Len(log) + Len(b) <= MaxLog
        /\ lastLsn <= MaxLsn
        /\ lastLsn' = lsn
        /\ walOps' = walOps + 1
        /\ logical' = m
        /\ IF Len(b) < FlushAt
           THEN /\ ok
                /\ walBuf' = b
                /\ promised' = promised \cup {m}
                /\ UNCHANGED <<log, sent, rewound, fails>>
           ELSE IF ok THEN FlushSucceeds(b, m) ELSE FlushFails(b, m)
        /\ UNCHANGED <<mode, opened, head, snap, pc, call>>

\* Mutant: the store is replaced by what is written.
WriteReplacing(f, ok) ==
    /\ LogFrame(f, ok)
    /\ store' = f
    /\ UNCHANGED batchFailed

\* Mutant: set logs first.
WriteLogging(f, ok) ==
    /\ LogFrame(f, ok)
    /\ store' = IF ok THEN ApplyPatch(store, f) ELSE store
    /\ UNCHANGED batchFailed

\* set, delete and clear change the store before they log.
Write(f, ok) ==
    /\ LogFrame(f, ok)
    /\ store' = ApplyPatch(store, f)
    /\ UNCHANGED batchFailed

Set(k, v, ok) == Write(SetFrame(k, v), ok)
Delete(k, ok) == store[k] # Absent /\ Write(DelFrame(k), ok)
Clear(ok)     == Write(ClearFrame, ok)

\* batch logs before it changes the store.  If it fails the store is left as
\* it was, and the frame in the buffer.
Batch(f, ok) ==
    /\ LogFrame(f, ok)
    /\ store' = IF ok THEN ApplyPatch(store, f) ELSE store
    /\ batchFailed' = (batchFailed \/ ~ok)

-----------------------------------------------------------------------------
(* compact and close: flush, snapshot, reset_wal.                          *)

Begin(op) ==
    /\ pc = "idle"
    /\ op = "close" => walOps > 0
    /\ IF walBuf = <<>>
       THEN UNCHANGED <<walBuf, log, sent, rewound, fails>> /\ promised' = {logical, store}
       ELSE /\ opened
            /\ log' = log \o walBuf
            /\ walBuf' = <<>>
            /\ promised' = {logical, store}
            /\ sent' = 0
            /\ rewound' = FALSE
            /\ UNCHANGED fails
    /\ snap' = store
    /\ pc' = "reset"
    /\ call' = op
    /\ UNCHANGED <<mode, store, walOps, lastLsn, opened, head, logical, batchFailed>>

\* The flush fails, and with it compact or close.
BeginFails ==
    /\ pc = "idle"
    /\ walBuf # <<>>
    /\ FlushFails(walBuf, logical)
    /\ UNCHANGED <<mode, store, walOps, lastLsn, opened, head, snap, pc, call,
                   logical, batchFailed>>

Down ==
    /\ pc' = "down"
    /\ call' = "none"
    /\ store' = EmptyStore
    /\ walBuf' = <<>>
    /\ walOps' = 0
    /\ lastLsn' = 0
    /\ opened' = FALSE
    /\ logical' = EmptyStore
    /\ batchFailed' = FALSE
    /\ sent' = 0

\* Mutant: the file is opened without being truncated.
ResetWalAppending ==
    /\ pc = "reset"
    /\ UNCHANGED log
    /\ head' \in Headers(lastLsn)
    /\ promised' = {store}
    /\ rewound' = FALSE
    /\ IF call = "close" THEN Down
       ELSE /\ pc' = "idle"
            /\ call' = "none"
            /\ walOps' = 0
            /\ opened' = TRUE
            /\ logical' = store
            /\ batchFailed' = FALSE
            /\ UNCHANGED <<store, walBuf, lastLsn, sent>>
    /\ UNCHANGED <<mode, snap, fails>>

\* reset_wal: truncate and write a header with the LSN reached.
ResetWal ==
    /\ pc = "reset"
    /\ log' = <<>>
    /\ head' \in Headers(lastLsn)
    /\ promised' = {store}
    /\ rewound' = FALSE
    /\ IF call = "close" THEN Down
       ELSE /\ pc' = "idle"
            /\ call' = "none"
            /\ walOps' = 0
            /\ opened' = TRUE
            /\ logical' = store
            /\ batchFailed' = FALSE
            /\ UNCHANGED <<store, walBuf, lastLsn, sent>>
    /\ UNCHANGED <<mode, snap, fails>>

\* The truncation fails, and the engine has no log file any more.
ResetOpenFails ==
    /\ pc = "reset"
    /\ fails < MaxFails
    /\ fails' = fails + 1
    /\ opened' = FALSE
    /\ pc' = "idle"
    /\ call' = "none"
    /\ UNCHANGED <<mode, store, walBuf, walOps, lastLsn, files, logical, promised,
                   batchFailed, sent, rewound>>

\* The header does not arrive, or not whole.  wal_ops keeps its count.
ResetHeadFails ==
    /\ pc = "reset"
    /\ fails < MaxFails
    /\ fails' = fails + 1
    /\ log' = <<>>
    /\ head' \in CutHeaders
    /\ promised' = {store}
    /\ rewound' = FALSE
    /\ logical' = store
    /\ batchFailed' = FALSE
    /\ opened' = TRUE
    /\ pc' = "idle"
    /\ call' = "none"
    /\ UNCHANGED <<mode, store, walBuf, walOps, lastLsn, snap, sent>>

\* close with nothing to replay.
CloseIdle ==
    /\ pc = "idle"
    /\ walOps = 0
    /\ walBuf = <<>> \/ opened
    /\ log' = log \o walBuf
    /\ Down
    /\ UNCHANGED <<mode, head, snap, promised, rewound, fails>>

\* The process dies.
Crash ==
    /\ pc # "down"
    /\ Down
    /\ UNCHANGED <<mode, files, promised, rewound, fails>>

-----------------------------------------------------------------------------

Init ==
    /\ mode \in Modes
    /\ store = EmptyStore
    /\ walBuf = <<>>
    /\ walOps = 0
    /\ lastLsn = 0
    /\ opened = FALSE
    /\ head = NoHead
    /\ log = <<>>
    /\ snap = EmptyStore
    /\ pc = "down"
    /\ call = "none"
    /\ logical = EmptyStore
    /\ promised = {EmptyStore}
    /\ batchFailed = FALSE
    /\ sent = 0
    /\ rewound = FALSE
    /\ fails = 0

Next ==
    \/ Open
    \/ \E ok \in BOOLEAN :
          \/ \E k \in Keys, v \in Values : Set(k, v, ok)
          \/ \E k \in Keys : Delete(k, ok)
          \/ Clear(ok)
          \/ \E f \in Batches : Batch(f, ok)
    \/ \E op \in {"compact", "close"} : Begin(op)
    \/ BeginFails
    \/ ResetWal
    \/ ResetOpenFails
    \/ ResetHeadFails
    \/ CloseIdle
    \/ Crash

Spec == Init /\ [][Next]_vars

-----------------------------------------------------------------------------
(* Properties.                                                             *)

\* A frame that has arrived whole is not read back: it is behind a part of
\* another, or of a header.
Shadowed == \E i \in DOMAIN log : log[i].end # "cut" /\ i \notin Read

\* Retried flushes, in whole or in part, never give a key a value it was not
\* acknowledged or in flight to have, whatever copies of frames they leave in
\* the log (wal_flush, replay_wal, decode_json_wal).
AckedKeys ==
    pc = "down" /\ ~Shadowed =>
        \A k \in Keys : \E m \in promised : Recovered[k] = m[k]

\* And recovery finds one of the promised maps, no half of a batch in it,
\* unless the last of several failed flushes stopped short of an earlier one,
\* whose later frames its copies then undo.
AckedMaps == pc = "down" /\ ~Shadowed /\ ~rewound => Recovered \in promised

\* What the caller reads is what the log will say, except that a batch that has
\* failed stays in the buffer, and will come into being at a later restart
\* (batch against set, delete and clear).
LiveAgrees == pc = "idle" => store = logical \/ batchFailed

\* A frame is known by its LSN: over restarts, retries and resets no two frames
\* that can be read from one log or are about to join them share one, and the
\* next LSN is above all of them (wal_append, load_state, reset_wal).
LsnNamesFrame ==
    LET frames == {log[i] : i \in ReadableFrames} \cup {walBuf[i] : i \in DOMAIN walBuf}
    IN  mode = "v2" =>
            /\ \A p, q \in frames : p.lsn = q.lsn => p = q
            /\ pc = "idle" => \A p \in frames : p.lsn <= lastLsn

\* However many writes have failed, whatever is cut or shadowed in the log: if
\* close succeeds the next open finds the store as it was left.
CloseDurable ==
    [][(ResetWal /\ call = "close") \/ CloseIdle => Recovered' = store]_vars

=============================================================================
