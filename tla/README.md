# A TLA+ verification of spectre.db

spectre.db is an embedded key-value database for Node.js: a storage engine in Rust
(`src/crates/core`), bound to JavaScript by `src/crates/napi`, a facade (`src/index.js`)
and a complete second engine in JavaScript (`src/fallback`) for platforms without the
native module. This directory models the parts whose correctness depends on the order
of steps, checks them with TLC and proves what matters most with TLAPS.

## 1. The system

| Part | State | Operations | Interacts with |
|---|---|---|---|
| engine core, `engine.rs` | `store`, `dirty`, `dirty_all`, `wal_buf`, `wal_ops`, `manifest`, `next_seg_id`, `mode`, LSNs; files `.spdb`, `.spdb.N.bak`, `.spwal`, `.spseg-*`, `.spman` | `open`, `set`, `delete`, `clear`, `batch`, `compact`, `prepare_compact`/`finish_compact`, `migrate`, `close` | store, formats, index, lock |
| wire formats, `formats.rs`, `json_compat.rs` | none | encode and decode snapshots, log frames, manifests; `replay_wal`, `apply_ops` | engine |
| hierarchical store, `store.rs` | an ordered map and a hash map of dotted keys | `set`, `get` (materialises an ancestor), `delete` (with descendants, or inside an ancestor's JSON), `clear`, scans | engine, index |
| secondary index, `index.rs` | `tree` (value to keys) and `reverse` (key to value and position) | `build`, `insert_parsed_key`, `remove_key`, `lookup`, `range` | engine, store |
| backups and formats, `engine.rs` | `mode`, `.spdb.N.bak`, `.snapshot.N.bak`, which files exist | `rotate_backups`, `restore_from_backup`, `migrate`, format detection in `open` | engine, crypto |
| file lock, `lock.rs`, `fallback/src/storage/lock.js` | the lock file and its pid | `acquire` (poll, stale takeover, timeout), `release` | every process that opens the database |
| napi binding, `napi/src/lib.rs` | the engine behind a Mutex, one `CompactTask` per `compactAsync` | one locked call per method; `compute` on a worker thread, `resolve` on the main thread | engine |
| facade, `index.js` | `_closed`, options, event listeners | the public API, chunked bulk writes, scans by page | napi binding or fallback |
| fallback engine, `fallback/src/core/engine.js` | `_store`, `_walOps`, the WAL file, a promise queue | synchronous `set`, queued log appends, `transaction`, `_compact`, `close` | queue, WAL, backup, cache, lock |
| fallback cache | LRU list, map, key index | `get`, `set` with a TTL, `invalidate` by key, prefix and ancestors | fallback engine |
| crypto, validator, path names, errors, events | none that a protocol depends on | pure functions | all |

What is hard here: a process that dies between two renames of a compaction; the order in
which segments, snapshot and log are loaded; a job prepared under the mutex and finished
after other compactions; a log appended to behind a torn frame; several processes that
judge one lock file stale; a write that fails after half of it has arrived, and is tried
again; two sets of files between which a migration moves; a promise queue that only half
the operations go through.
`PROJECT.json` lists the hazards at their lines, with the properties that cover them or
the reason why none does.

What makes each part correct:

- engine: no acknowledged write is lost and no deleted key comes back, whatever crash or
  compaction happens; the files and the live store never disagree; the backups keep the
  newest snapshot; `close` leaves nothing to replay. All of it together: the database is
  one durable map, with a bounded number of writes at risk.
- log: a failed write and its retry give no key a value it never had; two frames never
  share an LSN; a `close` that succeeds has saved everything.
- formats and backups: the next open finds the format that was used and what was
  acknowledged in it; the backups are the past snapshots in order, each readable.
- lock: at most one process owns the database; a live owner is never deposed; a waiting
  process owns the lock or times out.
- store: no key is the ancestor of another; reads do not change what a scan shows; replay
  of the log rebuilds the store.
- index: `lookup` and `range` answer what a scan of the store would.
- fallback: files and queue together make up the store, at every step of a compaction
  among calls; the cache never returns what the store no longer holds; `close` ends, and not
  before the jobs queued when it was called.

## 2. Modules

| Module | What it is |
|---|---|
| `WalReplay` | Frames, segments and snapshots as *patches* on a total map from keys to values; `Replay` is `replay_wal` followed by `apply_ops`. |
| `SpectreEngine` | The v2 engine: memory, files, every step of a call that touches them, crashes, recovery; and its properties. |
| `SpectreEngineInv` | The inductive invariants behind the durability of `SpectreEngine`: with segments, in legacy mode, and of the backups. |
| `DurableMap` | What the engine promises: one map, a bounded line of writes at risk, crashes that keep one of them. |
| `DurableEngine` | `SpectreEngine` as a `DurableMap`: the refinement mapping. |
| `MCEngine` | `DurableEngine` for TLC; the two keys are interchangeable. |
| `WalLog` | The log of both formats when writes fail: buffer, retries, headers, LSNs. |
| `WalLogInv` | Its inductive invariant: what retries may leave in the file. |
| `MCWal` | `WalLog` for TLC. |
| `EngineFormats` | The two sets of files: detection, migration, backups, their encryption, restore. |
| `EngineFormatsInv` | Its inductive invariant: what every step of a rewrite or a migration leaves in the files. |
| `MCFormats` | `EngineFormats` for TLC. |
| `FallbackEngine` | The JavaScript engine: store, cache, queue, log, transactions, close. |
| `FallbackEngineInv` | Its inductive invariant: which of log, snapshot and queue stands for a key. |
| `MCFallback` | `FallbackEngine` for TLC. |
| `FileLock` | The lock file of the native and of the fallback engine, system call by system call. |
| `MCLock` | `FileLock` for TLC. |
| `PathTree` | JSON values as sets of entries, and the operations of `store.rs` on leaves under dotted keys. |
| `PathDocument` | What these operations promise: one JSON document. |
| `PathStore` | The engine over dotted keys: leaves, dirty keys, snapshot, segments, log, recovery; implements `PathDocument`. |
| `MCPaths` | `PathStore` on small sets of keys and values. |
| `SecondaryIndex` | Buckets of keys and the place of each key in its bucket. |
| `IndexedStore` | The store of `PathTree` and one index of it: which keys the engine tells the index of. |
| `MCIndex` | `IndexedStore` on a small instance. |
| `WalReplay_proofs` | Theorems about replay. |
| `SpectreEngine_proofs` | Types, durability and backups of the engine; what legacy mode keeps through torn writes; that the engine implements `DurableMap`. |
| `WalLog_proofs` | What failing writes and their retries leave. |
| `EngineFormats_proofs` | Acknowledged writes, detection, backups and restore through compactions and migrations. |
| `FallbackEngine_proofs` | Files, queue and cache of the fallback. |
| `PathStore_proofs` | What each operation does to leaves and document; without segments, that the store implements `PathDocument`. |
| `FileLock_proofs` | Theorems about the lock. |
| `IndexedStore_proofs` | That buckets and places of the index agree, and that lookups answer what a scan would. |

### WalReplay and SpectreEngine

Data. Keys are undotted and none is the ancestor of another, so `store.rs` is a map. A
log frame, whatever operations it holds, is abstracted to its effect: for each key the
value it leaves, `Absent` for a deletion, `Keep` when it does not touch it. A segment is
such a patch too (its tombstone is `Absent`), a snapshot is a store. A manifest entry's
CRC is the content it was computed from, so a segment overwritten by another of the same
name fails its CRC, as in the code. `Torn` is a frame whose bytes are cut short.

Control. Calls run one at a time under the Mutex of the binding. A call that writes
several files is a sequence of steps and `pc` says which comes next:

| `pc` | Where the code is |
|---|---|
| `down` | no process has the database open |
| `idle` | between two calls |
| `flush` | in `wal_flush`, before `write_all` |
| `run` | in `compact`, `close` or `prepare_compact`, the log flushed |
| `rotate` | in `rotate_backups`, `rot` renames to go |
| `snap` | in `compact_legacy`, before the rename of the new `.spdb` |
| `reset` | after it, before `reset_wal` |
| `purge` | full merge: removing the merged segments, then the manifest |
| `segman` | delta: the segment file is there, the manifest is not |
| `dropsegs`, `commit` | `finish_compact`: the same for an asynchronous job |
| `closing` | `close` has compacted and is about to release everything |

`Crash` can happen at `idle` and at every `pc` in `CrashAt`; inside a flush
`CrashInFlush` lets any number of whole frames reach the file and, with `TornWrites`, a
part of the next. Memory is lost, files keep what was written to them: this is the death
of the process, not of the machine (no page cache is modelled, so `durability` makes no
difference here). `Open` is `load_state` in the order of the code: segments, snapshot
over them, log.

`promised` is a history variable: the maps a recovery may return. It holds the last
acknowledged map, plus those of writes in flight or still in the buffer of
`walBuffering`, whose loss the documentation allows. `lastSnap` is the newest snapshot
ever completed.

Constants choose a configuration: `CompactMode`, `LegacyThreshold`, `MergeEvery`,
`BackupCount`, `FlushAt` (frames that fill the buffer; 1 is no buffering), `Jobs` (slots
for `compactAsync` promises). `MaxWal` bounds the frames in log and buffer, `MaxSeg` the
segment ids and generations; both are guards, of new writes and of new compactions.

### DurableMap and DurableEngine

`DurableMap` has three variables and no file: `up`, `view` (what reads see) and `line`, the
maps the database has been since it last was durable. A write adds a map at the end
(`Change`), a flush or a compaction drops all but the last (`Settle`), a crash keeps any
one of them, a close requires that there is only one. At most `Buffer` writes are at risk.
In `DurableEngine`, `view` is the store and `line` the log replayed over its ground, and
then once more for each frame of `wal_buf`; `Buffer` is `FlushAt`. Everything else the
engine does, from the rotation of a backup to the commit of an asynchronous job, must be a
stutter, and what `open` builds from the files must be the map that was durable.

### WalLog

`SpectreEngine` has writes that succeed or tear at a crash. `WalLog` has a process that
goes on after a write has failed: any number of frames has arrived, then perhaps a part of
one (or, in JSON, a line without its newline), the caller gets an error, and the buffer
keeps all of it and is written again in full by the next flush. `log` holds these pieces,
each with the LSN and the effect of its frame; `ReadableFrames` and `ReadableLines` are what
`replay_wal` and `decode_json_wal` make of them, which differ: the one stops at the first
bad frame, the other skips a bad line together with the one it has run into. `head` is the
header of the v2 log, which may be missing or cut when `reset_wal` or `open_wal` fails to
write it; without it no frame is read. `LsnAfterLoad` adds the base of the header to an LSN
that already counts from the beginning, as `load_state` does.

History variables: `logical` is the map of all frames given to the log, `promised` the maps
a recovery may return, `batchFailed`, `sent` and `rewound` describe failures (below).
`MaxLog`, `MaxLsn` and `MaxFails` are guards of new writes and of failures.

### EngineFormats

Each format has a snapshot, a log and `BackupCount` backups; v2 may have a manifest. A
compaction is the sequence of steps of `compact_legacy` (`pc` = `rotate`, `write`, `encrypt`,
`reset`) and a migration goes on with `manifest`, `oldsnap`, `oldlog`; the process may die
between any two. A backup is a map and the number of times it has been encrypted, and
`Opens` says what `read_backup_file` needs: exactly one layer under `encryptBackups`, none
otherwise. `Migrate` changes `mode` before anything is written, as the code does; `logOf` is
the file that is still open. `Damage` lets the snapshot rot while no process runs. A frame
carries the format it is encoded in, since a migration that fails leaves an open log in
one format and an engine that writes in the other (`Decodable`).

`windows` and `rotated` are history variables: the moments the code leaves open, in which
the files do not hold everything. `completed` is the list of past snapshots, newest first.

### FallbackEngine

The event loop runs one callback at a time; between two steps of a queued job any call may
come. `queue` is the promise chain of `WriteQueue`: appends, compactions and transactions;
`step` is how far its first job has come. `Set` and `Clear` change store and cache at
once and queue an append. `delete()` and `transaction()` first wait at `_ensureReady`
(engine.js:433, 535) and do not ask again whether the database is open: `Call` puts them into
`calls`, `Delete`, `DeleteNothing` and `PushTx` go on, in their order, perhaps after `close()` has
looked at the queue. A compaction takes the store as it is after `rotateBackups`
(`RotateSerialize`), and calls go on until it has renamed the snapshot and truncated the log.
A transaction is a job whose function changes the store directly (`TxChange`), and ends
in `Commit`, which logs nothing because the operations are collected in a local array, or
in `Rollback`, which puts back the whole store of its beginning. `AwaitJob` is a function
that awaits a compaction, a save or another transaction, all of which are queued behind it.

The cache is the list of entries by last use, each with what the store held at its key; `Get`
may find an entry, or go past it, so an entry may expire at any time. `CacheIndex` is the
relation of prefixes it indexes.

A write to the log leaves a line, a line that lacks its newline (`BareLine`), a piece that no
reader can parse (`CutLine`), or nothing and an error: `append` does not look at
`bytesWritten`, so a short write counts as success (`AppendShort`), and a crash may cut the line
as well. `Lines` is what `_replayWAL` makes of them: a last line needs no newline, but the line
that is appended to it, after a restart or not, runs into it and then neither parses
(`Spoilt`).

`loose` and `late` are history variables. `loose` are the keys that files and queue do not
account for, because a transaction or a rollback changed them, or their append failed, was cut,
or is one of two lines that run into each other. `late` is how many jobs of the queue, the last
ones, were pushed after `close()` had begun. `MaxQueue`, `MaxLog` and `MaxCalls` are guards of
calls, `MaxFails` of writes that fail, end short or are cut.

### FileLock

Every process of `Procs` may open the database, native ones and those in `Fallback`. `pc`
says where it is in `acquire`: `create` (the exclusive open), `write` (its file is there,
still blank), `look` (the file exists: read it), `probe` (is the pid alive?), `remove`
(it is not), `wait` (sleep or time out), `own`. Between two of these are system calls, so
other processes may run there, or the process end (`DieAt`). The lock file is the process
that created it and whether its pid is in it; at first there is none, or one of a
`Stranger` that ended long ago.

The system calls may fail (`Fails`): the pid cannot be written (`PidFails`: an error, and the
file stays), a stale file not be removed (`RemoveFails`: the native lock tries again at once,
without clock or sleep), the own file not be removed at release (`ReleaseFails`: ignored).

The two engines differ in four places. A blank file is left alone by the native lock; the
fallback calls `process.kill(NaN, 0)`, which throws, and removes it. A process that may not be
signalled (`Protected`) is alive for the native lock, dead for the fallback. A file that is gone
when it is to be removed, or cannot be removed, sends the native lock back to `create`, the
fallback to `wait`.

`deposed` is a history variable: the file of a process that held it, at `write` or `own`, was
removed by another in a takeover. So is `abandoned`: the creator of the file ended or failed
while it wrote its pid, or failed to remove it. `Polls` bounds the sleeps of one `acquire`; the
timeout may come at any of them, and must come at the last.

### PathTree, PathDocument, PathStore

A dotted key is a sequence of segments. A JSON value is flattened to the set of its
scalars, each with its path inside the value; an empty object is a scalar of its own,
because an enumeration does not show it but `get` does; an array is a scalar. A store maps
the keys of its leaves to values. The same document may be one leaf `a` = `{"b":1,"c":2}`
or two leaves `a.b` and `a.c`, and reading changes one into the other: `get('a')` joins
the leaves below `a` and leaves the object in their place (`AfterGet`). Nothing is logged,
so a recovered store is cut in another way than the one that was lost.

A v2 snapshot keeps the leaves; a JSON one joins them into one document (`Joined`) and is
read back as a leaf for every scalar (`Flattened`), the finest of all cuts.

`PathStore` has the engine's files at the grain of whole calls: `SpectreEngine` has every
step of a compaction but keys none of which is above another, and here it is the other
way round. `Rewrite` is a full rewrite or a full merge, `Delta` a segment, whose reading of
the dirty keys joins leaves as well. `DeltaShared` is the segment of a background job, which
asks `get_shared`: it takes the leaf at a dirty key alone and writes a tombstone for a key
that is a member of a leaf or a parent of leaves, and joins nothing; that the log is not
cut with it is what keeps such a segment harmless. `Recovered` is `load_state`: every file is read entry
by entry with `store.set`, segments and snapshot are laid over each other with
`raw_insert`, the log is applied with `set` and `delete`. A tombstone is a value that is not
JSON: `Pave` is what `mutate_object_leaf` does with it. `MaxLog` bounds the operations in
the log and is a guard of writes.

`PathDocument` is the abstract specification. `document` is `All(leaves)`, and
`ImplementsDocument` is the refinement, call by call: `Set(k, v)` is
`SetDocument(k, v)`, not just any step of the document, and reads, compactions and
restarts are stutters.

### SecondaryIndex and IndexedStore

`tree` is a bucket (a sequence of keys) for every indexed scalar, `reverse` the bucket and
place of every indexed key. `RemoveKey` moves the last key of the bucket into the gap and
corrects its place; its search for a key that is not at its place is modelled although
`Matched` says it never runs. `IndexedStore` adds the calls of the engine, one after the other
(`InsertAll`): `Touch` is
`index_touch`, which re-indexes the leaf at the key or the ancestor that holds it, or
forgets the key; a delete forgets the descendants first; a batch collects keys and tells
the index once at the end; `Get` tells it nothing. `disturbed` is a history variable: a set
or a read has dissolved leaves since the index was created.

## 3. What TLC checks

The runs of the engine have two keys (one in `durable`) and one value, so a key is either
absent or present: enough to tell a lost write and a resurrected key, the two ways in which
these properties fail, and, with two keys, a batch of which half is there.

| Run | Configuration | Checks |
|---|---|---|
| `legacy` | full rewrites, 2 backups, a buffer of 2 frames, a log of 2, torn writes, one `compactAsync`, a crash at every step | `AckedRepairable`, `LegacyInv`, `NewestSnapshotKept`, `CleanShutdown` |
| `segments` | deltas, merge at the third, one `compactAsync`, 2 segment ids and generations, a log of 2, a crash in every flush, after a snapshot and around every manifest | `TypeOK`, `SegmentsRedundant`, `AckedDurable`, `LiveIsRecoverable`, `DurabilityInv` |
| `durable` | the `segments` configuration with one key and a buffer of 2 frames; a crash at those steps and amid the removal of segments by an asynchronous full merge | `BufferBounded`, `ImplementsDurableMap` |
| `wal` | both formats, a buffer of 2 frames, 3 pieces in file and buffer, 2 failures, batches over both keys | `TypeOK`, `AckedKeys`, `AckedMaps`, `LiveAgrees`, `LsnNamesFrame`, `CloseDurable`, `LogInv` |
| `formats` | one key and two values, 2 backups, a log of 2, 3 compactions or opens with an explicit format, one rotten snapshot, one failing write; plain, and encrypted and compressed | `TypeOK`, `AckedKept`, `AutoFindsFormat`, `BackupsInOrder`, `RestoreKeepsLog`, `FormatsInv` |
| `fallback` | keys `a` and `a.b`, a cache of one entry, 3 jobs in the queue, one call that waits to begin, a log of 2 lines, one write that fails, ends short or is cut | `TypeOK`, `CacheCoherent`, `NothingMissing`, `QuietWhenClosed`, `CloseEnds`, `FallbackInv` |
| `snapshot_window` | a crash between rotation and rename | `AckedDurable`, violated |
| `torn_tail` | a torn write, then more writes | `AckedDurable`, violated |
| `auto_mode` | the automatic mode, the store shrinking; no crash inside a call | `AckedDurable`, violated |
| `lock` | two native processes and one of the fallback, each of which may open again, may end anywhere, and may fail to write its pid or to remove a file; the fallback may not signal one of the others | `SoleOwner`, `OwnerNamed`, `NoOrphan`, `AcquireEnds` |
| `paths` | both formats; keys `a`, `a.b`, `a.c`; a scalar and an object; two batches; merge at the third segment; a log of 3 | `NoNesting`, `GetAnswers`, `RecoversDocument`, `ImplementsDocument` |
| `index` | keys `a`, `a.b`, `a.f`, `b`, `c`, the index of field `f`, which `a.f` holds as a member and the others in their values; three batches | `Matched`, `IndexExact` |

The bounds are enough for the interesting cases: two generations let a prepared job
become stale and a delta overwrite the file of an orphaned one; two backups and repeated
crashes shift the same snapshot twice; a buffer of two frames lets a crash write one and
a half of them, and a log of two lets an acknowledged frame follow a torn one. With no
backups a crash at `snap` finds the files as they were at `idle`, so the segment run
leaves it out.

The three violations are disagreements of code and documentation, described under
"findings" in `PROJECT.json`: the snapshot is renamed away before its successor is there
and recovery looks at the backups only when `.spdb` exists; a torn tail is not truncated;
the automatic mode leaves segments behind when it falls back to full rewrites. A fourth has
the same shape: a full merge truncates the log before the manifest is committed
(`docs/FORMATS.md:171-172` has the order reversed), and with `CrashAt = {"purge"}`,
`MergeEvery = 1` and `MaxWal = MaxSeg = 3` in segments mode `AckedDurable` fails. The passing
runs exclude exactly these four: `AckedRepairable` excuses a frame behind a torn one and
puts the newest backup back by hand; the `segments` and `durable` runs do not crash at `purge`.

The durable map. A buffer of two, a merge at the third segment and an asynchronous job make
each step of `DurableMap` occur while files are being replaced. A history that fails is one in
which a compaction shows: truncating the log when the manifest of a delta is written
(`DeltaManifestTruncating`) brings the map back to an earlier one.

Failing writes. Two failures are the least with which a retry fails as well, and one of
them may be the header of a log just emptied. `AckedKeys` is the strongest that holds of
any sequence of failures: no key recovers to a value it was not acknowledged or in flight to
have. Whole maps, and so whole batches, are another matter (`AckedMaps`): when a flush has
written frames 1 and 2, then failed (in its sync, say), and its retry fails after frame 1, the
log holds 1 2 1, which is no map the database has been. `rewound` marks this case. Both
leave out a log in which a frame stands behind a cut one or a cut header (`Shadowed`), which
is what run `torn_tail` is about. `LiveAgrees` has its exception in the code too: `batch` logs
before it applies, so a batch whose flush fails is in the buffer, not in the store, and
appears at a restart; a failed `set` is in both. `CloseDurable` says that a `close` that returns
without an error has left everything in files that the next open reads, whatever failed before.

Formats. Three compactions are what it takes to fill two backups and migrate, and to begin
again after a failure. `AckedKept` holds but for five windows, each named by a history
variable: the rotation again; a migration that failed halfway, after which the mode is the
new one and the old log still open; frames of the other format in a log; the moment when the
old v2 snapshot is removed and its log is not, in which detection prefers what is left of
v2; a rotten snapshot. `RestoreKeepsLog` says what the last one costs: the writes between the last two
snapshots, but not those in the log. `BackupsInOrder` leaves out JSON backups
that are both compressed and encrypted: `read_backup_file` (engine.rs:432) unpacks before it
decrypts, but they are written encrypted and not packed, so that none ever opens
(`docs/FORMATS.md:108-110` describes the packing). An open with an explicit format does not see
the data of the other (engine.rs:192 against `docs/FORMATS.md:28-29`); the properties speak
of opens with the same option as before.

The fallback. A key, a key below it and a cache of one entry give every relation between an
entry and a changed key, and evictions; three jobs let a call be queued behind a compaction
that runs before a transaction. `NothingMissing` excludes what the code does not provide: the
operations of a committed transaction are in no file until the next compaction, and
`close()` does not compact, so that a commit followed by a close is lost; a rollback wipes
the sets of others since its beginning, whose lines remain in the log; an append that failed or
was cut; and two lines that run into each other. That one is the case of a last line which
lacks only its newline: an open replays it, and the next append destroys both, though both calls had
succeeded. One failure and a log of two lines are enough for it, with a restart between
the two or without. What the property shows is that no other key is ever lost, and that the next
compaction makes good for these. `docs/API.md:354-355` says of a transaction that its operations
are committed as a single WAL batch record, which the first exception contradicts.
`QuietWhenClosed` says that every job queued when `close()` was called has run when the lock is
released; it does not say that the queue is empty, because `clear`, `compact` and `transaction` called
after it do not ask whether the database is open, and a `delete` or a `transaction`
called before it may still wait at `_ensureReady` and push its append behind what
`close()` waits for (write-queue.js:52-54).

The lock does not give mutual exclusion, native or not (`MutualExclusion` fails for
two native or two fallback processes already, against `docs/ARCHITECTURE.md:174-175`): between the
look at a stale file and its removal another process may have taken over, and the fallback takes a
blank file, or one whose owner it may not signal, for a stale one. `SoleOwner` says that this is
the only way: two owners presuppose that the file of a process that held it was removed
by another. `OwnerNamed` says that until then the file is the owner's and names it, so that nobody
finds it stale; `NoOrphan` that no file is left that nobody will ever remove, unless its creator
ended or failed while it wrote its pid, or failed to remove it. These do happen in the run: a
blank file is taken over by the fallback only, and one whose owner lives but could not remove
it when that owner ends. Three processes are the least in which one owns the file, one removes
it and one creates the next; each may do so again and again, since the run has no bound on
openings.

`AcquireEnds` has one exception, a stale file whose removal fails over and over: lock.rs:72
ignores the result and goes on without looking at the clock, so that the `LOCK_TIMEOUT` of
`docs/ADVANCED.md:225-235` never comes and the process spins. Without the exception TLC finds that
behaviour at once: `Create`, `Look`, `Probe`, `RemoveFails`, and again.

Dotted keys. Two members of one object are the least for which deleting one must leave the
other, and with the object itself every case of `set`, `get` and `delete` occurs: at a leaf,
above leaves, below an object, below a scalar, below nothing. A log of three operations
lets a set, a read and a deletion under another cut meet a segment and a merge. What the
flat run shows does not go deeper: with a third level (keys `a`, `a.b`, `a.b.c`, values `1` and
`{"b":{"d":1},"x":1,"y":1}`, a log of 2, no batches) `RecoversDocument` fails after legal
calls and one restart: a deleted key is back, because a segment's `a.b` is
laid beside a snapshot's `a` that contains `b`, and `delete('a.b')` in the log removes only the
former (engine.rs:263, store.rs:290). The nesting itself does not survive: every key of a segment is rewritten by the log,
and the replay of its operations removes one of the two leaves.

Index. Three keys of one bucket (say `a`, `b` and `c`) let the removal of the first move the
last over the middle one. `IndexExact` is limited to undisturbed stores: after a
`set('a', 1)` over a leaf `a.b`, or a `get('a')` that joins it, the index still names `a.b`,
although `docs/API.md` says indexes are maintained on every write; this is listed under
"hazards" and no run claims more.

Fairness. The native engine's calls are sequential code without waiting: no liveness is claimed
and no fairness assumed. `CloseEnds` assumes weak fairness of the running job of the
fallback's queue, of the calls that wait at `_ensureReady`, and of what `close` does after the
queue: the event loop runs promise callbacks that are due, file operations end or fail, and the
function of a transaction returns; a failure is an end (`WriteQueue` catches it and goes on). No
call, compaction or crash is assumed ever to come. It does not hold of a transaction that
awaits a job behind its own. `AcquireEnds` assumes weak fairness of each process's steps in
`acquire`, which waits for nothing but its own sleep of 100 ms; which of its steps is taken, the
success of a system call or its failure, is left open. It holds of the native lock although
`acquire` does not look at the clock after a takeover, because each takeover that
succeeds needs a pid that died, and pids are not used twice. It is not claimed of the fallback,
which may remove the blank files of live processes as often as they appear. No process
is assumed ever to release the lock.

## 4. What is proved

For every set of keys and values, every bound and every configuration:

- `ReplayIdempotent`: replaying a log over the store it produced changes nothing. It is
  why `compact_legacy` may rename the snapshot before it truncates the log.
- `ReplayAppend`: a log with one more frame replays to that frame applied last.
- `TypeCorrect`: `Spec => []TypeOK`. `TypeOK` is not inductive: that `nextSeg` and the
  generation stay in range needs `PhaseOK` (which call is at which `pc`, and that it was
  admitted with room for one more id) and `JobsOK` (no pending job is ahead of the
  manifest by more than one). `TypeInv` is the conjunction; the proof has one lemma per
  action.

- `Durability`, `LiveRecovery`, `Redundancy`: `AckedDurable`, `LiveIsRecoverable` and
  `SegmentsRedundant` hold in every configuration that satisfies `SafeConfig`: not the
  automatic mode, no torn writes, no crash at `purge`, none at `snap` if there are
  backups. The three violation runs, and the crash at `purge`, break one of these conditions each.
- `DurabilityInvariant`: `Spec => []DurabilityInv` in these configurations, the invariant the
  three rest on.
- `Refinement`: in these configurations, `Spec => ImplementsDurableMap`; `BufferRoom`:
  `BufferBounded`.
- `SnapshotSafety`: `Spec => []NewestSnapshotKept`, in every configuration.
- `Repair`, `CleanClose`, `LegacyLive`, `LegacyInvariant`: `AckedRepairable`, `CleanShutdown`,
  `LiveIsRecoverable` and `LegacyInv` in legacy mode, with torn writes, any number of
  backups and a crash at any step.
- `LogInvariant`, `LogTypes`, `RetryKeepsKeys`, `RetryKeepsMaps`, `StoreIsLogged`,
  `OneFramePerLsn`, `CloseKeepsStore`: every property of `WalLog`, for both formats, any
  sizes of buffer and log and any number of failures.
- `FormatsInvariant`, `FormatsTypes`, `AckedStaysKept`, `DetectionFinds`, `BackupsStayInOrder`,
  `RestoreSafety`: every property of `EngineFormats`, for any number of backups, all
  options, and any number of compactions, migrations, failures and rotten snapshots.
- `FallbackInvariant`, `FallbackTypes`, `CacheStaysCoherent`, `NothingGoesMissing`,
  `ClosedIsQuiet`: every safety property of `FallbackEngine`, for any keys, cache size and
  length of the queue.
- `SoleOwnerSafety`, `OwnerNamedSafety`, `NoOrphanSafety`: the invariants of the lock, for
  any set of processes, wherever they end and whichever of their system calls fail.
- `IndexMatched`: `IndexSpec => []Matched`, for any keys, values and sequence of calls of the
  index; `EngineKeepsMatched`: the same of the calls the engine makes.
- `LookupExact`: `IndexExact`, for keys of any depth, any values and batches; `IndexInvariant`:
  the invariant both rest on.

- `StoreSets`, `StoreDeletes`, `StoreReads`, `StoreAnswers`, `LoadedLeaves`, `JoinedLeaves`,
  `FlattenedLeaves`: for any leaves of which none is above another (`IsTree`), keys of any
  depth and any values, what `set`, `delete` and `get` of `store.rs`, and the writing and reading
  of snapshots, do to the leaves and to the document they make up.
- `LeavesApart`, `GetAgrees`, `DocumentRecovered`, `DocumentImplemented`, `PathInvariant`: the four
  properties of `PathStore` where there are no segments (`WholeFiles`: legacy mode or the JSON
  format), for any keys, values, batches and length of the log.

The argument for durability is the inductive invariant `DurabilityInv` (module
`SpectreEngineInv`, checked by run `segments`). The properties alone are not inductive:
they speak of `down` or `idle` and say nothing of the middle of a compaction. Between two
rewrites the log alone, replayed over the snapshot alone (`Ground`), stands for the store
(`LogStandsForStore`), and so does each of its prefixes a crash may leave
(`PrefixesPromised`). Segments add nothing: every key that a listed segment or a job about
to be committed touches is rewritten by the log or hidden by the snapshot
(`SegmentsCovered`), because what a compaction takes from `dirty` is still in the log
(`DirtyLogged`). One lemma per action, and lemmas about `Replay` for the rest:
`ReplayAppend` when a frame is written, `ReplayIdempotent` when the snapshot is renamed
before the log is truncated.

The refinement is proved from `DurabilityInv`, before and after a step, and from one fact of
its own, that `wal_buf` has room wherever a frame may be added (`BufferRoom`). Each action of
the engine is shown to be a step of `DurableMap` or a stutter. A write appends to the
buffer, so that the new line is the old one and one map more (`LineGrows`). A flush is a
`Settle`: the last map of the line is the one `LogStandsForStore` expects. A rotation, the
rename of a snapshot and the reset of the log move what is durable from one file to another
while the buffer is empty: before and after, `LogStandsForStore` says that the line is the
store alone (`QuietMove`). Other steps of compactions and jobs leave log, buffer and ground
alone. `Open` reads segments, snapshot and log, and `SegmentsCovered` is why this is the map
the log stands for; a crash, also in the middle of a flush, leaves a prefix of the buffer in
the log, which is a member of the line (`EndsAt`).

`NewestSnapshotKept` is not inductive either: that a backup is kept does not say that the
rotation will not overwrite it. `NewestFirst` does: the first of `.spdb`, `.spdb.1.bak`,
... that exists is the newest snapshot; a rotation only moves snapshots towards a place
that is empty or holds an older one.

In legacy mode the argument has to bear torn writes and the lost snapshot (`LegacyInv`, checked
by run `legacy`). There are no segments; snapshot and log stand for the store as long as no
frame is behind a torn one, and each part of the buffer a crash may add to the file leaves a
promised map (`LegacyPromised`), because replay ends where the tear is (`ReplayTorn`). The
rename that takes `.spdb` away leaves what it held in the newest backup (`Repairable`), which
is `lastSnap` because `.spdb` never is anything else; at `snap` the store under its own log is
still the store (`ReplayTwice`), so that the new snapshot may come before the log is
truncated. `CleanShutdown` needs `LegacyCount`: `wal_ops` is zero only if neither log nor
buffer holds anything, and then the store is the snapshot.

For the log with failing writes, the properties say nothing of what a retry may find in the
file. `LogInv` does: there is a map `g`, the one of the last successful flush, such that the
store is `g` with the buffer laid over it, and each key of the recovered map has the value of
*some* prefix of the buffer, none longer than the farthest failed flush has got (`sent`).
The keys may disagree on the prefix, since the copies of several retries follow each other:
this is why `AckedKeys` holds always and `AckedMaps` only unless `rewound`. A flush that
gets as far as `sent` puts every key where its prefix ends (`KeyRewritten`): a key it does not
touch was touched by no earlier copy. A JSON line without its newline counts for one frame
more than was sent (`EndsInLine`).

For formats and migrations, `FormatsInv` says of the format an open would choose that its log
stands for the store wherever it touches a key, and its snapshot for the rest. Which format
that is, is a question about files: a migration to v2 begins without a v2 file and one to JSON
ends without any (`FilesOK`, `ChosenFormat`). At each `pc` it says which files the steps so far
have made (`CallOK`). The backups are past snapshots when nothing is being moved (`Settled`),
and while they are, those below `gen` are at their old places and those above at their new
ones. `RestoreKeepsLog` speaks of a step: the proof uses the invariant before it, of the backup
that is restored and of the log that is replayed over it.

For the fallback, `FallbackInv` says that the lines of the log, and then the queued appends,
stand for the store where they touch a key, and for the rest the snapshot, or the one that
a compaction has serialized and not yet renamed (`SettledOK`). The step that matters is the
truncation of the log at the end of a compaction: the snapshot was taken when only jobs
queued since could have changed the store, and these are still queued. `CacheCoherent` is
inductive with the types: what changes a key drops the entries above and below it, a rollback
all of them. `CloseOK` counts the jobs `close` still waits for: while it waits, the queue is these
and the `late` ones behind them. What an append does to the log is one lemma for all its outcomes
(`PieceStep`): at a key that does not become loose, the log with the new piece says what it said
followed by the patch, because if the last line lacked its newline neither of the two lines
touches the key (`ReplayColumn` compares the logs key by key).

For dotted keys, the work is in the operations. `set` has three cases (no leaf above the
key, an object above it, a scalar above it) and `delete` three; each changes one part of the
document and must leave the rest, and `ApartFrom`, `OneLeaf`, `LeafApart` say which scalars belong
to which leaf. At a leaf above the key the change happens inside one value, and shifting this value
to its place turns it into the same change of the document. `PathInv` then keeps two
trees: the leaves in memory, and those that snapshot and log stand for. They are not the same, since
a read joins the former only; what both are is a tree of one document, and an operation does
the same to the document of any tree. This is why the log may be replayed over leaves it was
not written over. A compaction writes the first tree and forgets the second, by
`LoadedLeaves` or by `JoinedLeaves` and `FlattenedLeaves`; a restart takes the second for the first.
`Replay`, `LoadFile` and `Joined` are recursive functions; their values are found by
showing that a function given outright satisfies the recursion and that no other does, an
induction over the number of the step inside the proof. `WholeFiles` is needed: segments are laid
over each other leaf by leaf, and section 3 has the three levels of keys where that fails.

For the lock, `SoleOwner` and `OwnerNamed` follow from one invariant: while nobody is
deposed, a process at `write` or `own` is the creator of the file on disk. `NoOrphan` needs
besides itself that a file whose creator has it open is named (`OwnFileNamed`): whoever leaves
`write` or `own` without removing its file has put its pid there or has abandoned it, and a process
that is dead stays dead.

For the index, `Matched` is inductive together with the shape of the record. The case that
matters is the removal of a key from the middle of its bucket: the moved key was noted at
the last place, because the bucket agrees with the notes, and nothing else was. `IndexInv` adds
the leaves: none is above another (`Apart`), and the index notes of each key the scalar its own
leaf has at the field, of every other key nothing (`Follows`). The order in which a batch
tells keys does not matter, since a call changes the note of its key alone (`InsertAllNotes`,
an induction over the keys told so far). What remains is that every leaf an operation has
changed or removed is told. `OpEffect` says which these are: a set or a delete changes one
leaf, the one at its key or above it, and removes the ones it names. In a batch the second
operation may undo what the first has done to a leaf, or put one above it; then the key of
the first is found at another leaf or missing, and either way told (`BatchFollows`). `~disturbed`
is needed because a set over a branch removes leaves that nobody names to the index.

The proofs rest on `ReplayAssumption`, `EngineAssumption`, `LogAssumption`,
`FormatsAssumption`, `FallbackAssumption`, `PathAssumption`, `IndexAssumption` and `LockAssumption`: the constants
have the types their comments give, model values differ from each other and from the data, dotted
keys are sequences of segments, a JSON value is a finite set of scalars none of which is inside
another, and `CrashAt` names program counters of a process that is
up. TLC evaluates them on every run.

Only model-checked:

- `AcquireEnds` and `CloseEnds`: liveness under fairness is out of the prover's reach.
- the four properties of `PathStore` with segments, on the flat keys of run `paths`: for
  deeper keys they do not all hold, so that a proof would have to speak of flat keys only.

## 5. Not modelled, and why

- power loss and fsync: the model's files are what the operating system holds; `durability`
  makes no difference to the death of a process.
- renames and removals of the engine that fail, whose errors the code ignores; of the lock, a
  creation that fails for another reason than the file being there (`acquire` returns an error
  and nothing has changed), and a file that is there and cannot be read, which is taken for one
  that has gone.
- failing writes in the middle of a segment compaction: `WalLog` and `EngineFormats` have
  whole snapshots only.
- of background jobs on dotted keys: `PathStore` begins and ends one in one step, and leaves out
  their full merge, which is a segment as well. `SpectreEngine` has both, step by step, on keys
  none of which is above another.
- pages and cursors of a scan, array elements as path segments, the raw namespace, members
  whose names contain dots, ranges of the index and its rebuild at open.
- encryption of values, compression, validation, path names, error codes, statistics:
  functions on bytes and strings. The layers of encryption of a backup are in `EngineFormats`.
- the facade: options, events, argument checks, chunks and pages over one engine call each.
- of the fallback: its backups and their restore, encryption, arrays, collections; that `get`
  returns the object the store holds, which a caller may change; calls made before the database
  is ready, and calls made when `close` has released the lock, whose jobs no longer follow the
  earlier ones because `WriteQueue.clear` starts a new chain. `add`, `push` and `pull` of the facade read
  and set at once; the engine's own, which wait between the two, are not reached through it.

## 6. Plan

Done: all modules of section 2. What would come next:

1. The backups of the fallback, whose older generations are encrypted once more by every
   compaction (engine.js:757), and the count its timer looks at.
2. Proofs about `PathStore` with segments, for keys of two levels.
3. The rebuild of the index at open, after a recovery that cuts the leaves anew; scans by page.
4. The facade's function transactions over the engine: reads and the batch at their end.
