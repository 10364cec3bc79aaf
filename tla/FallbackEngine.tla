--------------------------- MODULE FallbackEngine ---------------------------
(***************************************************************************)
(* The JavaScript engine: fallback/src/core/engine.js with its write queue *)
(* (queue/write-queue.js), log (storage/wal.js), transactions              *)
(* (transaction/transaction.js) and read cache (cache/).                   *)
(*                                                                         *)
(* A call changes the store at once and queues the append to the log; the  *)
(* queue runs its jobs one after the other, each of them over several      *)
(* turns of the event loop, between which other calls come in.  A          *)
(* transaction and a compaction are jobs too.  delete() and transaction()  *)
(* wait a turn before they begin (_ensureReady).                           *)
(*                                                                         *)
(* Keys are paths, values scalars: the store is the map of its leaves, an  *)
(* empty object is not told from nothing.  The compaction timer may push a *)
(* compaction at any time, so that the count it looks at is left out; so   *)
(* are the backups of the snapshot (EngineFormats has those of the native  *)
(* engine).  The log is one file and the process is alone.                 *)
(***************************************************************************)
EXTENDS WalReplay, SequencesExt

CONSTANTS
    CacheSize,  \* options.maxCacheSize
    NoFile,     \* there is no snapshot
    MaxCalls,   \* bound: calls that wait to begin
    MaxQueue,   \* bound: these and the jobs in the queue when a call comes
    MaxLog,     \* bound: these, the lines in the log and the appends in the queue
    MaxFails    \* bound: writes that fail, end short or are cut by a crash

ASSUME FallbackAssumption ==
    /\ Keys \subseteq Seq(STRING)
    /\ NoFile \notin Stores
    /\ {CacheSize, MaxCalls, MaxQueue, MaxLog, MaxFails} \subseteq Nat

VARIABLES
    store,    \* _store
    cache,    \* LRUCache: its entries, the most recently used first
    calls,    \* delete and transaction, called and waiting to begin
    queue,    \* WriteQueue._chain: the job that runs, and those behind it
    step,     \* how far the job that runs has come
    content,  \* _compact: the serialized store
    base,     \* Transaction._snapshot
    log,      \* base.wal
    snap,     \* base.snapshot
    phase,    \* "open", "closing", "closed", or "down"
    awaited,  \* the jobs flush still waits for in close
    \* history
    loose,    \* the keys the files and the queue do not account for
    rotated,  \* the snapshot is a backup, and there is no new one
    late,     \* how many jobs of the queue, the last ones, came after close began
    fails

vars == <<store, cache, calls, queue, step, content, base, log, snap, phase, awaited,
          loose, rotated, late, fails>>

-----------------------------------------------------------------------------
(* The tree of keys.                                                       *)

Related(j, k) == IsPrefix(j, k) \/ IsPrefix(k, j)
Below(k) == {j \in Keys : IsPrefix(k, j)}

\* _applySet makes objects of the ancestors and drops what was below.
SetPatch(k, v) ==
    [j \in Keys |-> IF j = k THEN v ELSE IF Related(j, k) THEN Absent ELSE Keep]

\* _applyDelete
DelPatch(k) == [j \in Keys |-> IF j \in Below(k) THEN Absent ELSE Keep]

\* What _readRaw finds at k.
View(s, k) == [j \in Below(k) |-> s[j]]
Exists(s, k) == \E j \in Below(k) : s[j] # Absent

-----------------------------------------------------------------------------
(* The cache.                                                              *)

Entries == UNION {[key : {k}, view : {View(s, k) : s \in Stores}] : k \in Keys}

Cached(k) == \E i \in DOMAIN cache : cache[i].key = k
Entry(k) == CHOOSE e \in ToSet(cache) : e.key = k

\* The entries of the keys K, in their order.
Picked(c, K) ==
    LET picked[n \in 0..Len(c)] ==
            IF n = 0 THEN <<>>
            ELSE IF c[n].key \in K THEN Append(picked[n - 1], c[n])
            ELSE picked[n - 1]
    IN  picked[Len(c)]

\* Mutant: nothing is evicted.
ToFrontGrowing(c, e) == <<e>> \o Picked(c, Keys \ {e.key})

\* LRUCache.set, and the move to the front in get: the tail is evicted.
ToFront(c, e) ==
    LET all == <<e>> \o Picked(c, Keys \ {e.key})
    IN  IF Len(all) > CacheSize THEN SubSeq(all, 1, CacheSize) ELSE all

\* Mutant: what is above the key stays.
InvalidatedBelow(c, k) == Picked(c, Keys \ Below(k))

\* LRUCache.invalidate: the key, what is below it (CacheIndex) and above it.
Invalidated(c, k) == Picked(c, {j \in Keys : ~ Related(j, k)})

-----------------------------------------------------------------------------
(* Recovery: _loadSnapshot, _replayWAL.                                    *)

\* What a write leaves in the log: a line, all of it but its newline, or less.
Line(p) == [patch |-> p, newline |-> TRUE]
BareLine(p) == [patch |-> p, newline |-> FALSE]
CutLine == BareLine(NoChange)
Pieces == [patch : Patches, newline : BOOLEAN]

\* What they say when they are split at the newlines: the last line needs none,
\* but it runs into the next one that is appended, and then neither parses.
Lines ==
    [i \in DOMAIN log |->
        IF (i = 1 \/ log[i - 1].newline) /\ (log[i].newline \/ i = Len(log))
        THEN log[i].patch ELSE NoChange]

Unended == log # <<>> /\ ~log[Len(log)].newline

\* The keys of two lines that run into each other when p is appended.
Spoilt(p) == IF Unended THEN Touched(Lines[Len(log)]) \cup Touched(p) ELSE {}

Base == IF snap = NoFile THEN EmptyStore ELSE snap

Recovered == Replay(Base, Lines)

AppendJob(p) == [kind |-> "append", patch |-> p]
CompactJob == [kind |-> "compact"]
TxJob == [kind |-> "tx"]
Jobs == {AppendJob(p) : p \in Patches} \cup {CompactJob, TxJob}

Running == IF queue = <<>> THEN "none" ELSE queue[1].kind

\* What the jobs of the queue will log.
Waiting ==
    [i \in DOMAIN queue |-> IF queue[i].kind = "append" THEN queue[i].patch ELSE NoChange]

\* What the files will say when the queue has run.
Settled == Replay(Recovered, Waiting)

Calls == [op : {"delete"}, key : Keys] \cup [op : {"transaction"}]

TypeOK ==
    /\ store \in Stores /\ content \in Stores /\ base \in Stores
    /\ cache \in Seq(Entries) /\ Len(cache) <= CacheSize
    /\ calls \in Seq(Calls) /\ queue \in Seq(Jobs)
    /\ step \in {"start", "rotated", "renamed", "open", "stuck"}
    /\ log \in Seq(Pieces)
    /\ snap \in Stores \cup {NoFile}
    /\ phase \in {"open", "closing", "closed", "down"}
    /\ awaited \in Nat /\ late \in Nat
    /\ loose \subseteq Keys
    /\ rotated \in BOOLEAN
    /\ fails \in 0..MaxFails

-----------------------------------------------------------------------------
(* Calls.                                                                  *)

Appends == {i \in DOMAIN queue : queue[i].kind = "append"}
Room ==
    /\ Len(queue) + Len(calls) < MaxQueue
    /\ Len(log) + Cardinality(Appends) + Len(calls) < MaxLog

\* Mutant: the job is put first.
PushFirst(job) ==
    /\ queue' = IF queue = <<>> THEN <<job>> ELSE <<queue[1], job>> \o Tail(queue)
    /\ late' = IF phase = "open" THEN late ELSE late + 1

\* WriteQueue.push
Push(job) ==
    /\ queue' = Append(queue, job)
    /\ late' = IF phase = "open" THEN late ELSE late + 1

\* get from the cache, and past it when the entry is missing or has expired.
Get(k) ==
    /\ phase = "open"
    /\ \/ Cached(k) /\ cache' = ToFront(cache, Entry(k))
       \/ Exists(store, k) /\ cache' = ToFront(cache, [key |-> k, view |-> View(store, k)])
    /\ UNCHANGED <<store, calls, queue, step, content, base, log, snap, phase, awaited,
                   loose, rotated, late, fails>>

\* What set and delete do: the store, the cache, the queue.
Change(k, p) ==
    /\ store' = ApplyPatch(store, p)
    /\ cache' = Invalidated(cache, k)
    /\ Push(AppendJob(p))
    /\ UNCHANGED <<step, content, base, log, snap, phase, awaited, loose, rotated, fails>>

\* set, and add, push and pull of the facade, which end in one: at once.
Set(k, v) ==
    /\ phase = "open" /\ Room
    /\ Change(k, SetPatch(k, v))
    /\ UNCHANGED calls

Awake == phase \in {"open", "closing"}

\* delete and transaction await _ensureReady before they do anything.  The
\* facade asks only delete whether the database is open, and asks it here.
Call(c) ==
    /\ phase = "open" /\ Room /\ Len(calls) < MaxCalls
    /\ calls' = Append(calls, c)
    /\ UNCHANGED <<store, cache, queue, step, content, base, log, snap, phase, awaited,
                   loose, rotated, late, fails>>

Resumes(op) == Awake /\ calls # <<>> /\ calls[1].op = op /\ calls' = Tail(calls)

\* They go on, open or not.
Delete ==
    /\ Resumes("delete")
    /\ LET k == calls[1].key IN Exists(store, k) /\ Change(k, DelPatch(k))

DeleteNothing ==
    /\ Resumes("delete")
    /\ ~Exists(store, calls[1].key)
    /\ UNCHANGED <<store, cache, queue, step, content, base, log, snap, phase, awaited,
                   loose, rotated, late, fails>>

PushTx ==
    /\ Resumes("transaction")
    /\ Push(TxJob)
    /\ UNCHANGED <<store, cache, step, content, base, log, snap, phase, awaited, loose,
                   rotated, fails>>

\* A transaction called while close goes on; its wait is of no account then.
PushTxLate ==
    /\ phase = "closing" /\ Room
    /\ Push(TxJob)
    /\ UNCHANGED <<store, cache, calls, step, content, base, log, snap, phase, awaited,
                   loose, rotated, fails>>

\* The facade does not ask whether the database is open.
Clear ==
    /\ Awake /\ Room
    /\ store' = EmptyStore
    /\ cache' = <<>>
    /\ Push(AppendJob(ClearFrame))
    /\ UNCHANGED <<calls, step, content, base, log, snap, phase, awaited, loose, rotated,
                   fails>>

\* compact, save, the timer.
PushCompact ==
    /\ Awake /\ Room
    /\ Push(CompactJob)
    /\ UNCHANGED <<store, cache, calls, step, content, base, log, snap, phase, awaited,
                   loose, rotated, fails>>

-----------------------------------------------------------------------------
(* The queue.                                                              *)

\* The job has ended, well or not: the next one starts.
Done ==
    /\ queue' = Tail(queue)
    /\ step' = "start"
    /\ content' = EmptyStore /\ base' = EmptyStore
    /\ awaited' = IF awaited > 0 THEN awaited - 1 ELSE 0
    /\ late' = IF late < Len(queue) THEN late ELSE Len(queue) - 1
    /\ UNCHANGED calls

\* WALWriter.append
AppendLine ==
    /\ Running = "append" /\ step = "start"
    /\ log' = Append(log, Line(queue[1].patch))
    /\ loose' = loose \cup Spoilt(queue[1].patch)
    /\ Done
    /\ UNCHANGED <<store, cache, snap, phase, rotated, fails>>

\* A short write: append does not look at bytesWritten, and has succeeded.
AppendShort ==
    /\ Running = "append" /\ step = "start" /\ fails < MaxFails
    /\ fails' = fails + 1
    /\ LET p == queue[1].patch IN
          \/ log' = Append(log, BareLine(p)) /\ loose' = loose \cup Spoilt(p)
          \/ log' = Append(log, CutLine) /\ loose' = loose \cup Spoilt(p) \cup Touched(p)
    /\ Done
    /\ UNCHANGED <<store, cache, snap, phase, rotated>>

\* Mutant: an error stops the chain.
AppendFailsDead ==
    /\ Running = "append" /\ step = "start" /\ fails < MaxFails
    /\ fails' = fails + 1
    /\ step' = "dead"
    /\ UNCHANGED <<store, cache, calls, queue, content, base, log, snap, phase, awaited,
                   loose, rotated, late>>

\* The write fails and writes nothing; the error handler is told, and the store
\* keeps the change.
AppendFails ==
    /\ Running = "append" /\ step = "start" /\ fails < MaxFails
    /\ fails' = fails + 1
    /\ loose' = loose \cup Touched(queue[1].patch)
    /\ Done
    /\ UNCHANGED <<store, cache, log, snap, phase, rotated>>

\* _compact returns at once when close has begun.
SkipCompact ==
    /\ Running = "compact" /\ step = "start" /\ phase # "open"
    /\ Done
    /\ UNCHANGED <<store, cache, log, snap, phase, loose, rotated, fails>>

\* rotateBackups, and the store as it is then.
RotateSerialize ==
    /\ Running = "compact" /\ step = "start" /\ phase = "open"
    /\ snap' = NoFile
    /\ rotated' = (rotated \/ snap # NoFile)
    /\ content' = store
    /\ step' = "rotated"
    /\ UNCHANGED <<store, cache, calls, queue, base, log, phase, awaited, loose, late, fails>>

\* The new snapshot cannot be written or renamed, or the log not be truncated.
WriteFails ==
    /\ Running = "compact" /\ step \in {"rotated", "renamed"} /\ fails < MaxFails
    /\ fails' = fails + 1
    /\ Done
    /\ UNCHANGED <<store, cache, log, snap, phase, loose, rotated>>

Rename ==
    /\ Running = "compact" /\ step = "rotated"
    /\ snap' = content
    /\ rotated' = FALSE
    /\ step' = "renamed"
    /\ UNCHANGED <<store, cache, calls, queue, content, base, log, phase, awaited, loose,
                   late, fails>>

\* truncateAndReopen.  The snapshot accounts for the loose keys, except those
\* an append is still queued for, which may say otherwise.
Truncate ==
    /\ Running = "compact" /\ step = "renamed"
    /\ log' = <<>>
    /\ loose' = {k \in loose : Hit(Waiting, k)}
    /\ Done
    /\ UNCHANGED <<store, cache, snap, phase, rotated, fails>>

-----------------------------------------------------------------------------
(* Transactions.  Their function is the caller's and may wait for anything *)
(* between its steps.                                                      *)

Begin ==
    /\ Running = "tx" /\ step = "start"
    /\ base' = store
    /\ step' = "open"
    /\ UNCHANGED <<store, cache, calls, queue, content, log, snap, phase, awaited, loose,
                   rotated, late, fails>>

\* scopedTx.set and scopedTx.delete change the store itself.  What they collect
\* never reaches the Transaction, whose commit finds nothing to log.
TxChange(k, p) ==
    /\ Running = "tx" /\ step = "open"
    /\ store' = ApplyPatch(store, p)
    /\ cache' = Invalidated(cache, k)
    /\ loose' = loose \cup Touched(p)
    /\ UNCHANGED <<calls, queue, step, content, base, log, snap, phase, awaited, rotated,
                   late, fails>>

Commit ==
    /\ Running = "tx" /\ step = "open"
    /\ Done
    /\ UNCHANGED <<store, cache, log, snap, phase, loose, rotated, fails>>

\* The whole store as it was at the beginning, without what other calls have
\* set since.
Rollback ==
    /\ Running = "tx" /\ step = "open"
    /\ store' = base
    /\ cache' = <<>>
    /\ loose' = loose \cup {k \in Keys : store[k] # base[k]}
    /\ Done
    /\ UNCHANGED <<log, snap, phase, rotated, fails>>

\* The function awaits a compaction, a save or another transaction: a job
\* that is queued behind its own.
AwaitJob ==
    /\ Running = "tx" /\ step = "open" /\ Room
    /\ Push(CompactJob)
    /\ step' = "stuck"
    /\ UNCHANGED <<store, cache, calls, content, base, log, snap, phase, awaited, loose,
                   rotated, fails>>

-----------------------------------------------------------------------------
(* Closing, crashing, opening.                                             *)

Close ==
    /\ phase = "open"
    /\ phase' = "closing"
    /\ awaited' = Len(queue)
    /\ UNCHANGED <<store, cache, calls, queue, step, content, base, log, snap, loose,
                   rotated, late, fails>>

\* Mutant: what is queued is not waited for.
ReleaseAtOnce ==
    /\ phase = "closing" /\ calls = <<>>
    /\ phase' = "closed" /\ awaited' = 0
    /\ cache' = <<>>
    /\ UNCHANGED <<store, calls, queue, step, content, base, log, snap, loose, rotated,
                   late, fails>>

\* The jobs that were in the queue have run.  wal.close, cache.destroy and the
\* release of the lock follow; jobs pushed meanwhile still run, and an append
\* opens the log again.  Files are closed and removed between two turns of the
\* event loop, so that calls that waited have begun by then.
Release ==
    /\ phase = "closing" /\ awaited = 0 /\ calls = <<>>
    /\ phase' = "closed" /\ awaited' = 0
    /\ cache' = <<>>
    /\ UNCHANGED <<store, calls, queue, step, content, base, log, snap, loose, rotated,
                   late, fails>>

Ends ==
    /\ phase' = "down"
    /\ store' = EmptyStore /\ cache' = <<>> /\ calls' = <<>> /\ queue' = <<>>
    /\ step' = "start" /\ content' = EmptyStore /\ base' = EmptyStore /\ awaited' = 0
    /\ loose' = {} /\ rotated' = FALSE /\ late' = 0

Exit == phase = "closed" /\ Ends /\ UNCHANGED <<log, snap, fails>>

\* A crash may cut the line that is being written, if only its newline.
Crash ==
    /\ phase \in {"open", "closing"}
    /\ Ends
    /\ \/ UNCHANGED <<log, fails>>
       \/ /\ Running = "append" /\ fails < MaxFails
          /\ fails' = fails + 1
          /\ \E piece \in {CutLine, BareLine(queue[1].patch)} : log' = Append(log, piece)
    /\ UNCHANGED snap

Open ==
    /\ phase = "down"
    /\ phase' = "open"
    /\ store' = Recovered
    /\ UNCHANGED <<cache, calls, queue, step, content, base, log, snap, awaited, loose,
                   rotated, late, fails>>

Init ==
    /\ store = EmptyStore /\ cache = <<>> /\ calls = <<>> /\ queue = <<>> /\ step = "start"
    /\ content = EmptyStore /\ base = EmptyStore
    /\ log = <<>> /\ snap = NoFile
    /\ phase = "down" /\ awaited = 0
    /\ loose = {} /\ rotated = FALSE /\ late = 0 /\ fails = 0

\* What the event loop brings to an end: the job that runs, the calls that wait,
\* and close.
Job ==
    \/ AppendLine \/ AppendShort \/ AppendFails
    \/ SkipCompact \/ RotateSerialize \/ WriteFails \/ Rename \/ Truncate
    \/ Begin \/ Commit \/ Rollback

Resume == Delete \/ DeleteNothing \/ PushTx

Next ==
    \/ \E k \in Keys : Get(k)
    \/ \E k \in Keys, v \in Values : Set(k, v) \/ TxChange(k, SetPatch(k, v))
    \/ \E k \in Keys : Exists(store, k) /\ TxChange(k, DelPatch(k))
    \/ \E c \in Calls : Call(c)
    \/ Resume \/ PushTxLate \/ Clear \/ PushCompact
    \/ Job \/ AwaitJob
    \/ Close \/ Release \/ Exit \/ Crash \/ Open

\* File operations and the functions of transactions come to an end.
Spec == Init /\ [][Next]_vars /\ WF_vars(Job) /\ WF_vars(Resume) /\ WF_vars(Release)

-----------------------------------------------------------------------------
(* Properties.                                                             *)

\* The cache never answers otherwise than the store: not after a change of a
\* key above or below, in or out of a transaction, nor after its rollback.
CacheCoherent ==
    \A i \in DOMAIN cache : cache[i].view = View(store, cache[i].key)

\* What has been called is on its way: the files, and the appends still in the
\* queue, make up the store, at every step of a compaction among calls.  The
\* keys of which this is not so are those
\*   - of transactions, whose operations nothing logs, and of rollbacks;
\*   - of an append that failed, or was written short;
\*   - of a last line without its newline, which an open does replay, and of the
\*     append that runs into it: both are lost, though both had succeeded;
\* each until a compaction behind which no append of theirs is queued.  Nor is
\* it so while the snapshot is in the backups.  A crash loses what is queued,
\* and the last line with it if that has no newline and a cut one is added.
NothingMissing ==
    phase # "down" /\ ~ rotated => \A k \in Keys \ loose : Settled[k] = store[k]

\* When close releases the lock, every job that was queued when it was called
\* has run: what is left was pushed after it.  That can be a clear, a compaction
\* or a transaction called after it (they do not ask), or a delete or a
\* transaction called before it and then still waiting to begin.
QuietWhenClosed == phase = "closed" => Len(queue) = late

\* close ends, whatever fails, unless a transaction waits for a job behind it.
CloseEnds == phase = "closing" ~> phase # "closing" \/ step = "stuck"
=============================================================================
