--------------------------- MODULE EngineFormats ---------------------------
(***************************************************************************)
(* The two sets of files of the native engine, and how it moves between    *)
(* them: open, load_state, restore_from_backup, compact_legacy,            *)
(* rotate_backups and migrate of crates/core/src/engine.rs.                *)
(*                                                                         *)
(* "v2" is base.spdb, base.spwal and the manifest base.spman, "json" is    *)
(* base.snapshot and base.wal; each has its own rotating backups.  A       *)
(* process may die between any two steps; a snapshot on disk may rot; the  *)
(* writing of a snapshot or of an encrypted backup may fail.  Snapshots    *)
(* are whole (compactMode "legacy"); frames are written one at a time and  *)
(* whole (WalLog has the others).  The backups of rotate_backups are       *)
(* renamed one by one, and an error of a rename or a remove, which the     *)
(* code ignores, does not happen here.                                     *)
(***************************************************************************)
EXTENDS WalReplay, FiniteSets

CONSTANTS
    BackupCount,  \* options.backupCount
    FormatOpts,   \* what options.format may be at an open
    Options,      \* the other options a database is used with
    NoFile,       \* there is no such file
    Bad,          \* a file whose contents do not decode
    MaxLog,       \* bound: frames in a log
    MaxCalls,     \* bound: compactions begun (by compact, close, migrate) and opens with
                  \* an explicit format
    MaxFaults,    \* bound: snapshots that rot
    MaxFails      \* bound: writes of snapshots or backups that fail

Formats == {"v2", "json"}
Other(f) == IF f = "v2" THEN "json" ELSE "v2"
Gens == 1..BackupCount

\* A frame, and the format it is encoded in.
Frames == [patch : Patches, as : Formats]
\* A backup, and how often it has been encrypted.
Backups == [map : Stores \cup {Bad}, enc : Nat]

ASSUME FormatsAssumption ==
    /\ FormatOpts \subseteq {"auto", "v2", "json"}
    /\ Options \subseteq [encrypt : BOOLEAN, compress : BOOLEAN]
    /\ NoFile \notin Stores \cup {Bad} /\ Bad \notin Stores
    /\ NoFile \notin Backups \cup Seq(Frames)
    /\ {BackupCount, MaxLog, MaxCalls, MaxFaults, MaxFails} \subseteq Nat

VARIABLES
    \* memory
    options,  \* encryptBackups and compress
    opt,      \* options.format of this session
    mode,     \* Engine.mode
    store,    \* Engine.store
    walOps,   \* Engine.wal_ops
    logOf,    \* whose log Engine.wal_file is
    \* files
    man,      \* base.spman exists
    snap,     \* the snapshot of each format
    bak,      \* the backups of each format
    log,      \* the log of each format
    \* control
    pc,       \* "down", "idle", or the step the call has come to
    gen,      \* at "rotate": the backup to be filled
    call,     \* "none", "compact", "close" or "migrate"
    \* history
    acked,     \* what the calls of this session amount to
    completed, \* of each format, its snapshots, newest first; Bad: rotten or spoiled
    rotated,   \* the formats whose last snapshot is a backup or nothing
    windows,   \* the other windows in which the files do not have it all
    calls, faults, fails

memory  == <<options, opt, mode, store, walOps, logOf>>
files   == <<man, snap, bak, log>>
control == <<pc, gen, call>>
history == <<acked, completed, rotated, windows, calls, faults, fails>>
vars    == <<memory, files, control, history>>

Windows == {"halfway", "oldlog", "damaged"}

TypeOK ==
    /\ options \in Options
    /\ opt \in FormatOpts \cup {"auto"}
    /\ mode \in Formats /\ logOf \in Formats
    /\ store \in Stores /\ acked \in Stores
    /\ walOps \in Nat
    /\ man \in BOOLEAN
    /\ snap \in [Formats -> Stores \cup {NoFile, Bad}]
    /\ bak \in [Formats -> [Gens -> Backups \cup {NoFile}]]
    /\ log \in [Formats -> {NoFile} \cup Seq(Frames)]
    /\ completed \in [Formats -> Seq(Stores \cup {Bad})]
    /\ \A f \in Formats : Len(completed[f]) <= BackupCount + 1
    /\ pc \in {"down", "idle", "rotate", "write", "encrypt", "reset",
               "manifest", "oldsnap", "oldlog"}
    /\ gen \in 0..BackupCount
    /\ call \in {"none", "compact", "close", "migrate"}
    /\ rotated \subseteq Formats /\ windows \subseteq Windows
    /\ calls \in Nat /\ faults \in Nat /\ fails \in Nat

-----------------------------------------------------------------------------
(* Loading.                                                                *)

Exists(f) == snap[f] # NoFile \/ log[f] # NoFile

\* What options.format = "auto" finds.
Detect ==
    IF Exists("v2") \/ man THEN "v2" ELSE IF Exists("json") THEN "json" ELSE "v2"

ModeOf(o) == IF o = "auto" THEN Detect ELSE o

\* read_backup_file: exactly one layer of encryption when there must be one.
\* encrypt_backup leaves a compressed JSON backup encrypted and not compressed,
\* and the reader decompresses before it decrypts.
Opens(f, b) ==
    /\ b # NoFile
    /\ b.map # Bad
    /\ b.enc = IF options.encrypt THEN 1 ELSE 0
    /\ ~ (f = "json" /\ options.encrypt /\ options.compress)

Usable(f) == {g \in Gens : Opens(f, bak[f][g])}

\* Mutant: the oldest one.
RestoredOldest(f) ==
    IF Usable(f) = {} THEN EmptyStore ELSE bak[f][Latest(Usable(f))].map

\* restore_from_backup: the newest usable one, or an empty store.
Restored(f) ==
    IF Usable(f) = {} THEN EmptyStore
    ELSE bak[f][CHOOSE g \in Usable(f) : \A h \in Usable(f) : g <= h].map

\* Backups are looked at only if there is a snapshot and it is Bad.
Base(f) ==
    IF snap[f] = NoFile THEN EmptyStore ELSE IF snap[f] = Bad THEN Restored(f) ELSE snap[f]

FramesOf(f) == IF log[f] = NoFile THEN <<>> ELSE log[f]

\* The v2 reader stops at a JSON line; the JSON reader skips v2 frames, and with
\* them the line that follows them, since they end in no newline.
Decodable(f) ==
    LET w == FramesOf(f)
        read == [v2 |-> {i \in DOMAIN w : \A j \in 1..i : w[j].as = "v2"},
                 json |-> {i \in DOMAIN w : \A j \in {i - 1, i} \cap DOMAIN w : w[j].as = "json"}]
    IN  read[f]

Loaded(f) ==
    Overlay(Base(f), [i \in DOMAIN FramesOf(f) |-> FramesOf(f)[i].patch], Decodable(f))

\* open, load_state and open_wal, which creates the log of the mode.
Open(o) ==
    LET f == ModeOf(o) IN
    /\ pc = "down"
    /\ IF o = "auto" THEN UNCHANGED calls ELSE calls < MaxCalls /\ calls' = calls + 1
    /\ opt' = o /\ mode' = f /\ logOf' = f
    /\ store' = Loaded(f) /\ acked' = Loaded(f)
    /\ walOps' = Cardinality(Decodable(f))
    /\ log' = [log EXCEPT ![f] = FramesOf(f)]
    /\ pc' = "idle"
    /\ rotated' = {} /\ windows' = {}
    /\ UNCHANGED <<options, man, snap, bak, gen, call, completed, faults, fails>>

-----------------------------------------------------------------------------
(* Writes, and the index definitions that make a manifest.                 *)

\* The frame is encoded for the mode and appended to the open file.
Write(p) ==
    /\ pc = "idle"
    /\ Len(log[logOf]) < MaxLog
    /\ log' = [log EXCEPT ![logOf] = Append(@, [patch |-> p, as |-> mode])]
    /\ store' = ApplyPatch(store, p)
    /\ acked' = store'
    /\ walOps' = walOps + 1
    /\ UNCHANGED <<options, opt, mode, logOf, man, snap, bak, control, completed, rotated,
                   windows, calls, faults, fails>>

\* create_index and drop_index.
WriteManifest ==
    /\ pc = "idle" /\ mode = "v2" /\ ~ man
    /\ man' = TRUE
    /\ UNCHANGED <<memory, snap, bak, log, control, history>>

-----------------------------------------------------------------------------
(* compact_legacy, called by compact, close and migrate.                   *)

Steps(c) ==
    /\ calls < MaxCalls
    /\ calls' = calls + 1
    /\ call' = c
    /\ gen' = BackupCount /\ pc' = IF BackupCount = 0 THEN "write" ELSE "rotate"

Compact ==
    /\ pc = "idle"
    /\ Steps("compact")
    /\ UNCHANGED <<memory, files, acked, completed, rotated, windows, faults, fails>>

\* The memory is lost, but for the mode, which no open looks at.
Stops ==
    /\ pc' = "down" /\ call' = "none" /\ gen' = 0
    /\ store' = EmptyStore /\ walOps' = 0 /\ logOf' = mode

\* close compacts if the log has an operation (a dirty key implies one).
Close ==
    /\ pc = "idle"
    /\ \/ walOps > 0 /\ Steps("close") /\ UNCHANGED <<store, walOps, logOf>>
       \/ walOps = 0 /\ Stops /\ UNCHANGED calls
    /\ UNCHANGED <<options, opt, mode, files, acked, completed, rotated, windows, faults, fails>>

\* The mode changes first.  A database that is opened with an explicit format
\* is not migrated here: which format it is opened with next is up to its user.
Migrate ==
    /\ pc = "idle" /\ opt = "auto"
    /\ Steps("migrate")
    /\ mode' = Other(mode)
    /\ UNCHANGED <<options, opt, store, walOps, logOf, files, acked, completed, rotated,
                   windows, faults, fails>>

\* Mutant: whether there is anything to rotate is not asked.
RotateBlindly ==
    LET first == gen = 1
        source == IF first THEN snap[mode] ELSE bak[mode][gen - 1]
    IN
    /\ pc = "rotate"
    /\ gen' = gen - 1 /\ pc' = IF first THEN "write" ELSE pc
    /\ bak' = [bak EXCEPT ![mode] =
            IF first THEN [@ EXCEPT ![1] = [map |-> snap[mode], enc |-> 0]]
            ELSE [@ EXCEPT ![gen] = source, ![gen - 1] = NoFile]]
    /\ snap' = IF first THEN [snap EXCEPT ![mode] = NoFile] ELSE snap
    /\ rotated' = IF first \/ snap[mode] = Bad THEN rotated \cup {mode} ELSE rotated
    /\ UNCHANGED <<memory, man, log, call, acked, completed, windows, calls, faults, fails>>

\* rotate_backups: gen-1 to gen, the snapshot to 1.
Rotate ==
    LET first == gen = 1
        source == IF first THEN snap[mode] ELSE bak[mode][gen - 1]
    IN
    /\ pc = "rotate"
    /\ gen' = gen - 1 /\ pc' = IF first THEN "write" ELSE pc
    /\ IF source = NoFile THEN UNCHANGED <<snap, bak, rotated>>
       ELSE /\ bak' = [bak EXCEPT ![mode] =
                IF first THEN [@ EXCEPT ![1] = [map |-> snap[mode], enc |-> 0]]
                ELSE [@ EXCEPT ![gen] = source, ![gen - 1] = NoFile]]
            /\ snap' = IF first THEN [snap EXCEPT ![mode] = NoFile] ELSE snap
            \* From here the snapshot is not there, or, if it is Bad, the last
            \* usable backup may be gone.
            /\ rotated' = IF first \/ snap[mode] = Bad THEN rotated \cup {mode} ELSE rotated
    /\ UNCHANGED <<memory, man, log, call, acked, completed, windows, calls, faults, fails>>

\* write_file_atomic: temporary file, sync, rename.
Pushed(f) == SubSeq(<<store>> \o completed[f], 1,
                    IF Len(completed[f]) > BackupCount THEN BackupCount + 1
                    ELSE Len(completed[f]) + 1)

WriteSnapshot ==
    /\ pc = "write"
    /\ snap' = [snap EXCEPT ![mode] = store]
    /\ pc' = IF options.encrypt THEN "encrypt" ELSE "reset"
    /\ completed' = [completed EXCEPT ![mode] = Pushed(mode)]
    /\ rotated' = rotated \ {mode}
    /\ UNCHANGED <<memory, man, bak, log, gen, call, acked, windows, calls, faults, fails>>

\* Nothing is known any more of the backups of the format.
Spoiled(f) == [completed EXCEPT ![f] = <<>>]

\* An error of the new snapshot or the backup ends the call.
Fails ==
    /\ pc' = "idle" /\ call' = "none"
    /\ completed' = Spoiled(mode)
    /\ windows' = windows \cup IF call = "migrate" THEN {"halfway"} ELSE {}
    /\ UNCHANGED <<memory, man, snap, log, gen, acked, rotated, calls, faults>>

SnapshotFails ==
    /\ pc = "write" /\ fails < MaxFails
    /\ fails' = fails + 1
    /\ Fails
    /\ UNCHANGED bak

Newest == bak[mode][1]
HasBackup == BackupCount > 0 /\ Newest # NoFile

\* prepare_backup_content decompresses, which an encrypted or rotten file resists.
Packs == ~ (mode = "json" /\ options.compress) \/ (Newest.enc = 0 /\ Newest.map # Bad)

\* Mutant: the backup stays as it was rotated.
EncryptNothing ==
    /\ pc = "encrypt"
    /\ HasBackup => Packs
    /\ pc' = "reset"
    /\ UNCHANGED <<memory, files, gen, call, history>>

EncryptBackup ==
    /\ pc = "encrypt"
    /\ HasBackup => Packs
    /\ bak' = IF HasBackup THEN [bak EXCEPT ![mode][1].enc = @ + 1] ELSE bak
    /\ pc' = "reset"
    /\ UNCHANGED <<memory, man, snap, log, gen, call, history>>

\* The backup cannot be read or decompressed; or std::fs::write fails, having
\* truncated it.
EncryptFails ==
    /\ pc = "encrypt" /\ HasBackup
    /\ \/ ~ Packs /\ UNCHANGED <<bak, fails>>
       \/ /\ fails < MaxFails /\ fails' = fails + 1
          /\ \/ UNCHANGED bak
             \/ bak' = [bak EXCEPT ![mode][1].map = Bad]
    /\ Fails

\* Mutant: the log that is emptied is the one that is open.
ResetOpenLog ==
    /\ pc = "reset"
    /\ log' = [log EXCEPT ![logOf] = <<>>]
    /\ IF call = "close" THEN Stops
       ELSE /\ logOf' = mode /\ walOps' = 0
            /\ IF call = "compact" THEN pc' = "idle" /\ call' = "none"
               ELSE pc' = "manifest" /\ UNCHANGED call
            /\ UNCHANGED <<store, gen>>
    /\ UNCHANGED <<options, opt, mode, man, snap, bak, history>>

\* reset_wal.
ResetWal ==
    /\ pc = "reset"
    /\ log' = [log EXCEPT ![mode] = <<>>]
    /\ IF call = "close" THEN Stops
       ELSE /\ logOf' = mode /\ walOps' = 0
            /\ IF call = "compact" THEN pc' = "idle" /\ call' = "none"
               ELSE pc' = "manifest" /\ UNCHANGED call
            /\ UNCHANGED <<store, gen>>
    /\ UNCHANGED <<options, opt, mode, man, snap, bak, history>>

-----------------------------------------------------------------------------
(* The rest of migrate.  Its second reset_wal empties an empty log.        *)

\* Mutant: the manifest is left.
KeepManifest ==
    /\ pc = "manifest"
    /\ pc' = "oldsnap"
    /\ UNCHANGED <<memory, files, gen, call, history>>

RemoveManifest ==
    /\ pc = "manifest"
    /\ man' = FALSE
    /\ pc' = "oldsnap"
    /\ UNCHANGED <<memory, snap, bak, log, gen, call, history>>

\* The old snapshot goes before the old log: until the log has gone too, the
\* log alone makes an old v2 database of what is left.
RemoveOldSnapshot ==
    LET from == Other(mode) IN
    /\ pc = "oldsnap"
    /\ snap' = [snap EXCEPT ![from] = NoFile]
    /\ completed' = [completed EXCEPT ![from] =
        IF Len(@) < 2 THEN <<>> ELSE [@ EXCEPT ![1] = Bad]]
    /\ pc' = "oldlog"
    /\ windows' = windows \cup IF from = "v2" THEN {"oldlog"} ELSE {}
    /\ UNCHANGED <<memory, man, bak, log, gen, call, acked, rotated, calls, faults, fails>>

RemoveOldLog ==
    /\ pc = "oldlog"
    /\ log' = [log EXCEPT ![Other(mode)] = NoFile]
    /\ pc' = "idle" /\ call' = "none"
    /\ rotated' = rotated \ {Other(mode)} /\ windows' = windows \ {"oldlog"}
    /\ UNCHANGED <<memory, man, snap, bak, gen, acked, completed, calls, faults, fails>>

-----------------------------------------------------------------------------
(* Failures.                                                               *)

Unfinished == pc \in {"rotate", "write", "encrypt"}

\* A crash while std::fs::write has truncated the backup leaves it Bad.
Crash ==
    /\ pc # "down"
    /\ Stops
    /\ completed' = IF Unfinished THEN Spoiled(mode) ELSE completed
    /\ \/ UNCHANGED bak
       \/ pc = "encrypt" /\ HasBackup /\ bak' = [bak EXCEPT ![mode][1].map = Bad]
    /\ UNCHANGED <<options, opt, mode, man, snap, log, acked, rotated, windows, calls, faults, fails>>

\* The snapshot rots while no process runs.
Damage ==
    /\ pc = "down" /\ faults < MaxFaults
    /\ snap[mode] \in Stores
    /\ snap' = [snap EXCEPT ![mode] = Bad]
    /\ completed' = [completed EXCEPT ![mode] =
        IF Len(@) < 2 THEN <<>> ELSE [@ EXCEPT ![1] = Bad]]
    /\ windows' = windows \cup {"damaged"}
    /\ faults' = faults + 1
    /\ UNCHANGED <<memory, man, bak, log, control, acked, rotated, calls, fails>>

-----------------------------------------------------------------------------
Init ==
    /\ options \in Options
    /\ opt = "auto" /\ mode = "v2" /\ logOf = "v2"
    /\ store = EmptyStore /\ acked = EmptyStore /\ walOps = 0
    /\ man = FALSE
    /\ snap = [f \in Formats |-> NoFile]
    /\ bak = [f \in Formats |-> [g \in Gens |-> NoFile]]
    /\ log = [f \in Formats |-> NoFile]
    /\ pc = "down" /\ gen = 0 /\ call = "none"
    /\ completed = [f \in Formats |-> <<>>]
    /\ rotated = {} /\ windows = {}
    /\ calls = 0 /\ faults = 0 /\ fails = 0

Next ==
    \/ \E o \in FormatOpts : Open(o)
    \/ \E k \in Keys, v \in Values : Write(SetFrame(k, v))
    \/ \E k \in Present(store) : Write(DelFrame(k))
    \/ WriteManifest
    \/ Compact \/ Close \/ Migrate
    \/ Rotate \/ WriteSnapshot \/ SnapshotFails
    \/ EncryptBackup \/ EncryptFails \/ ResetWal
    \/ RemoveManifest \/ RemoveOldSnapshot \/ RemoveOldLog
    \/ Crash \/ Damage

Spec == Init /\ [][Next]_vars

-----------------------------------------------------------------------------
(* Properties.                                                             *)

\* A frame is in a log of the other format (after a migration that failed).
Mixed(f) == \E i \in DOMAIN FramesOf(f) : FramesOf(f)[i].as # f

\* Whenever the process dies, before or after any step of a compaction or a
\* migration, the next open with the same options finds what the calls amounted
\* to, except in a window the code leaves open: the snapshot is in the backups
\* and the new one not yet written (rotate_backups before write_file_atomic),
\* a migration has failed halfway (mode before compact_legacy), a log holds
\* frames of both formats, the old v2 snapshot is removed and the old v2 log
\* not yet, the snapshot has rotted.
AckedKept ==
    windows = {} /\ ModeOf(opt) \notin rotated /\ ~ Mixed(ModeOf(opt))
    => Loaded(ModeOf(opt)) = acked

\* Whatever has been created, compacted, migrated, restored and interrupted,
\* automatic detection finds the format the engine works in, from the end of one
\* call to the beginning of the next.
AutoFindsFormat ==
    pc = "idle" /\ opt = "auto" /\ windows = {} => Detect = mode

\* The backups are the snapshots of the past, the newest first, each of them
\* readable under the options, from rotation and encryption in place to the
\* next compaction, as long as no compaction was interrupted after it began.
\* (Compressed and encrypted JSON backups never open.)
BackupsInOrder ==
    \A f \in Formats :
        ~ (Unfinished /\ f = mode) /\ ~ (f = "json" /\ options.encrypt /\ options.compress)
        => \A g \in Gens : g + 1 \in DOMAIN completed[f] /\ completed[f][g + 1] # Bad
            => Opens(f, bak[f][g]) /\ bak[f][g].map = completed[f][g + 1]

\* An open that finds the snapshot rotten loses only what lay between the last
\* two snapshots: the keys the log touches have their acknowledged values, the
\* others those of the snapshot before.
RestoresAll(o) ==
    LET f == ModeOf(o)
        touched == UNION {Touched(FramesOf(f)[i].patch) : i \in DOMAIN FramesOf(f)}
    IN  /\ Open(o) /\ f = ModeOf(opt) /\ snap[f] = Bad
        /\ windows = {"damaged"} /\ ~ Mixed(f)
        /\ Len(completed[f]) > 1 /\ completed[f][2] # Bad
        /\ ~ (f = "json" /\ options.encrypt /\ options.compress)
        => \A k \in Keys : store'[k] = IF k \in touched THEN acked[k] ELSE completed[f][2][k]

\* The same, of every open (load_state, restore_from_backup).
RestoreKeepsLog == [][\A o \in FormatOpts : RestoresAll(o)]_vars
=============================================================================
