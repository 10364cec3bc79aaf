-------------------------- MODULE EngineFormatsInv --------------------------
(***************************************************************************)
(* The inductive invariant of EngineFormats, in a module of its own so     *)
(* that TLC checks what EngineFormats_proofs proves.                       *)
(*                                                                         *)
(* The argument: the log of the format an open would choose stands for the *)
(* store wherever it touches a key, and its snapshot for the rest; which   *)
(* format that is follows from the files a migration has not yet made or   *)
(* has removed; and the backups are the past snapshots at every rename.    *)
(***************************************************************************)
EXTENDS EngineFormats

Up == pc # "down"
Migrating == call = "migrate"
Beginning == {"rotate", "write", "encrypt", "reset"}
Ending == {"manifest", "oldsnap", "oldlog"}

V2Gone == snap["v2"] = NoFile /\ log["v2"] = NoFile /\ ~man

\* Which call is at which step, and what it has done by then.
CallOK ==
    /\ pc \in {"down", "idle"} => call = "none"
    /\ pc \in Beginning => call \in {"compact", "close", "migrate"}
    /\ pc \in Ending => Migrating
    /\ pc = "rotate" => gen \in Gens
    /\ pc = "encrypt" => options.encrypt
    /\ pc \in {"encrypt", "reset"} \cup Ending => snap[mode] = store /\ mode \notin rotated
    /\ pc \in Ending => logOf = mode /\ log[mode] = <<>>
    /\ pc \in {"oldsnap", "oldlog"} => ~man
    /\ pc = "oldlog" => snap[Other(mode)] = NoFile
    /\ Up => store = acked /\ log[logOf] # NoFile
    /\ Up => "damaged" \notin windows /\ ("oldlog" \in windows => pc = "oldlog")

\* Which files there are, as long as no migration has failed.
FilesOK ==
    Up /\ "halfway" \notin windows =>
        /\ opt # "auto" => mode = opt /\ ~Migrating
        /\ ~Migrating => logOf = mode
        /\ Migrating =>
            /\ log[Other(mode)] # NoFile
            /\ pc \in Beginning => logOf = Other(mode)
            /\ mode = "v2" /\ pc \in Beginning => log["v2"] = NoFile /\ ~man
            /\ mode = "v2" /\ pc \in {"rotate", "write"} => V2Gone
        /\ opt = "auto" /\ ~Migrating /\ mode = "json" => V2Gone

\* Frames of f have something to say of k.
Logged(f, k) == \E i \in DOMAIN FramesOf(f) : FramesOf(f)[i].patch[k] # Keep

KeptOK ==
    \A f \in Formats :
        f = ModeOf(opt) /\ windows \subseteq {"damaged"} /\ ~Mixed(f)
        => \A k \in Keys :
            (windows = {} /\ f \notin rotated) \/ Logged(f, k) => Loaded(f)[k] = acked[k]

\* The i-th snapshot of f, if it is known, is readable in its g-th backup.
Match(f, g, i) ==
    i \in DOMAIN completed[f] /\ completed[f][i] # Bad
    => Opens(f, bak[f][g]) /\ bak[f][g].map = completed[f][i]

\* The same of a backup that is not encrypted yet.
Fresh(f, i) ==
    i \in DOMAIN completed[f] /\ completed[f][i] # Bad
    => bak[f][1] = [map |-> completed[f][i], enc |-> 0]

SnapOK(f) == completed[f] # <<>> /\ completed[f][1] # Bad => snap[f] = completed[f][1]

\* Compressed and encrypted JSON backups never open.
Plain(f) == ~ (f = "json" /\ options.encrypt /\ options.compress)

\* Before and after the backups of f are moved on by one.
Settled(f) == SnapOK(f) /\ \A g \in Gens : Match(f, g, g + 1)

\* And while they are.
BackupsOK ==
    \A f \in Formats : Plain(f) =>
        /\ f # mode \/ ~Unfinished => Settled(f)
        /\ f = mode /\ pc = "rotate" =>
            /\ SnapOK(f)
            /\ \A g \in Gens : (g < gen => Match(f, g, g + 1)) /\ (g > gen => Match(f, g, g))
        /\ f = mode /\ pc = "write" =>
            \A g \in Gens : IF g = 1 THEN Fresh(f, 1) ELSE Match(f, g, g)
        /\ f = mode /\ pc = "encrypt" =>
            /\ SnapOK(f)
            /\ \A g \in Gens : IF g = 1 THEN Fresh(f, 2) ELSE Match(f, g, g + 1)

\* What the proofs of EngineFormats rest on: at every step of a compaction or a
\* migration, the files an open would choose hold what the calls amounted to,
\* and the backups are past snapshots (open, compact_legacy, rotate_backups,
\* migrate).
FormatsInv ==
    /\ TypeOK
    /\ CallOK
    /\ FilesOK
    /\ KeptOK
    /\ BackupsOK
=============================================================================
