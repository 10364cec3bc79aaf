----------------------------- MODULE WalReplay -----------------------------
(***************************************************************************)
(* What the log frames and segments of spectre.db do to a key-value map:   *)
(* crates/core/src/formats.rs (replay_wal, apply_ops).                     *)
(*                                                                         *)
(* A frame, whatever its operations are (set, del, clear, batch), is       *)
(* abstracted to its effect, a PATCH: for every key the value the frame    *)
(* leaves there, Absent when it deletes the key, Keep when it does not     *)
(* touch it.  Keys are undotted names, none the ancestor of another, so a  *)
(* Set or a Del touches exactly its own key.                               *)
(***************************************************************************)
EXTENDS Naturals, Sequences

CONSTANTS
    Keys,      \* undotted keys
    Values,    \* JSON values
    Absent,    \* "no such key", and the \0DEL tombstone of a segment
    Keep,      \* the patch leaves this key alone
    Torn       \* a frame whose bytes are cut short or fail their CRC

ASSUME ReplayAssumption ==
    /\ Absent \notin Values
    /\ Keep \notin Values \cup {Absent}
    /\ Torn \notin [Keys -> Values \cup {Absent, Keep}]

Stores  == [Keys -> Values \cup {Absent}]
Patches == [Keys -> Values \cup {Absent, Keep}]

EmptyStore == [k \in Keys |-> Absent]
NoChange   == [k \in Keys |-> Keep]

Present(s) == {k \in Keys : s[k] # Absent}
Touched(p) == {k \in Keys : p[k] # Keep}

\* The frame of one operation, and of a batch whose operations after its last
\* Clear amount to p.
SetFrame(k, v)      == [NoChange EXCEPT ![k] = v]
DelFrame(k)         == [NoChange EXCEPT ![k] = Absent]
ClearFrame          == EmptyStore
BatchFrame(clears, p) ==
    IF clears THEN [k \in Keys |-> IF p[k] = Keep THEN Absent ELSE p[k]] ELSE p

ApplyPatch(s, p) == [k \in Keys |-> IF p[k] = Keep THEN s[k] ELSE p[k]]

Latest(I) == CHOOSE i \in I : \A j \in I : j <= i

\* The store s with the patches w[i], i \in I, applied in order: a key has the
\* value of the last of these patches that touches it.
Overlay(s, w, I) ==
    [k \in Keys |->
        LET hits == {i \in I : w[i][k] # Keep}
        IN  IF hits = {} THEN s[k] ELSE w[Latest(hits)][k]]

\* replay_wal stops at the first torn frame; what follows it is never decoded.
Readable(w) == {i \in DOMAIN w : \A j \in 1..i : w[j] # Torn}

Replay(s, w) == Overlay(s, w, Readable(w))

\* Some frame of w touches k.
Hit(w, k) == \E i \in DOMAIN w : w[i][k] # Keep
=============================================================================
