----------------------------- MODULE DurableMap -----------------------------
(***************************************************************************)
(* What the storage engine promises its caller, with no file in sight: the *)
(* database is one map.  A write makes it another map, at once for readers *)
(* and soon for good; a crash goes back to one of the maps it has been     *)
(* since it last was durable, never to anything else; at most Buffer       *)
(* writes are at risk.  Compaction, backups and segments do not show.      *)
(***************************************************************************)
EXTENDS Naturals, Sequences, SequencesExt

CONSTANTS
    Maps,     \* the maps the database can be
    Empty,    \* the map with no keys
    Buffer    \* writes that may be in memory only, the one in progress included

VARIABLES
    up,       \* a process has the database open
    view,     \* what reads see
    line      \* the maps the database has been, from the durable one on

Init ==
    /\ up = FALSE
    /\ view = Empty
    /\ line = <<Empty>>

Open ==
    /\ ~up
    /\ up'
    /\ view' = Last(line)
    /\ UNCHANGED line

\* A write whose call is still logging may not be visible yet.
Change ==
    /\ up
    /\ up'
    /\ Len(line) <= Buffer
    /\ view = Last(line)
    /\ line' # <<>> /\ Front(line') = line
    /\ Last(line') \in Maps
    /\ view' \in {view, Last(line')}

\* What has been written so far is durable, and visible.
Settle ==
    /\ up
    /\ up'
    /\ line' = <<Last(line)>>
    /\ view' = Last(line)

\* A clean end loses nothing.
Close ==
    /\ up
    /\ Len(line) = 1
    /\ ~up'
    /\ view' = Empty
    /\ UNCHANGED line

Crash ==
    /\ up
    /\ ~up'
    /\ view' = Empty
    /\ \E i \in DOMAIN line : line' = <<line[i]>>

Next ==
    \/ Settle
    \/ Change
    \/ Open
    \/ Close
    \/ Crash

Spec == Init /\ [][Next]_<<up, view, line>>
=============================================================================
