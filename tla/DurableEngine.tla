--------------------------- MODULE DurableEngine ---------------------------
(***************************************************************************)
(* SpectreEngine seen as a DurableMap: the durable map is the log replayed *)
(* over its ground, and every frame in wal_buf is one more map the         *)
(* database has been.                                                      *)
(***************************************************************************)
EXTENDS SpectreEngineInv

\* The maps of a snapshot g, a log w and a buffer b.
LineOf(g, w, b) ==
    [n \in 1..(Len(b) + 1) |-> Replay(g, w \o SubSeq(b, 1, n - 1))]

Line == LineOf(Ground, wal, walBuf)

Durable == INSTANCE DurableMap WITH
    Maps   <- Stores,
    Empty  <- EmptyStore,
    Buffer <- FlushAt,
    up     <- pc # "down",
    view   <- store,
    line   <- Line

\* The engine is a durable map: each of its steps, with every compaction,
\* merge, rotation and job in between, is one step of DurableMap or none; what
\* open builds from the files is the map the log stood for, and a crash keeps
\* one of the maps that were at risk (engine.rs, all of its write path).
ImplementsDurableMap == Durable!Spec

\* Between two calls wal_buf has room for a frame more (wal_flush_gate).
BufferBounded == pc \in {"idle", "dropsegs", "commit"} => Len(walBuf) < FlushAt
=============================================================================
