------------------------------ MODULE PathStore ------------------------------
(***************************************************************************)
(* The engine over dotted keys: the live store of crates/core/src/store.rs *)
(* and the snapshot, segments and log it is loaded from, in both formats:  *)
(* a v2 snapshot keeps the leaves, a JSON one is the document alone.       *)
(*                                                                         *)
(* SpectreEngine has keys of which none is above another, and every step   *)
(* of a compaction; here a compaction is one step, and what matters is     *)
(* that one document can be cut into leaves in many ways.  A read joins    *)
(* leaves without a record in the log, so the store that recovery builds   *)
(* is cut differently from the one that was lost; and segments and         *)
(* snapshot are laid over each other leaf by leaf.                         *)
(***************************************************************************)
EXTENDS PathTree, FiniteSets

CONSTANTS
    Keys,          \* what the program uses as keys
    Values,        \* what it sets them to
    BatchOps,      \* the pairs of operations it uses as batches
    Tombstone,     \* \x00DEL, the value of a deleted key in a segment
    MergeEvery,    \* segmentMergeEvery, 0 for legacy mode; JSON has no segments
    MaxLog         \* bound: operations in the log

Ops == [op : {"set"}, key : Keys, value : Values] \cup
       [op : {"del"}, key : Keys, value : {{}}]

ASSUME PathAssumption ==
    /\ Keys \subseteq Seq(STRING) \ {<<>>}
    /\ \A v \in Values : IsValue(v)
    /\ BatchOps \subseteq Ops \X Ops
    /\ MergeEvery \in Nat
    /\ MaxLog \in Nat
    /\ Empty # Tombstone

VARIABLES
    format,     \* Engine.mode, "v2" or "json"
    leaves,     \* Engine.store
    dirty,      \* keys of operations since the last compaction
    dirtyAll,   \* cleared since then
    snap,       \* the snapshot: leaves, or a document
    segs,       \* the segments in the manifest, oldest first
    log         \* the log: operations, batches without their frames

vars == <<format, leaves, dirty, dirtyAll, snap, segs, log>>

-----------------------------------------------------------------------------
(* Recovery.                                                               *)

EmptyStore == [q \in {} |-> {}]
Cleared == [op |-> "clear", key |-> <<>>, value |-> {}]

\* apply_ops.
Apply(s, o) ==
    IF o.op = "set" THEN StoreSet(s, o.key, o.value)
    ELSE IF o.op = "del" THEN StoreDelete(s, o.key)
    ELSE EmptyStore

Replay(base, ops) ==
    LET after[n \in 0..Len(ops)] ==
            IF n = 0 THEN base ELSE Apply(after[n - 1], ops[n])
    IN  after[Len(ops)]

\* The keys of a map in its order: ancestors come first.
Sorted(D) ==
    CHOOSE w \in [1..Cardinality(D) -> D] :
        /\ IsInjective(w)
        /\ \A i, j \in DOMAIN w : i < j => Len(w[i]) <= Len(w[j])

Dead == {[at |-> <<>>, is |-> Tombstone]}

\* mutate_object_leaf with a tombstone, which is not JSON: the objects on the
\* way are made, the member is not touched.
Pave(v, p) ==
    LET kept == {e \in v : ~IsPrefix(e.at, Front(p))}
    IN  IF \E e \in kept : IsPrefix(Front(p), e.at)
        THEN kept
        ELSE kept \cup {[at |-> Front(p), is |-> Empty]}

\* load_snapshot reads a snapshot or a segment entry by entry with store.set.
LoadEntry(s, k, v) ==
    IF v = Dead /\ HasAncestor(s, k) /\ IsObject(s[AncestorLeaf(s, k)])
    THEN With(s, AncestorLeaf(s, k), Pave(s[AncestorLeaf(s, k)], Inner(s, k)))
    ELSE StoreSet(s, k, v)

LoadFile(f) ==
    LET keys == Sorted(DOMAIN f)
        loaded[n \in 0..Len(keys)] ==
            IF n = 0 THEN EmptyStore ELSE LoadEntry(loaded[n - 1], keys[n], f[keys[n]])
    IN  loaded[Len(keys)]

\* load_state lays a segment over what there is, leaf by leaf.
LaySegment(s, f) ==
    FoldLeft(LAMBDA t, k : IF f[k] = Dead THEN StoreDelete(t, k) ELSE With(t, k, f[k]),
             s, Sorted(DOMAIN f))

\* write_json_snapshot joins the leaves, in the order of the store.
Joined(s) ==
    LET keys == Sorted(DOMAIN s)
        joined[n \in 0..Len(keys)] ==
            IF n = 0 THEN {} ELSE Put(joined[n - 1], keys[n], s[keys[n]])
    IN  joined[Len(keys)]

\* flatten_json, load_json_snapshot: a leaf for every scalar of the document.
Flattened(d) ==
    [q \in {e.at : e \in d} |-> {[at |-> <<>>, is |-> e.is] : e \in Member(d, q)}]

LoadSnapshot == IF format = "v2" THEN LoadFile(snap) ELSE Flattened(snap)

SegmentStore ==
    LET laid[n \in 0..Len(segs)] ==
            IF n = 0 THEN EmptyStore ELSE LaySegment(laid[n - 1], LoadFile(segs[n]))
    IN  laid[Len(segs)]

\* The snapshot is laid over the segments, and the log replayed.
Recovered ==
    LET base == LoadSnapshot
        under == SegmentStore
    IN  Replay([q \in DOMAIN under \cup DOMAIN base |->
                   IF q \in DOMAIN base THEN base[q] ELSE under[q]], log)

-----------------------------------------------------------------------------
(* Operations of the engine.                                               *)

files == <<format, snap, segs>>

LogOp(o) == log' = Append(log, o)

Set(k, v) ==
    /\ Len(log) < MaxLog
    /\ leaves' = StoreSet(leaves, k, v)
    /\ dirty' = dirty \cup {k}
    /\ LogOp([op |-> "set", key |-> k, value |-> v])
    /\ UNCHANGED <<dirtyAll, files>>

\* Mutant: only the deletion of a leaf is logged.
DeleteLeafLogged(k) ==
    /\ Len(log) < MaxLog
    /\ Deletes(leaves, k)
    /\ leaves' = StoreDelete(leaves, k)
    /\ dirty' = dirty \cup {k}
    /\ IF k \in DOMAIN leaves
       THEN LogOp([op |-> "del", key |-> k, value |-> {}]) ELSE UNCHANGED log
    /\ UNCHANGED <<dirtyAll, files>>

Delete(k) ==
    /\ Len(log) < MaxLog
    /\ Deletes(leaves, k)
    /\ leaves' = StoreDelete(leaves, k)
    /\ dirty' = dirty \cup {k}
    /\ LogOp([op |-> "del", key |-> k, value |-> {}])
    /\ UNCHANGED <<dirtyAll, files>>

Clear ==
    /\ Len(log) < MaxLog
    /\ leaves' = EmptyStore
    /\ dirty' = {}
    /\ dirtyAll' = TRUE
    /\ LogOp(Cleared)
    /\ UNCHANGED files

Batch(o1, o2) ==
    /\ Len(log) + 1 < MaxLog
    /\ leaves' = Apply(Apply(leaves, o1), o2)
    /\ dirty' = dirty \cup {o1.key, o2.key}
    /\ log' = log \o <<o1, o2>>
    /\ UNCHANGED <<dirtyAll, files>>

\* get, has, find, transactions: whatever reads a key.
Get(k) ==
    /\ leaves' = AfterGet(leaves, k)
    /\ UNCHANGED <<dirty, dirtyAll, files, log>>

FullMerge ==
    \/ format = "json"
    \/ MergeEvery = 0
    \/ dirtyAll
    \/ segs = <<>> /\ Cardinality(dirty) >= Cardinality(All(leaves))
    \/ Len(segs) >= MergeEvery

\* compact in legacy mode, or a full merge.
Rewrite ==
    /\ FullMerge
    /\ snap' = IF format = "v2" THEN leaves ELSE Joined(leaves)
    /\ segs' = <<>>
    /\ log' = <<>>
    /\ dirty' = {}
    /\ dirtyAll' = FALSE
    /\ UNCHANGED <<format, leaves>>

\* What a delta writes of the dirty keys; it reads them with get.
Scratch ==
    [k \in dirty |-> IF StoreGet(leaves, k) = {} THEN Dead ELSE StoreGet(leaves, k)]

Delta ==
    /\ ~FullMerge
    /\ segs' = Append(segs, Scratch)
    /\ leaves' = FoldLeft(AfterGet, leaves, Sorted(dirty))
    /\ dirty' = {}
    /\ dirtyAll' = FALSE
    /\ UNCHANGED <<format, snap, log>>

\* The delta of a background job asks get_shared: the leaf at the key itself, a
\* tombstone for a key that is a member of a leaf or a parent of leaves.
OwnLeaves == [k \in dirty |-> IF k \in DOMAIN leaves THEN leaves[k] ELSE Dead]

DeltaShared ==
    /\ ~FullMerge
    /\ segs' = Append(segs, OwnLeaves)
    /\ dirty' = {}
    /\ dirtyAll' = FALSE
    /\ UNCHANGED <<format, leaves, snap, log>>

\* The process ends, in whatever way, and the database is opened again.
Reopen ==
    /\ leaves' = Recovered
    /\ dirty' = {}
    /\ dirtyAll' = FALSE
    /\ UNCHANGED <<files, log>>

Init ==
    /\ format \in {"v2", "json"}
    /\ leaves = EmptyStore
    /\ dirty = {}
    /\ dirtyAll = FALSE
    /\ snap = IF format = "v2" THEN EmptyStore ELSE {}
    /\ segs = <<>>
    /\ log = <<>>

Write ==
    \/ \E k \in Keys, v \in Values : Set(k, v)
    \/ \E k \in Keys : Delete(k)
    \/ Clear
    \/ \E b \in BatchOps : Batch(b[1], b[2])

Next ==
    \/ Write
    \/ \E k \in Keys : Get(k)
    \/ Rewrite
    \/ Delta
    \/ DeltaShared
    \/ Reopen

Spec == Init /\ [][Next]_vars

-----------------------------------------------------------------------------
(* Properties.                                                             *)

\* No key of the store is above another: what get, delete and all assume when
\* they look at a leaf, at its ancestor or at what is below it, but never at
\* two of them.
NoNesting == \A p, q \in DOMAIN leaves : IsPrefix(p, q) => p = q

\* Whatever way the document is cut into leaves, get answers for every key what
\* an enumeration shows there.
GetAnswers ==
    \A k \in Keys : Shown(StoreGet(leaves, k)) = Member(All(leaves), k)

\* The store that recovery would build is the same document, although the log
\* was written over leaves cut in another way.
RecoversDocument == All(Recovered) = All(leaves)

\* The store implements one document: set, delete, clear and batch do to it
\* what they say with the keys and values they are given, and reads, compactions
\* and restarts do nothing (store.rs, and recovery in load_state).
Document == INSTANCE PathDocument WITH document <- All(leaves)
CallsImplement ==
    /\ \A k \in Keys, v \in Values : Set(k, v) => Document!SetDocument(k, v)
    /\ \A k \in Keys : Delete(k) => Document!DeleteDocument(k)
    /\ Clear => Document!ClearDocument
    /\ \A b \in BatchOps : Batch(b[1], b[2]) => Document!BatchDocument(b[1], b[2])
    /\ (\E k \in Keys : Get(k)) \/ Rewrite \/ Delta \/ DeltaShared \/ Reopen
        => UNCHANGED All(leaves)
ImplementsDocument == Document!Spec /\ [][CallsImplement]_vars
=============================================================================
