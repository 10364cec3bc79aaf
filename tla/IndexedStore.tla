---------------------------- MODULE IndexedStore ----------------------------
(***************************************************************************)
(* How the engine keeps a secondary index in step with the store: every    *)
(* write tells the index which keys it has touched, and reads and scans    *)
(* tell it nothing.  A leaf is in the index if its own value has a scalar  *)
(* at the indexed path.                                                    *)
(***************************************************************************)
EXTENDS PathTree, SecondaryIndex, FiniteSets

CONSTANTS
    Values,      \* what keys are set to
    BatchOps,    \* the pairs of operations used as batches
    Field        \* the indexed path

VARIABLES
    leaves,      \* Engine.store
    indexed,     \* the index exists
    disturbed    \* history: a write or a read has dissolved leaves that the
                 \* index is not told of

vars == <<leaves, index, indexed, disturbed>>

Ops == [op : {"set"}, key : Keys, value : Values] \cup
       [op : {"del"}, key : Keys, value : {{}}]

ASSUME IndexAssumption ==
    /\ Keys \subseteq Seq(STRING)
    /\ BatchOps \subseteq Ops \X Ops

-----------------------------------------------------------------------------
(* Maintenance.                                                            *)

\* extract_path and order_key: objects and arrays are not indexed.
Term(v) ==
    LET found == {e \in v : e.at = Field /\ e.is \in Terms} IN
    IF found = {} THEN NoTerm ELSE (CHOOSE e \in found : TRUE).is

HasLeaf(s, k) == k \in DOMAIN s \/ HasAncestor(s, k)
LeafOf(s, k) == IF k \in DOMAIN s THEN k ELSE AncestorLeaf(s, k)

\* index_touch for one key.
Touch(ix, s, k) ==
    IF HasLeaf(s, k) THEN InsertKey(ix, LeafOf(s, k), Term(s[LeafOf(s, k)]))
    ELSE RemoveKey(ix, k)

\* A call for each of these keys, with the scalar it has, or has no longer.
InsertAll(ix, terms) ==
    LET keys == SetToSeq(DOMAIN terms)
        after[n \in 0..Len(keys)] ==
            IF n = 0 THEN ix ELSE InsertKey(after[n - 1], keys[n], terms[keys[n]])
    IN  after[Len(keys)]

Update(ix, s, D) == InsertAll(ix, [k \in D |-> Term(s[k])])

RemoveAll(ix, D) == InsertAll(ix, [k \in D |-> NoTerm])

Build(s) == Update(EmptyIndex, s, DOMAIN s)

Descendants(s, k) == Below(s, k) \ {k}

Apply(s, o) == IF o.op = "set" THEN StoreSet(s, o.key, o.value) ELSE StoreDelete(s, o.key)

\* What a batch takes out of the index before it looks at the result.
Removed(s, o) == IF o.op = "del" THEN {o.key} \cup Descendants(s, o.key) ELSE {}

\* Leaves that are gone from s to t.
Dissolved(s, t) == DOMAIN s \ DOMAIN t

-----------------------------------------------------------------------------
(* Operations.                                                             *)

Maintain(ix) == index' = IF indexed THEN ix ELSE index

Set(k, v) ==
    LET s == StoreSet(leaves, k, v) IN
    /\ leaves' = s
    /\ Maintain(Touch(index, s, k))
    /\ disturbed' = (disturbed \/ Dissolved(leaves, s) # {})
    /\ UNCHANGED indexed

\* Mutant: the index is told of the key alone.
DeleteTouching(k) ==
    LET s == StoreDelete(leaves, k) IN
    /\ Deletes(leaves, k)
    /\ leaves' = s
    /\ Maintain(Touch(index, s, k))
    /\ UNCHANGED <<indexed, disturbed>>

Delete(k) ==
    LET s == StoreDelete(leaves, k) IN
    /\ Deletes(leaves, k)
    /\ leaves' = s
    /\ Maintain(Touch(RemoveAll(index, Descendants(leaves, k)), s, k))
    /\ UNCHANGED <<indexed, disturbed>>

Clear ==
    /\ leaves' = [q \in {} |-> {}]
    /\ Maintain(EmptyIndex)
    /\ UNCHANGED <<indexed, disturbed>>

Batch(o1, o2) ==
    LET s1 == Apply(leaves, o1)
        s2 == Apply(s1, o2)
        removed == Removed(leaves, o1) \cup Removed(s1, o2)
        touched == {o1.key, o2.key}
        missing == {k \in touched : ~HasLeaf(s2, k)}
        found == {LeafOf(s2, k) : k \in touched \ missing}
    IN  /\ leaves' = s2
        /\ Maintain(Update(RemoveAll(RemoveAll(index, removed), missing), s2, found))
        /\ disturbed' = \/ disturbed
                         \/ (o1.op = "set" /\ Dissolved(leaves, s1) # {})
                         \/ (o2.op = "set" /\ Dissolved(s1, s2) # {})
        /\ UNCHANGED indexed

Get(k) ==
    /\ leaves' = AfterGet(leaves, k)
    /\ disturbed' = (disturbed \/ Dissolved(leaves, leaves') # {})
    /\ UNCHANGED <<index, indexed>>

\* create_index, also from index_lookup and index_range.
CreateIndex ==
    /\ ~indexed
    /\ indexed' = TRUE
    /\ index' = Build(leaves)
    /\ disturbed' = FALSE
    /\ UNCHANGED leaves

DropIndex ==
    /\ indexed
    /\ indexed' = FALSE
    /\ index' = EmptyIndex
    /\ UNCHANGED <<leaves, disturbed>>

Init ==
    /\ leaves = [q \in {} |-> {}]
    /\ IndexInit
    /\ indexed = FALSE
    /\ disturbed = FALSE

Next ==
    \/ \E k \in Keys, v \in Values : Set(k, v)
    \/ \E k \in Keys : Delete(k)
    \/ Clear
    \/ \E b \in BatchOps : Batch(b[1], b[2])
    \/ \E k \in Keys : Get(k)
    \/ CreateIndex
    \/ DropIndex

Spec == Init /\ [][Next]_vars

-----------------------------------------------------------------------------
(* Properties.                                                             *)

Scan(t) == {k \in DOMAIN leaves : Term(leaves[k]) = t}

\* A lookup answers what a scan of the leaves would, as long as no set has
\* covered leaves below its key or a scalar above it, and no read has joined
\* leaves: the index is not told of the leaves these dissolve.
IndexExact ==
    indexed /\ ~disturbed => \A t \in Terms : Lookup(index, t) = Scan(t)
=============================================================================
