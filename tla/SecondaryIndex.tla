--------------------------- MODULE SecondaryIndex ---------------------------
(***************************************************************************)
(* The secondary index of crates/core/src/index.rs: a bucket of keys for   *)
(* every indexed value, and for every key its bucket and its place there,  *)
(* so that a key is removed without a search: the last key of the bucket   *)
(* moves into its place.                                                   *)
(***************************************************************************)
EXTENDS SequencesExt

CONSTANTS
    Keys,     \* keys of leaves
    Terms,    \* order keys of scalars
    NoTerm    \* the value has no scalar at the indexed path

ASSUME TermAssumption == NoTerm \notin Terms

VARIABLE index    \* [tree, reverse]

EmptyIndex == [tree |-> [t \in Terms |-> <<>>], reverse |-> [k \in {} |-> {}]]

SwapRemove(bucket, i) == Front([bucket EXCEPT ![i] = Last(bucket)])

\* Mutant: the place of the key that moved is not corrected.
RemoveKeyUnmoved(ix, k) ==
    IF k \notin DOMAIN ix.reverse THEN ix
    ELSE LET place == ix.reverse[k] IN
         [tree |-> [ix.tree EXCEPT ![place.term] = SwapRemove(@, place.pos)],
          reverse |-> [q \in DOMAIN ix.reverse \ {k} |-> ix.reverse[q]]]

\* If the key is not where it should be, the bucket is searched for it.
RemoveKey(ix, k) ==
    IF k \notin DOMAIN ix.reverse THEN ix
    ELSE
    LET place == ix.reverse[k]
        bucket == ix.tree[place.term]
        found == {i \in DOMAIN bucket : bucket[i] = k}
        pos == IF place.pos \in found THEN place.pos ELSE Min(found)
        others == DOMAIN ix.reverse \ {k}
    IN  IF found = {}
        THEN [ix EXCEPT !.reverse = [q \in others |-> ix.reverse[q]]]
        ELSE [tree |-> [ix.tree EXCEPT ![place.term] = SwapRemove(bucket, pos)],
              reverse |-> [q \in others |->
                  IF pos < Len(bucket) /\ q = Last(bucket)
                  THEN [ix.reverse[q] EXCEPT !.pos = pos] ELSE ix.reverse[q]]]

PushKey(ix, k, t) ==
    LET bucket == Append(ix.tree[t], k) IN
    [tree |-> [ix.tree EXCEPT ![t] = bucket],
     reverse |-> [q \in DOMAIN ix.reverse \cup {k} |->
         IF q = k THEN [term |-> t, pos |-> Len(bucket)] ELSE ix.reverse[q]]]

InsertKey(ix, k, t) ==
    LET removed == RemoveKey(ix, k) IN
    IF t = NoTerm THEN removed ELSE PushKey(removed, k, t)

Lookup(ix, t) == {ix.tree[t][i] : i \in DOMAIN ix.tree[t]}

-----------------------------------------------------------------------------
(* The index by itself, with whatever calls the engine makes.              *)

IndexInit == index = EmptyIndex

IndexNext ==
    \/ \E k \in Keys, t \in Terms \cup {NoTerm} : index' = InsertKey(index, k, t)
    \/ \E k \in Keys : index' = RemoveKey(index, k)
    \/ index' = EmptyIndex

IndexSpec == IndexInit /\ [][IndexNext]_index

Agree(ix) ==
    /\ \A k \in DOMAIN ix.reverse :
          LET place == ix.reverse[k] IN
          /\ place.pos \in DOMAIN ix.tree[place.term]
          /\ ix.tree[place.term][place.pos] = k
    /\ \A t \in Terms : \A i \in DOMAIN ix.tree[t] :
          LET k == ix.tree[t][i] IN
          /\ k \in DOMAIN ix.reverse
          /\ ix.reverse[k] = [term |-> t, pos |-> i]

\* Buckets and places agree: a key is in one bucket, once, at the place that is
\* noted for it, so that removing a key never removes another one.
Matched == Agree(index)
=============================================================================
