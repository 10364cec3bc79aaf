---------------------------- MODULE PathDocument ----------------------------
(***************************************************************************)
(* What the hierarchical store promises: the database is one JSON          *)
(* document.  set replaces what is at a path and whatever was in its way,  *)
(* delete removes what is at a path and below, reading changes nothing,    *)
(* and after a restart it is the same document.  How the document is cut   *)
(* into leaves is not to be seen.                                          *)
(***************************************************************************)
EXTENDS PathTree

CONSTANTS Keys, Values

VARIABLE document

DocSet(d, k, v) == Shown(Put(d, k, v))
DocDelete(d, k) == {e \in d : ~IsPrefix(k, e.at)}

SetDocument(k, v) == document' = DocSet(document, k, v)
DeleteDocument(k) == document' = DocDelete(document, k)
ClearDocument == document' = {}

DocApply(d, o) == IF o.op = "set" THEN DocSet(d, o.key, o.value) ELSE DocDelete(d, o.key)

DocOps == [op : {"set"}, key : Keys, value : Values] \cup
          [op : {"del"}, key : Keys, value : {{}}]

\* A batch of two operations is one step.
BatchDocument(o1, o2) == document' = DocApply(DocApply(document, o1), o2)

Init == document = {}

Next ==
    \/ \E k \in Keys, v \in Values : SetDocument(k, v)
    \/ \E k \in Keys : DeleteDocument(k)
    \/ ClearDocument
    \/ \E o1, o2 \in DocOps : BatchDocument(o1, o2)

Spec == Init /\ [][Next]_document
=============================================================================
