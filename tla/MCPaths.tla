------------------------------ MODULE MCPaths ------------------------------
(* PathStore on small instances: an object and two members of it.          *)
EXTENDS PathStore

One == {[at |-> <<>>, is |-> "1"]}
InB == {[at |-> <<"b">>, is |-> "1"]}

A == <<"a">>
AB == <<"a", "b">>
AC == <<"a", "c">>

FlatKeys == {A, AB, AC}
FlatValues == {One, InB}

SetOp(k, v) == [op |-> "set", key |-> k, value |-> v]
DelOp(k) == [op |-> "del", key |-> k, value |-> {}]

FlatBatches == {<<SetOp(AB, One), DelOp(AB)>>, <<DelOp(A), SetOp(AC, One)>>}
=============================================================================
