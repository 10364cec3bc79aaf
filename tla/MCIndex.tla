------------------------------ MODULE MCIndex ------------------------------
(* IndexedStore on small instances: an ancestor, two siblings below it and *)
(* a key apart, so that three keys can share a bucket.                     *)
EXTENDS IndexedStore

Scalar(x) == {[at |-> <<>>, is |-> x]}
Record(x) == {[at |-> <<"f">>, is |-> x]}

A == <<"a">>
AB == <<"a", "b">>
AF == <<"a", "f">>
B == <<"b">>
C == <<"c">>

TheKeys == {A, AB, AF, B, C}
TheValues == {Scalar("1"), Record("1"), Record("2")}
TheField == <<"f">>

SetOp(k, v) == [op |-> "set", key |-> k, value |-> v]
DelOp(k) == [op |-> "del", key |-> k, value |-> {}]

TheBatches ==
    {<<DelOp(A), SetOp(AB, Record("2"))>>, <<SetOp(AB, Record("1")), DelOp(AB)>>,
     <<SetOp(AF, Scalar("1")), SetOp(B, Record("1"))>>}
=============================================================================
