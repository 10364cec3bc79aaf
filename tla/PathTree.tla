------------------------------ MODULE PathTree ------------------------------
(***************************************************************************)
(* JSON values and the hierarchical store of crates/core/src/store.rs as   *)
(* sets of entries.                                                        *)
(*                                                                         *)
(* A path is a sequence of segments.  A value is flattened: the set of its *)
(* scalars, each at its path inside the value, an empty object being the   *)
(* scalar Empty.  So {"b": 1, "c": {}} is {1 at <<b>>, Empty at <<c>>} and *)
(* 1 alone is {1 at <<>>}.  An array is a scalar.  A store maps the keys   *)
(* of its leaves to such values: the same document may be one leaf or      *)
(* many.                                                                   *)
(***************************************************************************)
EXTENDS SequencesExt, FiniteSets

CONSTANT Empty    \* {}

Related(p, q) == IsPrefix(p, q) \/ IsPrefix(q, p)

\* The path from p to q, which is at p or below.
From(p, q) == SubSeq(q, Len(p) + 1, Len(q))

\* A finite set of scalars, none of them inside another.
IsValue(v) ==
    /\ IsFiniteSet(v)
    /\ \A e \in v : e = [at |-> e.at, is |-> e.is] /\ e.at \in Seq(STRING)
    /\ \A e, f \in v : IsPrefix(e.at, f.at) => e = f

IsObject(v) == \A e \in v : e.at # <<>> \/ e.is = Empty

\* The value v at path p of a larger one, and the value at path p of v.
Shift(p, v) == {[at |-> p \o e.at, is |-> e.is] : e \in v}
Member(v, p) ==
    {[at |-> From(p, e.at), is |-> e.is] : e \in {x \in v : IsPrefix(p, x.at)}}

\* What is not an object on the way to p becomes one.
Put(v, p, w) == {e \in v : ~Related(e.at, p)} \cup Shift(p, w)

\* An object that loses its last member is still there, empty.
Cut(v, p) ==
    LET kept == {e \in v : ~IsPrefix(p, e.at)}
    IN  IF \E e \in kept : IsPrefix(Front(p), e.at)
        THEN kept
        ELSE kept \cup {[at |-> Front(p), is |-> Empty]}

\* What an enumeration shows of a value: its scalars.
Shown(v) == {e \in v : e.is # Empty}

-----------------------------------------------------------------------------
(* The store.                                                              *)

HasAncestor(s, k) == \E a \in DOMAIN s : IsStrictPrefix(a, k)

\* The first that ancestor_leaf finds, from the root.
AncestorLeaf(s, k) ==
    CHOOSE a \in DOMAIN s :
        /\ IsStrictPrefix(a, k)
        /\ \A b \in DOMAIN s : IsStrictPrefix(b, k) => Len(a) <= Len(b)

Inner(s, k) == From(AncestorLeaf(s, k), k)

\* The leaf at k and those below.
Below(s, k) == {q \in DOMAIN s : IsPrefix(k, q)}

Without(s, D) == [q \in DOMAIN s \ D |-> s[q]]

With(s, k, v) == [q \in DOMAIN s \cup {k} |-> IF q = k THEN v ELSE s[q]]

\* Mutant: only the leaf itself is replaced.
PlaceExact(s, k, v) == With(s, k, v)

Place(s, k, v) == With(Without(s, Below(s, k)), k, v)

StoreSet(s, k, v) ==
    IF ~HasAncestor(s, k) THEN Place(s, k, v)
    ELSE LET a == AncestorLeaf(s, k) IN
         IF IsObject(s[a])
         THEN Place(s, a, Put(s[a], Inner(s, k), v))
         ELSE Place(Without(s, {a}), k, v)

\* Is there anything to delete?
Deletes(s, k) ==
    \/ Below(s, k) # {}
    \/ HasAncestor(s, k)
       /\ \E e \in s[AncestorLeaf(s, k)] : IsPrefix(Inner(s, k), e.at)

\* Mutant: the last member takes its object along.
StoreDeleteMember(s, k) ==
    IF Below(s, k) # {} THEN Without(s, Below(s, k))
    ELSE IF Deletes(s, k) THEN Without(s, {AncestorLeaf(s, k)})
    ELSE s

StoreDelete(s, k) ==
    IF Below(s, k) # {} THEN Without(s, Below(s, k))
    ELSE IF Deletes(s, k)
    THEN LET a == AncestorLeaf(s, k) IN With(s, a, Cut(s[a], Inner(s, k)))
    ELSE s

\* The leaves below k as one object.
Branch(s, k) == UNION {Shift(From(k, q), s[q]) : q \in Below(s, k)}

\* What get returns; nothing is {}.
StoreGet(s, k) ==
    IF k \in DOMAIN s THEN s[k]
    ELSE IF HasAncestor(s, k) THEN Member(s[AncestorLeaf(s, k)], Inner(s, k))
    ELSE Branch(s, k)

\* Mutant: the object is put beside the leaves it was made of.
AfterGetBeside(s, k) ==
    IF k \notin DOMAIN s /\ ~HasAncestor(s, k) /\ Below(s, k) # {}
    THEN With(s, k, Branch(s, k))
    ELSE s

\* get leaves the object it has put together in the place of its leaves.
AfterGet(s, k) ==
    IF k \notin DOMAIN s /\ ~HasAncestor(s, k) /\ Below(s, k) # {}
    THEN Place(s, k, Branch(s, k))
    ELSE s

\* all: every scalar under its whole path.
All(s) == Shown(UNION {Shift(k, s[k]) : k \in DOMAIN s})
=============================================================================
