-------------------------- MODULE PathStore_proofs --------------------------
(***************************************************************************)
(* The hierarchical store, for keys of any depth, any values and any cut   *)
(* of the document into leaves: what each operation of PathTree does to    *)
(* the leaves and to the document they make up; and, where there are no    *)
(* segments, that the engine over dotted keys implements one document.     *)
(***************************************************************************)
EXTENDS PathStore, TLAPS, FiniteSetTheorems, WellFoundedInduction

Paths == Seq(STRING)

-----------------------------------------------------------------------------
(* Paths.                                                                  *)

LEMMA PathEqual ==
    ASSUME NEW p \in Paths, NEW q \in Paths, Len(p) = Len(q),
           \A i \in 1..Len(p) : p[i] = q[i]
    PROVE  p = q
<1>1. p = [i \in 1..Len(p) |-> p[i]] /\ q = [i \in 1..Len(q) |-> q[i]]
  BY DEF Paths
<1> QED
  BY <1>1

LEMMA PrefixAt ==
    ASSUME NEW p \in Paths, NEW q \in Paths
    PROVE  IsPrefix(p, q) <=> Len(p) <= Len(q) /\ \A i \in 1..Len(p) : p[i] = q[i]
<1>1. \A a, b \in Paths : Len(a) <= Len(b) =>
          (SubSeq(a, 1, Len(a)) = SubSeq(b, 1, Len(a)) <=> \A i \in 1..Len(a) : a[i] = b[i])
  <2> SUFFICES ASSUME NEW a \in Paths, NEW b \in Paths, Len(a) <= Len(b)
               PROVE  SubSeq(a, 1, Len(a)) = SubSeq(b, 1, Len(a)) <=>
                          \A i \in 1..Len(a) : a[i] = b[i]
    OBVIOUS
  <2>1. SubSeq(a, 1, Len(a)) = [i \in 1..Len(a) |-> a[i]]
    BY DEF Paths
  <2>2. SubSeq(b, 1, Len(a)) = [i \in 1..Len(a) |-> b[i]]
    BY DEF Paths
  <2> QED
    BY <2>1, <2>2
<1> QED
  BY <1>1 DEF IsPrefix

LEMMA EmptyPrefix ==
    ASSUME NEW p \in Paths
    PROVE  <<>> \in Paths /\ IsPrefix(<<>>, p)
<1>1. <<>> \in Paths /\ Len(<<>>) = 0 /\ Len(p) \in Nat
  BY DEF Paths
<1>2. PICK z \in Paths : z = <<>>
  BY <1>1
<1>3. Len(z) <= Len(p) /\ \A i \in 1..Len(z) : z[i] = p[i]
  BY <1>1, <1>2
<1> QED
  BY <1>1, <1>2, <1>3, PrefixAt

LEMMA PrefixOrder ==
    ASSUME NEW p \in Paths, NEW q \in Paths, NEW r \in Paths
    PROVE  /\ IsPrefix(p, p)
           /\ IsPrefix(p, q) /\ IsPrefix(q, r) => IsPrefix(p, r)
           /\ IsPrefix(p, q) /\ IsPrefix(q, p) => p = q
           /\ IsPrefix(p, r) /\ IsPrefix(q, r) => Related(p, q)
           /\ IsStrictPrefix(p, q) => Len(p) < Len(q)
<1>1. Len(p) \in Nat /\ Len(q) \in Nat /\ Len(r) \in Nat
  BY DEF Paths
<1>2. IsPrefix(p, p)
  BY PrefixAt, <1>1
<1>3. IsPrefix(p, q) /\ IsPrefix(q, r) => IsPrefix(p, r)
  BY PrefixAt, <1>1
<1>4. ASSUME NEW a \in Paths, NEW b \in Paths, IsPrefix(a, b), Len(a) = Len(b)
      PROVE  a = b
  <2>1. \A i \in 1..Len(a) : a[i] = b[i]
    BY <1>4, PrefixAt
  <2> QED
    BY <1>4, <2>1, PathEqual
<1>5. IsPrefix(p, q) /\ IsPrefix(q, p) => p = q
  BY PrefixAt, <1>1, <1>4
<1>6. IsPrefix(p, r) /\ IsPrefix(q, r) => Related(p, q)
  BY PrefixAt, <1>1 DEF Related
<1>7. IsStrictPrefix(p, q) => Len(p) < Len(q)
  BY PrefixAt, <1>1, <1>4 DEF IsStrictPrefix
<1> QED
  BY <1>2, <1>3, <1>5, <1>6, <1>7

\* A path and one below it.
LEMMA PathBelow ==
    ASSUME NEW p \in Paths, NEW x \in Paths
    PROVE  /\ p \o x \in Paths
           /\ IsPrefix(p, p \o x)
           /\ From(p, p \o x) = x
           /\ p \o <<>> = p
           /\ p \o x = p <=> x = <<>>
<1>1. /\ p \o x \in Paths /\ Len(p \o x) = Len(p) + Len(x)
      /\ \A i \in 1..Len(p) : (p \o x)[i] = p[i]
      /\ Len(p) \in Nat /\ Len(x) \in Nat
  <2>1. /\ p \o x \in Paths /\ Len(p \o x) = Len(p) + Len(x)
        /\ Len(p) \in Nat /\ Len(x) \in Nat
    BY DEF Paths
  <2>2. ASSUME NEW i \in 1..Len(p)
        PROVE  (p \o x)[i] = p[i]
    <3>1. i \in 1..(Len(p) + Len(x)) /\ i <= Len(p)
      BY <2>1
    <3> QED
      BY <3>1 DEF Paths
  <2> QED
    BY <2>1, <2>2
<1>2. IsPrefix(p, p \o x)
  <2> DEFINE c == p \o x
  <2>1. c \in Paths /\ Len(p) <= Len(c) /\ \A i \in 1..Len(p) : p[i] = c[i]
    BY <1>1
  <2> HIDE DEF c
  <2>2. IsPrefix(p, c)
    BY <2>1, PrefixAt
  <2> QED
    BY <2>2 DEF c
<1>3. From(p, p \o x) = x
  <2>1. From(p, p \o x) = SubSeq(p \o x, Len(p) + 1, Len(p) + Len(x))
    BY <1>1 DEF From
  <2>2. /\ SubSeq(p \o x, Len(p) + 1, Len(p) + Len(x)) \in Paths
        /\ Len(SubSeq(p \o x, Len(p) + 1, Len(p) + Len(x))) = Len(x)
    BY <1>1 DEF Paths
  <2>3. \A i \in 1..Len(x) :
            SubSeq(p \o x, Len(p) + 1, Len(p) + Len(x))[i] = (p \o x)[Len(p) + i]
    BY <1>1 DEF Paths
  <2>4. \A i \in 1..Len(x) : (p \o x)[Len(p) + i] = x[i]
    BY <1>1 DEF Paths
  <2> QED
    BY <2>1, <2>2, <2>3, <2>4, PathEqual
<1>4. p \o <<>> = p
  BY DEF Paths
<1>5. p \o x = p => x = <<>>
  BY <1>1 DEF Paths
<1> QED
  BY <1>1, <1>2, <1>3, <1>4, <1>5

LEMMA PathFrom ==
    ASSUME NEW p \in Paths, NEW q \in Paths, IsPrefix(p, q)
    PROVE  /\ From(p, q) \in Paths
           /\ p \o From(p, q) = q
           /\ p # q => From(p, q) # <<>>
<1> DEFINE x == From(p, q)
<1>1. Len(p) \in Nat /\ Len(q) \in Nat /\ Len(p) <= Len(q)
      /\ \A i \in 1..Len(p) : p[i] = q[i]
  BY PrefixAt DEF Paths
<1>2. x \in Paths /\ Len(x) = Len(q) - Len(p)
      /\ \A i \in 1..(Len(q) - Len(p)) : x[i] = q[Len(p) + i]
  BY <1>1 DEF From, Paths
<1>3. p \o x = q
  <2>1. p \o x \in Paths /\ Len(p \o x) = Len(q)
    BY <1>1, <1>2 DEF Paths
  <2>2. \A i \in 1..Len(q) : (p \o x)[i] = q[i]
    BY <1>1, <1>2 DEF Paths
  <2> QED
    BY <2>1, <2>2, PathEqual
<1> QED
  BY <1>2, <1>3, PathBelow

LEMMA PathJoin ==
    ASSUME NEW p \in Paths, NEW x \in Paths, NEW y \in Paths
    PROVE  /\ IsPrefix(p \o x, p \o y) <=> IsPrefix(x, y)
           /\ (p \o x) \o y = p \o (x \o y)
           /\ p \o x = p \o y => x = y
<1>1. /\ Len(p) \in Nat /\ Len(x) \in Nat /\ Len(y) \in Nat
      /\ p \o x \in Paths /\ p \o y \in Paths
      /\ Len(p \o x) = Len(p) + Len(x) /\ Len(p \o y) = Len(p) + Len(y)
  BY DEF Paths
<1>2. ASSUME IsPrefix(p \o x, p \o y)
      PROVE  IsPrefix(x, y)
  <2>1. Len(x) <= Len(y)
    <3>1. Len(p \o x) <= Len(p \o y)
      BY <1>1, <1>2, PrefixAt
    <3> QED
      BY <1>1, <3>1
  <2>2. ASSUME NEW i \in 1..Len(x)
        PROVE  x[i] = y[i]
    <3>1. Len(p) + i \in 1..Len(p \o x) /\ Len(p) + i \in 1..Len(p \o y)
      BY <1>1, <2>1
    <3>2. (p \o x)[Len(p) + i] = (p \o y)[Len(p) + i]
      BY <1>1, <1>2, <3>1, PrefixAt
    <3>3. (p \o x)[Len(p) + i] = x[i] /\ (p \o y)[Len(p) + i] = y[i]
      BY <1>1, <2>1 DEF Paths
    <3> QED
      BY <3>2, <3>3
  <2> QED
    BY <2>1, <2>2, PrefixAt
<1>3. ASSUME IsPrefix(x, y)
      PROVE  IsPrefix(p \o x, p \o y)
  <2>1. Len(x) <= Len(y) /\ \A i \in 1..Len(x) : x[i] = y[i]
    BY <1>3, PrefixAt
  <2>2. \A i \in 1..Len(p \o x) : (p \o x)[i] = (p \o y)[i]
    BY <1>1, <2>1 DEF Paths
  <2>3. Len(p \o x) <= Len(p \o y)
    BY <1>1, <2>1
  <2> QED
    BY <1>1, <2>2, <2>3, PrefixAt
<1>4. (p \o x) \o y = p \o (x \o y)
  <2>1. /\ (p \o x) \o y \in Paths /\ Len((p \o x) \o y) = (Len(p) + Len(x)) + Len(y)
        /\ x \o y \in Paths /\ Len(x \o y) = Len(x) + Len(y)
        /\ p \o (x \o y) \in Paths /\ Len(p \o (x \o y)) = Len(p) + (Len(x) + Len(y))
    BY <1>1 DEF Paths
  <2>2. \A i \in 1..(Len(p) + Len(x) + Len(y)) :
            ((p \o x) \o y)[i] = (p \o (x \o y))[i]
    BY <1>1 DEF Paths
  <2> QED
    BY <1>1, <2>1, <2>2, PathEqual
<1>5. From(p, p \o x) = x /\ From(p, p \o y) = y
  BY PathBelow
<1> QED
  BY <1>2, <1>3, <1>4, <1>5

\* What is below unrelated paths is unrelated.
LEMMA UnrelatedBelow ==
    ASSUME NEW p \in Paths, NEW q \in Paths, ~Related(p, q), NEW x \in Paths, NEW y \in Paths
    PROVE  ~Related(p \o x, q \o y)
<1>1. p \o x \in Paths /\ q \o y \in Paths /\ IsPrefix(p, p \o x) /\ IsPrefix(q, q \o y)
  BY PathBelow
<1>2. ASSUME IsPrefix(p \o x, q \o y)
      PROVE  FALSE
  <2>1. IsPrefix(p, q \o y)
    BY <1>1, <1>2, PrefixOrder
  <2> QED
    BY <1>1, <2>1, PrefixOrder
<1>3. ASSUME IsPrefix(q \o y, p \o x)
      PROVE  FALSE
  <2>1. IsPrefix(q, p \o x)
    BY <1>1, <1>3, PrefixOrder
  <2> QED
    BY <1>1, <2>1, PrefixOrder DEF Related
<1> QED
  BY <1>2, <1>3 DEF Related

LEMMA FrontPath ==
    ASSUME NEW p \in Paths, p # <<>>
    PROVE  /\ Front(p) \in Paths /\ IsStrictPrefix(Front(p), p)
           /\ \A x \in Paths : IsStrictPrefix(x, p) => IsPrefix(x, Front(p))
<1> DEFINE f == Front(p)
<1>1. Len(p) \in Nat \ {0}
  BY DEF Paths
<1>2. f \in Paths /\ Len(f) = Len(p) - 1 /\ \A i \in 1..(Len(p) - 1) : f[i] = p[i]
  <2>1. f = SubSeq(p, 1, Len(p) - 1)
    BY DEF Front
  <2>2. f = [i \in 1..(Len(p) - 1) |-> p[i]]
    <3>1. SubSeq(p, 1, Len(p) - 1) = [i \in 1..((Len(p) - 1) - 1 + 1) |-> p[1 + i - 1]]
      BY DEF Paths
    <3>2. (Len(p) - 1) - 1 + 1 = Len(p) - 1 /\ \A i \in 1..(Len(p) - 1) : 1 + i - 1 = i
      BY <1>1
    <3> QED
      BY <2>1, <3>1, <3>2
  <2>3. f \in Paths /\ Len(f) = Len(p) - 1
    <3>1. f \in [1..(Len(p) - 1) -> STRING] /\ Len(p) - 1 \in Nat
      BY <1>1, <2>2 DEF Paths
    <3> HIDE DEF f
    <3> QED
      BY <3>1 DEF Paths
  <2> QED
    BY <2>2, <2>3
<1>3. IsPrefix(f, p) /\ f # p
  BY <1>1, <1>2, PrefixAt
<1>4. ASSUME NEW x \in Paths, IsStrictPrefix(x, p)
      PROVE  IsPrefix(x, f)
  <2>1. IsPrefix(x, p) /\ Len(x) < Len(p) /\ Len(x) \in Nat
    BY <1>4, PrefixOrder DEF IsStrictPrefix, Paths
  <2>2. Len(x) <= Len(f) /\ \A i \in 1..Len(x) : x[i] = p[i]
    BY <1>1, <1>2, <2>1, PrefixAt
  <2> QED
    BY <1>1, <1>2, <2>1, <2>2, PrefixAt
<1> QED
  BY <1>2, <1>3, <1>4 DEF IsStrictPrefix

\* Two paths below p stand to each other as what is left of them below p.
LEMMA PrefixFrom ==
    ASSUME NEW p \in Paths, NEW x \in Paths, NEW q \in Paths, IsPrefix(p, q)
    PROVE  /\ IsPrefix(p \o x, q) <=> IsPrefix(x, From(p, q))
           /\ IsPrefix(q, p \o x) <=> IsPrefix(From(p, q), x)
           /\ Related(q, p \o x) <=> Related(From(p, q), x)
           /\ IsPrefix(p \o x, q) => From(p \o x, q) = From(x, From(p, q))
<1> DEFINE y == From(p, q)
<1>1. y \in Paths /\ q = p \o y
  BY PathFrom
<1> HIDE DEF y
<1>2. /\ IsPrefix(p \o x, q) <=> IsPrefix(x, y)
      /\ IsPrefix(q, p \o x) <=> IsPrefix(y, x)
  BY <1>1, PathJoin
<1>3. ASSUME IsPrefix(p \o x, q)
      PROVE  From(p \o x, q) = From(x, y)
  <2>1. PICK z \in Paths : z = From(x, y) /\ x \o z = y
    BY <1>1, <1>2, <1>3, PathFrom
  <2>2. q = (p \o x) \o z
    <3>1. (p \o x) \o z = p \o (x \o z)
      BY PathJoin
    <3> QED
      BY <1>1, <2>1, <3>1
  <2>3. From(p \o x, (p \o x) \o z) = z
    BY PathBelow
  <2> QED
    BY <2>1, <2>2, <2>3
<1> QED
  BY <1>2, <1>3 DEF Related, y

LEMMA FromKey ==
    ASSUME NEW a \in Paths, NEW k \in Paths, NEW q \in Paths, IsPrefix(a, k), IsPrefix(a, q)
    PROVE  /\ IsPrefix(k, q) <=> IsPrefix(From(a, k), From(a, q))
           /\ Related(q, k) <=> Related(From(a, q), From(a, k))
           /\ IsPrefix(k, q) => From(k, q) = From(From(a, k), From(a, q))
<1>1. PICK x \in Paths : x = From(a, k) /\ a \o x = k
  BY PathFrom
<1>2. /\ IsPrefix(a \o x, q) <=> IsPrefix(x, From(a, q))
      /\ Related(q, a \o x) <=> Related(From(a, q), x)
      /\ IsPrefix(a \o x, q) => From(a \o x, q) = From(x, From(a, q))
  BY PrefixFrom
<1> QED
  BY <1>1, <1>2

LEMMA FromSelf ==
    ASSUME NEW k \in Paths
    PROVE  IsPrefix(k, k) /\ From(k, k) = <<>>
<1>1. k \o <<>> = k /\ From(k, k \o <<>>) = <<>>
  BY EmptyPrefix, PathBelow
<1> QED
  BY <1>1, PrefixOrder

-----------------------------------------------------------------------------
(* Values.                                                                 *)

\* What an enumeration shows of the value v under the key k.
Leaf(k, v) == Shown(Shift(k, v))

\* What set and delete do to the document.
DocSet(d, k, v) == Shown(Put(d, k, v))
DocDelete(d, k) == {e \in d : ~IsPrefix(k, e.at)}

\* What set leaves of it.
Aside(d, k) == {e \in d : ~Related(e.at, k)}
Replaced(d, k, new) == Aside(d, k) \cup new

LEMMA ShiftEntry ==
    ASSUME NEW k \in Paths, NEW v, IsValue(v), NEW e
    PROVE  e \in Shift(k, v) <=>
               /\ e = [at |-> e.at, is |-> e.is] /\ e.at \in Paths
               /\ IsPrefix(k, e.at)
               /\ [at |-> From(k, e.at), is |-> e.is] \in v
<1>1. ASSUME e \in Shift(k, v)
      PROVE  /\ e = [at |-> e.at, is |-> e.is] /\ e.at \in Paths
             /\ IsPrefix(k, e.at)
             /\ [at |-> From(k, e.at), is |-> e.is] \in v
  <2>1. PICK x \in v : e = [at |-> k \o x.at, is |-> x.is]
    BY <1>1 DEF Shift
  <2>2. x.at \in Paths /\ x = [at |-> x.at, is |-> x.is]
    BY DEF IsValue, Paths
  <2>3. k \o x.at \in Paths /\ IsPrefix(k, k \o x.at) /\ From(k, k \o x.at) = x.at
    BY <2>2, PathBelow
  <2>4. e.at = k \o x.at /\ e.is = x.is
    BY <2>1
  <2> QED
    BY <2>1, <2>2, <2>3, <2>4
<1>2. ASSUME e = [at |-> e.at, is |-> e.is], e.at \in Paths, IsPrefix(k, e.at),
             [at |-> From(k, e.at), is |-> e.is] \in v
      PROVE  e \in Shift(k, v)
  <2> DEFINE x == [at |-> From(k, e.at), is |-> e.is]
  <2>1. k \o From(k, e.at) = e.at
    BY <1>2, PathFrom
  <2>2. x \in v /\ e = [at |-> k \o x.at, is |-> x.is]
    BY <1>2, <2>1
  <2> QED
    BY <2>2 DEF Shift
<1> QED
  BY <1>1, <1>2

LEMMA LeafEntry ==
    ASSUME NEW k \in Paths, NEW v, IsValue(v), NEW e
    PROVE  e \in Leaf(k, v) <=>
               /\ e = [at |-> e.at, is |-> e.is] /\ e.at \in Paths
               /\ IsPrefix(k, e.at)
               /\ [at |-> From(k, e.at), is |-> e.is] \in v
               /\ e.is # Empty
BY ShiftEntry DEF Leaf, Shown

\* A value under a key is one too.
LEMMA ShiftValue ==
    ASSUME NEW k \in Paths, NEW v, IsValue(v)
    PROVE  IsValue(Shift(k, v))
<1>1. IsFiniteSet(Shift(k, v))
  <2> DEFINE g == [x \in v |-> [at |-> k \o x.at, is |-> x.is]]
  <2>1. g \in Surjection(v, Shift(k, v))
    BY DEF Shift, Surjection
  <2> QED
    BY <2>1, FS_Surjection DEF IsValue
<1>2. ASSUME NEW e \in Shift(k, v)
      PROVE  /\ e = [at |-> e.at, is |-> e.is] /\ e.at \in Paths /\ IsPrefix(k, e.at)
             /\ [at |-> From(k, e.at), is |-> e.is] \in v
  BY ShiftEntry
<1>3. ASSUME NEW e \in Shift(k, v), NEW f \in Shift(k, v), IsPrefix(e.at, f.at)
      PROVE  e = f
  <2> DEFINE x == [at |-> From(k, e.at), is |-> e.is]
             y == [at |-> From(k, f.at), is |-> f.is]
  <2>1. x \in v /\ y \in v /\ k \o x.at = e.at /\ k \o y.at = f.at
        /\ x.at \in Paths /\ y.at \in Paths
    BY <1>2, PathFrom
  <2> HIDE DEF x, y
  <2>2. IsPrefix(x.at, y.at)
    <3>1. IsPrefix(k \o x.at, k \o y.at)
      BY <1>3, <2>1
    <3> QED
      BY <2>1, <3>1, PathJoin
  <2>3. x = y
    BY <2>1, <2>2 DEF IsValue
  <2>4. e.at = f.at /\ e.is = f.is
    BY <2>1, <2>3 DEF x, y
  <2> QED
    BY <1>2, <2>4
<1> QED
  BY <1>1, <1>2, <1>3 DEF IsValue, Paths

\* A part of a value is one.
LEMMA PartValue ==
    ASSUME NEW v, IsValue(v), NEW w, w \subseteq v
    PROVE  IsValue(w)
<1>1. IsFiniteSet(w)
  BY FS_Subset DEF IsValue
<1> QED
  BY <1>1 DEF IsValue

\* Two values that are apart make one.
LEMMA UnionValue ==
    ASSUME NEW v, IsValue(v), NEW w, IsValue(w),
           \A e \in v, f \in w : ~Related(e.at, f.at)
    PROVE  IsValue(v \cup w)
<1>1. IsFiniteSet(v \cup w)
  BY FS_Union DEF IsValue
<1>2. \A e \in v \cup w : e = [at |-> e.at, is |-> e.is] /\ e.at \in Seq(STRING)
  BY DEF IsValue
<1>3. \A e, f \in v \cup w : IsPrefix(e.at, f.at) => e = f
  BY DEF IsValue, Related
<1> QED
  BY <1>1, <1>2, <1>3 DEF IsValue

\* Put replaces what is at p, below it and on the way to it.
LEMMA PutValue ==
    ASSUME NEW v, IsValue(v), NEW p \in Paths, NEW w, IsValue(w)
    PROVE  IsValue(Put(v, p, w))
<1> DEFINE kept == {e \in v : ~Related(e.at, p)}
<1>1. IsValue(kept) /\ IsValue(Shift(p, w))
  BY PartValue, ShiftValue
<1>2. ASSUME NEW e \in kept, NEW f \in Shift(p, w)
      PROVE  ~Related(e.at, f.at)
  <2>1. e.at \in Paths /\ ~Related(e.at, p)
    BY DEF IsValue, Paths
  <2>2. f.at \in Paths /\ IsPrefix(p, f.at)
    BY ShiftEntry
  <2>3. e.at \o <<>> = e.at /\ p \o From(p, f.at) = f.at /\ From(p, f.at) \in Paths /\ <<>> \in Paths
    BY <2>1, <2>2, PathBelow, PathFrom DEF Paths
  <2> QED
    BY <2>1, <2>3, UnrelatedBelow
<1> QED
  BY <1>1, <1>2, UnionValue DEF Put

LEMMA PutLeaf ==
    ASSUME NEW v, IsValue(v), NEW w, IsValue(w),
           NEW a \in Paths, NEW k \in Paths, IsPrefix(a, k)
    PROVE  Leaf(a, Put(v, From(a, k), w)) = Replaced(Leaf(a, v), k, Leaf(k, w))
<1>p. PICK p \in Paths : p = From(a, k) /\ a \o p = k
  BY PathFrom
<1>1. a \o p \in Paths /\ IsValue(Put(v, p, w))
  BY PathBelow, PutValue
<1> SUFFICES ASSUME NEW e
             PROVE  e \in Leaf(a, Put(v, p, w)) <=>
                        \/ e \in Leaf(a, v) /\ ~Related(e.at, a \o p)
                        \/ e \in Leaf(a \o p, w)
  BY <1>p DEF Aside, Replaced
<1> DEFINE x == [at |-> From(a, e.at), is |-> e.is]
           Here == e = [at |-> e.at, is |-> e.is] /\ e.at \in Paths /\ IsPrefix(a, e.at) /\ e.is # Empty
<1>2. e \in Leaf(a, Put(v, p, w)) <=> Here /\ x \in Put(v, p, w)
  BY <1>1, LeafEntry
<1>3. e \in Leaf(a, v) <=> Here /\ x \in v
  BY LeafEntry
<1>4. e \in Leaf(a \o p, w) => Here
  <2>1. e \in Leaf(a \o p, w) => e.at \in Paths /\ IsPrefix(a \o p, e.at)
    BY <1>1, LeafEntry
  <2>2. e \in Leaf(a \o p, w) => IsPrefix(a, e.at)
    BY <1>1, <2>1, PathBelow, PrefixOrder
  <2> QED
    BY <1>1, <2>2, LeafEntry
<1>5. ASSUME Here
      PROVE  /\ x \in Put(v, p, w) <=> (x \in v /\ ~Related(e.at, a \o p)) \/ x \in Shift(p, w)
             /\ x \in Shift(p, w) <=> e \in Leaf(a \o p, w)
  <2>1. Related(e.at, a \o p) <=> Related(x.at, p)
    BY <1>5, PrefixFrom
  <2>2. x.at \in Paths /\ x.is = e.is
    BY <1>5, PathFrom
  <2>3. x \in Shift(p, w) <=> IsPrefix(p, x.at) /\ [at |-> From(p, x.at), is |-> x.is] \in w
    BY <2>2, ShiftEntry
  <2>4. IsPrefix(a \o p, e.at) <=> IsPrefix(p, x.at)
    BY <1>5, PrefixFrom
  <2>5. IsPrefix(a \o p, e.at) => From(a \o p, e.at) = From(p, x.at)
    BY <1>5, PrefixFrom
  <2>6. e \in Leaf(a \o p, w) <=>
            IsPrefix(a \o p, e.at) /\ [at |-> From(a \o p, e.at), is |-> e.is] \in w
    BY <1>1, <1>5, LeafEntry
  <2> QED
    BY <2>1, <2>2, <2>3, <2>4, <2>5, <2>6 DEF Put
<1> HIDE DEF x
<1> QED
  BY <1>2, <1>3, <1>4, <1>5

\* Cut takes away what is at p and below, and shows nothing new.
LEMMA CutValue ==
    ASSUME NEW v, IsValue(v), NEW p \in Paths, p # <<>>, \E e \in v : IsPrefix(p, e.at)
    PROVE  IsValue(Cut(v, p))
<1> DEFINE kept == {e \in v : ~IsPrefix(p, e.at)}
           m == [at |-> Front(p), is |-> Empty]
<1>1. IsValue(kept)
  BY PartValue
<1>2. CASE \E e \in kept : IsPrefix(Front(p), e.at)
  BY <1>1, <1>2 DEF Cut
<1>3. CASE ~\E e \in kept : IsPrefix(Front(p), e.at)
  <2>1. m.at \in Paths /\ m = [at |-> m.at, is |-> m.is] /\ IsPrefix(m.at, p)
    BY FrontPath DEF IsStrictPrefix
  <2>2. IsValue({m})
    <3>1. IsFiniteSet({} \cup {m})
      BY FS_EmptySet, FS_AddElement
    <3>2. IsFiniteSet({m})
      BY <3>1
    <3> QED
      BY <2>1, <3>2 DEF IsValue, Paths
  <2>3. ASSUME NEW e \in kept
        PROVE  ~Related(e.at, m.at)
    <3>1. e.at \in Paths /\ ~IsPrefix(m.at, e.at)
      BY <1>3 DEF IsValue, Paths
    <3>2. ASSUME IsPrefix(e.at, m.at)
          PROVE  FALSE
      <4>1. PICK f \in v : IsPrefix(p, f.at)
        OBVIOUS
      <4>2. f.at \in Paths
        BY DEF IsValue, Paths
      <4>3. IsPrefix(e.at, p)
        BY <2>1, <3>1, <3>2, PrefixOrder
      <4>4. IsPrefix(e.at, f.at)
        BY <3>1, <4>1, <4>2, <4>3, PrefixOrder
      <4>5. e = f
        BY <4>1, <4>4 DEF IsValue
      <4> QED
        BY <4>1, <4>5
    <3> QED
      BY <3>1, <3>2 DEF Related
  <2>4. IsValue(kept \cup {m})
    BY <1>1, <2>2, <2>3, UnionValue
  <2> QED
    BY <1>3, <2>4 DEF Cut
<1> QED
  BY <1>2, <1>3

LEMMA CutLeaf ==
    ASSUME NEW v, IsValue(v), NEW p \in Paths, p # <<>>, \E e \in v : IsPrefix(p, e.at),
           NEW a \in Paths
    PROVE  Leaf(a, Cut(v, p)) = DocDelete(Leaf(a, v), a \o p)
<1>1. IsValue(Cut(v, p))
  BY CutValue
<1> SUFFICES ASSUME NEW e
             PROVE  e \in Leaf(a, Cut(v, p)) <=> e \in Leaf(a, v) /\ ~IsPrefix(a \o p, e.at)
  BY Zenon DEF DocDelete
<1> DEFINE x == [at |-> From(a, e.at), is |-> e.is]
           Here == e = [at |-> e.at, is |-> e.is] /\ e.at \in Paths /\ IsPrefix(a, e.at) /\ e.is # Empty
<1>2. e \in Leaf(a, Cut(v, p)) <=> Here /\ x \in Cut(v, p)
  BY <1>1, LeafEntry
<1>3. e \in Leaf(a, v) <=> Here /\ x \in v
  BY LeafEntry
<1>4. ASSUME Here
      PROVE  x \in Cut(v, p) <=> x \in v /\ ~IsPrefix(a \o p, e.at)
  <2>1. IsPrefix(a \o p, e.at) <=> IsPrefix(p, x.at)
    BY <1>4, PrefixFrom
  <2>2. x # [at |-> Front(p), is |-> Empty]
    BY <1>4
  <2> HIDE DEF x
  <2> QED
    BY <2>1, <2>2 DEF Cut
<1> HIDE DEF x
<1> QED
  BY <1>2, <1>3, <1>4

\* What is at a key below a leaf, or above it.
LEMMA MemberLeaf ==
    ASSUME NEW v, IsValue(v), NEW a \in Paths, NEW k \in Paths, IsPrefix(a, k)
    PROVE  Member(Leaf(a, v), k) = Shown(Member(v, From(a, k)))
<1>1. PICK p \in Paths : p = From(a, k) /\ a \o p = k
  BY PathFrom
<1>2. ASSUME NEW e \in Member(Leaf(a, v), k)
      PROVE  e \in Shown(Member(v, p))
  <2>1. PICK f \in Leaf(a, v) :
            IsPrefix(k, f.at) /\ e = [at |-> From(k, f.at), is |-> f.is]
    BY <1>2 DEF Member
  <2>2. /\ f.at \in Paths /\ IsPrefix(a, f.at) /\ f.is # Empty
        /\ [at |-> From(a, f.at), is |-> f.is] \in v
    BY LeafEntry
  <2>3. From(k, f.at) = From(p, From(a, f.at)) /\ IsPrefix(p, From(a, f.at))
    BY <1>1, <2>1, <2>2, FromKey
  <2> QED
    BY <2>1, <2>2, <2>3 DEF Member, Shown
<1>3. ASSUME NEW e \in Shown(Member(v, p))
      PROVE  e \in Member(Leaf(a, v), k)
  <2>1. e.is # Empty /\ e \in Member(v, p)
    BY <1>3 DEF Shown
  <2>2. PICK x \in v : IsPrefix(p, x.at) /\ e = [at |-> From(p, x.at), is |-> x.is]
    BY <2>1 DEF Member
  <2>3. x.at \in Paths /\ x = [at |-> x.at, is |-> x.is] /\ x.is # Empty
    BY <2>1, <2>2 DEF IsValue, Paths
  <2>4. PICK f : f = [at |-> a \o x.at, is |-> x.is]
    OBVIOUS
  <2>5. f.at = a \o x.at /\ f.is = x.is /\ f = [at |-> f.at, is |-> f.is]
    BY <2>4
  <2>6. f.at \in Paths /\ IsPrefix(a, f.at) /\ From(a, f.at) = x.at
    BY <2>3, <2>5, PathBelow
  <2>7. f \in Leaf(a, v)
    BY <2>3, <2>5, <2>6, LeafEntry
  <2>8. IsPrefix(k, f.at) /\ From(k, f.at) = From(p, x.at)
    BY <1>1, <2>2, <2>6, FromKey
  <2> QED
    BY <2>2, <2>5, <2>7, <2>8 DEF Member
<1> QED
  BY <1>1, <1>2, <1>3

LEMMA ValueMember ==
    ASSUME NEW v, IsValue(v)
    PROVE  Member(v, <<>>) = v
<1>1. ASSUME NEW e \in v
      PROVE  IsPrefix(<<>>, e.at) /\ e = [at |-> From(<<>>, e.at), is |-> e.is]
  <2>1. e.at \in Paths /\ e = [at |-> e.at, is |-> e.is]
    BY DEF IsValue, Paths
  <2>2. IsPrefix(<<>>, e.at) /\ <<>> \in Paths
    BY <2>1, EmptyPrefix
  <2>3. From(<<>>, e.at) = e.at
    <3>1. From(<<>>, e.at) \in Paths /\ <<>> \o From(<<>>, e.at) = e.at
      BY <2>1, <2>2, PathFrom
    <3> QED
      BY <3>1 DEF Paths
  <2> QED
    BY <2>1, <2>2, <2>3
<1> QED
  BY <1>1 DEF Member

-----------------------------------------------------------------------------
(* Trees of leaves.                                                        *)

\* A store: finitely many leaves, none of them above another.
IsTree(s) ==
    /\ s = [q \in DOMAIN s |-> s[q]]
    /\ IsFiniteSet(DOMAIN s)
    /\ DOMAIN s \subseteq Paths
    /\ \A q \in DOMAIN s : IsValue(s[q])
    /\ \A p, q \in DOMAIN s : IsPrefix(p, q) => p = q

\* The document that the leaves at D make up.
Leaves(s, D) == UNION {Leaf(q, s[q]) : q \in D}

LEMMA AllLeaves ==
    ASSUME NEW s
    PROVE  /\ All(s) = Leaves(s, DOMAIN s)
           /\ \A D, e : e \in Leaves(s, D) <=> \E q \in D : e \in Leaf(q, s[q])
BY DEF All, Leaf, Shown, Leaves

LEMMA OneLeaf ==
    ASSUME NEW s, NEW a \in DOMAIN s
    PROVE  All(s) = Leaves(s, DOMAIN s \ {a}) \cup Leaf(a, s[a])
<1>1. \A e : e \in All(s) <=> e \in Leaves(s, DOMAIN s \ {a}) \/ e \in Leaf(a, s[a])
  BY AllLeaves
<1> QED
  BY <1>1

\* Stores that agree on these leaves.
LEMMA SameLeaves ==
    ASSUME NEW s, NEW t, NEW D, \A q \in D : s[q] = t[q]
    PROVE  Leaves(s, D) = Leaves(t, D)
<1>1. \A e : e \in Leaves(s, D) <=> e \in Leaves(t, D)
  BY AllLeaves
<1> QED
  BY <1>1

\* The entries of a leaf, and a key that has nothing to do with it.
LEMMA LeafApart ==
    ASSUME NEW s, IsTree(s), NEW q \in DOMAIN s, NEW e \in Leaf(q, s[q]),
           NEW k \in Paths
    PROVE  /\ e.at \in Paths /\ IsPrefix(q, e.at)
           /\ IsPrefix(k, q) => IsPrefix(k, e.at)
           /\ ~Related(q, k) => ~Related(e.at, k)
<1>1. q \in Paths /\ IsValue(s[q])
  BY DEF IsTree
<1>2. e.at \in Paths /\ IsPrefix(q, e.at)
  BY <1>1, LeafEntry
<1>3. IsPrefix(k, q) => IsPrefix(k, e.at)
  BY <1>1, <1>2, PrefixOrder
<1>4. ASSUME ~Related(q, k)
      PROVE  ~Related(e.at, k)
  <2>1. From(q, e.at) \in Paths /\ q \o From(q, e.at) = e.at /\ <<>> \in Paths /\ k \o <<>> = k
    BY <1>1, <1>2, PathFrom, PathBelow DEF Paths
  <2> QED
    BY <1>1, <1>4, <2>1, UnrelatedBelow
<1> QED
  BY <1>2, <1>3, <1>4

\* The leaf above a key is the only one, and there is none at the key or below.
LEMMA OneAncestor ==
    ASSUME NEW s, IsTree(s), NEW k \in Paths, HasAncestor(s, k)
    PROVE  LET a == AncestorLeaf(s, k) IN
           /\ a \in DOMAIN s /\ a \in Paths /\ IsStrictPrefix(a, k)
           /\ Inner(s, k) \in Paths /\ Inner(s, k) # <<>> /\ a \o Inner(s, k) = k
           /\ \A q \in DOMAIN s : q # a => ~Related(q, k)
           /\ k \notin DOMAIN s /\ Below(s, k) = {} /\ Below(s, a) = {a}
<1> DEFINE a == AncestorLeaf(s, k)
<1>1. PICK b \in DOMAIN s : IsStrictPrefix(b, k)
  BY DEF HasAncestor
<1>2. \A q \in DOMAIN s : q \in Paths
  BY DEF IsTree
<1>3. ASSUME NEW q \in DOMAIN s, Related(q, k)
      PROVE  q = b
  <2>1. Related(q, b)
    BY <1>1, <1>2, <1>3, PrefixOrder DEF Related, IsStrictPrefix
  <2> QED
    BY <2>1 DEF IsTree, Related
<1>4. \A q \in DOMAIN s : IsStrictPrefix(q, k) => q = b
  BY <1>3 DEF Related, IsStrictPrefix
<1>5. Len(b) \in Nat
  BY <1>2 DEF Paths
<1>6. a = b
  BY <1>1, <1>4, <1>5 DEF AncestorLeaf
<1> HIDE DEF a
<1>7. Inner(s, k) = From(b, k)
  BY <1>6 DEF Inner, a
<1>8. Inner(s, k) \in Paths /\ Inner(s, k) # <<>> /\ b \o Inner(s, k) = k
  BY <1>1, <1>2, <1>7, PathFrom DEF IsStrictPrefix
<1>9. \A q \in DOMAIN s : IsPrefix(k, q) => FALSE
  <2> SUFFICES ASSUME NEW q \in DOMAIN s, IsPrefix(k, q)
               PROVE  FALSE
    OBVIOUS
  <2>1. q = b
    BY <1>3 DEF Related
  <2> QED
    BY <1>1, <1>2, <2>1, PrefixOrder DEF IsStrictPrefix
<1>10. k \notin DOMAIN s /\ Below(s, k) = {}
  BY <1>9, PrefixOrder DEF Below
<1>11. Below(s, b) = {b}
  BY <1>2, PrefixOrder DEF Below, IsTree
<1> QED
  BY <1>1, <1>2, <1>3, <1>6, <1>8, <1>10, <1>11 DEF a

LEMMA WithoutTree ==
    ASSUME NEW s, IsTree(s), NEW D
    PROVE  /\ IsTree(Without(s, D))
           /\ DOMAIN Without(s, D) = DOMAIN s \ D
           /\ \A q \in DOMAIN s \ D : Without(s, D)[q] = s[q]
<1> DEFINE t == Without(s, D)
<1>1. /\ DOMAIN t = DOMAIN s \ D /\ \A q \in DOMAIN s \ D : t[q] = s[q]
      /\ t = [q \in DOMAIN t |-> t[q]]
  BY DEF Without
<1>2. IsFiniteSet(DOMAIN t)
  BY <1>1, FS_Subset DEF IsTree
<1> HIDE DEF t
<1>3. IsTree(t)
  BY <1>1, <1>2 DEF IsTree
<1> QED
  BY <1>1, <1>3 DEF t

LEMMA WithTree ==
    ASSUME NEW s, IsTree(s), NEW k \in Paths, NEW v, IsValue(v),
           \A q \in DOMAIN s : q # k => ~Related(q, k)
    PROVE  /\ IsTree(With(s, k, v))
           /\ All(With(s, k, v)) = Leaves(s, DOMAIN s \ {k}) \cup Leaf(k, v)
<1> DEFINE t == With(s, k, v)
<1>1. /\ DOMAIN t = DOMAIN s \cup {k} /\ t[k] = v
      /\ \A q \in DOMAIN s \ {k} : t[q] = s[q]
      /\ t = [q \in DOMAIN t |-> t[q]]
  BY DEF With
<1>2. IsFiniteSet(DOMAIN t)
  BY <1>1, FS_AddElement DEF IsTree
<1> HIDE DEF t
<1>3. \A p, q \in DOMAIN t : IsPrefix(p, q) => p = q
  BY <1>1, PrefixOrder DEF IsTree, Related
<1>4. IsTree(t)
  BY <1>1, <1>2, <1>3 DEF IsTree
<1>5. All(t) = Leaves(s, DOMAIN s \ {k}) \cup Leaf(k, v)
  <2>1. \A e : e \in All(t) <=> e \in Leaves(t, DOMAIN s \ {k}) \/ e \in Leaf(k, v)
    BY <1>1, AllLeaves
  <2>2. Leaves(t, DOMAIN s \ {k}) = Leaves(s, DOMAIN s \ {k})
    BY <1>1, SameLeaves
  <2> QED
    BY <2>1, <2>2
<1> QED
  BY <1>1, <1>4, <1>5 DEF t

\* A value goes where no leaf is above it.
LEMMA PlaceTree ==
    ASSUME NEW s, IsTree(s), NEW k \in Paths, ~HasAncestor(s, k), NEW v, IsValue(v)
    PROVE  /\ IsTree(Place(s, k, v))
           /\ \A q \in DOMAIN s \ Below(s, k) : ~Related(q, k)
           /\ All(Place(s, k, v)) =
                  Leaves(s, DOMAIN s \ Below(s, k)) \cup Leaf(k, v)
<1>t. PICK t : t = Without(s, Below(s, k))
  OBVIOUS
<1>1. /\ IsTree(t) /\ DOMAIN t = DOMAIN s \ Below(s, k)
      /\ \A q \in DOMAIN s \ Below(s, k) : t[q] = s[q]
  BY <1>t, WithoutTree
<1>2. \A q \in DOMAIN s \ Below(s, k) : ~Related(q, k)
  <2> SUFFICES ASSUME NEW q \in DOMAIN s \ Below(s, k)
               PROVE  ~Related(q, k)
    OBVIOUS
  <2>1. q \in Paths /\ ~IsPrefix(k, q)
    BY DEF Below, IsTree
  <2>2. q # k
    BY <2>1, PrefixOrder
  <2> QED
    BY <2>1, <2>2 DEF HasAncestor, IsStrictPrefix, Related
<1>3. k \notin DOMAIN t
  BY <1>1, PrefixOrder DEF Below
<1>4. /\ IsTree(With(t, k, v))
      /\ All(With(t, k, v)) = Leaves(t, DOMAIN t \ {k}) \cup Leaf(k, v)
  <2>1. IsTree(t) /\ \A q \in DOMAIN t : q # k => ~Related(q, k)
    BY <1>1, <1>2
  <2> QED
    BY <2>1, WithTree
<1>5. Leaves(t, DOMAIN t \ {k}) = Leaves(s, DOMAIN s \ Below(s, k))
  BY <1>1, <1>3, SameLeaves
<1> QED
  BY <1>t, <1>2, <1>4, <1>5 DEF Place

\* The scalars that are not at k, below it or above it are those of the leaves
\* that are not.
LEMMA ApartFrom ==
    ASSUME NEW s, IsTree(s), NEW k \in Paths, ~HasAncestor(s, k)
    PROVE  /\ Aside(All(s), k) =
                  Leaves(s, DOMAIN s \ Below(s, k))
           /\ DocDelete(All(s), k) =
                  Leaves(s, DOMAIN s \ Below(s, k))
<1>1. ASSUME NEW q \in DOMAIN s, NEW e \in Leaf(q, s[q])
      PROVE  /\ q \in Below(s, k) => IsPrefix(k, e.at)
             /\ q \notin Below(s, k) => ~Related(e.at, k)
  <2>1. q \in Below(s, k) => IsPrefix(k, q)
    BY DEF Below
  <2>2. q \notin Below(s, k) => ~Related(q, k)
    <3>1. q \in Paths
      BY DEF IsTree
    <3> QED
      BY <3>1 DEF Below, HasAncestor, IsStrictPrefix, Related
  <2> QED
    BY <2>1, <2>2, LeafApart
<1>2. \A e : e \in All(s) <=> \E q \in DOMAIN s : e \in Leaf(q, s[q])
  BY AllLeaves
<1>3. \A e : e \in Leaves(s, DOMAIN s \ Below(s, k)) <=>
                \E q \in DOMAIN s \ Below(s, k) : e \in Leaf(q, s[q])
  BY AllLeaves
<1>4. \A e \in All(s) : /\ ~Related(e.at, k) <=> e \in Leaves(s, DOMAIN s \ Below(s, k))
                        /\ ~IsPrefix(k, e.at) <=> e \in Leaves(s, DOMAIN s \ Below(s, k))
  <2> SUFFICES ASSUME NEW e \in All(s)
               PROVE  /\ ~Related(e.at, k) <=> e \in Leaves(s, DOMAIN s \ Below(s, k))
                      /\ ~IsPrefix(k, e.at) <=> e \in Leaves(s, DOMAIN s \ Below(s, k))
    OBVIOUS
  <2>1. IsPrefix(k, e.at) => Related(e.at, k)
    BY DEF Related
  <2> QED
    BY <1>1, <1>2, <1>3, <2>1
<1>5. \A e \in Leaves(s, DOMAIN s \ Below(s, k)) : e \in All(s)
  BY <1>2, <1>3
<1> QED
  BY <1>4, <1>5 DEF Aside, DocDelete

LEMMA AllShown ==
    ASSUME NEW s
    PROVE  \A k, v : DocSet(All(s), k, v) = Aside(All(s), k) \cup Leaf(k, v)
BY DEF DocSet, Put, Shown, All, Leaf, Aside

\* store.set keeps the leaves apart, and does to the document what set promises:
\* the value is at the key, what was there, below it and in its way is gone, and
\* everything else is as it was, wherever the leaves are cut.
THEOREM StoreSets ==
    ASSUME NEW s, IsTree(s), NEW k \in Paths, NEW v, IsValue(v)
    PROVE  IsTree(StoreSet(s, k, v)) /\ All(StoreSet(s, k, v)) = DocSet(All(s), k, v)
<1>1. CASE ~HasAncestor(s, k)
  <2>1. StoreSet(s, k, v) = Place(s, k, v)
    BY <1>1 DEF StoreSet
  <2>2. /\ IsTree(Place(s, k, v))
        /\ All(Place(s, k, v)) = Leaves(s, DOMAIN s \ Below(s, k)) \cup Leaf(k, v)
    BY <1>1, PlaceTree
  <2>3. Aside(All(s), k) = Leaves(s, DOMAIN s \ Below(s, k))
    BY <1>1, ApartFrom
  <2>4. DocSet(All(s), k, v) = Aside(All(s), k) \cup Leaf(k, v)
    BY AllShown
  <2> QED
    BY <2>1, <2>2, <2>3, <2>4
<1>2. CASE HasAncestor(s, k)
  <2>a. PICK a : a = AncestorLeaf(s, k)
    OBVIOUS
  <2>i. PICK i : i = Inner(s, k)
    OBVIOUS
  <2> DEFINE rest == Leaves(s, DOMAIN s \ {a})
  <2>1. /\ a \in DOMAIN s /\ a \in Paths /\ IsStrictPrefix(a, k)
        /\ i \in Paths /\ i # <<>> /\ a \o i = k
        /\ \A q \in DOMAIN s : q # a => ~Related(q, k)
        /\ k \notin DOMAIN s /\ Below(s, k) = {} /\ Below(s, a) = {a}
    BY <1>2, <2>a, <2>i, OneAncestor
  <2>2. IsValue(s[a])
    BY <2>1 DEF IsTree
  <2>3. Aside(All(s), k) = rest \cup Aside(Leaf(a, s[a]), k)
    <3>1. \A e \in rest : ~Related(e.at, k)
      BY <2>1, LeafApart, AllLeaves
    <3>2. All(s) = rest \cup Leaf(a, s[a])
      BY <2>1, OneLeaf
    <3> HIDE DEF rest
    <3> QED
      BY <3>1, <3>2 DEF Aside
  <2>4. CASE IsObject(s[a])
    <3> DEFINE w == Put(s[a], i, v)
    <3>1. StoreSet(s, k, v) = Place(s, a, w)
      BY <1>2, <2>a, <2>i, <2>4 DEF StoreSet
    <3>2. ~HasAncestor(s, a)
      BY <2>1 DEF IsTree, HasAncestor, IsStrictPrefix
    <3>3. IsValue(w)
      BY <2>1, <2>2, PutValue
    <3>4. Leaf(a, w) = Aside(Leaf(a, s[a]), k) \cup Leaf(k, v)
      <4>1. i = From(a, k) /\ IsPrefix(a, k)
        BY <2>a, <2>i, <2>1 DEF Inner, IsStrictPrefix
      <4>2. Leaf(a, w) = Replaced(Leaf(a, s[a]), k, Leaf(k, v))
        BY <2>1, <2>2, <4>1, PutLeaf
      <4> QED
        BY <4>2 DEF Replaced
    <3> HIDE DEF w
    <3>5. IsTree(Place(s, a, w)) /\ All(Place(s, a, w)) = rest \cup Leaf(a, w)
      <4>1. All(Place(s, a, w)) = Leaves(s, DOMAIN s \ Below(s, a)) \cup Leaf(a, w)
        BY <2>1, <3>2, <3>3, PlaceTree
      <4>2. IsTree(Place(s, a, w))
        BY <2>1, <3>2, <3>3, PlaceTree
      <4> QED
        BY <2>1, <4>1, <4>2
    <3>6. DocSet(All(s), k, v) = Aside(All(s), k) \cup Leaf(k, v)
      BY AllShown
    <3> HIDE DEF rest
    <3> QED
      BY <2>3, <3>1, <3>4, <3>5, <3>6
  <2>5. CASE ~IsObject(s[a])
    <3> DEFINE t == Without(s, {a})
    <3>1. StoreSet(s, k, v) = Place(t, k, v)
      BY <1>2, <2>a, <2>5 DEF StoreSet
    <3>2. /\ IsTree(t) /\ DOMAIN t = DOMAIN s \ {a}
          /\ \A q \in DOMAIN s \ {a} : t[q] = s[q]
      BY WithoutTree
    <3> HIDE DEF t
    <3>3. ~HasAncestor(t, k) /\ Below(t, k) = {}
      BY <2>1, <3>2 DEF HasAncestor, Below, IsStrictPrefix, Related
    <3>4. Leaves(t, DOMAIN t \ Below(t, k)) = Leaves(s, DOMAIN s \ {a})
      BY <3>2, <3>3, SameLeaves
    <3>5. IsTree(Place(t, k, v)) /\ All(Place(t, k, v)) = rest \cup Leaf(k, v)
      BY <3>2, <3>3, <3>4, PlaceTree
    <3>6. Aside(Leaf(a, s[a]), k) = {}
      <4>1. PICK x \in s[a] : x.at = <<>>
        BY <2>5 DEF IsObject
      <4>2. ASSUME NEW e \in Leaf(a, s[a])
            PROVE  Related(e.at, k)
        <5>1. /\ e.at \in Paths /\ IsPrefix(a, e.at)
              /\ [at |-> From(a, e.at), is |-> e.is] \in s[a]
          BY <2>1, <2>2, LeafEntry
        <5>2. From(a, e.at) \in Paths /\ a \o From(a, e.at) = e.at /\ a \o <<>> = a
          BY <2>1, <5>1, PathFrom, PathBelow
        <5>3. IsPrefix(<<>>, From(a, e.at))
          BY <5>2, EmptyPrefix
        <5>4. x = [at |-> From(a, e.at), is |-> e.is]
          BY <2>2, <4>1, <5>1, <5>3 DEF IsValue
        <5>5. From(a, e.at) = <<>>
          BY <4>1, <5>4
        <5> QED
          BY <2>1, <5>2, <5>5 DEF Related, IsStrictPrefix
      <4> QED
        BY <4>2 DEF Aside
    <3>7. DocSet(All(s), k, v) = Aside(All(s), k) \cup Leaf(k, v)
      BY AllShown
    <3> HIDE DEF rest
    <3> QED
      BY <2>3, <3>1, <3>5, <3>6, <3>7
  <2> QED
    BY <2>4, <2>5
<1> QED
  BY <1>1, <1>2

\* store.delete takes away what is at the key and below it, and nothing else of
\* the document; an object that loses its last member stays, and no leaf comes
\* to be above another.
THEOREM StoreDeletes ==
    ASSUME NEW s, IsTree(s), NEW k \in Paths
    PROVE  IsTree(StoreDelete(s, k)) /\ All(StoreDelete(s, k)) = DocDelete(All(s), k)
<1>1. CASE Below(s, k) # {}
  <2> DEFINE t == Without(s, Below(s, k))
  <2>1. StoreDelete(s, k) = t
    BY <1>1 DEF StoreDelete
  <2>2. ~HasAncestor(s, k)
    BY <1>1, OneAncestor
  <2>3. /\ IsTree(t) /\ DOMAIN t = DOMAIN s \ Below(s, k)
        /\ \A q \in DOMAIN s \ Below(s, k) : t[q] = s[q]
    BY WithoutTree
  <2> HIDE DEF t
  <2>4. All(t) = Leaves(s, DOMAIN s \ Below(s, k))
    <3>1. Leaves(t, DOMAIN t) = Leaves(s, DOMAIN s \ Below(s, k))
      BY <2>3, SameLeaves
    <3> QED
      BY <3>1, AllLeaves
  <2> QED
    BY <2>1, <2>2, <2>3, <2>4, ApartFrom DEF DocDelete
<1>2. CASE Below(s, k) = {} /\ ~HasAncestor(s, k)
  <2>1. StoreDelete(s, k) = s
    BY <1>2 DEF StoreDelete, Deletes
  <2>2. All(s) = Leaves(s, DOMAIN s \ Below(s, k))
    <3>1. DOMAIN s \ Below(s, k) = DOMAIN s
      BY <1>2
    <3> QED
      BY <3>1, AllLeaves
  <2> QED
    BY <1>2, <2>1, <2>2, ApartFrom DEF DocDelete
<1>3. CASE Below(s, k) = {} /\ HasAncestor(s, k)
  <2>a. PICK a : a = AncestorLeaf(s, k)
    OBVIOUS
  <2>i. PICK i : i = Inner(s, k)
    OBVIOUS
  <2> DEFINE rest == Leaves(s, DOMAIN s \ {a})
  <2>1. /\ a \in DOMAIN s /\ a \in Paths /\ IsStrictPrefix(a, k)
        /\ i \in Paths /\ i # <<>> /\ a \o i = k
        /\ \A q \in DOMAIN s : q # a => ~Related(q, k)
    BY <1>3, <2>a, <2>i, OneAncestor
  <2>2. IsValue(s[a])
    BY <2>1 DEF IsTree
  <2>3. Deletes(s, k) <=> \E e \in s[a] : IsPrefix(i, e.at)
    BY <1>3, <2>a, <2>i DEF Deletes
  <2>4. StoreDelete(s, k) = IF Deletes(s, k) THEN With(s, a, Cut(s[a], i)) ELSE s
    BY <1>3, <2>a, <2>i DEF StoreDelete
  <2>5. All(s) = rest \cup Leaf(a, s[a])
    BY <2>1, OneLeaf
  <2>6. DocDelete(All(s), k) = rest \cup DocDelete(Leaf(a, s[a]), k)
    <3>1. \A e \in rest : ~Related(e.at, k)
      BY <2>1, LeafApart, AllLeaves
    <3> HIDE DEF rest
    <3> QED
      BY <2>5, <3>1 DEF DocDelete, Related
  <2>7. CASE Deletes(s, k)
    <3>1. IsValue(Cut(s[a], i)) /\ Leaf(a, Cut(s[a], i)) = DocDelete(Leaf(a, s[a]), k)
      <4>1. \E e \in s[a] : IsPrefix(i, e.at)
        BY <2>3, <2>7
      <4>2. IsValue(Cut(s[a], i))
        BY <2>1, <2>2, <4>1, CutValue
      <4>3. Leaf(a, Cut(s[a], i)) = DocDelete(Leaf(a, s[a]), a \o i)
        BY <2>1, <2>2, <4>1, CutLeaf
      <4> QED
        BY <2>1, <4>2, <4>3
    <3>2. \A q \in DOMAIN s : q # a => ~Related(q, a)
      BY <2>1 DEF IsTree, Related
    <3>3. /\ IsTree(With(s, a, Cut(s[a], i)))
          /\ All(With(s, a, Cut(s[a], i))) = rest \cup Leaf(a, Cut(s[a], i))
      BY <2>1, <3>1, <3>2, WithTree
    <3> QED
      BY <2>4, <2>6, <2>7, <3>1, <3>3
  <2>8. CASE ~Deletes(s, k)
    <3>1. ASSUME NEW e \in Leaf(a, s[a])
          PROVE  ~IsPrefix(k, e.at)
      <4>1. /\ e.at \in Paths /\ IsPrefix(a, e.at)
            /\ [at |-> From(a, e.at), is |-> e.is] \in s[a]
        BY <2>1, <2>2, LeafEntry
      <4>2. ~IsPrefix(i, From(a, e.at))
        BY <2>3, <2>8, <4>1
      <4> QED
        BY <2>1, <4>1, <4>2, PrefixFrom
    <3> QED
      BY <2>4, <2>5, <2>6, <2>8, <3>1 DEF DocDelete
  <2> QED
    BY <2>7, <2>8
<1> QED
  BY <1>1, <1>2, <1>3

\* A value put under a key, and the same seen from a key above.
LEMMA LeafShift ==
    ASSUME NEW v, IsValue(v), NEW a \in Paths, NEW k \in Paths, IsPrefix(a, k)
    PROVE  /\ IsValue(Shift(From(a, k), v))
           /\ Leaf(a, Shift(From(a, k), v)) = Leaf(k, v)
<1>p. PICK p \in Paths : p = From(a, k) /\ a \o p = k
  BY PathFrom
<1>1. IsValue(Shift(p, v))
  BY ShiftValue
<1>2. ASSUME NEW e
      PROVE  e \in Leaf(a, Shift(p, v)) <=> e \in Leaf(k, v)
  <2> DEFINE x == [at |-> From(a, e.at), is |-> e.is]
             Here == e = [at |-> e.at, is |-> e.is] /\ e.at \in Paths /\ IsPrefix(a, e.at) /\ e.is # Empty
  <2>1. e \in Leaf(a, Shift(p, v)) <=> Here /\ x \in Shift(p, v)
    BY <1>1, LeafEntry
  <2>2. e \in Leaf(k, v) => Here
    <3>1. e \in Leaf(k, v) => e.at \in Paths /\ IsPrefix(k, e.at)
      BY LeafEntry
    <3>2. e \in Leaf(k, v) => IsPrefix(a, e.at)
      BY <3>1, PrefixOrder
    <3> QED
      BY <3>2, LeafEntry
  <2>3. ASSUME Here
        PROVE  x \in Shift(p, v) <=> e \in Leaf(k, v)
    <3>1. x.at \in Paths /\ x.is = e.is /\ x = [at |-> x.at, is |-> x.is]
      BY <2>3, PathFrom
    <3>2. x \in Shift(p, v) <=> IsPrefix(p, x.at) /\ [at |-> From(p, x.at), is |-> x.is] \in v
      BY <3>1, ShiftEntry
    <3>3. IsPrefix(k, e.at) <=> IsPrefix(p, x.at)
      BY <1>p, <2>3, FromKey
    <3>4. IsPrefix(k, e.at) => From(k, e.at) = From(p, x.at)
      BY <1>p, <2>3, FromKey
    <3>5. e \in Leaf(k, v) <=> IsPrefix(k, e.at) /\ [at |-> From(k, e.at), is |-> e.is] \in v
      BY <2>3, LeafEntry
    <3> QED
      BY <3>1, <3>2, <3>3, <3>4, <3>5
  <2> HIDE DEF x
  <2> QED
    BY <2>1, <2>2, <2>3
<1> QED
  BY <1>p, <1>1, <1>2

\* The leaves below a key, put together, are a value and show the same.
LEMMA BranchLeaf ==
    ASSUME NEW s, IsTree(s), NEW k \in Paths
    PROVE  /\ IsValue(Branch(s, k))
           /\ Leaf(k, Branch(s, k)) = Leaves(s, Below(s, k))
<1> DEFINE part == [q \in Below(s, k) |-> Shift(From(k, q), s[q])]
           B == Branch(s, k)
<1>1. ASSUME NEW q \in Below(s, k)
      PROVE  /\ q \in DOMAIN s /\ q \in Paths /\ IsPrefix(k, q) /\ IsValue(s[q])
             /\ From(k, q) \in Paths /\ k \o From(k, q) = q
             /\ IsValue(part[q]) /\ Leaf(k, part[q]) = Leaf(q, s[q])
  <2>1. q \in DOMAIN s /\ q \in Paths /\ IsPrefix(k, q) /\ IsValue(s[q])
    BY DEF Below, IsTree
  <2>2. IsValue(Shift(From(k, q), s[q])) /\ Leaf(k, Shift(From(k, q), s[q])) = Leaf(q, s[q])
    BY <2>1, LeafShift
  <2> QED
    BY <2>1, <2>2, PathFrom
<1>2. \A e : e \in B <=> \E q \in Below(s, k) : e \in part[q]
  BY DEF Branch
<1>3. IsFiniteSet(B)
  <2> DEFINE T == {part[q] : q \in Below(s, k)}
  <2>1. IsFiniteSet(Below(s, k))
    BY FS_Subset DEF Below, IsTree
  <2>2. part \in Surjection(Below(s, k), T)
    BY DEF Surjection
  <2>3. IsFiniteSet(T)
    BY <2>1, <2>2, FS_Surjection
  <2>4. \A w \in T : IsFiniteSet(w)
    BY <1>1 DEF IsValue
  <2>5. B = UNION T
    BY DEF Branch
  <2> HIDE DEF T
  <2> QED
    BY <2>3, <2>4, <2>5, FS_UNION
<1>4. ASSUME NEW q \in Below(s, k), NEW r \in Below(s, k), NEW e \in part[q], NEW f \in part[r],
             IsPrefix(e.at, f.at)
      PROVE  e = f
  <2>1. CASE q = r
    BY <1>1, <1>4, <2>1 DEF IsValue
  <2>2. CASE q # r
    <3>1. ~IsPrefix(q, r) /\ ~IsPrefix(r, q)
      BY <1>1, <2>2 DEF IsTree
    <3>2. PICK x \in Paths, y \in Paths : x = From(k, q) /\ y = From(k, r)
                                          /\ k \o x = q /\ k \o y = r
      BY <1>1
    <3>3. ~Related(x, y)
      <4>1. IsPrefix(q, r) <=> IsPrefix(x, y)
        BY <1>1, <3>2, FromKey
      <4>2. IsPrefix(r, q) <=> IsPrefix(y, x)
        BY <1>1, <3>2, FromKey
      <4> QED
        BY <3>1, <4>1, <4>2 DEF Related
    <3>4. /\ e.at \in Paths /\ IsPrefix(x, e.at)
          /\ f.at \in Paths /\ IsPrefix(y, f.at)
      <4>1. e \in Shift(x, s[q]) /\ f \in Shift(y, s[r])
        BY <3>2
      <4> QED
        BY <1>1, <4>1, ShiftEntry
    <3>5. PICK m \in Paths, n \in Paths : e.at = x \o m /\ f.at = y \o n
      <4>1. From(x, e.at) \in Paths /\ x \o From(x, e.at) = e.at
        BY <3>4, PathFrom
      <4>2. From(y, f.at) \in Paths /\ y \o From(y, f.at) = f.at
        BY <3>4, PathFrom
      <4> QED
        BY <4>1, <4>2
    <3>6. ~Related(x \o m, y \o n)
      BY <3>3, UnrelatedBelow
    <3> QED
      BY <1>4, <3>5, <3>6 DEF Related
  <2> QED
    BY <2>1, <2>2
<1>5. IsValue(B)
  <2>1. \A e \in B : e = [at |-> e.at, is |-> e.is] /\ e.at \in Seq(STRING)
    BY <1>1, <1>2 DEF IsValue
  <2> HIDE DEF B, part
  <2> QED
    BY <1>2, <1>3, <1>4, <2>1 DEF IsValue
<1>6. \A e : e \in Leaf(k, B) <=> \E q \in Below(s, k) : e \in Leaf(k, part[q])
  <2> HIDE DEF B, part
  <2>1. ASSUME NEW e
        PROVE  e \in Leaf(k, B) <=> \E q \in Below(s, k) : e \in Leaf(k, part[q])
    <3> DEFINE x == [at |-> From(k, e.at), is |-> e.is]
               Here == e = [at |-> e.at, is |-> e.is] /\ e.at \in Paths /\ IsPrefix(k, e.at) /\ e.is # Empty
    <3>1. e \in Leaf(k, B) <=> Here /\ x \in B
      BY <1>5, LeafEntry
    <3>2. \A q \in Below(s, k) : e \in Leaf(k, part[q]) <=> Here /\ x \in part[q]
      BY <1>1, LeafEntry
    <3> HIDE DEF x
    <3> QED
      BY <1>2, <3>1, <3>2
  <2> QED
    BY <2>1
<1>7. \A e : e \in Leaf(k, B) <=> e \in Leaves(s, Below(s, k))
  <2> HIDE DEF B, part
  <2> QED
    BY <1>1, <1>6, AllLeaves
<1> QED
  BY <1>5, <1>7

\* get joins the leaves below a key, and the document is the same.
THEOREM StoreReads ==
    ASSUME NEW s, IsTree(s), NEW k \in Paths
    PROVE  IsTree(AfterGet(s, k)) /\ All(AfterGet(s, k)) = All(s)
<1>1. CASE k \notin DOMAIN s /\ ~HasAncestor(s, k) /\ Below(s, k) # {}
  <2>1. AfterGet(s, k) = Place(s, k, Branch(s, k))
    BY <1>1 DEF AfterGet
  <2>2. IsValue(Branch(s, k)) /\ Leaf(k, Branch(s, k)) = Leaves(s, Below(s, k))
    BY BranchLeaf
  <2>3. /\ IsTree(Place(s, k, Branch(s, k)))
        /\ All(Place(s, k, Branch(s, k))) =
               Leaves(s, DOMAIN s \ Below(s, k)) \cup Leaf(k, Branch(s, k))
    BY <1>1, <2>2, PlaceTree
  <2>4. \A e : e \in All(s) <=> \/ e \in Leaves(s, DOMAIN s \ Below(s, k))
                                \/ e \in Leaves(s, Below(s, k))
    <3>1. Below(s, k) \subseteq DOMAIN s
      BY DEF Below
    <3> QED
      BY <3>1, AllLeaves
  <2> QED
    BY <2>1, <2>2, <2>3, <2>4
<1>2. CASE ~(k \notin DOMAIN s /\ ~HasAncestor(s, k) /\ Below(s, k) # {})
  BY <1>2 DEF AfterGet
<1> QED
  BY <1>1, <1>2

LEMMA NothingAt ==
    ASSUME NEW d, NEW k, NEW w, \A e \in w : e \in d, \A e \in d : e \in w \/ ~Related(e.at, k)
    PROVE  Member(d, k) = Member(w, k)
<1>1. \A e \in d : IsPrefix(k, e.at) => e \in w
  BY DEF Related
<1>2. {e \in d : IsPrefix(k, e.at)} = {e \in w : IsPrefix(k, e.at)}
  BY <1>1
<1> QED
  BY <1>2 DEF Member

\* What get answers is what an enumeration shows at the key, however the
\* document is cut into leaves.
THEOREM StoreAnswers ==
    ASSUME NEW s, IsTree(s), NEW k \in Paths
    PROVE  Shown(StoreGet(s, k)) = Member(All(s), k)
<1>1. CASE k \in DOMAIN s
  <2>1. IsValue(s[k]) /\ StoreGet(s, k) = s[k]
    BY <1>1 DEF IsTree, StoreGet
  <2>2. All(s) = Leaves(s, DOMAIN s \ {k}) \cup Leaf(k, s[k])
    BY <1>1, OneLeaf
  <2>3. \A e \in Leaves(s, DOMAIN s \ {k}) : ~Related(e.at, k)
    <3>1. \A q \in DOMAIN s \ {k} : ~Related(q, k)
      BY <1>1 DEF IsTree, Related
    <3> QED
      BY <3>1, LeafApart, AllLeaves
  <2>4. Member(All(s), k) = Member(Leaf(k, s[k]), k)
    <3>1. \A e \in Leaf(k, s[k]) : e \in All(s)
      BY <2>2
    <3>2. \A e \in All(s) : e \in Leaf(k, s[k]) \/ ~Related(e.at, k)
      BY <2>2, <2>3
    <3> QED
      BY <3>1, <3>2, NothingAt
  <2>5. Member(Leaf(k, s[k]), k) = Shown(Member(s[k], <<>>))
    BY <2>1, FromSelf, MemberLeaf
  <2>6. Member(s[k], <<>>) = s[k]
    BY <2>1, ValueMember
  <2> QED
    BY <2>1, <2>4, <2>5, <2>6
<1>2. CASE k \notin DOMAIN s /\ HasAncestor(s, k)
  <2>a. PICK a : a = AncestorLeaf(s, k)
    OBVIOUS
  <2>i. PICK i : i = Inner(s, k)
    OBVIOUS
  <2>1. /\ a \in DOMAIN s /\ a \in Paths
        /\ i \in Paths /\ a \o i = k
        /\ \A q \in DOMAIN s : q # a => ~Related(q, k)
    BY <1>2, <2>a, <2>i, OneAncestor
  <2>2. IsValue(s[a])
    BY <2>1 DEF IsTree
  <2>3. StoreGet(s, k) = Member(s[a], i)
    BY <1>2, <2>a, <2>i DEF StoreGet
  <2>4. All(s) = Leaves(s, DOMAIN s \ {a}) \cup Leaf(a, s[a])
    BY <2>1, OneLeaf
  <2>5. \A e \in Leaves(s, DOMAIN s \ {a}) : ~Related(e.at, k)
    BY <2>1, LeafApart, AllLeaves
  <2>6. Member(All(s), k) = Member(Leaf(a, s[a]), k)
    <3>1. \A e \in Leaf(a, s[a]) : e \in All(s)
      BY <2>4
    <3>2. \A e \in All(s) : e \in Leaf(a, s[a]) \/ ~Related(e.at, k)
      BY <2>4, <2>5
    <3> QED
      BY <3>1, <3>2, NothingAt
  <2>7. Member(Leaf(a, s[a]), k) = Shown(Member(s[a], i))
    <3>1. IsPrefix(a, k) /\ i = From(a, k)
      BY <1>2, <2>a, <2>i, OneAncestor DEF Inner, IsStrictPrefix
    <3> QED
      BY <2>1, <2>2, <3>1, MemberLeaf
  <2> QED
    BY <2>1, <2>3, <2>6, <2>7
<1>3. CASE k \notin DOMAIN s /\ ~HasAncestor(s, k)
  <2> DEFINE B == Branch(s, k)
  <2>1. StoreGet(s, k) = B
    BY <1>3 DEF StoreGet
  <2>2. IsValue(B) /\ Leaf(k, B) = Leaves(s, Below(s, k))
    BY BranchLeaf
  <2> HIDE DEF B
  <2>3. All(s) = Leaves(s, DOMAIN s \ Below(s, k)) \cup Leaf(k, B)
    <3>1. \A e : e \in All(s) <=> e \in Leaves(s, DOMAIN s \ Below(s, k)) \/ e \in Leaf(k, B)
      <4>1. Below(s, k) \subseteq DOMAIN s
        BY DEF Below
      <4> QED
        BY <2>2, <4>1, AllLeaves
    <3> QED
      BY <3>1
  <2>4. \A e \in Leaves(s, DOMAIN s \ Below(s, k)) : ~Related(e.at, k)
    <3>1. \A q \in DOMAIN s \ Below(s, k) : ~Related(q, k)
      BY <1>3, PrefixOrder DEF Below, HasAncestor, IsStrictPrefix, Related
    <3> QED
      BY <3>1, LeafApart, AllLeaves
  <2>5. Member(All(s), k) = Member(Leaf(k, B), k)
    <3>1. \A e \in Leaf(k, B) : e \in All(s)
      BY <2>3
    <3>2. \A e \in All(s) : e \in Leaf(k, B) \/ ~Related(e.at, k)
      BY <2>3, <2>4
    <3> QED
      BY <3>1, <3>2, NothingAt
  <2>6. Member(Leaf(k, B), k) = Shown(Member(B, <<>>))
    BY <2>2, FromSelf, MemberLeaf
  <2>7. Member(B, <<>>) = B
    BY <2>2, ValueMember
  <2> QED
    BY <2>1, <2>5, <2>6, <2>7
<1> QED
  BY <1>1, <1>2, <1>3

-----------------------------------------------------------------------------
(* Induction along 0..n, and the keys of a store in their order.           *)

LEMMA CountUp ==
    ASSUME NEW n \in Nat, NEW T, 0 \in T, \A i \in 0..n : i # n /\ i \in T => i + 1 \in T
    PROVE  0..n \subseteq T
<1> DEFINE Bad == {i \in 0..n : i \notin T}
<1> SUFFICES ASSUME Bad # {}
             PROVE  FALSE
  OBVIOUS
<1>1. IsWellFoundedOn(OpToRel(<, Nat), Nat)
  BY NatLessThanWellFounded
<1>2. Bad \subseteq Nat
  OBVIOUS
<1>3. PICK b \in Bad : \A a \in Bad : ~(<<a, b>> \in OpToRel(<, Nat))
  <2> HIDE DEF Bad
  <2> QED
    BY <1>1, <1>2, WFMin, Zenon
<1>4. b \in 0..n /\ b # 0 /\ b \notin T
  OBVIOUS
<1>5. b - 1 \in 0..n /\ b - 1 # n /\ b - 1 < b /\ (b - 1) + 1 = b
  BY <1>4
<1>6. b - 1 \notin Bad
  <2> HIDE DEF Bad
  <2> QED
    BY <1>2, <1>3, <1>5 DEF OpToRel
<1>7. b - 1 \in T
  BY <1>5, <1>6
<1> QED
  BY <1>4, <1>5, <1>7

LEMMA NextPlace ==
    ASSUME NEW l \in Nat, NEW n \in 0..l, n # l
    PROVE  n \in Nat /\ n + 1 \in 0..l /\ n + 1 \in 1..l /\ n + 1 # 0 /\ (n + 1) - 1 = n
OBVIOUS

\* One of the shortest.
LEMMA Shortest ==
    ASSUME NEW D, D \subseteq Paths, D # {}
    PROVE  \E m \in D : \A q \in D : Len(m) <= Len(q)
<1> DEFINE L == {Len(q) : q \in D}
<1>1. L \subseteq Nat /\ L # {}
  <2>1. \A q \in D : q \in Seq(STRING)
    BY DEF Paths
  <2>2. \A q \in D : Len(q) \in Nat
    BY <2>1
  <2> QED
    BY <2>2
<1>2. IsWellFoundedOn(OpToRel(<, Nat), Nat)
  BY NatLessThanWellFounded
<1>3. PICK b \in L : \A a \in L : ~(<<a, b>> \in OpToRel(<, Nat))
  <2> HIDE DEF L
  <2> QED
    BY <1>1, <1>2, WFMin, Zenon
<1>4. \A a \in L : b <= a
  <2> HIDE DEF L
  <2> QED
    <3> SUFFICES ASSUME NEW a \in L
                 PROVE  b <= a
      OBVIOUS
    <3>1. a \in Nat /\ b \in Nat
      BY <1>1
    <3>2. ~(a < b)
      BY <1>3, <3>1 DEF OpToRel
    <3> QED
      BY <3>1, <3>2
<1> QED
  BY <1>3, <1>4

\* w lists D, the shorter keys first.
Lists(w, D) ==
    /\ w \in [1..Cardinality(D) -> D]
    /\ IsInjective(w)
    /\ \A i, j \in DOMAIN w : i < j => Len(w[i]) <= Len(w[j])

LEMMA ListsExist ==
    ASSUME NEW D, IsFiniteSet(D), D \subseteq Paths
    PROVE  \E w : Lists(w, D)
<1> DEFINE N == Cardinality(D)
           T == {n \in 0..N : \A E \in SUBSET D : Cardinality(E) = n => \E w : Lists(w, E)}
<1>1. N \in Nat
  BY FS_CardinalityType
<1>2. 0 \in T
  <2>1. ASSUME NEW E \in SUBSET D, Cardinality(E) = 0
        PROVE  \E w : Lists(w, E)
    <3>1. E = {}
      BY <2>1, FS_Subset, FS_EmptySet
    <3> DEFINE w == [i \in 1..0 |-> <<>>]
    <3>2. w \in [1..0 -> E] /\ DOMAIN w = {}
      BY <3>1
    <3> HIDE DEF w
    <3>3. Lists(w, E)
      BY <2>1, <3>2 DEF Lists, IsInjective
    <3> QED
      BY <3>3
  <2> QED
    BY <1>1, <2>1
<1>3. ASSUME NEW n \in 0..N, n # N, n \in T
      PROVE  n + 1 \in T
  <2>1. ASSUME NEW E \in SUBSET D, Cardinality(E) = n + 1
        PROVE  \E w : Lists(w, E)
    <3>1. E # {} /\ IsFiniteSet(E) /\ E \subseteq Paths
      BY <2>1, <1>1, FS_Subset, FS_EmptySet
    <3>2. PICK m \in E : \A q \in E : Len(m) <= Len(q)
      BY <3>1, Shortest
    <3> DEFINE R == E \ {m}
    <3>3. Cardinality(R) = n /\ R \in SUBSET D
      <4>1. Cardinality(R) = Cardinality(E) - 1
        BY <3>1, <3>2, FS_RemoveElement
      <4>2. n \in Nat
        BY <1>1
      <4> QED
        BY <2>1, <4>1, <4>2
    <3>4. PICK u : Lists(u, R)
      BY <1>3, <3>3
    <3>5. /\ u \in [1..n -> R]
          /\ \A i, j \in 1..n : u[i] = u[j] => i = j
          /\ \A i, j \in 1..n : i < j => Len(u[i]) <= Len(u[j])
      BY <3>3, <3>4 DEF Lists, IsInjective
    <3> DEFINE w == [i \in 1..(n + 1) |-> IF i = 1 THEN m ELSE u[i - 1]]
    <3>6. \A i \in 1..(n + 1) : i # 1 => i - 1 \in 1..n /\ w[i] = u[i - 1] /\ w[i] \in R
      BY <1>1, <3>5
    <3>7. w[1] = m /\ 1 \in 1..(n + 1) /\ DOMAIN w = 1..(n + 1)
      BY <1>1
    <3>8. w \in [1..(n + 1) -> E]
      BY <3>6, <3>7
    <3> HIDE DEF w
    <3>9. ASSUME NEW i \in 1..(n + 1), NEW j \in 1..(n + 1)
          PROVE  /\ w[i] = w[j] => i = j
                 /\ i < j => Len(w[i]) <= Len(w[j])
      <4>1. CASE i = 1 /\ j = 1
        BY <4>1
      <4>2. CASE i = 1 /\ j # 1
        BY <3>2, <3>6, <3>7, <4>2
      <4>3. CASE i # 1 /\ j = 1
        BY <3>6, <3>7, <4>3
      <4>4. CASE i # 1 /\ j # 1
        <5>1. i - 1 \in 1..n /\ j - 1 \in 1..n /\ w[i] = u[i - 1] /\ w[j] = u[j - 1]
          BY <3>6, <4>4
        <5>2. w[i] = w[j] => i - 1 = j - 1
          BY <3>5, <5>1
        <5>3. i < j => i - 1 < j - 1
          OBVIOUS
        <5>4. i < j => Len(w[i]) <= Len(w[j])
          BY <3>5, <5>1, <5>3
        <5> QED
          BY <5>2, <5>4
      <4> QED
        BY <4>1, <4>2, <4>3, <4>4
    <3>10. Lists(w, E)
      BY <2>1, <3>7, <3>8, <3>9 DEF Lists, IsInjective
    <3> QED
      BY <3>10
  <2> QED
    BY <1>1, <1>3, <2>1, NextPlace
<1> HIDE DEF T
<1>4. N \in T
  BY <1>1, <1>2, <1>3, CountUp
<1> QED
  BY <1>4 DEF T

LEMMA SortedKeys ==
    ASSUME NEW D, IsFiniteSet(D), D \subseteq Paths
    PROVE  /\ Len(Sorted(D)) \in Nat
           /\ Sorted(D) \in [1..Len(Sorted(D)) -> D]
           /\ \A i, j \in 1..Len(Sorted(D)) : Sorted(D)[i] = Sorted(D)[j] => i = j
           /\ \A q \in D : \E i \in 1..Len(Sorted(D)) : Sorted(D)[i] = q
<1> DEFINE n == Cardinality(D)
<1>1. n \in Nat
  BY FS_CardinalityType
<1>2. PICK w : w = Sorted(D)
  OBVIOUS
<1>3. Lists(w, D)
  <2>1. \E x \in [1..n -> D] : /\ IsInjective(x)
                               /\ \A i, j \in DOMAIN x : i < j => Len(x[i]) <= Len(x[j])
    BY ListsExist DEF Lists
  <2> QED
    BY <1>2, <2>1 DEF Sorted, Lists
<1>4. w \in [1..n -> D] /\ \A i, j \in 1..n : w[i] = w[j] => i = j
  BY <1>3 DEF Lists, IsInjective
<1>5. Len(w) = n
  BY <1>1, <1>4
<1>6. w \in Surjection(1..n, D)
  <2>1. w \in Injection(1..n, D)
    BY <1>3 DEF Lists, Injection
  <2>2. IsFiniteSet(1..n) /\ Cardinality(1..n) = n
    BY <1>1, FS_Interval
  <2> QED
    BY <2>1, <2>2, FS_Injection
<1>7. \A q \in D : \E i \in 1..n : w[i] = q
  BY <1>6 DEF Surjection
<1> QED
  BY <1>1, <1>2, <1>4, <1>5, <1>7

-----------------------------------------------------------------------------
(* What is loaded from the files.                                          *)

\* Adding a leaf that has nothing to do with the others.
LEMMA LoadApart ==
    ASSUME NEW s, IsTree(s), NEW k \in Paths, NEW v,
           \A q \in DOMAIN s : ~Related(q, k)
    PROVE  LoadEntry(s, k, v) = With(s, k, v)
<1>1. ~HasAncestor(s, k) /\ Below(s, k) = {}
  BY DEF HasAncestor, Below, IsStrictPrefix, Related
<1>2. LoadEntry(s, k, v) = Place(s, k, v)
  BY <1>1 DEF LoadEntry, StoreSet
<1>3. Without(s, {}) = s
  <2>1. s = [q \in DOMAIN s |-> s[q]]
    BY DEF IsTree
  <2>2. Without(s, {}) = [q \in DOMAIN s |-> s[q]]
    BY DEF Without
  <2> QED
    BY <2>1, <2>2
<1> QED
  BY <1>1, <1>2, <1>3 DEF Place

\* A v2 snapshot gives back the leaves it was written of: load_snapshot reads it
\* entry by entry with store.set, and none of the entries touches another.
THEOREM LoadedLeaves ==
    ASSUME NEW f, IsTree(f)
    PROVE  LoadFile(f) = f
<1> DEFINE keys == Sorted(DOMAIN f)
           n == Len(keys)
<1>1. /\ n \in Nat /\ keys \in [1..n -> DOMAIN f]
      /\ \A i, j \in 1..n : keys[i] = keys[j] => i = j
      /\ \A q \in DOMAIN f : \E i \in 1..n : keys[i] = q
  BY SortedKeys DEF IsTree
<1> DEFINE Body(g, i) == IF i = 0 THEN EmptyStore ELSE LoadEntry(g[i - 1], keys[i], f[keys[i]])
           Solves(g) == g = [i \in 0..n |-> Body(g, i)]
           Done(i) == {keys[j] : j \in 1..i}
           Part(i) == [q \in Done(i) |-> f[q]]
           F == [i \in 0..n |-> Part(i)]
<1>2. LoadFile(f) = (CHOOSE g : Solves(g))[n]
  BY DEF LoadFile
<1> HIDE DEF keys, n
<1> n \in Nat
  BY <1>1
<1>3. Part(0) = EmptyStore
  <2>1. Done(0) = {}
    OBVIOUS
  <2> HIDE DEF Done
  <2> QED
    BY <2>1 DEF EmptyStore
<1>4. ASSUME NEW i \in 0..n, i # n
      PROVE  LoadEntry(Part(i), keys[i + 1], f[keys[i + 1]]) = Part(i + 1)
  <2> DEFINE k == keys[i + 1]
             p == Part(i)
  <2>1. i \in Nat /\ i + 1 \in 1..n /\ k \in DOMAIN f /\ k \in Paths
    BY <1>1, <1>4, NextPlace DEF IsTree
  <2>2. Done(i) \subseteq DOMAIN f
    BY <1>1, <2>1
  <2>3. Done(i + 1) = Done(i) \cup {k}
    <3>1. \A j : j \in 1..(i + 1) <=> j \in 1..i \/ j = i + 1
      BY <2>1
    <3> QED
      BY <3>1
  <2>4. k \notin Done(i)
    BY <1>1, <2>1
  <2> HIDE DEF Done
  <2>5. DOMAIN p = Done(i) /\ \A q \in Done(i) : p[q] = f[q]
    OBVIOUS
  <2>6. p = [q \in DOMAIN p |-> p[q]]
    BY <2>5
  <2>7. With(p, k, f[k]) = Part(i + 1)
    BY <2>3, <2>4, <2>5 DEF With
  <2> HIDE DEF p, k
  <2>8. IsTree(p)
    <3>1. IsFiniteSet(DOMAIN p)
      BY <2>2, <2>5, FS_Subset DEF IsTree
    <3> QED
      BY <2>2, <2>5, <2>6, <3>1 DEF IsTree
  <2>9. \A q \in DOMAIN p : ~Related(q, k)
    BY <2>1, <2>2, <2>4, <2>5 DEF IsTree, Related
  <2>10. LoadEntry(p, k, f[k]) = With(p, k, f[k])
    BY <2>1, <2>8, <2>9, LoadApart
  <2> QED
    BY <2>7, <2>10 DEF p, k
<1> HIDE DEF Part
<1>5. Solves(F)
  <2>1. ASSUME NEW i \in 0..n
        PROVE  Body(F, i) = Part(i)
    <3>1. CASE i = 0
      BY <1>3, <3>1
    <3>2. CASE i # 0
      <4>1. i - 1 \in 0..n /\ i - 1 # n /\ (i - 1) + 1 = i
        BY <3>2
      <4>2. F[i - 1] = Part(i - 1)
        BY <4>1
      <4> QED
        BY <1>4, <3>2, <4>1, <4>2
    <3> QED
      BY <3>1, <3>2
  <2> HIDE DEF Body
  <2> QED
    BY <2>1
<1>6. ASSUME NEW g, Solves(g)
      PROVE  g[n] = Part(n)
  <2> DEFINE T == {i \in 0..n : g[i] = Part(i)}
  <2>1. \A i \in 0..n : g[i] = Body(g, i)
    BY <1>6
  <2>2. 0 \in T
    BY <1>3, <2>1
  <2>3. ASSUME NEW i \in 0..n, i # n, i \in T
        PROVE  i + 1 \in T
    <3>1. i + 1 \in 0..n /\ i + 1 # 0 /\ (i + 1) - 1 = i
      BY <2>3, NextPlace
    <3>2. g[i + 1] = LoadEntry(g[i], keys[i + 1], f[keys[i + 1]])
      BY <2>1, <3>1
    <3>3. g[i] = Part(i)
      BY <2>3
    <3> QED
      BY <1>4, <2>3, <3>1, <3>2, <3>3
  <2> HIDE DEF T
  <2>4. n \in T
    BY <2>2, <2>3, CountUp
  <2> QED
    BY <2>4 DEF T
<1> HIDE DEF Solves, F
<1>7. LoadFile(f) = Part(n)
  BY <1>2, <1>5, <1>6
<1>8. Part(n) = f
  <2>1. Done(n) = DOMAIN f
    <3>1. \A q \in Done(n) : q \in DOMAIN f
      BY <1>1
    <3>2. \A q \in DOMAIN f : q \in Done(n)
      BY <1>1
    <3> HIDE DEF Done
    <3> QED
      BY <3>1, <3>2
  <2> HIDE DEF Done
  <2>2. f = [q \in DOMAIN f |-> f[q]]
    BY DEF IsTree
  <2> QED
    BY <2>1, <2>2 DEF Part
<1> QED
  BY <1>7, <1>8

\* The values of a store under their whole keys.
Whole(s, D) == UNION {Shift(q, s[q]) : q \in D}

LEMMA WholeEntry ==
    ASSUME NEW s, NEW D, NEW e
    PROVE  e \in Whole(s, D) <=> \E q \in D : e \in Shift(q, s[q])
BY DEF Whole

\* A JSON snapshot is the whole document: write_json_snapshot puts the leaves
\* into it one by one, and none takes away what another has put there.
THEOREM JoinedLeaves ==
    ASSUME NEW s, IsTree(s)
    PROVE  /\ Joined(s) = Whole(s, DOMAIN s)
           /\ IsValue(Joined(s))
           /\ Shown(Joined(s)) = All(s)
<1> DEFINE keys == Sorted(DOMAIN s)
           n == Len(keys)
<1>1. /\ n \in Nat /\ keys \in [1..n -> DOMAIN s]
      /\ \A i, j \in 1..n : keys[i] = keys[j] => i = j
      /\ \A q \in DOMAIN s : \E i \in 1..n : keys[i] = q
  BY SortedKeys DEF IsTree
<1> DEFINE Body(g, i) == IF i = 0 THEN {} ELSE Put(g[i - 1], keys[i], s[keys[i]])
           Solves(g) == g = [i \in 0..n |-> Body(g, i)]
           Done(i) == {keys[j] : j \in 1..i}
           Part(i) == Whole(s, Done(i))
           F == [i \in 0..n |-> Part(i)]
<1>2. Joined(s) = (CHOOSE g : Solves(g))[n]
  BY DEF Joined
<1> HIDE DEF keys, n
<1> n \in Nat
  BY <1>1
<1>3. Part(0) = {}
  BY WholeEntry
<1>4. ASSUME NEW i \in 0..n, i # n
      PROVE  Put(Part(i), keys[i + 1], s[keys[i + 1]]) = Part(i + 1)
  <2> DEFINE k == keys[i + 1]
  <2>1. i \in Nat /\ i + 1 \in 1..n /\ k \in DOMAIN s /\ k \in Paths
    BY <1>1, <1>4, NextPlace DEF IsTree
  <2>2. Done(i) \subseteq DOMAIN s
    BY <1>1, <2>1
  <2>3. Done(i + 1) = Done(i) \cup {k}
    <3>1. \A j : j \in 1..(i + 1) <=> j \in 1..i \/ j = i + 1
      BY <2>1
    <3> QED
      BY <3>1
  <2>4. k \notin Done(i)
    BY <1>1, <2>1
  <2> HIDE DEF Done, k
  <2>5. ASSUME NEW e \in Part(i)
        PROVE  ~Related(e.at, k)
    <3>1. PICK q \in Done(i) : e \in Shift(q, s[q])
      BY WholeEntry
    <3>2. q \in Paths /\ IsValue(s[q]) /\ ~Related(q, k)
      BY <2>1, <2>2, <2>4, <3>1 DEF IsTree, Related
    <3>3. e.at \in Paths /\ IsPrefix(q, e.at)
      BY <3>1, <3>2, ShiftEntry
    <3>4. From(q, e.at) \in Paths /\ q \o From(q, e.at) = e.at /\ <<>> \in Paths /\ k \o <<>> = k
      BY <2>1, <3>2, <3>3, PathFrom, PathBelow, EmptyPrefix
    <3> QED
      BY <2>1, <3>2, <3>4, UnrelatedBelow
  <2>6. \A e : e \in Part(i + 1) <=> e \in Part(i) \/ e \in Shift(k, s[k])
    BY <2>3, WholeEntry
  <2> HIDE DEF Part
  <2>7. Put(Part(i), k, s[k]) = Part(i + 1)
    BY <2>5, <2>6 DEF Put
  <2> QED
    BY <2>7 DEF k
<1> HIDE DEF Part
<1>5. Solves(F)
  <2>1. ASSUME NEW i \in 0..n
        PROVE  Body(F, i) = Part(i)
    <3>1. CASE i = 0
      BY <1>3, <3>1
    <3>2. CASE i # 0
      <4>1. i - 1 \in 0..n /\ i - 1 # n /\ (i - 1) + 1 = i
        BY <3>2
      <4>2. F[i - 1] = Part(i - 1)
        BY <4>1
      <4> QED
        BY <1>4, <3>2, <4>1, <4>2
    <3> QED
      BY <3>1, <3>2
  <2> HIDE DEF Body
  <2> QED
    BY <2>1
<1>6. ASSUME NEW g, Solves(g)
      PROVE  g[n] = Part(n)
  <2> DEFINE T == {i \in 0..n : g[i] = Part(i)}
  <2>1. \A i \in 0..n : g[i] = Body(g, i)
    BY <1>6
  <2>2. 0 \in T
    BY <1>3, <2>1
  <2>3. ASSUME NEW i \in 0..n, i # n, i \in T
        PROVE  i + 1 \in T
    <3>1. i + 1 \in 0..n /\ i + 1 # 0 /\ (i + 1) - 1 = i
      BY <2>3, NextPlace
    <3>2. g[i + 1] = Put(g[i], keys[i + 1], s[keys[i + 1]])
      BY <2>1, <3>1
    <3>3. g[i] = Part(i)
      BY <2>3
    <3> QED
      BY <1>4, <2>3, <3>1, <3>2, <3>3
  <2> HIDE DEF T
  <2>4. n \in T
    BY <2>2, <2>3, CountUp
  <2> QED
    BY <2>4 DEF T
<1> HIDE DEF Solves, F
<1>7. Joined(s) = Part(n)
  BY <1>2, <1>5, <1>6
<1>8. Part(n) = Whole(s, DOMAIN s)
  <2>1. Done(n) = DOMAIN s
    <3>1. \A q \in Done(n) : q \in DOMAIN s
      BY <1>1
    <3>2. \A q \in DOMAIN s : q \in Done(n)
      BY <1>1
    <3> HIDE DEF Done
    <3> QED
      BY <3>1, <3>2
  <2> QED
    BY <2>1 DEF Part
<1>9. Whole(s, DOMAIN s) = Branch(s, <<>>)
  <2>1. ASSUME NEW q \in DOMAIN s
        PROVE  q \in Below(s, <<>>) /\ From(<<>>, q) = q
    <3>1. q \in Paths
      BY DEF IsTree
    <3>2. IsPrefix(<<>>, q) /\ <<>> \in Paths
      BY <3>1, EmptyPrefix
    <3>3. From(<<>>, q) \in Paths /\ <<>> \o From(<<>>, q) = q
      BY <3>1, <3>2, PathFrom
    <3> QED
      BY <3>2, <3>3 DEF Paths, Below
  <2>2. Below(s, <<>>) = DOMAIN s
    BY <2>1 DEF Below
  <2> QED
    BY <2>1, <2>2 DEF Whole, Branch
<1>10. IsValue(Branch(s, <<>>))
  <2>0. <<>> \in Paths
    BY DEF Paths
  <2>1. PICK z \in Paths : z = <<>>
    BY <2>0
  <2>2. IsValue(Branch(s, z))
    BY BranchLeaf
  <2> QED
    BY <2>1, <2>2
<1>11. Shown(Whole(s, DOMAIN s)) = All(s)
  BY DEF Whole, All
<1> QED
  BY <1>7, <1>8, <1>9, <1>10, <1>11

LEMMA OneEntry ==
    ASSUME NEW p \in Paths, NEW x
    PROVE  IsValue({[at |-> p, is |-> x]})
<1> DEFINE m == [at |-> p, is |-> x]
<1>1. m.at = p /\ m = [at |-> m.at, is |-> m.is]
  OBVIOUS
<1>2. IsFiniteSet({} \cup {m})
  BY FS_EmptySet, FS_AddElement
<1>3. IsFiniteSet({m})
  BY <1>2
<1> HIDE DEF m
<1>4. IsValue({m})
  BY <1>1, <1>3 DEF IsValue, Paths
<1> QED
  BY <1>4 DEF m

\* A document read from a JSON snapshot is cut into a leaf for every scalar, and
\* is the same document.
THEOREM FlattenedLeaves ==
    ASSUME NEW d, IsValue(d)
    PROVE  IsTree(Flattened(d)) /\ All(Flattened(d)) = Shown(d)
<1> DEFINE f == Flattened(d)
           D == {e.at : e \in d}
<1>1. \A e \in d : e = [at |-> e.at, is |-> e.is] /\ e.at \in Paths
  BY DEF IsValue, Paths
<1>2. DOMAIN f = D /\ f = [q \in DOMAIN f |-> f[q]]
      /\ \A q \in D : f[q] = {[at |-> <<>>, is |-> e.is] : e \in Member(d, q)}
  BY DEF Flattened
<1>3. ASSUME NEW e \in d
      PROVE  /\ e.at \in D
             /\ f[e.at] = {[at |-> <<>>, is |-> e.is]}
  <2>1. {x \in d : IsPrefix(e.at, x.at)} = {e}
    <3>1. \A x \in d : IsPrefix(e.at, x.at) => x = e
      BY DEF IsValue
    <3>2. IsPrefix(e.at, e.at)
      BY <1>1, FromSelf
    <3> QED
      BY <3>1, <3>2
  <2>2. Member(d, e.at) = {[at |-> From(e.at, e.at), is |-> e.is]}
    BY <2>1 DEF Member
  <2>3. e.at \in D
    OBVIOUS
  <2>4. f[e.at] = {[at |-> <<>>, is |-> x.is] : x \in Member(d, e.at)}
    BY <1>2, <2>3
  <2> QED
    BY <2>2, <2>3, <2>4
<1>4. IsFiniteSet(D)
  <2> DEFINE g == [e \in d |-> e.at]
  <2>1. g \in Surjection(d, D)
    BY DEF Surjection
  <2> QED
    BY <2>1, FS_Surjection DEF IsValue
<1> HIDE DEF f
<1>5. ASSUME NEW e \in d
      PROVE  IsValue(f[e.at]) /\ \A x : x \in Leaf(e.at, f[e.at]) <=> x = e /\ x.is # Empty
  <2>1. <<>> \in Paths
    BY DEF Paths
  <2>2. PICK z \in Paths : z = <<>>
    BY <2>1
  <2>3. f[e.at] = {[at |-> z, is |-> e.is]}
    BY <1>3, <2>2
  <2>4. IsValue(f[e.at])
    BY <2>3, OneEntry
  <2>5. Shift(e.at, f[e.at]) = {[at |-> e.at \o z, is |-> e.is]}
    BY <2>3 DEF Shift
  <2>6. e.at \o z = e.at
    BY <1>1, <2>2, PathBelow
  <2>7. Shift(e.at, f[e.at]) = {e}
    BY <1>1, <2>5, <2>6
  <2> QED
    BY <2>4, <2>7 DEF Leaf, Shown
<1>6. IsTree(f)
  <2>1. D \subseteq Paths
    BY <1>1
  <2>2. \A q \in D : IsValue(f[q])
    BY <1>5
  <2>3. \A p, q \in D : IsPrefix(p, q) => p = q
    BY DEF IsValue
  <2> QED
    BY <1>2, <1>4, <2>1, <2>2, <2>3 DEF IsTree
<1>7. \A x : x \in All(f) <=> x \in Shown(d)
  <2>1. \A x : x \in All(f) <=> \E q \in D : x \in Leaf(q, f[q])
    BY <1>2, AllLeaves
  <2>2. \A x : (\E q \in D : x \in Leaf(q, f[q])) <=> \E e \in d : x \in Leaf(e.at, f[e.at])
    OBVIOUS
  <2>3. \A x : (\E e \in d : x \in Leaf(e.at, f[e.at])) <=> \E e \in d : x = e /\ x.is # Empty
    BY <1>5
  <2> QED
    BY <2>1, <2>2, <2>3 DEF Shown
<1> QED
  BY <1>6, <1>7 DEF f

-----------------------------------------------------------------------------
(* The replay of the log.                                                  *)

\* A store after each operation.
LEMMA ReplaySteps ==
    ASSUME NEW base, NEW ops, Len(ops) \in Nat
    PROVE  \E F : /\ Replay(base, ops) = F[Len(ops)]
                  /\ \A i \in 0..Len(ops) :
                         F[i] = IF i = 0 THEN base ELSE Apply(F[i - 1], ops[i])
<1> DEFINE Body(f, i) == IF i = 0 THEN base ELSE Apply(f[i - 1], ops[i])
           Solves(f, m) == f = [i \in 0..m |-> Body(f, i)]
           n == Len(ops)
           F == CHOOSE f : Solves(f, n)
           T == {m \in 0..n : \E f : Solves(f, m)}
<1>1. Replay(base, ops) = F[n]
  BY DEF Replay
<1> HIDE DEF T, n
<1> n \in Nat
  BY DEF n
<1>2. 0 \in T
  <2> DEFINE g == [i \in 0..0 |-> base]
  <2>1. Solves(g, 0)
    OBVIOUS
  <2> HIDE DEF g, Solves
  <2> QED
    BY <2>1 DEF T
<1>3. ASSUME NEW m \in 0..n, m # n, m \in T
      PROVE  m + 1 \in T
  <2>1. PICK f : Solves(f, m)
    BY <1>3 DEF T
  <2> DEFINE g == [i \in 0..(m + 1) |-> IF i = m + 1 THEN Body(f, m + 1) ELSE f[i]]
  <2>2. m \in Nat /\ m + 1 \in 0..n
    BY <1>3, NextPlace
  <2>3. \A i \in 0..m : f[i] = Body(f, i)
    BY <2>1
  <2>4. ASSUME NEW i \in 0..(m + 1)
        PROVE  g[i] = Body(g, i)
    <3>1. CASE i = m + 1
      <4>1. g[i] = Body(f, m + 1)
        BY <3>1, <2>2
      <4>2. i # 0 /\ i - 1 = m /\ g[m] = f[m]
        BY <3>1, <2>2
      <4> QED
        BY <3>1, <4>1, <4>2
    <3>2. CASE i # m + 1
      <4>1. i \in 0..m /\ g[i] = f[i]
        BY <2>2, <3>2
      <4>2. i # 0 => g[i - 1] = f[i - 1]
        BY <2>2, <3>2
      <4> QED
        BY <2>3, <4>1, <4>2
    <3> QED
      BY <3>1, <3>2
  <2>5. Solves(g, m + 1)
    <3>1. DOMAIN g = 0..(m + 1) /\ g = [i \in 0..(m + 1) |-> g[i]]
      OBVIOUS
    <3> HIDE DEF g, Body
    <3> QED
      BY <2>4, <3>1
  <2> HIDE DEF Solves
  <2> QED
    BY <2>2, <2>5 DEF T
<1>4. \E f : Solves(f, n)
  <2> HIDE DEF Solves
  <2>1. \A m \in 0..n : m # n /\ m \in T => m + 1 \in T
    BY <1>3
  <2>2. 0..n \subseteq T
    BY <1>2, <2>1, CountUp
  <2>3. n \in T
    BY <2>2
  <2> QED
    BY <2>3 DEF T
<1>5. Solves(F, n)
  <2> HIDE DEF Solves
  <2> QED
    BY <1>4
<1>6. \A i \in 0..n : F[i] = Body(F, i)
  <2> HIDE DEF F
  <2> QED
    BY <1>5
<1> HIDE DEF F
<1> QED
  BY <1>1, <1>6 DEF n

LEMMA ReplayNothing ==
    ASSUME NEW base
    PROVE  Replay(base, <<>>) = base
<1>1. Len(<<>>) = 0
  OBVIOUS
<1>2. PICK F : Replay(base, <<>>) = F[0] /\ \A i \in 0..0 : F[i] = IF i = 0 THEN base ELSE Apply(F[i - 1], <<>>[i])
  BY <1>1, ReplaySteps
<1> QED
  BY <1>2

\* One more operation in the log.
LEMMA ReplayAppend ==
    ASSUME NEW base, NEW S, NEW ops \in Seq(S), NEW o \in S
    PROVE  Replay(base, Append(ops, o)) = Apply(Replay(base, ops), o)
<1> DEFINE n == Len(ops)
           new == Append(ops, o)
<1>1. n \in Nat /\ Len(new) = n + 1 /\ new[n + 1] = o /\ \A i \in 1..n : new[i] = ops[i]
  OBVIOUS
<1> HIDE DEF n, new
<1>2. PICK F : /\ Replay(base, ops) = F[n]
               /\ \A i \in 0..n : F[i] = IF i = 0 THEN base ELSE Apply(F[i - 1], ops[i])
  BY <1>1, ReplaySteps DEF n
<1>3. PICK G : /\ Replay(base, new) = G[n + 1]
               /\ \A i \in 0..(n + 1) : G[i] = IF i = 0 THEN base ELSE Apply(G[i - 1], new[i])
  <2>1. Len(new) \in Nat
    BY <1>1
  <2> QED
    BY <1>1, <2>1, ReplaySteps
<1> DEFINE T == {i \in 0..n : G[i] = F[i]}
<1>4. 0 \in T
  BY <1>1, <1>2, <1>3
<1>5. ASSUME NEW i \in 0..n, i # n, i \in T
      PROVE  i + 1 \in T
  <2>1. i + 1 \in 0..n /\ i + 1 \in 0..(n + 1) /\ i + 1 \in 1..n /\ i + 1 # 0 /\ (i + 1) - 1 = i
    BY <1>1, <1>5
  <2>2. G[i + 1] = Apply(G[i], new[i + 1]) /\ F[i + 1] = Apply(F[i], ops[i + 1])
    BY <1>2, <1>3, <2>1
  <2> QED
    BY <1>1, <1>5, <2>1, <2>2
<1> HIDE DEF T
<1>6. n \in T
  <2>1. \A i \in 0..n : i # n /\ i \in T => i + 1 \in T
    BY <1>5
  <2>2. 0..n \subseteq T
    BY <1>1, <1>4, <2>1, CountUp
  <2> QED
    BY <1>1, <2>2
<1>7. G[n] = F[n]
  BY <1>6 DEF T
<1>8. G[n + 1] = Apply(G[n], o)
  <2>1. n + 1 \in 0..(n + 1) /\ n + 1 # 0 /\ (n + 1) - 1 = n
    BY <1>1
  <2> QED
    BY <1>1, <1>3, <2>1
<1> QED
  BY <1>2, <1>3, <1>7, <1>8 DEF new

LEMMA NoSegments ==
    ASSUME segs = <<>>
    PROVE  SegmentStore = EmptyStore
<1> DEFINE Solves(f) == f = [i \in 0..0 |-> IF i = 0 THEN EmptyStore
                                            ELSE LaySegment(f[i - 1], LoadFile(segs[i]))]
           F == CHOOSE f : Solves(f)
<1>1. Len(segs) = 0
  OBVIOUS
<1>2. SegmentStore = F[0]
  BY <1>1 DEF SegmentStore
<1>3. Solves([i \in 0..0 |-> EmptyStore])
  OBVIOUS
<1>4. Solves(F)
  <2> HIDE DEF Solves
  <2> QED
    BY <1>3
<1> HIDE DEF F
<1> QED
  BY <1>2, <1>4

-----------------------------------------------------------------------------
(* The engine over dotted keys, where there are no segments.               *)

\* legacy mode, or the JSON format, which has no segments in either mode.
WholeFiles == MergeEvery = 0 \/ format = "json"

AnyOps == Ops \cup {Cleared}

IsSnapshot(form, file) == IF form = "v2" THEN IsTree(file) ELSE IsValue(file)

\* What a snapshot and a log stand for.
Loaded(form, file) == IF form = "v2" THEN LoadFile(file) ELSE Flattened(file)
Stored(form, file, ops) == Replay(Loaded(form, file), ops)

\* The leaves in memory and those that recovery would build are trees of the
\* same document.
PathInv ==
    /\ WholeFiles
    /\ format \in {"v2", "json"}
    /\ segs = <<>>
    /\ IsTree(leaves)
    /\ IsSnapshot(format, snap)
    /\ log \in Seq(AnyOps)
    /\ IsTree(Stored(format, snap, log))
    /\ All(Stored(format, snap, log)) = All(leaves)

\* What an operation does to the document.
Effect(d, o) ==
    IF o.op = "set" THEN DocSet(d, o.key, o.value)
    ELSE IF o.op = "del" THEN DocDelete(d, o.key)
    ELSE {}

LEMMA EmptyTree == IsTree(EmptyStore) /\ All(EmptyStore) = {} /\ Shown({}) = {} /\ IsValue({})
<1>1. DOMAIN EmptyStore = {} /\ EmptyStore = [q \in DOMAIN EmptyStore |-> EmptyStore[q]]
  BY DEF EmptyStore
<1>2. IsFiniteSet({})
  BY FS_EmptySet
<1>3. IsTree(EmptyStore)
  BY <1>1, <1>2 DEF IsTree
<1>4. \A e : e \notin All(EmptyStore)
  BY <1>1, AllLeaves
<1>5. IsValue({})
  BY <1>2 DEF IsValue
<1> QED
  BY <1>3, <1>4, <1>5 DEF Shown

LEMMA OpTypes ==
    /\ \A k \in Keys : k \in Paths
    /\ \A v \in Values : IsValue(v)
    /\ \A k \in Keys, v \in Values : [op |-> "set", key |-> k, value |-> v] \in Ops
    /\ \A k \in Keys : [op |-> "del", key |-> k, value |-> {}] \in Ops
    /\ \A o \in Ops : \/ o.op = "set" /\ o.key \in Keys /\ o.value \in Values
                      \/ o.op = "del" /\ o.key \in Keys
    /\ \A b \in BatchOps : b[1] \in Ops /\ b[2] \in Ops
    /\ Cleared.op = "clear"
<1>1. /\ \A k \in Keys : k \in Paths
      /\ \A v \in Values : IsValue(v)
      /\ BatchOps \subseteq Ops \X Ops
  BY PathAssumption DEF Paths
<1>2. \A b \in BatchOps : b[1] \in Ops /\ b[2] \in Ops
  BY <1>1
<1> QED
  BY <1>1, <1>2 DEF Ops, Cleared

\* An operation on the leaves does to the document what it says.
LEMMA ApplyEffect ==
    ASSUME NEW s, IsTree(s), NEW o \in AnyOps
    PROVE  IsTree(Apply(s, o)) /\ All(Apply(s, o)) = Effect(All(s), o)
<1>1. CASE o \in Ops /\ o.op = "set"
  <2>1. o.key \in Paths /\ IsValue(o.value)
    BY <1>1, OpTypes
  <2> QED
    BY <1>1, <2>1, StoreSets DEF Apply, Effect
<1>2. CASE o \in Ops /\ o.op = "del"
  <2>1. o.key \in Paths
    BY <1>2, OpTypes
  <2> QED
    BY <1>2, <2>1, StoreDeletes DEF Apply, Effect
<1>3. CASE o = Cleared
  BY <1>3, EmptyTree, OpTypes DEF Apply, Effect
<1> QED
  BY <1>1, <1>2, <1>3, OpTypes DEF AnyOps

LEMMA StoredAppend ==
    ASSUME NEW form, NEW file, NEW ops \in Seq(AnyOps), NEW o \in AnyOps,
           IsTree(Stored(form, file, ops))
    PROVE  /\ Append(ops, o) \in Seq(AnyOps)
           /\ IsTree(Stored(form, file, Append(ops, o)))
           /\ All(Stored(form, file, Append(ops, o))) = Effect(All(Stored(form, file, ops)), o)
<1>1. Stored(form, file, Append(ops, o)) = Apply(Stored(form, file, ops), o)
  BY ReplayAppend DEF Stored
<1>2. Append(ops, o) \in Seq(AnyOps)
  OBVIOUS
<1> QED
  BY <1>1, <1>2, ApplyEffect

\* A snapshot alone stands for the document it was written of.
LEMMA StoredSnapshot ==
    ASSUME NEW form \in {"v2", "json"}, NEW s, IsTree(s)
    PROVE  LET file == IF form = "v2" THEN s ELSE Joined(s)
           IN  /\ IsSnapshot(form, file)
               /\ IsTree(Stored(form, file, <<>>))
               /\ All(Stored(form, file, <<>>)) = All(s)
<1>1. CASE form = "v2"
  <2>1. Stored(form, s, <<>>) = LoadFile(s)
    BY <1>1, ReplayNothing DEF Stored, Loaded
  <2> QED
    BY <1>1, <2>1, LoadedLeaves DEF IsSnapshot
<1>2. CASE form = "json"
  <2>1. Stored(form, Joined(s), <<>>) = Flattened(Joined(s))
    BY <1>2, ReplayNothing DEF Stored, Loaded
  <2>2. IsValue(Joined(s)) /\ Shown(Joined(s)) = All(s)
    BY JoinedLeaves
  <2> QED
    BY <1>2, <2>1, <2>2, FlattenedLeaves DEF IsSnapshot
<1> QED
  BY <1>1, <1>2

\* Recovery reads the snapshot and replays the log.
LEMMA RecoveredStored == PathInv => Recovered = Stored(format, snap, log)
<1> SUFFICES ASSUME PathInv
             PROVE  Recovered = Stored(format, snap, log)
  OBVIOUS
<1> DEFINE base == LoadSnapshot
<1>1. SegmentStore = EmptyStore /\ DOMAIN EmptyStore = {}
  BY NoSegments DEF PathInv, EmptyStore
<1>2. base = Loaded(format, snap)
  BY DEF LoadSnapshot, Loaded
<1>3. IsTree(base)
  <2>1. format = "v2" => base = snap /\ IsTree(snap)
    BY LoadedLeaves DEF PathInv, IsSnapshot, LoadSnapshot
  <2>2. format = "json" => base = Flattened(snap) /\ IsValue(snap)
    BY DEF PathInv, IsSnapshot, LoadSnapshot
  <2> QED
    BY <2>1, <2>2, FlattenedLeaves DEF PathInv
<1>4. Recovered = Replay([q \in DOMAIN SegmentStore \cup DOMAIN base |->
                             IF q \in DOMAIN base THEN base[q] ELSE SegmentStore[q]], log)
  BY DEF Recovered
<1> HIDE DEF base
<1>5. [q \in DOMAIN SegmentStore \cup DOMAIN base |->
          IF q \in DOMAIN base THEN base[q] ELSE SegmentStore[q]] = [q \in DOMAIN base |-> base[q]]
  BY <1>1
<1>6. base = [q \in DOMAIN base |-> base[q]]
  BY <1>3 DEF IsTree
<1> QED
  BY <1>2, <1>4, <1>5, <1>6 DEF Stored

\* What PathInv says of the leaves and of recovery.
LEMMA PathInvGives == PathInv => NoNesting /\ GetAnswers /\ RecoversDocument /\ IsTree(Recovered)
<1> SUFFICES ASSUME PathInv
             PROVE  NoNesting /\ GetAnswers /\ RecoversDocument /\ IsTree(Recovered)
  OBVIOUS
<1>1. NoNesting
  BY DEF PathInv, IsTree, NoNesting
<1>2. GetAnswers
  BY StoreAnswers, OpTypes DEF PathInv, GetAnswers
<1>3. RecoversDocument /\ IsTree(Recovered)
  BY RecoveredStored DEF PathInv, RecoversDocument
<1> QED
  BY <1>1, <1>2, <1>3

LEMMA PathInit == Init /\ WholeFiles => PathInv /\ Document!Init
<1> SUFFICES ASSUME Init, WholeFiles
             PROVE  PathInv /\ Document!Init
  OBVIOUS
<1>1. /\ format \in {"v2", "json"} /\ leaves = EmptyStore /\ segs = <<>> /\ log = <<>>
      /\ snap = IF format = "v2" THEN EmptyStore ELSE {}
  BY DEF Init
<1>2. IsTree(EmptyStore) /\ All(EmptyStore) = {} /\ Shown({}) = {} /\ IsValue({})
  BY EmptyTree
<1>3. IsSnapshot(format, snap)
  BY <1>1, <1>2 DEF IsSnapshot
<1>4. Stored(format, snap, <<>>) = Loaded(format, snap)
  BY ReplayNothing DEF Stored
<1>5. IsTree(Loaded(format, snap)) /\ All(Loaded(format, snap)) = {}
  <2>1. CASE format = "v2"
    BY <1>1, <1>2, <2>1, LoadedLeaves DEF Loaded
  <2>2. CASE format = "json"
    BY <1>1, <1>2, <2>2, FlattenedLeaves DEF Loaded
  <2> QED
    BY <1>1, <2>1, <2>2
<1>6. log \in Seq(AnyOps)
  BY <1>1
<1> QED
  BY <1>1, <1>2, <1>3, <1>4, <1>5, <1>6 DEF PathInv, Document!Init

\* An operation that is applied to the leaves and appended to the log.
LEMMA Logged ==
    ASSUME PathInv, NEW o \in AnyOps,
           leaves' = Apply(leaves, o), log' = Append(log, o), UNCHANGED files
    PROVE  PathInv' /\ All(leaves') = Effect(All(leaves), o)
<1>1. IsTree(leaves') /\ All(leaves') = Effect(All(leaves), o)
  BY ApplyEffect DEF PathInv
<1>2. /\ log' \in Seq(AnyOps)
      /\ IsTree(Stored(format, snap, log'))
      /\ All(Stored(format, snap, log')) = Effect(All(leaves), o)
  BY StoredAppend DEF PathInv
<1>3. format' = format /\ snap' = snap /\ segs' = segs
  BY DEF files
<1> QED
  BY <1>1, <1>2, <1>3 DEF PathInv, WholeFiles

LEMMA SetStep ==
    ASSUME PathInv, NEW k \in Keys, NEW v \in Values, Set(k, v)
    PROVE  PathInv' /\ All(leaves') = DocSet(All(leaves), k, v)
<1> DEFINE o == [op |-> "set", key |-> k, value |-> v]
<1>1. o \in AnyOps /\ o.op = "set" /\ o.key = k /\ o.value = v
  BY OpTypes DEF AnyOps
<1>2. leaves' = StoreSet(leaves, k, v) /\ log' = Append(log, o) /\ UNCHANGED files
  BY DEF Set, LogOp
<1> HIDE DEF o
<1>3. leaves' = Apply(leaves, o)
  BY <1>1, <1>2 DEF Apply
<1>4. Effect(All(leaves), o) = DocSet(All(leaves), k, v)
  BY <1>1 DEF Effect
<1> QED
  BY <1>1, <1>2, <1>3, <1>4, Logged

LEMMA DeleteStep ==
    ASSUME PathInv, NEW k \in Keys, Delete(k)
    PROVE  PathInv' /\ All(leaves') = DocDelete(All(leaves), k)
<1> DEFINE o == [op |-> "del", key |-> k, value |-> {}]
<1>1. o \in AnyOps /\ o.op = "del" /\ o.key = k
  BY OpTypes DEF AnyOps
<1>2. leaves' = StoreDelete(leaves, k) /\ log' = Append(log, o) /\ UNCHANGED files
  BY DEF Delete, LogOp
<1> HIDE DEF o
<1>3. leaves' = Apply(leaves, o)
  BY <1>1, <1>2 DEF Apply
<1>4. Effect(All(leaves), o) = DocDelete(All(leaves), k)
  BY <1>1 DEF Effect
<1> QED
  BY <1>1, <1>2, <1>3, <1>4, Logged

LEMMA ClearStep ==
    ASSUME PathInv, Clear
    PROVE  PathInv' /\ All(leaves') = {}
<1>1. Cleared \in AnyOps /\ Cleared.op = "clear"
  BY OpTypes DEF AnyOps
<1>2. leaves' = EmptyStore /\ log' = Append(log, Cleared) /\ UNCHANGED files
  BY DEF Clear, LogOp
<1>3. leaves' = Apply(leaves, Cleared)
  BY <1>1, <1>2 DEF Apply
<1>4. Effect(All(leaves), Cleared) = {}
  BY <1>1 DEF Effect
<1> QED
  BY <1>1, <1>2, <1>3, <1>4, Logged

LEMMA BatchStep ==
    ASSUME PathInv, NEW b \in BatchOps, Batch(b[1], b[2])
    PROVE  PathInv' /\ All(leaves') = Effect(Effect(All(leaves), b[1]), b[2])
<1>1. b[1] \in AnyOps /\ b[2] \in AnyOps
  BY OpTypes DEF AnyOps
<1>2. PICK o1 \in AnyOps, o2 \in AnyOps : o1 = b[1] /\ o2 = b[2]
  BY <1>1
<1>3. /\ leaves' = Apply(Apply(leaves, o1), o2) /\ log' = log \o <<o1, o2>>
      /\ format' = format /\ snap' = snap /\ segs' = segs
  BY <1>2 DEF Batch, files
<1>4. IsTree(Apply(leaves, o1)) /\ All(Apply(leaves, o1)) = Effect(All(leaves), o1)
  BY ApplyEffect DEF PathInv
<1>5. IsTree(leaves') /\ All(leaves') = Effect(Effect(All(leaves), o1), o2)
  BY <1>3, <1>4, ApplyEffect
<1>6. /\ Append(log, o1) \in Seq(AnyOps)
      /\ IsTree(Stored(format, snap, Append(log, o1)))
      /\ All(Stored(format, snap, Append(log, o1))) = Effect(All(leaves), o1)
  BY StoredAppend DEF PathInv
<1>7. log' = Append(Append(log, o1), o2)
  <2>1. log \in Seq(AnyOps)
    BY DEF PathInv
  <2>2. log \o <<o1, o2>> = Append(Append(log, o1), o2)
    BY <2>1
  <2> QED
    BY <1>3, <2>2
<1>8. /\ log' \in Seq(AnyOps)
      /\ IsTree(Stored(format, snap, log'))
      /\ All(Stored(format, snap, log')) = Effect(Effect(All(leaves), o1), o2)
  <2>1. PICK l \in Seq(AnyOps) : l = Append(log, o1)
    BY <1>6
  <2>2. IsTree(Stored(format, snap, l)) /\ All(Stored(format, snap, l)) = Effect(All(leaves), o1)
    BY <1>6, <2>1
  <2>3. /\ Append(l, o2) \in Seq(AnyOps)
        /\ IsTree(Stored(format, snap, Append(l, o2)))
        /\ All(Stored(format, snap, Append(l, o2))) = Effect(All(Stored(format, snap, l)), o2)
    BY <2>2, StoredAppend
  <2> QED
    BY <1>7, <2>1, <2>2, <2>3
<1>9. PathInv'
  BY <1>3, <1>5, <1>8 DEF PathInv, WholeFiles
<1> QED
  BY <1>2, <1>5, <1>9

\* Reads, compactions and restarts leave the document as it is.
LEMMA QuietStep ==
    ASSUME PathInv, (\E k \in Keys : Get(k)) \/ Rewrite \/ Delta \/ DeltaShared \/ Reopen
    PROVE  PathInv' /\ All(leaves') = All(leaves)
<1>1. CASE \E k \in Keys : Get(k)
  <2>1. PICK k \in Keys : Get(k)
    BY <1>1
  <2>2. leaves' = AfterGet(leaves, k) /\ UNCHANGED <<format, snap, segs, log>>
    BY <2>1 DEF Get, files
  <2>3. IsTree(leaves') /\ All(leaves') = All(leaves)
    BY <2>2, OpTypes, StoreReads DEF PathInv
  <2> QED
    BY <2>2, <2>3 DEF PathInv, WholeFiles
<1>2. CASE Rewrite
  <2>1. /\ snap' = (IF format = "v2" THEN leaves ELSE Joined(leaves))
        /\ segs' = <<>> /\ log' = <<>> /\ format' = format /\ leaves' = leaves
    BY <1>2 DEF Rewrite
  <2>2. /\ IsSnapshot(format, snap')
        /\ IsTree(Stored(format, snap', <<>>))
        /\ All(Stored(format, snap', <<>>)) = All(leaves)
    BY <2>1, StoredSnapshot DEF PathInv
  <2>3. log' \in Seq(AnyOps)
    BY <2>1
  <2> QED
    BY <2>1, <2>2, <2>3 DEF PathInv, WholeFiles
<1>3. CASE Delta
  BY <1>3 DEF Delta, FullMerge, PathInv, WholeFiles
<1>4. CASE DeltaShared
  BY <1>4 DEF DeltaShared, FullMerge, PathInv, WholeFiles
<1>5. CASE Reopen
  <2>1. leaves' = Recovered /\ UNCHANGED <<format, snap, segs, log>>
    BY <1>5 DEF Reopen, files
  <2>2. IsTree(leaves') /\ All(leaves') = All(leaves)
    BY <2>1, RecoveredStored DEF PathInv
  <2>3. All(Stored(format, snap, log)) = All(leaves')
    BY <2>2 DEF PathInv
  <2> QED
    BY <2>1, <2>2, <2>3 DEF PathInv, WholeFiles
<1> QED
  BY <1>1, <1>2, <1>3, <1>4, <1>5

-----------------------------------------------------------------------------
(* The document.                                                           *)

LEMMA SameOperators ==
    /\ \A d, k, v : Document!DocSet(d, k, v) = DocSet(d, k, v)
    /\ \A d, k : Document!DocDelete(d, k) = DocDelete(d, k)
    /\ \A d : \A o \in Ops : Document!DocApply(d, o) = Effect(d, o)
    /\ Document!DocOps = Ops
<1>1. \A d, k, v : Document!DocSet(d, k, v) = DocSet(d, k, v)
  BY DEF Document!DocSet, Document!Shown, Document!Put, Document!Shift, Document!Related,
         Document!IsPrefix, DocSet, Shown, Put, Shift, Related, IsPrefix
<1>2. \A d, k : Document!DocDelete(d, k) = DocDelete(d, k)
  BY DEF Document!DocDelete, Document!IsPrefix, DocDelete, IsPrefix
<1>3. \A d : \A o \in Ops : Document!DocApply(d, o) = Effect(d, o)
  BY <1>1, <1>2, OpTypes DEF Document!DocApply, Effect
<1>4. Document!DocOps = Ops
  BY DEF Document!DocOps, Ops
<1> QED
  BY <1>1, <1>2, <1>3, <1>4

\* A step keeps the invariant, and is the step of the document that the call
\* promises.
LEMMA PathStep ==
    PathInv /\ [Next]_vars =>
        PathInv' /\ [Document!Next]_(All(leaves)) /\ [CallsImplement]_vars
<1> SUFFICES ASSUME PathInv, [Next]_vars
             PROVE  PathInv' /\ [Document!Next]_(All(leaves)) /\ [CallsImplement]_vars
  OBVIOUS
<1>1. CASE UNCHANGED vars
  BY <1>1 DEF vars, PathInv, WholeFiles
<1>2. ASSUME NEW k \in Keys, NEW v \in Values, Set(k, v)
      PROVE  PathInv' /\ Document!SetDocument(k, v)
  BY <1>2, SetStep, SameOperators DEF Document!SetDocument
<1>3. ASSUME NEW k \in Keys, Delete(k)
      PROVE  PathInv' /\ Document!DeleteDocument(k)
  BY <1>3, DeleteStep, SameOperators DEF Document!DeleteDocument
<1>4. ASSUME Clear
      PROVE  PathInv' /\ Document!ClearDocument
  BY <1>4, ClearStep DEF Document!ClearDocument
<1>5. ASSUME NEW b \in BatchOps, Batch(b[1], b[2])
      PROVE  /\ PathInv' /\ Document!BatchDocument(b[1], b[2])
             /\ b[1] \in Document!DocOps /\ b[2] \in Document!DocOps
  <2>1. b[1] \in Ops /\ b[2] \in Ops
    BY OpTypes
  <2>2. PathInv' /\ All(leaves') = Effect(Effect(All(leaves), b[1]), b[2])
    BY <1>5, BatchStep
  <2> QED
    BY <2>1, <2>2, SameOperators DEF Document!BatchDocument
<1>6. ASSUME (\E k \in Keys : Get(k)) \/ Rewrite \/ Delta \/ DeltaShared \/ Reopen
      PROVE  PathInv' /\ UNCHANGED All(leaves)
  BY <1>6, QuietStep
<1>7. CallsImplement
  BY <1>2, <1>3, <1>4, <1>5, <1>6 DEF CallsImplement
<1>8. CASE Next
  BY <1>2, <1>3, <1>4, <1>5, <1>6, <1>7, <1>8 DEF Next, Write, Document!Next
<1> QED
  BY <1>1, <1>8

\* PathInv holds whenever the files are whole, in legacy mode or the JSON format
\* (store.rs, and the snapshots and log of engine.rs).
THEOREM PathInvariant == Spec /\ WholeFiles => []PathInv
BY PathInit, PathStep, PTL DEF Spec

\* There, however the program mixes writes, reads, compactions and restarts, no
\* leaf comes to be above another: get, delete and all may look at one leaf, one
\* ancestor or what is below, and never at two of them (store.rs).
THEOREM LeavesApart == Spec /\ WholeFiles => []NoNesting
BY PathInvariant, PathInvGives, PTL

\* There, get and an enumeration agree about every key (store.rs get, all).
THEOREM GetAgrees == Spec /\ WholeFiles => []GetAnswers
BY PathInvariant, PathInvGives, PTL

\* There, recovery builds the document that is in memory, although the log was
\* written over leaves that were cut in another way (engine.rs load_state).
THEOREM DocumentRecovered == Spec /\ WholeFiles => []RecoversDocument
BY PathInvariant, PathInvGives, PTL

\* There, every call does to the document what PathDocument promises, and reads,
\* compactions and restarts do nothing to it.
THEOREM DocumentImplemented == Spec /\ WholeFiles => ImplementsDocument
BY PathInit, PathStep, PTL DEF Spec, ImplementsDocument, Document!Spec
=============================================================================
