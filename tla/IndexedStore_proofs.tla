------------------------ MODULE IndexedStore_proofs ------------------------
(***************************************************************************)
(* Buckets and places of the secondary index agree after any sequence of   *)
(* insertions and removals, for any keys and values; and what the engine   *)
(* tells the index keeps it in step with the leaves, as long as the leaves *)
(* that are gone are those it is told of.                                  *)
(***************************************************************************)
EXTENDS IndexedStore, SequenceTheorems, FiniteSetTheorems, WellFoundedInduction, TLAPS

\* The records the operations of the index work on.
Shape(ix) ==
    /\ ix = [tree |-> ix.tree, reverse |-> ix.reverse]
    /\ ix.tree \in [Terms -> Seq(Keys)]
    /\ DOMAIN ix.reverse \subseteq Keys
    /\ ix.reverse \in [DOMAIN ix.reverse -> [term : Terms, pos : Nat]]

Good(ix) == Shape(ix) /\ Agree(ix)

\* What Vec::swap_remove leaves of a bucket.
LEMMA SwapRemoveProperties ==
    ASSUME NEW S, NEW b \in Seq(S), NEW p \in 1 .. Len(b)
    PROVE  /\ SwapRemove(b, p) \in Seq(S)
           /\ Len(SwapRemove(b, p)) = Len(b) - 1
           /\ \A i \in 1 .. Len(b) - 1 :
                 SwapRemove(b, p)[i] = IF i = p THEN b[Len(b)] ELSE b[i]
<1> DEFINE c == [b EXCEPT ![p] = b[Len(b)]]
<1>1. Len(b) \in Nat /\ Len(b) >= 1 /\ b[Len(b)] \in S
  OBVIOUS
<1>2. /\ c \in Seq(S)
      /\ Len(c) = Len(b)
      /\ \A j \in 1 .. Len(b) : c[j] = IF j = p THEN b[Len(b)] ELSE b[j]
  BY <1>1, ExceptSeq
<1> HIDE DEF c
<1>3. \A i \in 1 .. Len(b) - 1 : c[i] \in S
  BY <1>1, <1>2
<1>4. /\ SubSeq(c, 1, Len(b) - 1) \in Seq(S)
      /\ Len(SubSeq(c, 1, Len(b) - 1)) = Len(b) - 1
      /\ \A i \in 1 .. Len(b) - 1 : SubSeq(c, 1, Len(b) - 1)[i] = c[i]
  <2> DEFINE n == Len(b) - 1
  <2>1. n \in Int /\ 1 \in Int /\ \A i \in 1 .. n : c[i] \in S
    BY <1>1, <1>3
  <2>2. /\ SubSeq(c, 1, n) \in Seq(S)
        /\ Len(SubSeq(c, 1, n)) = IF 1 <= n THEN n - 1 + 1 ELSE 0
        /\ \A i \in 1 .. n - 1 + 1 : SubSeq(c, 1, n)[i] = c[1 + i - 1]
    <3> HIDE DEF n
    <3> QED BY <2>1, SubSeqProperties
  <2>3. n \in Nat /\ n = Len(b) - 1
    BY <1>1
  <2>4. (IF 1 <= n THEN n - 1 + 1 ELSE 0) = n /\ n - 1 + 1 = n /\ \A i \in 1 .. n : 1 + i - 1 = i
    <3> HIDE DEF n
    <3> QED BY <2>3
  <2>5. QED
    <3> HIDE DEF n
    <3> QED BY <2>2, <2>3, <2>4
<1>5. SwapRemove(b, p) = SubSeq(c, 1, Len(b) - 1)
  BY <1>2 DEF SwapRemove, Front, Last, c
<1>6. QED
  BY <1>1, <1>2, <1>4, <1>5

\* Where a key is, nothing is searched for.
LEMMA RemoveKeyResult ==
    ASSUME NEW ix, Good(ix), NEW k \in DOMAIN ix.reverse
    PROVE  LET place == ix.reverse[k]
               bucket == ix.tree[place.term]
               others == DOMAIN ix.reverse \ {k}
           IN  /\ place.term \in Terms
               /\ bucket \in Seq(Keys)
               /\ place.pos \in 1 .. Len(bucket)
               /\ bucket[place.pos] = k
               /\ RemoveKey(ix, k) =
                    [tree |-> [ix.tree EXCEPT ![place.term] = SwapRemove(bucket, place.pos)],
                     reverse |-> [q \in others |->
                         IF place.pos < Len(bucket) /\ q = Last(bucket)
                         THEN [ix.reverse[q] EXCEPT !.pos = place.pos]
                         ELSE ix.reverse[q]]]
<1> DEFINE place == ix.reverse[k]
           bucket == ix.tree[place.term]
           found == {i \in DOMAIN bucket : bucket[i] = k}
<1>1. place \in [term : Terms, pos : Nat]
  BY DEF Good, Shape
<1>2. bucket \in Seq(Keys)
  BY <1>1 DEF Good, Shape
<1>3. place.pos \in DOMAIN bucket /\ bucket[place.pos] = k
  BY DEF Good, Agree
<1>4. found # {} /\ place.pos \in found
  BY <1>3
<1>5. place.pos \in 1 .. Len(bucket) /\ place.term \in Terms
  BY <1>1, <1>2, <1>3
<1>6. QED
  BY <1>2, <1>3, <1>4, <1>5 DEF RemoveKey

LEMMA RemoveKeyGood ==
    ASSUME NEW ix, Good(ix), NEW k
    PROVE  /\ Good(RemoveKey(ix, k))
           /\ k \notin DOMAIN RemoveKey(ix, k).reverse
<1>1. CASE k \notin DOMAIN ix.reverse
  BY <1>1 DEF RemoveKey
<1>2. CASE k \in DOMAIN ix.reverse
  <2> DEFINE t == ix.reverse[k].term
             p == ix.reverse[k].pos
             b == ix.tree[t]
             n == Len(b)
             last == b[n]
             c == SwapRemove(b, p)
             tree == [ix.tree EXCEPT ![t] = c]
             reverse == [q \in DOMAIN ix.reverse \ {k} |->
                            IF p < n /\ q = last
                            THEN [ix.reverse[q] EXCEPT !.pos = p] ELSE ix.reverse[q]]
  <2>1. /\ t \in Terms /\ b \in Seq(Keys) /\ p \in 1 .. n /\ b[p] = k
        /\ RemoveKey(ix, k) = [tree |-> tree, reverse |-> reverse]
    BY <1>2, RemoveKeyResult DEF Last
  <2>2. n \in Nat /\ DOMAIN b = 1 .. n
    BY <2>1
  <2>3. c \in Seq(Keys) /\ Len(c) = n - 1 /\ DOMAIN c = 1 .. n - 1
        /\ \A i \in 1 .. n - 1 : c[i] = IF i = p THEN last ELSE b[i]
    <3>1. /\ c \in Seq(Keys) /\ Len(c) = n - 1
          /\ \A i \in 1 .. n - 1 : c[i] = IF i = p THEN last ELSE b[i]
      <4> HIDE DEF b, p
      <4> QED BY <2>1, SwapRemoveProperties
    <3>2. QED
      <4> HIDE DEF c, b, p
      <4> QED BY <3>1
  <2>4. /\ ix.tree \in [Terms -> Seq(Keys)]
        /\ DOMAIN ix.reverse \subseteq Keys
        /\ \A q \in DOMAIN ix.reverse : ix.reverse[q] \in [term : Terms, pos : Nat]
    BY DEF Good, Shape
  <2>5. \A q \in DOMAIN ix.reverse :
            /\ ix.reverse[q].pos \in DOMAIN ix.tree[ix.reverse[q].term]
            /\ ix.tree[ix.reverse[q].term][ix.reverse[q].pos] = q
    BY DEF Good, Agree
  <2>6. \A u \in Terms : \A i \in DOMAIN ix.tree[u] :
            /\ ix.tree[u][i] \in DOMAIN ix.reverse
            /\ ix.reverse[ix.tree[u][i]] = [term |-> u, pos |-> i]
    BY DEF Good, Agree
  <2>7. ix.reverse[k] = [term |-> t, pos |-> p]
    BY <2>1, <2>2, <2>6
  <2>8. last \in DOMAIN ix.reverse /\ ix.reverse[last] = [term |-> t, pos |-> n]
    <3>1. n \in DOMAIN ix.tree[t] /\ ix.tree[t][n] = last
      BY <2>1, <2>2
    <3> HIDE DEF t, n, last
    <3> QED
      BY <2>1, <2>6, <3>1
  <2>9. /\ tree \in [Terms -> Seq(Keys)] /\ tree[t] = c
        /\ \A u \in Terms \ {t} : tree[u] = ix.tree[u]
    BY <2>1, <2>3, <2>4
  <2>10. \A q \in DOMAIN ix.reverse \ {k} :
            reverse[q] = IF p < n /\ q = last THEN [term |-> t, pos |-> p] ELSE ix.reverse[q]
    <3>1. [ix.reverse[last] EXCEPT !.pos = p] = [term |-> t, pos |-> p]
      <4> HIDE DEF last, t, p, n
      <4> QED BY <2>8
    <3>2. QED
      <4> HIDE DEF last, t, p, n
      <4> QED BY <3>1
  <2>11. DOMAIN reverse = DOMAIN ix.reverse \ {k}
    OBVIOUS
  <2> HIDE DEF t, p, b, n, last, c, tree, reverse
  <2>12. \A q \in DOMAIN reverse : reverse[q] \in [term : Terms, pos : Nat]
    BY <2>1, <2>2, <2>4, <2>10, <2>11
  <2>13. ASSUME NEW q \in DOMAIN reverse
         PROVE  /\ reverse[q].pos \in DOMAIN tree[reverse[q].term]
                /\ tree[reverse[q].term][reverse[q].pos] = q
    <3>1. CASE p < n /\ q = last
      <4>1. reverse[q] = [term |-> t, pos |-> p]
        BY <2>10, <2>11, <3>1
      <4>2. p \in 1 .. n - 1
        BY <2>1, <2>2, <3>1
      <4>3. QED
        BY <2>3, <2>9, <3>1, <4>1, <4>2
    <3>2. CASE ~(p < n /\ q = last)
      <4>1. reverse[q] = ix.reverse[q] /\ q # k /\ q \in DOMAIN ix.reverse
        BY <2>10, <2>11, <3>2
      <4>2. CASE ix.reverse[q].term = t
        <5> DEFINE i == ix.reverse[q].pos
        <5>1. i \in 1 .. n /\ b[i] = q
          BY <2>2, <2>5, <4>1, <4>2 DEF b
        <5>2. i # p
          BY <2>1, <4>1, <5>1
        <5>3. i # n
          BY <2>1, <2>2, <3>2, <5>1, <5>2 DEF last
        <5>4. i \in 1 .. n - 1 /\ c[i] = q
          BY <2>2, <2>3, <5>1, <5>2, <5>3
        <5>5. QED
          BY <2>3, <2>9, <4>1, <4>2, <5>4
      <4>3. CASE ix.reverse[q].term # t
        BY <2>4, <2>5, <2>9, <4>1, <4>3
      <4>4. QED
        BY <4>2, <4>3
    <3>3. QED
      BY <3>1, <3>2
  <2>14. ASSUME NEW u \in Terms, NEW i \in DOMAIN tree[u]
         PROVE  /\ tree[u][i] \in DOMAIN reverse
                /\ reverse[tree[u][i]] = [term |-> u, pos |-> i]
    <3>1. CASE u # t
      <4> DEFINE q == ix.tree[u][i]
      <4>1. tree[u] = ix.tree[u] /\ q \in DOMAIN ix.reverse
            /\ ix.reverse[q] = [term |-> u, pos |-> i]
        BY <2>6, <2>9, <3>1
      <4>2. q # k /\ q # last
        BY <2>7, <2>8, <3>1, <4>1
      <4>3. QED
        BY <2>10, <2>11, <4>1, <4>2
    <3>2. CASE u = t /\ i = p
      <4>1. p \in 1 .. n - 1 /\ tree[u][i] = last
        BY <2>3, <2>9, <3>2
      <4>2. p < n
        BY <2>2, <4>1
      <4>3. last # k
        BY <2>1, <2>2, <2>7, <2>8, <4>2
      <4>4. QED
        BY <2>8, <2>10, <2>11, <3>2, <4>1, <4>2, <4>3
    <3>3. CASE u = t /\ i # p
      <4> DEFINE q == b[i]
      <4>1. i \in 1 .. n - 1 /\ tree[u][i] = q
        BY <2>3, <2>9, <3>3
      <4>2. i \in 1 .. n /\ i # n
        BY <2>2, <4>1
      <4>3. q \in DOMAIN ix.reverse /\ ix.reverse[q] = [term |-> t, pos |-> i]
        BY <2>1, <2>2, <2>6, <4>2 DEF b
      <4>4. q # k /\ q # last
        BY <2>7, <2>8, <3>3, <4>2, <4>3
      <4>5. QED
        BY <2>10, <2>11, <3>3, <4>1, <4>3, <4>4
    <3>4. QED
      BY <3>1, <3>2, <3>3
  <2>15. Shape(RemoveKey(ix, k))
    <3>1. reverse \in [DOMAIN reverse -> [term : Terms, pos : Nat]]
      BY <2>12 DEF reverse
    <3>2. QED
      BY <2>1, <2>4, <2>9, <2>11, <3>1 DEF Shape
  <2>16. Agree(RemoveKey(ix, k))
    BY <2>1, <2>13, <2>14 DEF Agree
  <2>17. QED
    BY <2>1, <2>11, <2>15, <2>16 DEF Good
<1>3. QED
  BY <1>1, <1>2

LEMMA PushKeyGood ==
    ASSUME NEW ix, Good(ix), NEW k \in Keys, k \notin DOMAIN ix.reverse, NEW t \in Terms
    PROVE  Good(PushKey(ix, k, t))
<1> DEFINE b == ix.tree[t]
           n == Len(b)
           c == Append(b, k)
           tree == [ix.tree EXCEPT ![t] = c]
           reverse == [q \in DOMAIN ix.reverse \cup {k} |->
                          IF q = k THEN [term |-> t, pos |-> Len(c)] ELSE ix.reverse[q]]
<1>1. PushKey(ix, k, t) = [tree |-> tree, reverse |-> reverse]
  BY DEF PushKey
<1>2. /\ ix.tree \in [Terms -> Seq(Keys)] /\ b \in Seq(Keys)
      /\ DOMAIN ix.reverse \subseteq Keys
      /\ \A q \in DOMAIN ix.reverse : ix.reverse[q] \in [term : Terms, pos : Nat]
  BY DEF Good, Shape
<1>3. n \in Nat /\ DOMAIN b = 1 .. n
  BY <1>2
<1>4. c \in Seq(Keys) /\ Len(c) = n + 1 /\ DOMAIN c = 1 .. n + 1
      /\ c[n + 1] = k /\ \A i \in 1 .. n : c[i] = b[i]
  BY <1>2, <1>3, AppendProperties
<1>5. /\ tree \in [Terms -> Seq(Keys)] /\ tree[t] = c
      /\ \A u \in Terms \ {t} : tree[u] = ix.tree[u]
  BY <1>2, <1>4
<1>6. /\ DOMAIN reverse = DOMAIN ix.reverse \cup {k}
      /\ reverse[k] = [term |-> t, pos |-> n + 1]
      /\ \A q \in DOMAIN ix.reverse : reverse[q] = ix.reverse[q]
  BY <1>4
<1>7. \A q \in DOMAIN ix.reverse :
          /\ ix.reverse[q].pos \in DOMAIN ix.tree[ix.reverse[q].term]
          /\ ix.tree[ix.reverse[q].term][ix.reverse[q].pos] = q
  BY DEF Good, Agree
<1>8. \A u \in Terms : \A i \in DOMAIN ix.tree[u] :
          /\ ix.tree[u][i] \in DOMAIN ix.reverse
          /\ ix.reverse[ix.tree[u][i]] = [term |-> u, pos |-> i]
  BY DEF Good, Agree
<1>9. reverse \in [DOMAIN reverse -> [term : Terms, pos : Nat]]
  BY <1>2, <1>3, <1>4
<1> HIDE DEF b, n, c, tree, reverse
<1>10. Shape(PushKey(ix, k, t))
  BY <1>1, <1>2, <1>5, <1>6, <1>9 DEF Shape
<1>11. ASSUME NEW q \in DOMAIN reverse
       PROVE  /\ reverse[q].pos \in DOMAIN tree[reverse[q].term]
              /\ tree[reverse[q].term][reverse[q].pos] = q
  <2>1. CASE q = k
    <3>1. n + 1 \in 1 .. n + 1
      BY <1>3
    <3>2. QED
      BY <1>4, <1>5, <1>6, <2>1, <3>1
  <2>2. CASE q # k
    <3>1. q \in DOMAIN ix.reverse /\ reverse[q] = ix.reverse[q]
      BY <1>6, <2>2
    <3>2. CASE ix.reverse[q].term = t
      <4>1. ix.reverse[q].pos \in 1 .. n /\ b[ix.reverse[q].pos] = q
        BY <1>3, <1>7, <3>1, <3>2 DEF b
      <4>2. ix.reverse[q].pos \in 1 .. n + 1
        BY <1>3, <4>1
      <4>3. QED
        BY <1>4, <1>5, <3>1, <3>2, <4>1, <4>2
    <3>3. CASE ix.reverse[q].term # t
      BY <1>2, <1>5, <1>7, <3>1, <3>3
    <3>4. QED
      BY <3>2, <3>3
  <2>3. QED
    BY <2>1, <2>2
<1>12. ASSUME NEW u \in Terms, NEW i \in DOMAIN tree[u]
       PROVE  /\ tree[u][i] \in DOMAIN reverse
              /\ reverse[tree[u][i]] = [term |-> u, pos |-> i]
  <2>1. CASE u # t
    BY <1>5, <1>6, <1>8, <2>1
  <2>2. CASE u = t /\ i = n + 1
    BY <1>4, <1>5, <1>6, <2>2
  <2>3. CASE u = t /\ i # n + 1
    <3>1. i \in 1 .. n /\ tree[u][i] = b[i]
      BY <1>3, <1>4, <1>5, <2>3
    <3>2. b[i] \in DOMAIN ix.reverse /\ ix.reverse[b[i]] = [term |-> t, pos |-> i]
      BY <1>3, <1>8, <3>1 DEF b
    <3>3. QED
      BY <1>6, <2>3, <3>1, <3>2
  <2>4. QED
    BY <2>1, <2>2, <2>3
<1>13. Agree(PushKey(ix, k, t))
  BY <1>1, <1>11, <1>12 DEF Agree
<1>14. QED
  BY <1>10, <1>13 DEF Good

LEMMA InsertKeyGood ==
    ASSUME NEW ix, Good(ix), NEW k \in Keys, NEW t \in Terms \cup {NoTerm}
    PROVE  Good(InsertKey(ix, k, t))
<1>1. Good(RemoveKey(ix, k)) /\ k \notin DOMAIN RemoveKey(ix, k).reverse
  BY RemoveKeyGood
<1>2. CASE t = NoTerm
  BY <1>1, <1>2 DEF InsertKey
<1>3. CASE t # NoTerm
  BY <1>1, <1>3, PushKeyGood DEF InsertKey
<1>4. QED
  BY <1>2, <1>3

LEMMA EmptyIndexGood == Good(EmptyIndex)
<1>1. Shape(EmptyIndex)
  BY DEF Shape, EmptyIndex
<1>2. Agree(EmptyIndex)
  BY DEF Agree, EmptyIndex
<1>3. QED
  BY <1>1, <1>2 DEF Good

\* Whatever the engine inserts and removes, in whatever order, a key is in one
\* bucket, once, where the index has noted it (remove_key relies on it).
THEOREM IndexMatched == IndexSpec => []Matched
<1>1. IndexInit => Good(index)
  BY EmptyIndexGood DEF IndexInit
<1>2. Good(index) /\ [IndexNext]_index => Good(index)'
  <2> SUFFICES ASSUME Good(index), [IndexNext]_index
               PROVE  Good(index')
    OBVIOUS
  <2>1. CASE \E k \in Keys, t \in Terms \cup {NoTerm} : index' = InsertKey(index, k, t)
    BY <2>1, InsertKeyGood
  <2>2. CASE \E k \in Keys : index' = RemoveKey(index, k)
    BY <2>2, RemoveKeyGood
  <2>3. CASE index' = EmptyIndex
    BY <2>3, EmptyIndexGood
  <2>4. CASE UNCHANGED index
    BY <2>4
  <2>5. QED
    BY <2>1, <2>2, <2>3, <2>4 DEF IndexNext
<1>3. Good(index) => Matched
  BY DEF Good, Matched
<1>4. QED
  BY <1>1, <1>2, <1>3, PTL DEF IndexSpec

-----------------------------------------------------------------------------
(* What the index notes of each key.                                       *)

Noted(ix, k) == IF k \in DOMAIN ix.reverse THEN ix.reverse[k].term ELSE NoTerm

LEMMA RemoveKeyNotes ==
    ASSUME NEW ix, Good(ix), NEW k
    PROVE  \A q : Noted(RemoveKey(ix, k), q) = IF q = k THEN NoTerm ELSE Noted(ix, q)
<1>1. CASE k \notin DOMAIN ix.reverse
  BY <1>1 DEF RemoveKey, Noted
<1>2. CASE k \in DOMAIN ix.reverse
  <2> DEFINE new == RemoveKey(ix, k).reverse
             others == DOMAIN ix.reverse \ {k}
  <2> DEFINE p == ix.reverse[k].pos
             t == ix.reverse[k].term
             bucket == ix.tree[t]
             tree == [ix.tree EXCEPT ![t] = SwapRemove(bucket, p)]
             reverse == [q \in others |->
                            IF p < Len(bucket) /\ q = Last(bucket)
                            THEN [ix.reverse[q] EXCEPT !.pos = p] ELSE ix.reverse[q]]
  <2>1. new = reverse
    <3>1. RemoveKey(ix, k) = [tree |-> tree, reverse |-> reverse]
      BY <1>2, RemoveKeyResult
    <3> HIDE DEF tree, reverse
    <3> QED
      BY <3>1
  <2>2. \A q \in others : ix.reverse[q] \in [term : Terms, pos : Nat]
    BY DEF Good, Shape
  <2>3. \A q \in others : [ix.reverse[q] EXCEPT !.pos = p].term = ix.reverse[q].term
    BY <2>2
  <2> HIDE DEF new
  <2>4. DOMAIN new = others /\ \A q \in others : new[q].term = ix.reverse[q].term
    BY <2>1, <2>3
  <2> QED
    BY <2>4 DEF Noted, new
<1> QED
  BY <1>1, <1>2

LEMMA InsertKeyNotes ==
    ASSUME NEW ix, Good(ix), NEW k \in Keys, NEW t \in Terms \cup {NoTerm}
    PROVE  /\ Good(InsertKey(ix, k, t))
           /\ \A q : Noted(InsertKey(ix, k, t), q) = IF q = k THEN t ELSE Noted(ix, q)
<1> DEFINE removed == RemoveKey(ix, k)
<1>1. Good(InsertKey(ix, k, t))
  BY InsertKeyGood
<1>2. \A q : Noted(removed, q) = IF q = k THEN NoTerm ELSE Noted(ix, q)
  BY RemoveKeyNotes
<1>3. CASE t = NoTerm
  BY <1>1, <1>2, <1>3 DEF InsertKey
<1>4. CASE t # NoTerm
  <2>1. InsertKey(ix, k, t) = PushKey(removed, k, t)
    BY <1>4 DEF InsertKey
  <2> HIDE DEF removed
  <2>2. PICK n : PushKey(removed, k, t).reverse =
                    [q \in DOMAIN removed.reverse \cup {k} |->
                        IF q = k THEN [term |-> t, pos |-> n] ELSE removed.reverse[q]]
    BY DEF PushKey
  <2>3. \A q : Noted(PushKey(removed, k, t), q) = IF q = k THEN t ELSE Noted(removed, q)
    BY <2>2 DEF Noted
  <2> QED
    BY <1>1, <1>2, <2>1, <2>3
<1> QED
  BY <1>3, <1>4

-----------------------------------------------------------------------------
(* Several keys, one after another.                                        *)

LEMMA CountUp ==
    ASSUME NEW n \in Nat, NEW T, 0 \in T, \A i \in 0..n : i # n /\ i \in T => i + 1 \in T
    PROVE  0..n \subseteq T
<1> DEFINE Bad == {i \in 0..n : i \notin T}
<1> SUFFICES ASSUME Bad # {}
             PROVE  FALSE
  OBVIOUS
<1>1. IsWellFoundedOn(OpToRel(<, Nat), Nat)
  BY NatLessThanWellFounded
<1>2. Bad \subseteq Nat
  OBVIOUS
<1>3. PICK b \in Bad : \A a \in Bad : ~(<<a, b>> \in OpToRel(<, Nat))
  <2> HIDE DEF Bad
  <2> QED
    BY <1>1, <1>2, WFMin, Zenon
<1>4. b \in 0..n /\ b # 0 /\ b \notin T
  OBVIOUS
<1>5. b - 1 \in 0..n /\ b - 1 # n /\ b - 1 < b /\ (b - 1) + 1 = b
  BY <1>4
<1>6. b - 1 \notin Bad
  <2> HIDE DEF Bad
  <2> QED
    BY <1>2, <1>3, <1>5 DEF OpToRel
<1>7. b - 1 \in T
  BY <1>5, <1>6
<1> QED
  BY <1>4, <1>5, <1>7

LEMMA NextPlace ==
    ASSUME NEW l \in Nat, NEW n \in 0..l, n # l
    PROVE  n \in Nat /\ n + 1 \in 0..l /\ n + 1 \in 1..l /\ n + 1 # 0 /\ (n + 1) - 1 = n
OBVIOUS

LEMMA ListedKeys ==
    ASSUME NEW D, IsFiniteSet(D)
    PROVE  /\ Len(SetToSeq(D)) \in Nat
           /\ SetToSeq(D) \in [1..Len(SetToSeq(D)) -> D]
           /\ \A i, j \in 1..Len(SetToSeq(D)) : SetToSeq(D)[i] = SetToSeq(D)[j] => i = j
           /\ \A q \in D : \E i \in 1..Len(SetToSeq(D)) : SetToSeq(D)[i] = q
<1> DEFINE n == Cardinality(D)
<1>1. n \in Nat /\ ExistsBijection(1..n, D)
  BY FS_CardinalityType
<1>2. PICK b : b \in Bijection(1..n, D)
  BY <1>1 DEF ExistsBijection
<1>3. b \in [1..n -> D] /\ IsInjective(b)
  BY <1>2 DEF Bijection, Injection, IsInjective
<1>4. PICK w : w = SetToSeq(D)
  OBVIOUS
<1>5. w \in [1..n -> D] /\ IsInjective(w)
  BY <1>3, <1>4 DEF SetToSeq
<1>6. Len(w) = n
  BY <1>1, <1>5
<1>7. w \in Surjection(1..n, D)
  <2>1. w \in Injection(1..n, D)
    BY <1>5 DEF Injection
  <2>2. IsFiniteSet(1..n) /\ Cardinality(1..n) = n
    BY <1>1, FS_Interval
  <2> QED
    BY <2>1, <2>2, FS_Injection
<1>8. \A q \in D : \E i \in 1..n : w[i] = q
  BY <1>7 DEF Surjection
<1> QED
  BY <1>1, <1>4, <1>5, <1>6, <1>8 DEF IsInjective

\* An index after each key.
LEMMA InsertSteps ==
    ASSUME NEW ix, NEW terms, NEW keys, keys = SetToSeq(DOMAIN terms), Len(keys) \in Nat
    PROVE  \E F : /\ InsertAll(ix, terms) = F[Len(keys)]
                  /\ F[0] = ix
                  /\ \A i \in 1..Len(keys) :
                         F[i] = InsertKey(F[i - 1], keys[i], terms[keys[i]])
<1> DEFINE Body(f, i) == IF i = 0 THEN ix ELSE InsertKey(f[i - 1], keys[i], terms[keys[i]])
           Solves(f, m) == f = [i \in 0..m |-> Body(f, i)]
           n == Len(keys)
           F == CHOOSE f : Solves(f, n)
           T == {m \in 0..n : \E f : Solves(f, m)}
<1>1. InsertAll(ix, terms) = F[n]
  BY DEF InsertAll
<1> HIDE DEF T, n
<1> n \in Nat
  BY DEF n
<1>2. 0 \in T
  <2> DEFINE g == [i \in 0..0 |-> ix]
  <2>1. Solves(g, 0)
    OBVIOUS
  <2> HIDE DEF g, Solves
  <2> QED
    BY <2>1 DEF T
<1>3. ASSUME NEW m \in 0..n, m # n, m \in T
      PROVE  m + 1 \in T
  <2>1. PICK f : Solves(f, m)
    BY <1>3 DEF T
  <2> DEFINE g == [i \in 0..(m + 1) |-> IF i = m + 1 THEN Body(f, m + 1) ELSE f[i]]
  <2>2. m \in Nat /\ m + 1 \in 0..n
    BY <1>3, NextPlace
  <2>3. \A i \in 0..m : f[i] = Body(f, i)
    BY <2>1
  <2>4. ASSUME NEW i \in 0..(m + 1)
        PROVE  g[i] = Body(g, i)
    <3>1. CASE i = m + 1
      <4>1. g[i] = Body(f, m + 1)
        BY <3>1, <2>2
      <4>2. i # 0 /\ i - 1 = m /\ g[m] = f[m]
        BY <3>1, <2>2
      <4> QED
        BY <3>1, <4>1, <4>2
    <3>2. CASE i # m + 1
      <4>1. i \in 0..m /\ g[i] = f[i]
        BY <2>2, <3>2
      <4>2. i # 0 => g[i - 1] = f[i - 1]
        BY <2>2, <3>2
      <4> QED
        BY <2>3, <4>1, <4>2
    <3> QED
      BY <3>1, <3>2
  <2>5. Solves(g, m + 1)
    <3>1. DOMAIN g = 0..(m + 1) /\ g = [i \in 0..(m + 1) |-> g[i]]
      OBVIOUS
    <3> HIDE DEF g, Body
    <3> QED
      BY <2>4, <3>1
  <2> HIDE DEF Solves
  <2> QED
    BY <2>2, <2>5 DEF T
<1>4. \E f : Solves(f, n)
  <2> HIDE DEF Solves
  <2>1. \A m \in 0..n : m # n /\ m \in T => m + 1 \in T
    BY <1>3
  <2>2. 0..n \subseteq T
    BY <1>2, <2>1, CountUp
  <2>3. n \in T
    BY <2>2
  <2> QED
    BY <2>3 DEF T
<1>5. Solves(F, n)
  <2> HIDE DEF Solves
  <2> QED
    BY <1>4
<1>6. \A i \in 0..n : F[i] = Body(F, i)
  <2> HIDE DEF F
  <2> QED
    BY <1>5
<1> HIDE DEF F
<1>7. F[0] = ix /\ \A i \in 1..n : F[i] = InsertKey(F[i - 1], keys[i], terms[keys[i]])
  BY <1>6
<1> QED
  BY <1>1, <1>7 DEF n

\* A call for each of finitely many keys leaves what the calls say, and nothing
\* else has changed.
LEMMA InsertAllNotes ==
    ASSUME NEW ix, Good(ix), NEW terms, IsFiniteSet(DOMAIN terms), DOMAIN terms \subseteq Keys,
           \A k \in DOMAIN terms : terms[k] \in Terms \cup {NoTerm}
    PROVE  /\ Good(InsertAll(ix, terms))
           /\ \A q : Noted(InsertAll(ix, terms), q) =
                        IF q \in DOMAIN terms THEN terms[q] ELSE Noted(ix, q)
<1>1. PICK keys : keys = SetToSeq(DOMAIN terms)
  OBVIOUS
<1> DEFINE n == Len(keys)
<1>2. /\ n \in Nat /\ keys \in [1..n -> DOMAIN terms]
      /\ \A i, j \in 1..n : keys[i] = keys[j] => i = j
      /\ \A q \in DOMAIN terms : \E i \in 1..n : keys[i] = q
  BY <1>1, ListedKeys
<1>3. PICK F : /\ InsertAll(ix, terms) = F[n]
               /\ F[0] = ix
               /\ \A i \in 1..n : F[i] = InsertKey(F[i - 1], keys[i], terms[keys[i]])
  BY <1>1, <1>2, InsertSteps
<1> DEFINE Done(m) == {keys[i] : i \in 1..m}
           Fine(m) == /\ Good(F[m])
                      /\ \A q : Noted(F[m], q) = IF q \in Done(m) THEN terms[q] ELSE Noted(ix, q)
           T == {m \in 0..n : Fine(m)}
<1> HIDE DEF n, T
<1>4. 0 \in T
  <2>1. Done(0) = {}
    OBVIOUS
  <2> HIDE DEF Done
  <2> QED
    BY <1>2, <1>3, <2>1 DEF T
<1>5. ASSUME NEW m \in 0..n, m # n, m \in T
      PROVE  m + 1 \in T
  <2> DEFINE k == keys[m + 1]
  <2>1. m \in Nat /\ m + 1 \in 0..n /\ m + 1 \in 1..n /\ (m + 1) - 1 = m
    BY <1>2, <1>5, NextPlace
  <2>2. k \in DOMAIN terms /\ F[m + 1] = InsertKey(F[m], k, terms[k])
    BY <1>2, <1>3, <2>1
  <2>3. Done(m + 1) = Done(m) \cup {k}
    <3>1. 1..(m + 1) = 1..m \cup {m + 1}
      BY <2>1
    <3> QED
      BY <3>1
  <2>4. Fine(m)
    BY <1>5 DEF T
  <2> HIDE DEF k, Done
  <2>5. k \in Keys /\ terms[k] \in Terms \cup {NoTerm}
    BY <2>2
  <2>6. Fine(m + 1)
    <3>1. /\ Good(InsertKey(F[m], k, terms[k]))
          /\ \A q : Noted(InsertKey(F[m], k, terms[k]), q) = IF q = k THEN terms[k] ELSE Noted(F[m], q)
      BY <2>4, <2>5, InsertKeyNotes
    <3> QED
      BY <2>2, <2>3, <2>4, <3>1
  <2> HIDE DEF Fine
  <2> QED
    BY <2>1, <2>6 DEF T
<1>6. n \in T
  <2>1. \A m \in 0..n : m # n /\ m \in T => m + 1 \in T
    BY <1>5
  <2>2. 0..n \subseteq T
    BY <1>2, <1>4, <2>1, CountUp
  <2> QED
    BY <1>2, <2>2
<1>7. Done(n) = DOMAIN terms
  <2>1. \A q : q \in Done(n) <=> \E i \in 1..n : q = keys[i]
    OBVIOUS
  <2>2. \A i \in 1..n : keys[i] \in DOMAIN terms
    BY <1>2
  <2>3. \A q \in DOMAIN terms : \E i \in 1..n : q = keys[i]
    BY <1>2
  <2> HIDE DEF Done
  <2>4. \A q : q \in Done(n) <=> q \in DOMAIN terms
    BY <2>1, <2>2, <2>3
  <2> QED
    BY <2>4
<1>8. Fine(n)
  <2> HIDE DEF Fine
  <2> QED
    BY <1>6 DEF T
<1> HIDE DEF Done
<1> QED
  BY <1>3, <1>7, <1>8

LEMMA TermType == \A v : Term(v) \in Terms \cup {NoTerm}
BY DEF Term

LEMMA UpdateNotes ==
    ASSUME NEW ix, Good(ix), NEW s, NEW D, IsFiniteSet(D), D \subseteq Keys
    PROVE  /\ Good(Update(ix, s, D))
           /\ \A q : Noted(Update(ix, s, D), q) = IF q \in D THEN Term(s[q]) ELSE Noted(ix, q)
<1> DEFINE terms == [k \in D |-> Term(s[k])]
<1>1. DOMAIN terms = D /\ (\A k \in D : terms[k] = Term(s[k]))
      /\ Update(ix, s, D) = InsertAll(ix, terms)
  BY DEF Update
<1> HIDE DEF terms
<1> QED
  BY <1>1, TermType, InsertAllNotes

LEMMA RemoveAllNotes ==
    ASSUME NEW ix, Good(ix), NEW D, IsFiniteSet(D), D \subseteq Keys
    PROVE  /\ Good(RemoveAll(ix, D))
           /\ \A q : Noted(RemoveAll(ix, D), q) = IF q \in D THEN NoTerm ELSE Noted(ix, q)
<1> DEFINE terms == [k \in D |-> NoTerm]
<1>1. DOMAIN terms = D /\ (\A k \in D : terms[k] = NoTerm) /\ RemoveAll(ix, D) = InsertAll(ix, terms)
  BY DEF RemoveAll
<1> HIDE DEF terms
<1> QED
  BY <1>1, InsertAllNotes

-----------------------------------------------------------------------------
(* The leaf at a key or above it.                                          *)

Paths == Seq(STRING)

LEMMA PathEqual ==
    ASSUME NEW p \in Paths, NEW q \in Paths, Len(p) = Len(q),
           \A i \in 1..Len(p) : p[i] = q[i]
    PROVE  p = q
<1>1. p = [i \in 1..Len(p) |-> p[i]] /\ q = [i \in 1..Len(q) |-> q[i]]
  BY DEF Paths
<1> QED
  BY <1>1

LEMMA PrefixAt ==
    ASSUME NEW p \in Paths, NEW q \in Paths
    PROVE  IsPrefix(p, q) <=> Len(p) <= Len(q) /\ \A i \in 1..Len(p) : p[i] = q[i]
<1>1. \A a, b \in Paths : Len(a) <= Len(b) =>
          (SubSeq(a, 1, Len(a)) = SubSeq(b, 1, Len(a)) <=> \A i \in 1..Len(a) : a[i] = b[i])
  <2> SUFFICES ASSUME NEW a \in Paths, NEW b \in Paths, Len(a) <= Len(b)
               PROVE  SubSeq(a, 1, Len(a)) = SubSeq(b, 1, Len(a)) <=>
                          \A i \in 1..Len(a) : a[i] = b[i]
    OBVIOUS
  <2>1. SubSeq(a, 1, Len(a)) = [i \in 1..Len(a) |-> a[i]]
    BY DEF Paths
  <2>2. SubSeq(b, 1, Len(a)) = [i \in 1..Len(a) |-> b[i]]
    BY DEF Paths
  <2> QED
    BY <2>1, <2>2
<1> QED
  BY <1>1 DEF IsPrefix

LEMMA PrefixOrder ==
    ASSUME NEW p \in Paths, NEW q \in Paths, NEW r \in Paths
    PROVE  /\ IsPrefix(p, p)
           /\ IsPrefix(p, q) /\ IsPrefix(q, r) => IsPrefix(p, r)
           /\ IsPrefix(p, q) /\ IsPrefix(q, p) => p = q
           /\ IsPrefix(p, r) /\ IsPrefix(q, r) => IsPrefix(p, q) \/ IsPrefix(q, p)
<1>1. Len(p) \in Nat /\ Len(q) \in Nat /\ Len(r) \in Nat
  BY DEF Paths
<1>2. IsPrefix(p, p)
  BY PrefixAt, <1>1
<1>3. ASSUME IsPrefix(p, q), IsPrefix(q, p)
      PROVE  p = q
  <2>1. Len(p) = Len(q) /\ \A i \in 1..Len(p) : p[i] = q[i]
    BY <1>1, <1>3, PrefixAt
  <2> QED
    BY <2>1, PathEqual
<1>4. IsPrefix(p, r) /\ IsPrefix(q, r) => IsPrefix(p, q) \/ IsPrefix(q, p)
  BY PrefixAt, <1>1
<1>5. IsPrefix(p, q) /\ IsPrefix(q, r) => IsPrefix(p, r)
  BY PrefixAt, <1>1
<1> QED
  BY <1>2, <1>3, <1>4, <1>5

\* No leaf above another, and all at keys the program uses.
Apart(s) ==
    /\ s = [q \in DOMAIN s |-> s[q]]
    /\ IsFiniteSet(DOMAIN s)
    /\ DOMAIN s \subseteq Keys
    /\ \A p, q \in DOMAIN s : IsPrefix(p, q) => p = q

LEMMA KeyPaths == \A k \in Keys : k \in Paths
BY IndexAssumption DEF Paths

\* There is at most one.
LEMMA TheLeaf ==
    ASSUME NEW s, Apart(s), NEW k \in Keys
    PROVE  /\ \A q \in DOMAIN s : IsPrefix(q, k) => HasLeaf(s, k) /\ q = LeafOf(s, k)
           /\ HasLeaf(s, k) => /\ LeafOf(s, k) \in DOMAIN s
                              /\ IsPrefix(LeafOf(s, k), k)
<1>1. k \in Paths /\ \A q \in DOMAIN s : q \in Paths
  BY KeyPaths DEF Apart
<1>2. \A p, q \in DOMAIN s : IsPrefix(p, k) /\ IsPrefix(q, k) => p = q
  BY <1>1, PrefixOrder DEF Apart
<1>3. CASE k \in DOMAIN s
  BY <1>1, <1>2, <1>3, PrefixOrder DEF HasLeaf, LeafOf
<1>4. CASE k \notin DOMAIN s /\ HasAncestor(s, k)
  <2>1. PICK a \in DOMAIN s : IsStrictPrefix(a, k)
    BY <1>4 DEF HasAncestor
  <2>2. \A q \in DOMAIN s : IsStrictPrefix(q, k) => q = a
    BY <1>2, <2>1 DEF IsStrictPrefix
  <2>3. Len(a) \in Nat
    BY <1>1 DEF Paths
  <2>4. AncestorLeaf(s, k) = a
    BY <2>1, <2>2, <2>3 DEF AncestorLeaf
  <2>5. HasLeaf(s, k) /\ LeafOf(s, k) = a
    BY <1>4, <2>4 DEF HasLeaf, LeafOf
  <2> QED
    BY <1>2, <2>1, <2>5 DEF IsStrictPrefix
<1>5. CASE k \notin DOMAIN s /\ ~HasAncestor(s, k)
  BY <1>5 DEF HasLeaf, HasAncestor, IsStrictPrefix
<1> QED
  BY <1>3, <1>4, <1>5

LEMMA WithoutApart ==
    ASSUME NEW s, Apart(s), NEW D
    PROVE  /\ Apart(Without(s, D))
           /\ DOMAIN Without(s, D) = DOMAIN s \ D
           /\ \A q \in DOMAIN s \ D : Without(s, D)[q] = s[q]
<1> DEFINE t == Without(s, D)
<1>1. /\ DOMAIN t = DOMAIN s \ D /\ \A q \in DOMAIN s \ D : t[q] = s[q]
      /\ t = [q \in DOMAIN t |-> t[q]]
  BY DEF Without
<1>2. IsFiniteSet(DOMAIN t)
  BY <1>1, FS_Subset DEF Apart
<1> HIDE DEF t
<1>3. Apart(t)
  BY <1>1, <1>2 DEF Apart
<1> QED
  BY <1>1, <1>3 DEF t

LEMMA WithApart ==
    ASSUME NEW s, Apart(s), NEW k \in Keys, NEW v,
           \A q \in DOMAIN s : q # k => ~IsPrefix(q, k) /\ ~IsPrefix(k, q)
    PROVE  /\ Apart(With(s, k, v))
           /\ DOMAIN With(s, k, v) = DOMAIN s \cup {k}
           /\ \A q \in DOMAIN s \ {k} : With(s, k, v)[q] = s[q]
<1> DEFINE t == With(s, k, v)
<1>1. /\ DOMAIN t = DOMAIN s \cup {k} /\ \A q \in DOMAIN s \ {k} : t[q] = s[q]
      /\ t = [q \in DOMAIN t |-> t[q]]
  BY DEF With
<1>2. IsFiniteSet(DOMAIN t)
  BY <1>1, FS_AddElement DEF Apart
<1> HIDE DEF t
<1>3. \A p, q \in DOMAIN t : IsPrefix(p, q) => p = q
  BY <1>1 DEF Apart
<1>4. Apart(t)
  BY <1>1, <1>2, <1>3 DEF Apart
<1> QED
  BY <1>1, <1>4 DEF t

LEMMA PlaceApart ==
    ASSUME NEW s, Apart(s), NEW k \in Keys, ~HasAncestor(s, k), NEW v
    PROVE  /\ Apart(Place(s, k, v))
           /\ DOMAIN Place(s, k, v) = (DOMAIN s \ Below(s, k)) \cup {k}
           /\ \A q \in DOMAIN Place(s, k, v) :
                 q # k => q \in DOMAIN s /\ Place(s, k, v)[q] = s[q]
<1>1. PICK u : u = Without(s, Below(s, k))
  OBVIOUS
<1>2. /\ Apart(u) /\ DOMAIN u = DOMAIN s \ Below(s, k)
      /\ \A q \in DOMAIN s \ Below(s, k) : u[q] = s[q]
  BY <1>1, WithoutApart
<1>3. \A q \in DOMAIN u : q # k => ~IsPrefix(q, k) /\ ~IsPrefix(k, q)
  BY <1>2 DEF Below, HasAncestor, IsStrictPrefix
<1>4. /\ Apart(With(u, k, v))
      /\ DOMAIN With(u, k, v) = DOMAIN u \cup {k}
      /\ \A q \in DOMAIN u \ {k} : With(u, k, v)[q] = u[q]
  <2>1. Apart(u)
    BY <1>2
  <2> QED
    BY <1>3, <2>1, WithApart
<1>5. Place(s, k, v) = With(u, k, v)
  BY <1>1 DEF Place
<1> QED
  BY <1>2, <1>4, <1>5

LEMMA TheAncestor ==
    ASSUME NEW s, Apart(s), NEW k \in Keys, HasAncestor(s, k)
    PROVE  LET a == AncestorLeaf(s, k) IN
           /\ a \in DOMAIN s /\ a \in Keys /\ IsPrefix(a, k)
           /\ k \notin DOMAIN s /\ Below(s, k) = {} /\ ~HasAncestor(s, a)
           /\ \A q \in DOMAIN s : IsPrefix(q, k) => q = a
<1>1. k \in Paths /\ \A q \in DOMAIN s : q \in Paths
  BY KeyPaths DEF Apart
<1>2. PICK b \in DOMAIN s : IsPrefix(b, k) /\ b # k
  BY DEF HasAncestor, IsStrictPrefix
<1>3. \A q \in DOMAIN s : IsPrefix(q, k) => q = b
  BY <1>2, TheLeaf
<1>4. k \notin DOMAIN s
  BY <1>1, <1>2, <1>3, PrefixOrder
<1>5. AncestorLeaf(s, k) = b
  <2>1. HasLeaf(s, k) /\ LeafOf(s, k) = b
    BY <1>2, TheLeaf
  <2> QED
    BY <1>4, <2>1 DEF LeafOf
<1>6. \A q \in DOMAIN s : ~IsPrefix(k, q)
  BY <1>1, <1>2, <1>4, PrefixOrder DEF Apart
<1>7. ~HasAncestor(s, b)
  BY <1>2 DEF HasAncestor, IsStrictPrefix, Apart
<1>8. b \in Keys
  BY <1>2 DEF Apart
<1> QED
  BY <1>2, <1>3, <1>4, <1>5, <1>6, <1>7, <1>8 DEF Below

\* A set changes one leaf, the one at its key or above it, but for those it
\* dissolves.
LEMMA SetApart ==
    ASSUME NEW s, Apart(s), NEW k \in Keys, NEW v, NEW t, t = StoreSet(s, k, v)
    PROVE  /\ Apart(t) /\ HasLeaf(t, k) /\ DOMAIN t \subseteq DOMAIN s \cup {k}
           /\ \A q \in DOMAIN t : q # LeafOf(t, k) => q \in DOMAIN s /\ t[q] = s[q]
<1>1. CASE ~HasAncestor(s, k)
  <2>1. t = Place(s, k, v)
    BY <1>1 DEF StoreSet
  <2>2. /\ Apart(Place(s, k, v))
        /\ DOMAIN Place(s, k, v) = (DOMAIN s \ Below(s, k)) \cup {k}
        /\ \A q \in DOMAIN Place(s, k, v) :
              q # k => q \in DOMAIN s /\ Place(s, k, v)[q] = s[q]
    BY <1>1, PlaceApart
  <2>3. HasLeaf(t, k) /\ LeafOf(t, k) = k
    BY <2>1, <2>2 DEF HasLeaf, LeafOf
  <2> QED
    BY <2>1, <2>2, <2>3
<1>2. CASE HasAncestor(s, k)
  <2>1. PICK a : a = AncestorLeaf(s, k)
    OBVIOUS
  <2>2. /\ a \in DOMAIN s /\ a \in Keys /\ IsPrefix(a, k) /\ ~HasAncestor(s, a)
        /\ \A q \in DOMAIN s : IsPrefix(q, k) => q = a
    BY <1>2, <2>1, TheAncestor
  <2>3. CASE IsObject(s[a])
    <3>1. PICK w : t = Place(s, a, w)
      BY <1>2, <2>1, <2>3 DEF StoreSet
    <3>2. /\ Apart(Place(s, a, w))
          /\ DOMAIN Place(s, a, w) = (DOMAIN s \ Below(s, a)) \cup {a}
          /\ \A q \in DOMAIN Place(s, a, w) :
                q # a => q \in DOMAIN s /\ Place(s, a, w)[q] = s[q]
      BY <2>2, PlaceApart
    <3>3. Apart(t) /\ a \in DOMAIN t
      BY <3>1, <3>2
    <3>4. HasLeaf(t, k) /\ LeafOf(t, k) = a
      BY <2>2, <3>3, TheLeaf
    <3> QED
      BY <2>2, <3>1, <3>2, <3>4
  <2>4. CASE ~IsObject(s[a])
    <3>1. PICK u : u = Without(s, {a})
      OBVIOUS
    <3>2. t = Place(u, k, v)
      BY <1>2, <2>1, <2>4, <3>1 DEF StoreSet
    <3>3. /\ Apart(u) /\ DOMAIN u = DOMAIN s \ {a}
          /\ \A q \in DOMAIN s \ {a} : u[q] = s[q]
      BY <3>1, WithoutApart
    <3>4. ~HasAncestor(u, k)
      BY <2>2, <3>3 DEF HasAncestor, IsStrictPrefix
    <3>5. /\ Apart(Place(u, k, v))
          /\ DOMAIN Place(u, k, v) = (DOMAIN u \ Below(u, k)) \cup {k}
          /\ \A q \in DOMAIN Place(u, k, v) :
                q # k => q \in DOMAIN u /\ Place(u, k, v)[q] = u[q]
      <4>1. Apart(u)
        BY <3>3
      <4> QED
        BY <3>4, <4>1, PlaceApart
    <3>6. HasLeaf(t, k) /\ LeafOf(t, k) = k
      BY <3>2, <3>5 DEF HasLeaf, LeafOf
    <3> QED
      BY <3>2, <3>3, <3>5, <3>6
  <2> QED
    BY <2>3, <2>4
<1> QED
  BY <1>1, <1>2

\* A delete removes the leaves at its key and below, or changes the one above.
DeletedAt(s, t, k) ==
    /\ DOMAIN t = DOMAIN s \ Below(s, k)
    /\ \A q \in DOMAIN t : t[q] = s[q] \/ (HasLeaf(t, k) /\ q = LeafOf(t, k))

LEMMA DeleteApart ==
    ASSUME NEW s, Apart(s), NEW k \in Keys, NEW t, t = StoreDelete(s, k)
    PROVE  Apart(t) /\ DeletedAt(s, t, k)
<1>1. CASE Below(s, k) # {}
  <2>1. t = Without(s, Below(s, k))
    BY <1>1 DEF StoreDelete
  <2> QED
    BY <2>1, WithoutApart DEF DeletedAt
<1>2. CASE Below(s, k) = {} /\ Deletes(s, k)
  <2>1. HasAncestor(s, k)
    BY <1>2 DEF Deletes
  <2>2. PICK a : a = AncestorLeaf(s, k)
    OBVIOUS
  <2>3. a \in DOMAIN s /\ a \in Keys /\ IsPrefix(a, k)
    BY <2>1, <2>2, TheAncestor
  <2>4. PICK w : t = With(s, a, w)
    BY <1>2, <2>2 DEF StoreDelete
  <2>5. \A q \in DOMAIN s : q # a => ~IsPrefix(q, a) /\ ~IsPrefix(a, q)
    BY <2>3 DEF Apart
  <2>6. /\ Apart(With(s, a, w)) /\ DOMAIN With(s, a, w) = DOMAIN s \cup {a}
        /\ \A q \in DOMAIN s \ {a} : With(s, a, w)[q] = s[q]
    BY <2>3, <2>5, WithApart
  <2>7. HasLeaf(t, k) /\ LeafOf(t, k) = a
    <3>1. Apart(t) /\ a \in DOMAIN t
      BY <2>4, <2>6
    <3> QED
      BY <2>3, <3>1, TheLeaf
  <2> QED
    BY <1>2, <2>3, <2>4, <2>6, <2>7 DEF DeletedAt
<1>3. CASE Below(s, k) = {} /\ ~Deletes(s, k)
  BY <1>3 DEF StoreDelete, DeletedAt
<1> QED
  BY <1>1, <1>2, <1>3

-----------------------------------------------------------------------------
(* The index and the leaves.                                               *)

\* What a scan would find at a key.
Scanned(s, k) == IF k \in DOMAIN s THEN Term(s[k]) ELSE NoTerm

Follows(ix, s) == \A k \in Keys : Noted(ix, k) = Scanned(s, k)

LEMMA TouchNotes ==
    ASSUME NEW ix, Good(ix), NEW s, Apart(s), NEW k \in Keys
    PROVE  /\ Good(Touch(ix, s, k))
           /\ \A q : Noted(Touch(ix, s, k), q) =
                        IF HasLeaf(s, k) /\ q = LeafOf(s, k) THEN Scanned(s, q)
                        ELSE IF ~HasLeaf(s, k) /\ q = k THEN NoTerm
                        ELSE Noted(ix, q)
<1>1. CASE HasLeaf(s, k)
  <2>1. PICK a : a = LeafOf(s, k)
    OBVIOUS
  <2>2. a \in DOMAIN s /\ a \in Keys
    BY <1>1, <2>1, TheLeaf DEF Apart
  <2>3. Touch(ix, s, k) = InsertKey(ix, a, Term(s[a]))
    BY <1>1, <2>1 DEF Touch
  <2>4. Scanned(s, a) = Term(s[a]) /\ Term(s[a]) \in Terms \cup {NoTerm}
    BY <2>2, TermType DEF Scanned
  <2>5. /\ Good(InsertKey(ix, a, Term(s[a])))
        /\ \A q : Noted(InsertKey(ix, a, Term(s[a])), q) =
                      IF q = a THEN Term(s[a]) ELSE Noted(ix, q)
    BY <2>2, <2>4, InsertKeyNotes
  <2> QED
    BY <1>1, <2>1, <2>3, <2>4, <2>5
<1>2. CASE ~HasLeaf(s, k)
  BY <1>2, RemoveKeyGood, RemoveKeyNotes DEF Touch
<1> QED
  BY <1>1, <1>2

\* What an operation does to the leaves, and what a batch takes out of the index
\* for it.
LEMMA OpEffect ==
    ASSUME NEW s, Apart(s), NEW o \in Ops, NEW t, t = Apply(s, o)
    PROVE  /\ Apart(t) /\ o.key \in Keys
           /\ IsFiniteSet(Removed(s, o)) /\ Removed(s, o) \subseteq Keys
           /\ Removed(s, o) \cap DOMAIN t = {}
           /\ DOMAIN t \subseteq DOMAIN s \cup {o.key}
           /\ (o.op = "set" => Dissolved(s, t) = {}) =>
                 /\ \A q \in DOMAIN s : q \in DOMAIN t \/ q \in Removed(s, o)
                 /\ \A q \in Keys : \/ Scanned(t, q) = Scanned(s, q)
                                    \/ q \in Removed(s, o)
                                    \/ HasLeaf(t, o.key) /\ q = LeafOf(t, o.key)
<1>1. PICK k : k = o.key
  OBVIOUS
<1>2. k \in Keys /\ o.op \in {"set", "del"} /\ k \in Paths
  BY <1>1, KeyPaths DEF Ops
<1>3. CASE o.op = "set"
  <2>1. t = StoreSet(s, k, o.value) /\ Removed(s, o) = {}
    BY <1>1, <1>3 DEF Apply, Removed
  <2>2. /\ Apart(t) /\ HasLeaf(t, k) /\ DOMAIN t \subseteq DOMAIN s \cup {k}
        /\ \A q \in DOMAIN t : q # LeafOf(t, k) => q \in DOMAIN s /\ t[q] = s[q]
    BY <1>2, <2>1, SetApart
  <2>3. ASSUME Dissolved(s, t) = {}
        PROVE  /\ DOMAIN s \subseteq DOMAIN t
               /\ \A q : Scanned(t, q) = Scanned(s, q) \/ q = LeafOf(t, k)
    BY <2>2, <2>3 DEF Dissolved, Scanned
  <2> QED
    BY <1>1, <1>2, <1>3, <2>1, <2>2, <2>3, FS_EmptySet
<1>4. CASE o.op = "del"
  <2>1. t = StoreDelete(s, k) /\ Removed(s, o) = {k} \cup Below(s, k)
    BY <1>1, <1>4 DEF Apply, Removed, Descendants
  <2>2. /\ Apart(t) /\ DOMAIN t = DOMAIN s \ Below(s, k)
        /\ \A q \in DOMAIN t : t[q] = s[q] \/ (HasLeaf(t, k) /\ q = LeafOf(t, k))
    <3>1. Apart(t) /\ DeletedAt(s, t, k)
      BY <1>2, <2>1, DeleteApart
    <3> QED
      BY <3>1 DEF DeletedAt
  <2>3. k \notin DOMAIN t
    BY <1>2, <2>2, PrefixOrder DEF Below
  <2>4. IsFiniteSet(Removed(s, o)) /\ Removed(s, o) \subseteq Keys
    <3>1. Below(s, k) \subseteq DOMAIN s
      BY DEF Below
    <3>2. IsFiniteSet(Below(s, k)) /\ Below(s, k) \subseteq Keys
      BY <3>1, FS_Subset DEF Apart
    <3> QED
      BY <1>2, <2>1, <3>2, FS_AddElement
  <2>5. \A q : \/ Scanned(t, q) = Scanned(s, q)
               \/ q \in Removed(s, o)
               \/ HasLeaf(t, k) /\ q = LeafOf(t, k)
    BY <2>1, <2>2 DEF Scanned
  <2> QED
    BY <1>1, <1>2, <2>1, <2>2, <2>3, <2>4, <2>5
<1> QED
  BY <1>2, <1>3, <1>4

\* A set or a delete tells the index all that has changed.
LEMMA SetFollows ==
    ASSUME NEW ix, Good(ix), NEW s, Apart(s), NEW k \in Keys, NEW v,
           NEW t, t = StoreSet(s, k, v)
    PROVE  /\ Apart(t) /\ Good(Touch(ix, t, k))
           /\ Follows(ix, s) /\ Dissolved(s, t) = {} => Follows(Touch(ix, t, k), t)
<1>1. /\ Apart(t) /\ HasLeaf(t, k) /\ DOMAIN t \subseteq DOMAIN s \cup {k}
      /\ \A q \in DOMAIN t : q # LeafOf(t, k) => q \in DOMAIN s /\ t[q] = s[q]
  BY SetApart
<1>2. /\ Good(Touch(ix, t, k))
      /\ \A q : Noted(Touch(ix, t, k), q) =
                   IF q = LeafOf(t, k) THEN Scanned(t, q) ELSE Noted(ix, q)
  BY <1>1, TouchNotes
<1>3. ASSUME Dissolved(s, t) = {}
      PROVE  \A q : Scanned(t, q) = Scanned(s, q) \/ q = LeafOf(t, k)
  BY <1>1, <1>3 DEF Dissolved, Scanned
<1>4. Follows(ix, s) /\ Dissolved(s, t) = {} => Follows(Touch(ix, t, k), t)
  BY <1>2, <1>3 DEF Follows
<1> QED
  BY <1>1, <1>2, <1>4

LEMMA DeleteFollows ==
    ASSUME NEW ix, Good(ix), NEW s, Apart(s), NEW k \in Keys,
           NEW t, t = StoreDelete(s, k)
    PROVE  /\ Apart(t) /\ Good(Touch(RemoveAll(ix, Descendants(s, k)), t, k))
           /\ Follows(ix, s) => Follows(Touch(RemoveAll(ix, Descendants(s, k)), t, k), t)
<1>p. PICK jx : jx = RemoveAll(ix, Descendants(s, k))
  OBVIOUS
<1>1. /\ Apart(t) /\ DOMAIN t = DOMAIN s \ Below(s, k)
      /\ \A q \in DOMAIN t : t[q] = s[q] \/ (HasLeaf(t, k) /\ q = LeafOf(t, k))
  <2>1. Apart(t) /\ DeletedAt(s, t, k)
    BY DeleteApart
  <2> QED
    BY <2>1 DEF DeletedAt
<1>2. IsFiniteSet(Descendants(s, k)) /\ Descendants(s, k) \subseteq Keys
  <2>1. Descendants(s, k) \subseteq DOMAIN s
    BY DEF Descendants, Below
  <2> QED
    BY <2>1, FS_Subset DEF Apart
<1>3. /\ Good(jx)
      /\ \A q : Noted(jx, q) = IF q \in Descendants(s, k) THEN NoTerm ELSE Noted(ix, q)
  BY <1>p, <1>2, RemoveAllNotes
<1>4. /\ Good(Touch(jx, t, k))
      /\ \A q : Noted(Touch(jx, t, k), q) =
                   IF HasLeaf(t, k) /\ q = LeafOf(t, k) THEN Scanned(t, q)
                   ELSE IF ~HasLeaf(t, k) /\ q = k THEN NoTerm
                   ELSE Noted(jx, q)
  BY <1>1, <1>3, TouchNotes
<1>5. k \notin DOMAIN t /\ (k \in DOMAIN s => ~HasLeaf(t, k))
  <2>1. k \in Paths /\ IsPrefix(k, k)
    BY KeyPaths, PrefixOrder
  <2>2. k \notin DOMAIN t
    BY <1>1, <2>1 DEF Below
  <2>3. ASSUME k \in DOMAIN s, HasLeaf(t, k)
        PROVE  FALSE
    <3>1. LeafOf(t, k) \in DOMAIN t /\ IsPrefix(LeafOf(t, k), k)
      BY <1>1, <2>3, TheLeaf
    <3> QED
      BY <1>1, <2>2, <2>3, <3>1 DEF Apart
  <2> QED
    BY <2>2, <2>3
<1>6. ASSUME Follows(ix, s), NEW q \in Keys
      PROVE  Noted(Touch(jx, t, k), q) = Scanned(t, q)
  <2>1. Noted(ix, q) = Scanned(s, q)
    BY <1>6 DEF Follows
  <2>2. CASE HasLeaf(t, k) /\ q = LeafOf(t, k)
    BY <1>4, <2>2
  <2>3. CASE ~HasLeaf(t, k) /\ q = k
    BY <1>4, <1>5, <2>3 DEF Scanned
  <2>4. CASE q \in Descendants(s, k) /\ ~(HasLeaf(t, k) /\ q = LeafOf(t, k))
    <3>1. q \notin DOMAIN t
      BY <1>1, <2>4 DEF Descendants
    <3> QED
      BY <1>3, <1>4, <2>4, <3>1 DEF Scanned
  <2>5. CASE /\ q \notin Descendants(s, k)
             /\ ~(HasLeaf(t, k) /\ q = LeafOf(t, k)) /\ ~(~HasLeaf(t, k) /\ q = k)
    <3>1. Noted(Touch(jx, t, k), q) = Scanned(s, q)
      BY <1>3, <1>4, <2>1, <2>5
    <3>2. q \in DOMAIN s => q \in DOMAIN t
      BY <1>1, <1>5, <2>5 DEF Descendants
    <3> QED
      BY <1>1, <2>5, <3>1, <3>2 DEF Scanned
  <2> QED
    BY <2>2, <2>3, <2>4, <2>5
<1> QED
  BY <1>p, <1>1, <1>4, <1>6 DEF Follows

Passed(ix, jx, s, gone, found) ==
    \A q : Noted(jx, q) = IF q \in found THEN Term(s[q])
                          ELSE IF q \in gone THEN NoTerm ELSE Noted(ix, q)

LEMMA PassesNote ==
    ASSUME NEW ix, Good(ix), NEW D, IsFiniteSet(D), D \subseteq Keys,
           NEW E, IsFiniteSet(E), E \subseteq Keys,
           NEW s, NEW F, IsFiniteSet(F), F \subseteq Keys,
           NEW lx, lx = Update(RemoveAll(RemoveAll(ix, D), E), s, F)
    PROVE  Good(lx) /\ Passed(ix, lx, s, D \cup E, F)
<1>1. PICK jx : jx = RemoveAll(ix, D)
  OBVIOUS
<1>2. PICK kx : kx = RemoveAll(jx, E)
  OBVIOUS
<1>3. /\ Good(jx)
      /\ \A q : Noted(jx, q) = IF q \in D THEN NoTerm ELSE Noted(ix, q)
  BY <1>1, RemoveAllNotes
<1>4. /\ Good(kx)
      /\ \A q : Noted(kx, q) = IF q \in E THEN NoTerm ELSE Noted(jx, q)
  BY <1>2, <1>3, RemoveAllNotes
<1>5. /\ Good(Update(kx, s, F))
      /\ \A q : Noted(Update(kx, s, F), q) = IF q \in F THEN Term(s[q]) ELSE Noted(kx, q)
  BY <1>4, UpdateNotes
<1>6. lx = Update(kx, s, F)
  BY <1>1, <1>2
<1> QED
  BY <1>3, <1>4, <1>5, <1>6 DEF Passed

LEMMA TwoKeys == \A a, b : IsFiniteSet({a, b})
<1> SUFFICES ASSUME NEW a, NEW b
             PROVE  IsFiniteSet({a, b})
  OBVIOUS
<1>1. IsFiniteSet({a}) /\ IsFiniteSet({b})
  BY FS_Singleton
<1>2. IsFiniteSet({a} \cup {b})
  BY <1>1, FS_Union
<1>3. {a, b} = {a} \cup {b}
  OBVIOUS
<1> QED
  BY <1>2, <1>3

\* A batch tells it once, at the end, of all its operations have changed: what
\* the one has removed and the other has set again is in the index.
LEMMA BatchFollows ==
    ASSUME NEW ix, Good(ix), NEW s0, Apart(s0), NEW o1 \in Ops, NEW o2 \in Ops,
           NEW s1, s1 = Apply(s0, o1), NEW s2, s2 = Apply(s1, o2),
           NEW removed, removed = Removed(s0, o1) \cup Removed(s1, o2),
           NEW missing, missing = {k \in {o1.key, o2.key} : ~HasLeaf(s2, k)},
           NEW found, found = {LeafOf(s2, k) : k \in {o1.key, o2.key} \ missing},
           NEW jx, jx = Update(RemoveAll(RemoveAll(ix, removed), missing), s2, found)
    PROVE  /\ Apart(s2) /\ Good(jx)
           /\ /\ Follows(ix, s0)
              /\ o1.op = "set" => Dissolved(s0, s1) = {}
              /\ o2.op = "set" => Dissolved(s1, s2) = {}
              => Follows(jx, s2)
<1>1. /\ Apart(s1) /\ o1.key \in Keys
      /\ IsFiniteSet(Removed(s0, o1)) /\ Removed(s0, o1) \subseteq Keys
      /\ Removed(s0, o1) \cap DOMAIN s1 = {}
      /\ (o1.op = "set" => Dissolved(s0, s1) = {}) =>
            \A q \in Keys : \/ Scanned(s1, q) = Scanned(s0, q)
                            \/ q \in Removed(s0, o1)
                            \/ HasLeaf(s1, o1.key) /\ q = LeafOf(s1, o1.key)
  BY OpEffect
<1>2. /\ Apart(s2) /\ o2.key \in Keys
      /\ IsFiniteSet(Removed(s1, o2)) /\ Removed(s1, o2) \subseteq Keys
      /\ Removed(s1, o2) \cap DOMAIN s2 = {}
      /\ DOMAIN s2 \subseteq DOMAIN s1 \cup {o2.key}
      /\ (o2.op = "set" => Dissolved(s1, s2) = {}) =>
            /\ \A q \in DOMAIN s1 : q \in DOMAIN s2 \/ q \in Removed(s1, o2)
            /\ \A q \in Keys : \/ Scanned(s2, q) = Scanned(s1, q)
                               \/ q \in Removed(s1, o2)
                               \/ HasLeaf(s2, o2.key) /\ q = LeafOf(s2, o2.key)
  BY <1>1, OpEffect
<1>3. /\ IsFiniteSet(removed) /\ removed \subseteq Keys
      /\ IsFiniteSet(missing) /\ missing \subseteq Keys
      /\ IsFiniteSet(found) /\ found \subseteq DOMAIN s2 /\ found \subseteq Keys
  <2>1. IsFiniteSet(removed) /\ removed \subseteq Keys
    BY <1>1, <1>2, FS_Union
  <2>2. missing \subseteq {o1.key, o2.key} /\ missing \subseteq Keys
    BY <1>1, <1>2
  <2>3. IsFiniteSet({o1.key, o2.key})
    BY TwoKeys
  <2>4. \A k \in {o1.key, o2.key} \ missing : LeafOf(s2, k) \in DOMAIN s2
    BY <1>1, <1>2, TheLeaf
  <2>5. found \subseteq DOMAIN s2
    BY <2>4
  <2> QED
    BY <1>2, <2>1, <2>2, <2>3, <2>5, FS_Subset DEF Apart
<1>4. /\ Good(jx)
      /\ \A q : Noted(jx, q) = IF q \in found THEN Term(s2[q])
                              ELSE IF q \in removed \cup missing THEN NoTerm ELSE Noted(ix, q)
  <2>1. Good(jx) /\ Passed(ix, jx, s2, removed \cup missing, found)
    BY <1>3, PassesNote
  <2> QED
    BY <2>1 DEF Passed
<1>5. \A k \in {o1.key, o2.key} : HasLeaf(s2, k) => LeafOf(s2, k) \in found
  OBVIOUS
<1>6. ASSUME NEW k \in {o1.key, o2.key}, NEW q \in DOMAIN s2, IsPrefix(q, k)
       PROVE  q \in found
  BY <1>1, <1>2, <1>5, <1>6, TheLeaf
<1>7. \A k \in {o1.key, o2.key} : k \in DOMAIN s2 => k \in found
  <2>1. \A k \in {o1.key, o2.key} : IsPrefix(k, k)
    BY <1>1, <1>2, KeyPaths, PrefixOrder
  <2> QED
    BY <1>6, <2>1
<1>8. ASSUME Follows(ix, s0), NEW q \in Keys,
              o1.op = "set" => Dissolved(s0, s1) = {},
              o2.op = "set" => Dissolved(s1, s2) = {}
       PROVE  Noted(jx, q) = Scanned(s2, q)
  <2>1. CASE q \in found
    BY <1>3, <1>4, <2>1 DEF Scanned
  <2>2. CASE q \notin found /\ q \in missing
    BY <1>4, <1>7, <2>2 DEF Scanned
  <2>3. CASE q \notin found /\ q \notin missing /\ q \in removed
    <3>1. Noted(jx, q) = NoTerm
      BY <1>4, <2>3
    <3>2. q \notin DOMAIN s2
      BY <1>1, <1>2, <1>7, <2>3
    <3> QED
      BY <3>1, <3>2 DEF Scanned
  <2>4. CASE q \notin found /\ q \notin missing /\ q \notin removed
    <3>1. Noted(jx, q) = Scanned(s0, q)
      BY <1>4, <1>8, <2>4 DEF Follows
    <3>2. ~(HasLeaf(s1, o1.key) /\ q = LeafOf(s1, o1.key))
      <4> SUFFICES ASSUME HasLeaf(s1, o1.key), q = LeafOf(s1, o1.key)
                   PROVE  FALSE
        OBVIOUS
      <4>1. q \in DOMAIN s1 /\ IsPrefix(q, o1.key)
        BY <1>1, TheLeaf
      <4>2. q \in DOMAIN s2
        BY <1>2, <1>8, <2>4, <4>1
      <4> QED
        BY <1>6, <2>4, <4>1, <4>2
    <3>3. Scanned(s1, q) = Scanned(s0, q)
      BY <1>1, <1>8, <2>4, <3>2
    <3>4. Scanned(s2, q) = Scanned(s1, q)
      BY <1>2, <1>5, <1>8, <2>4
    <3> QED
      BY <3>1, <3>3, <3>4
  <2> QED
    BY <2>1, <2>2, <2>3, <2>4
<1> QED
  BY <1>2, <1>4, <1>8 DEF Follows

-----------------------------------------------------------------------------
(* The engine and its index.                                               *)

\* The leaves are apart, buckets and places of the index agree, and unless
\* leaves have been dissolved the index notes what a scan would find.
IndexInv ==
    /\ Apart(leaves)
    /\ Good(index)
    /\ indexed /\ ~disturbed => Follows(index, leaves)

LEMMA EmptyFollows ==
    ASSUME NEW s, s = [q \in {} |-> {}]
    PROVE  Apart(s) /\ Good(EmptyIndex) /\ Follows(EmptyIndex, s)
<1>1. DOMAIN s = {} /\ s = [q \in DOMAIN s |-> s[q]] /\ IsFiniteSet({})
  BY FS_EmptySet
<1>2. Apart(s)
  BY <1>1 DEF Apart
<1>3. DOMAIN EmptyIndex.reverse = {}
  BY DEF EmptyIndex
<1>4. Follows(EmptyIndex, s)
  BY <1>1, <1>3 DEF Follows, Noted, Scanned
<1> QED
  BY <1>2, <1>4, EmptyIndexGood

LEMMA BuildFollows ==
    ASSUME NEW s, Apart(s)
    PROVE  Good(Build(s)) /\ Follows(Build(s), s)
<1>1. IsFiniteSet(DOMAIN s) /\ DOMAIN s \subseteq Keys /\ Good(EmptyIndex)
  BY EmptyIndexGood DEF Apart
<1>2. \A q : Noted(EmptyIndex, q) = NoTerm
  BY DEF EmptyIndex, Noted
<1>3. PICK ix : ix = Build(s)
  OBVIOUS
<1>4. ix = Update(EmptyIndex, s, DOMAIN s)
  BY <1>3 DEF Build
<1>5. /\ Good(ix)
      /\ \A q : Noted(ix, q) = IF q \in DOMAIN s THEN Term(s[q]) ELSE Noted(EmptyIndex, q)
  BY <1>1, <1>4, UpdateNotes
<1> QED
  BY <1>2, <1>3, <1>5 DEF Follows, Scanned

\* A read that joins leaves dissolves some.
LEMMA GetApart ==
    ASSUME NEW s, Apart(s), NEW k \in Keys, NEW t, t = AfterGet(s, k)
    PROVE  Apart(t) /\ (t = s \/ Dissolved(s, t) # {})
<1>1. CASE k \notin DOMAIN s /\ ~HasAncestor(s, k) /\ Below(s, k) # {}
  <2>1. PICK v : t = Place(s, k, v)
    BY <1>1 DEF AfterGet
  <2>2. /\ Apart(Place(s, k, v))
        /\ DOMAIN Place(s, k, v) = (DOMAIN s \ Below(s, k)) \cup {k}
    BY <1>1, PlaceApart
  <2>3. PICK q \in DOMAIN s : q \in Below(s, k)
    BY <1>1 DEF Below
  <2>4. q \in Dissolved(s, t)
    BY <1>1, <2>1, <2>2, <2>3 DEF Dissolved
  <2> QED
    BY <2>1, <2>2, <2>4
<1>2. CASE ~(k \notin DOMAIN s /\ ~HasAncestor(s, k) /\ Below(s, k) # {})
  BY <1>2 DEF AfterGet
<1> QED
  BY <1>1, <1>2

LEMMA BatchKeys == \A b \in BatchOps : b[1] \in Ops /\ b[2] \in Ops
BY IndexAssumption

LEMMA IndexInvStep == IndexInv /\ [Next]_vars => IndexInv'
<1> SUFFICES ASSUME IndexInv, [Next]_vars
             PROVE  IndexInv'
  OBVIOUS
<1>1. Apart(leaves) /\ Good(index) /\ (indexed /\ ~disturbed => Follows(index, leaves))
  BY DEF IndexInv
<1>2. ASSUME NEW k \in Keys, NEW v \in Values, Set(k, v)
      PROVE  IndexInv'
  <2>1. PICK t : t = StoreSet(leaves, k, v)
    OBVIOUS
  <2>2. /\ leaves' = t /\ indexed' = indexed
        /\ index' = IF indexed THEN Touch(index, t, k) ELSE index
        /\ disturbed' = (disturbed \/ Dissolved(leaves, t) # {})
    BY <1>2, <2>1 DEF Set, Maintain
  <2>3. /\ Apart(t) /\ Good(Touch(index, t, k))
        /\ Follows(index, leaves) /\ Dissolved(leaves, t) = {} => Follows(Touch(index, t, k), t)
    BY <1>1, <2>1, SetFollows
  <2> QED
    BY <1>1, <2>2, <2>3 DEF IndexInv
<1>3. ASSUME NEW k \in Keys, Delete(k)
      PROVE  IndexInv'
  <2>1. PICK t : t = StoreDelete(leaves, k)
    OBVIOUS
  <2>2. PICK ix : ix = Touch(RemoveAll(index, Descendants(leaves, k)), t, k)
    OBVIOUS
  <2>3. /\ leaves' = t /\ indexed' = indexed /\ disturbed' = disturbed
        /\ index' = IF indexed THEN ix ELSE index
    BY <1>3, <2>1, <2>2 DEF Delete, Maintain
  <2>4. Apart(t) /\ Good(ix) /\ (Follows(index, leaves) => Follows(ix, t))
    BY <1>1, <2>1, <2>2, DeleteFollows
  <2> QED
    BY <1>1, <2>3, <2>4 DEF IndexInv
<1>4. ASSUME Clear
      PROVE  IndexInv'
  <2>1. /\ leaves' = [q \in {} |-> {}] /\ indexed' = indexed
        /\ index' = IF indexed THEN EmptyIndex ELSE index
    BY <1>4 DEF Clear, Maintain
  <2>2. Apart(leaves') /\ Good(EmptyIndex) /\ Follows(EmptyIndex, leaves')
    BY <2>1, EmptyFollows
  <2> QED
    BY <1>1, <2>1, <2>2 DEF IndexInv
<1>5. ASSUME NEW o1 \in Ops, NEW o2 \in Ops, Batch(o1, o2)
      PROVE  IndexInv'
  <2>1. PICK s1 : s1 = Apply(leaves, o1)
    OBVIOUS
  <2>2. PICK s2 : s2 = Apply(s1, o2)
    OBVIOUS
  <2>3. PICK removed : removed = Removed(leaves, o1) \cup Removed(s1, o2)
    OBVIOUS
  <2>4. PICK missing : missing = {k \in {o1.key, o2.key} : ~HasLeaf(s2, k)}
    OBVIOUS
  <2>5. PICK found : found = {LeafOf(s2, k) : k \in {o1.key, o2.key} \ missing}
    OBVIOUS
  <2>6. PICK ix : ix = Update(RemoveAll(RemoveAll(index, removed), missing), s2, found)
    OBVIOUS
  <2>7. /\ leaves' = s2 /\ indexed' = indexed
        /\ index' = IF indexed THEN ix ELSE index
        /\ disturbed' = \/ disturbed
                        \/ (o1.op = "set" /\ Dissolved(leaves, s1) # {})
                        \/ (o2.op = "set" /\ Dissolved(s1, s2) # {})
    BY <1>5, <2>1, <2>2, <2>3, <2>4, <2>5, <2>6 DEF Batch, Maintain
  <2>8. /\ Apart(s2) /\ Good(ix)
        /\ /\ Follows(index, leaves)
           /\ o1.op = "set" => Dissolved(leaves, s1) = {}
           /\ o2.op = "set" => Dissolved(s1, s2) = {}
           => Follows(ix, s2)
    BY <1>1, <2>1, <2>2, <2>3, <2>4, <2>5, <2>6, BatchFollows
  <2> QED
    BY <1>1, <2>7, <2>8 DEF IndexInv
<1>6. ASSUME NEW k \in Keys, Get(k)
      PROVE  IndexInv'
  <2>1. /\ leaves' = AfterGet(leaves, k) /\ index' = index /\ indexed' = indexed
        /\ disturbed' = (disturbed \/ Dissolved(leaves, leaves') # {})
    BY <1>6 DEF Get
  <2>2. Apart(leaves') /\ (leaves' = leaves \/ Dissolved(leaves, leaves') # {})
    BY <1>1, <2>1, GetApart
  <2> QED
    BY <1>1, <2>1, <2>2 DEF IndexInv
<1>7. ASSUME CreateIndex
      PROVE  IndexInv'
  BY <1>1, <1>7, BuildFollows DEF CreateIndex, IndexInv
<1>8. ASSUME DropIndex
      PROVE  IndexInv'
  BY <1>1, <1>8, EmptyIndexGood DEF DropIndex, IndexInv
<1>9. CASE UNCHANGED vars
  BY <1>1, <1>9 DEF IndexInv, vars
<1>10. CASE \E b \in BatchOps : Batch(b[1], b[2])
  BY <1>5, <1>10, BatchKeys
<1> QED
  BY <1>2, <1>3, <1>4, <1>6, <1>7, <1>8, <1>9, <1>10 DEF Next

\* What the index notes is what a lookup answers.
LEMMA IndexInvGives == IndexInv => Matched /\ IndexExact
<1> SUFFICES ASSUME IndexInv
             PROVE  Matched /\ IndexExact
  OBVIOUS
<1>1. /\ Agree(index) /\ DOMAIN index.reverse \subseteq Keys
      /\ \A k \in DOMAIN index.reverse : index.reverse[k] \in [term : Terms, pos : Nat]
  BY DEF IndexInv, Good, Shape
<1>2. ASSUME indexed, ~disturbed, NEW t \in Terms
      PROVE  Lookup(index, t) = Scan(t)
  <2>1. \A k : k \in Lookup(index, t) <=> \E i \in DOMAIN index.tree[t] : index.tree[t][i] = k
    BY DEF Lookup
  <2>2. \A k : k \in Lookup(index, t) <=> k \in DOMAIN index.reverse /\ index.reverse[k].term = t
    <3>1. ASSUME NEW i \in DOMAIN index.tree[t], NEW k, index.tree[t][i] = k
          PROVE  k \in DOMAIN index.reverse /\ index.reverse[k].term = t
      <4>1. k \in DOMAIN index.reverse /\ index.reverse[k] = [term |-> t, pos |-> i]
        BY <1>1, <3>1 DEF Agree
      <4> QED
        BY <4>1
    <3>2. ASSUME NEW k \in DOMAIN index.reverse, index.reverse[k].term = t
          PROVE  \E i \in DOMAIN index.tree[t] : index.tree[t][i] = k
      BY <1>1, <3>2 DEF Agree
    <3> QED
      BY <2>1, <3>1, <3>2
  <2>3. \A k \in Keys : Noted(index, k) = Scanned(leaves, k)
    BY <1>2 DEF IndexInv, Follows
  <2>4. \A k \in Keys : k \in Lookup(index, t) <=> Noted(index, k) = t
    BY <2>2, TermAssumption DEF Noted
  <2>5. \A k \in Keys : k \in Scan(t) <=> Scanned(leaves, k) = t
    BY TermAssumption DEF Scan, Scanned
  <2>6. Lookup(index, t) \subseteq Keys /\ Scan(t) \subseteq Keys
    BY <1>1, <2>2 DEF Scan, IndexInv, Apart
  <2> QED
    BY <2>3, <2>4, <2>5, <2>6
<1>3. IndexExact
  BY <1>2 DEF IndexExact
<1> QED
  BY <1>1, <1>3 DEF Matched

LEMMA IndexInvInit == Init => IndexInv
BY EmptyFollows DEF Init, IndexInit, IndexInv

\* Whatever the engine writes, deletes and reads, with an index or without, no
\* leaf comes to be above another and buckets and places agree (engine.rs
\* index_touch, and the calls of it in set, delete and batch).
THEOREM IndexInvariant == Spec => []IndexInv
BY IndexInvInit, IndexInvStep, PTL DEF Spec

\* The calls the engine makes are no others than those IndexMatched is about.
THEOREM EngineKeepsMatched == Spec => []Matched
BY IndexInvariant, IndexInvGives, PTL

\* As long as no set has covered leaves below its key or a scalar above it, and
\* no read has joined leaves, a lookup answers what a scan would, for any keys
\* and values, and any batches that delete and set the same leaves.
THEOREM LookupExact == Spec => []IndexExact
BY IndexInvariant, IndexInvGives, PTL

=============================================================================
