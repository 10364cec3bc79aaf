----------------------- MODULE FallbackEngine_proofs -----------------------
(***************************************************************************)
(* The JavaScript engine, for every set of keys and values, every length   *)
(* of its queue, log and cache and every number of failures: FallbackInv   *)
(* is inductive, and with it go the safety properties of FallbackEngine.   *)
(***************************************************************************)
EXTENDS FallbackEngineInv, WalReplay_proofs

-----------------------------------------------------------------------------
(* The filter of the cache.                                                *)

\* Induction, for a set.
LEMMA CountUp ==
    ASSUME NEW n \in Nat, NEW T, 0 \in T, \A i \in 0..n : i # n /\ i \in T => i + 1 \in T
    PROVE  0..n \subseteq T
<1> DEFINE Bad == {i \in 0..n : i \notin T}
<1> SUFFICES ASSUME Bad # {}
             PROVE  FALSE
  OBVIOUS
<1>1. IsWellFoundedOn(OpToRel(<, Nat), Nat)
  BY NatLessThanWellFounded
<1>2. Bad \subseteq Nat
  OBVIOUS
<1>3. PICK b \in Bad : \A a \in Bad : ~(<<a, b>> \in OpToRel(<, Nat))
  <2> HIDE DEF Bad
  <2> QED
    BY <1>1, <1>2, WFMin, Zenon
<1>4. b \in 0..n /\ b # 0 /\ b \notin T
  OBVIOUS
<1>5. b - 1 \in 0..n /\ b - 1 # n /\ b - 1 < b /\ (b - 1) + 1 = b
  BY <1>4
<1>6. b - 1 \notin Bad
  <2> HIDE DEF Bad
  <2> QED
    BY <1>2, <1>3, <1>5 DEF OpToRel
<1>7. b - 1 \in T
  BY <1>5, <1>6
<1> QED
  BY <1>4, <1>5, <1>7

\* The next place of a sequence.
LEMMA NextPlace ==
    ASSUME NEW l \in Nat, NEW n \in 0..l, n # l
    PROVE  n \in Nat /\ n + 1 \in 0..l /\ n + 1 \in 1..l /\ n + 1 # 0 /\ (n + 1) - 1 = n
OBVIOUS

\* Picked keeps some of the entries.
LEMMA PickedProperties ==
    ASSUME NEW S, NEW c \in Seq(S), NEW K
    PROVE  /\ Picked(c, K) \in Seq(S)
           /\ Len(Picked(c, K)) <= Len(c)
           /\ \A i \in DOMAIN Picked(c, K) :
                 \E j \in DOMAIN c : Picked(c, K)[i] = c[j] /\ c[j].key \in K
<1> DEFINE Body(f, n) == IF n = 0 THEN <<>>
                         ELSE IF c[n].key \in K THEN Append(f[n - 1], c[n])
                         ELSE f[n - 1]
           Solves(f, n) == f = [i \in 0..n |-> Body(f, i)]
           F == CHOOSE f : Solves(f, Len(c))
           T == {n \in 0..Len(c) : \E f : Solves(f, n)}
<1>1. Picked(c, K) = F[Len(c)]
  BY DEF Picked
<1>2. Len(c) \in Nat /\ DOMAIN c = 1..Len(c) /\ \A i \in DOMAIN c : c[i] \in S
  OBVIOUS
<1> HIDE DEF T
<1>3. 0 \in T
  <2> DEFINE g == [i \in 0..0 |-> <<>>]
  <2>1. Solves(g, 0)
    OBVIOUS
  <2> HIDE DEF g, Solves
  <2> QED
    BY <1>2, <2>1 DEF T
<1>4. ASSUME NEW n \in 0..Len(c), n # Len(c), n \in T
      PROVE  n + 1 \in T
  <2>1. PICK f : Solves(f, n)
    BY <1>4 DEF T
  <2> DEFINE g == [i \in 0..(n + 1) |-> IF i = n + 1 THEN Body(f, n + 1) ELSE f[i]]
  <2>2. n \in Nat /\ n + 1 \in 0..Len(c)
    BY <1>2, <1>4, NextPlace, Zenon
  <2>3. \A i \in 0..n : f[i] = Body(f, i)
    BY <2>1
  <2>4. ASSUME NEW i \in 0..(n + 1)
        PROVE  g[i] = Body(g, i)
    <3>1. CASE i = n + 1
      <4>1. g[i] = Body(f, n + 1)
        BY <3>1, <2>2
      <4>2. i # 0 /\ i - 1 = n /\ g[n] = f[n]
        BY <3>1, <2>2
      <4> QED
        BY <3>1, <4>1, <4>2
    <3>2. CASE i # n + 1
      <4>1. i \in 0..n /\ g[i] = f[i]
        BY <2>2, <3>2
      <4>2. i # 0 => g[i - 1] = f[i - 1]
        BY <2>2, <4>1
      <4> QED
        BY <2>3, <4>1, <4>2
    <3> QED
      BY <3>1, <3>2
  <2>5. Solves(g, n + 1)
    <3>1. g = [i \in 0..(n + 1) |-> g[i]]
      OBVIOUS
    <3> HIDE DEF g
    <3> QED
      BY <2>4, <3>1
  <2> HIDE DEF g, Solves
  <2> QED
    BY <2>2, <2>5 DEF T
<1>5. Len(c) \in T
  <2>1. 0..Len(c) \subseteq T
    BY <1>2, <1>3, <1>4, CountUp
  <2> QED
    BY <1>2, <2>1
<1>6. Solves(F, Len(c))
  <2> HIDE DEF Solves
  <2> QED
    BY <1>5 DEF T
<1>7. \A i \in 0..Len(c) : F[i] = Body(F, i)
  <2> HIDE DEF F
  <2> QED
    BY <1>6
<1> HIDE DEF F
<1> DEFINE G(n) == /\ F[n] \in Seq(S) /\ Len(F[n]) <= n
                   /\ \A i \in DOMAIN F[n] : \E j \in DOMAIN c : F[n][i] = c[j] /\ c[j].key \in K
           U == {n \in 0..Len(c) : G(n)}
<1>8. 0 \in U
  <2>1. F[0] = <<>> /\ 0 \in 0..Len(c)
    BY <1>2, <1>7
  <2>2. <<>> \in Seq(S) /\ Len(<<>>) <= 0 /\ DOMAIN <<>> = {}
    OBVIOUS
  <2> QED
    BY <2>1, <2>2
<1> HIDE DEF G, U
<1>9. ASSUME NEW n \in 0..Len(c), n # Len(c), n \in U
      PROVE  n + 1 \in U
  <2>1. n + 1 \in 0..Len(c) /\ n + 1 \in DOMAIN c /\ n + 1 # 0 /\ (n + 1) - 1 = n /\ n \in Nat
    BY <1>2, <1>9, NextPlace, Zenon
  <2>2. F[n + 1] = IF c[n + 1].key \in K THEN Append(F[n], c[n + 1]) ELSE F[n]
    BY <1>7, <2>1
  <2>3. G(n)
    BY <1>9 DEF U
  <2>4. CASE c[n + 1].key \in K
    <3> DEFINE a == F[n]
               e == c[n + 1]
    <3>1. a \in Seq(S) /\ Len(a) <= n /\ e \in S /\ F[n + 1] = Append(a, e)
      BY <1>2, <2>1, <2>2, <2>3, <2>4 DEF G
    <3>2. \A i \in DOMAIN a : \E j \in DOMAIN c : a[i] = c[j] /\ c[j].key \in K
      BY <2>3 DEF G
    <3> HIDE DEF a
    <3>3. /\ Append(a, e) \in Seq(S) /\ Len(Append(a, e)) = Len(a) + 1 /\ Len(a) \in Nat
          /\ \A i \in DOMAIN Append(a, e) : Append(a, e)[i] = e \/ (i \in DOMAIN a /\ Append(a, e)[i] = a[i])
      BY <3>1
    <3>4. Len(Append(a, e)) <= n + 1
      BY <2>1, <3>1, <3>3
    <3>5. \A i \in DOMAIN Append(a, e) : \E j \in DOMAIN c : Append(a, e)[i] = c[j] /\ c[j].key \in K
      BY <2>1, <2>4, <3>2, <3>3
    <3>6. G(n + 1)
      BY <3>1, <3>3, <3>4, <3>5 DEF G
    <3> QED
      BY <2>1, <3>6 DEF U
  <2>5. CASE c[n + 1].key \notin K
    <3>1. F[n + 1] = F[n]
      BY <2>2, <2>5
    <3>2. Len(F[n]) <= n + 1
      BY <2>1, <2>3 DEF G
    <3>3. G(n + 1)
      BY <2>3, <3>1, <3>2 DEF G
    <3> QED
      BY <2>1, <3>3 DEF U
  <2> QED
    BY <2>4, <2>5
<1>10. G(Len(c))
  <2>1. 0..Len(c) \subseteq U
    BY <1>2, <1>8, <1>9, CountUp
  <2> QED
    BY <1>2, <2>1 DEF U
<1> QED
  BY <1>1, <1>10 DEF G

-----------------------------------------------------------------------------
(* The tree of keys.                                                       *)

\* Two keys above a third are one above the other, and what is above a key
\* is above the keys below it.
LEMMA PrefixOrder ==
    ASSUME NEW r \in Seq(STRING), NEW s \in Seq(STRING), NEW t \in Seq(STRING)
    PROVE  /\ IsPrefix(r, s) /\ IsPrefix(s, t) => IsPrefix(r, t)
           /\ IsPrefix(r, t) /\ IsPrefix(s, t) => IsPrefix(r, s) \/ IsPrefix(s, r)
<1>1. \A a, b \in Seq(STRING) :
          IsPrefix(a, b) <=> Len(a) <= Len(b) /\ \A i \in 1..Len(a) : a[i] = b[i]
  <2> SUFFICES ASSUME NEW a \in Seq(STRING), NEW b \in Seq(STRING), Len(a) <= Len(b)
               PROVE  SubSeq(a, 1, Len(a)) = SubSeq(b, 1, Len(a))
                         <=> \A i \in 1..Len(a) : a[i] = b[i]
    BY DEF IsPrefix
  <2>1. /\ Len(SubSeq(a, 1, Len(a))) = Len(a) /\ Len(SubSeq(b, 1, Len(a))) = Len(a)
        /\ SubSeq(a, 1, Len(a)) \in Seq(STRING) /\ SubSeq(b, 1, Len(a)) \in Seq(STRING)
        /\ \A i \in 1..Len(a) : SubSeq(a, 1, Len(a))[i] = a[i] /\ SubSeq(b, 1, Len(a))[i] = b[i]
    OBVIOUS
  <2> QED
    BY <2>1
<1>2. IsPrefix(r, s) /\ IsPrefix(s, t) => IsPrefix(r, t)
  BY <1>1
<1>3. IsPrefix(r, t) /\ IsPrefix(s, t) => IsPrefix(r, s) \/ IsPrefix(s, r)
  BY <1>1
<1> QED
  BY <1>2, <1>3

\* A change of k leaves alone what is at or below a key that is neither above
\* nor below k.
LEMMA Unrelated ==
    ASSUME NEW j \in Keys, NEW k \in Keys, ~Related(j, k), NEW i \in Below(j)
    PROVE  i # k /\ ~Related(i, k) /\ i \notin Below(k)
<1>1. {i, j, k} \subseteq Seq(STRING) /\ IsPrefix(j, i)
  BY FallbackAssumption DEF Below
<1>2. ~IsPrefix(j, k) /\ ~IsPrefix(k, j)
  BY DEF Related
<1>3. ~IsPrefix(i, k)
  BY <1>1, <1>2, PrefixOrder
<1>4. ~IsPrefix(k, i)
  BY <1>1, <1>2, PrefixOrder
<1> QED
  BY <1>1, <1>2, <1>3, <1>4 DEF Related, Below

\* The patches of the calls, and what they leave alone.
LEMMA CallPatches ==
    ASSUME NEW k \in Keys
    PROVE  /\ \A v \in Values : SetPatch(k, v) \in Patches
           /\ DelPatch(k) \in Patches
           /\ \A j \in Keys : ~Related(j, k) =>
                 \A i \in Below(j) : /\ \A v \in Values : SetPatch(k, v)[i] = Keep
                                     /\ DelPatch(k)[i] = Keep
<1>1. \A v \in Values : SetPatch(k, v) \in Patches
  BY DEF SetPatch, Patches
<1>2. DelPatch(k) \in Patches
  BY DEF DelPatch, Patches
<1>3. ASSUME NEW j \in Keys, ~Related(j, k), NEW i \in Below(j)
      PROVE  (\A v \in Values : SetPatch(k, v)[i] = Keep) /\ DelPatch(k)[i] = Keep
  <2>1. i \in Keys
    BY DEF Below
  <2>2. i # k /\ ~Related(i, k) /\ i \notin Below(k)
    BY <1>3, Unrelated
  <2> QED
    BY <2>1, <2>2 DEF SetPatch, DelPatch
<1> QED
  BY <1>1, <1>2, <1>3

LEMMA ClearProperties ==
    /\ EmptyStore \in Stores
    /\ ClearFrame \in Patches
    /\ \A k \in Keys : ClearFrame[k] = Absent /\ Absent # Keep
    /\ \A s \in Stores : ApplyPatch(s, ClearFrame) = EmptyStore
<1>1. Absent # Keep
  BY ReplayAssumption
<1> QED
  BY <1>1 DEF ClearFrame, EmptyStore, Stores, Patches, ApplyPatch

-----------------------------------------------------------------------------
(* The cache.                                                              *)

\* The view at the keys below j is that of any store that agrees there.
LEMMA SameView ==
    ASSUME NEW s, NEW t, NEW j, \A i \in Below(j) : s[i] = t[i]
    PROVE  View(s, j) = View(t, j)
BY DEF View

LEMMA EntryType ==
    /\ \A s \in Stores, k \in Keys : [key |-> k, view |-> View(s, k)] \in Entries
    /\ \A e \in Entries : e.key \in Keys
BY DEF Entries

\* An entry moved to the front is there, with some of the others.
LEMMA ToFrontProperties ==
    ASSUME NEW c \in Seq(Entries), NEW e \in Entries
    PROVE  /\ ToFront(c, e) \in Seq(Entries)
           /\ Len(ToFront(c, e)) <= CacheSize
           /\ \A i \in DOMAIN ToFront(c, e) :
                 \/ ToFront(c, e)[i] = e
                 \/ \E j \in DOMAIN c : ToFront(c, e)[i] = c[j]
<1> DEFINE K == Keys \ {e.key}
           p == Picked(c, K)
           all == <<e>> \o p
<1>1. p \in Seq(Entries) /\ \A i \in DOMAIN p : \E j \in DOMAIN c : p[i] = c[j]
  <2> HIDE DEF K
  <2> QED
    BY PickedProperties
<1> HIDE DEF p
<1>2. all \in Seq(Entries) /\ \A i \in DOMAIN all : all[i] = e \/ \E j \in DOMAIN c : all[i] = c[j]
  <2>1. /\ all \in Seq(Entries)
        /\ \A i \in DOMAIN all : all[i] = e \/ (i - 1 \in DOMAIN p /\ all[i] = p[i - 1])
    BY <1>1
  <2> QED
    BY <1>1, <2>1
<1>3. ToFront(c, e) = IF Len(all) > CacheSize THEN SubSeq(all, 1, CacheSize) ELSE all
  BY DEF ToFront, p
<1> HIDE DEF all
<1>4. CacheSize \in Nat
  BY FallbackAssumption
<1>5. CASE Len(all) > CacheSize
  <2> DEFINE f == SubSeq(all, 1, CacheSize)
  <2>1. /\ f \in Seq(Entries) /\ Len(f) = CacheSize
        /\ \A i \in DOMAIN f : i \in DOMAIN all /\ f[i] = all[i]
    BY <1>2, <1>4, <1>5
  <2>2. ToFront(c, e) = f
    BY <1>3, <1>5
  <2> HIDE DEF f
  <2> QED
    BY <1>2, <1>4, <2>1, <2>2
<1>6. CASE ~(Len(all) > CacheSize)
  <2>1. ToFront(c, e) = all /\ Len(all) <= CacheSize
    BY <1>2, <1>3, <1>4, <1>6
  <2> QED
    BY <1>2, <2>1
<1> QED
  BY <1>5, <1>6

\* What is left after an invalidation is unrelated to the key.
LEMMA InvalidatedProperties ==
    ASSUME NEW c \in Seq(Entries), NEW k \in Keys
    PROVE  /\ Invalidated(c, k) \in Seq(Entries)
           /\ Len(Invalidated(c, k)) <= Len(c)
           /\ \A i \in DOMAIN Invalidated(c, k) :
                 \E j \in DOMAIN c : /\ Invalidated(c, k)[i] = c[j]
                                     /\ c[j].key \in Keys /\ ~Related(c[j].key, k)
<1> DEFINE K == {j \in Keys : ~Related(j, k)}
<1>1. Invalidated(c, k) = Picked(c, K)
  BY DEF Invalidated
<1>2. \A j : j \in K => j \in Keys /\ ~Related(j, k)
  OBVIOUS
<1> HIDE DEF K
<1> QED
  BY <1>1, <1>2, PickedProperties

-----------------------------------------------------------------------------
(* The log, the queue and what they add up to.                             *)

LinesOf(l) ==
    [i \in DOMAIN l |->
        IF (i = 1 \/ l[i - 1].newline) /\ (l[i].newline \/ i = Len(l))
        THEN l[i].patch ELSE NoChange]

Logs(job) == IF job.kind = "append" THEN job.patch ELSE NoChange
WaitingOf(q) == [i \in DOMAIN q |-> Logs(q[i])]

BaseOf(s) == IF s = NoFile THEN EmptyStore ELSE s
UnendedLast(l) == l # <<>> /\ ~l[Len(l)].newline

\* Functions on 1..n are sequences.
LEMMA IsSequence ==
    ASSUME NEW S, NEW n \in Nat, NEW f, DOMAIN f = 1..n, f = [i \in 1..n |-> f[i]],
           \A i \in 1..n : f[i] \in S
    PROVE  f \in Seq(S) /\ Len(f) = n
OBVIOUS

LEMMA AppendIsFunction ==
    ASSUME NEW S, NEW w \in Seq(S), NEW x \in S, NEW n, n = Len(w)
    PROVE  Append(w, x) = [i \in 1..(n + 1) |-> Append(w, x)[i]]
<1> DEFINE a == Append(w, x)
<1>1. a \in Seq(S) /\ DOMAIN a = 1..(n + 1)
  OBVIOUS
<1> HIDE DEF a
<1>2. a = [i \in DOMAIN a |-> a[i]]
  BY <1>1
<1> QED
  BY <1>1, <1>2 DEF a

LEMMA StateNames ==
    /\ Lines = LinesOf(log) /\ Waiting = WaitingOf(queue) /\ Base = BaseOf(snap)
    /\ Recovered = Replay(BaseOf(snap), LinesOf(log))
    /\ Settled = Replay(Replay(BaseOf(snap), LinesOf(log)), WaitingOf(queue))
    /\ Unended <=> UnendedLast(log)
BY DEF Lines, LinesOf, Waiting, WaitingOf, Logs, Base, BaseOf, Recovered, Settled, Unended,
       UnendedLast

LEMMA JobType ==
    /\ CompactJob \in Jobs /\ TxJob \in Jobs
    /\ \A p \in Patches : AppendJob(p) \in Jobs /\ Logs(AppendJob(p)) = p
    /\ Logs(CompactJob) = NoChange /\ Logs(TxJob) = NoChange
    /\ \A j \in Jobs : /\ Logs(j) \in Patches
                       /\ j.kind = "append" => j.patch = Logs(j)
                       /\ j.kind # "append" => Logs(j) = NoChange
<1>1. \A p \in Patches : AppendJob(p).kind = "append" /\ AppendJob(p).patch = p
  BY DEF AppendJob
<1>2. CompactJob.kind = "compact" /\ TxJob.kind = "tx"
  BY DEF CompactJob, TxJob
<1> QED
  BY <1>1, <1>2, NoChangeChangesNothing DEF Jobs, Logs

LEMMA LinesType ==
    ASSUME NEW l \in Seq(Pieces)
    PROVE  LinesOf(l) \in Seq(Patches) /\ Len(LinesOf(l)) = Len(l)
<1> DEFINE p == LinesOf(l)
<1>1. DOMAIN p = 1..Len(l) /\ Len(l) \in Nat
  BY DEF LinesOf
<1>2. \A i \in 1..Len(l) : l[i] \in Pieces
  OBVIOUS
<1>3. \A i \in 1..Len(l) : p[i] \in Patches
  BY <1>2, NoChangeChangesNothing DEF LinesOf, Pieces
<1>4. p = [i \in 1..Len(l) |-> p[i]]
  BY DEF LinesOf
<1> HIDE DEF p
<1>5. p \in Seq(Patches) /\ Len(p) = Len(l)
  BY <1>1, <1>3, <1>4, IsSequence
<1> QED
  BY <1>5 DEF p

\* A line that is appended to one without its newline says nothing, and neither
\* does that one then.
LEMMA LinesAppend ==
    ASSUME NEW l \in Seq(Pieces), NEW e \in Pieces
    PROVE  /\ LinesOf(Append(l, e)) \in Seq(Patches)
           /\ Len(LinesOf(Append(l, e))) = Len(l) + 1
           /\ LinesOf(Append(l, e))[Len(l) + 1] = IF UnendedLast(l) THEN NoChange ELSE e.patch
           /\ \A i \in 1..Len(l) :
                 LinesOf(Append(l, e))[i] =
                    IF i = Len(l) /\ UnendedLast(l) THEN NoChange ELSE LinesOf(l)[i]
<1> DEFINE a == Append(l, e)
           n == Len(l)
<1>1. /\ a \in Seq(Pieces) /\ Len(a) = n + 1 /\ n \in Nat
      /\ \A i \in 1..n : a[i] = l[i] /\ i \in 1..(n + 1) /\ i # n + 1
      /\ a[n + 1] = e
      /\ l = <<>> <=> n = 0
      /\ DOMAIN a = 1..(n + 1) /\ DOMAIN l = 1..n
  OBVIOUS
<1>2. LinesOf(a) \in Seq(Patches) /\ Len(LinesOf(a)) = n + 1
  BY <1>1, LinesType
<1>3. \A i \in 1..(n + 1) :
         LinesOf(a)[i] = IF (i = 1 \/ a[i - 1].newline) /\ (a[i].newline \/ i = n + 1)
                         THEN a[i].patch ELSE NoChange
  BY <1>1 DEF LinesOf
<1>4. \A i \in 1..n :
         LinesOf(l)[i] = IF (i = 1 \/ l[i - 1].newline) /\ (l[i].newline \/ i = n)
                         THEN l[i].patch ELSE NoChange
  BY <1>1 DEF LinesOf
<1>5. UnendedLast(l) <=> n # 0 /\ ~l[n].newline
  BY <1>1 DEF UnendedLast
<1> HIDE DEF a, n
<1>6. LinesOf(a)[n + 1] = IF UnendedLast(l) THEN NoChange ELSE e.patch
  <2>1. n + 1 \in 1..(n + 1) /\ (n + 1) - 1 = n /\ (n + 1 = 1 <=> n = 0)
        /\ (n # 0 => n \in 1..n)
    BY <1>1
  <2> QED
    BY <1>1, <1>3, <1>5, <2>1
<1>7. ASSUME NEW i \in 1..n
      PROVE  LinesOf(a)[i] = IF i = n /\ UnendedLast(l) THEN NoChange ELSE LinesOf(l)[i]
  <2>1. a[i] = l[i] /\ i \in 1..(n + 1) /\ i # n + 1 /\ n # 0
    BY <1>1, <1>7
  <2>2. i # 1 => i - 1 \in 1..n /\ a[i - 1] = l[i - 1]
    BY <1>1, <1>7
  <2>3. LinesOf(a)[i] = IF (i = 1 \/ l[i - 1].newline) /\ l[i].newline
                        THEN l[i].patch ELSE NoChange
    BY <1>3, <2>1, <2>2
  <2> QED
    BY <1>4, <1>5, <2>1, <2>3
<1> QED
  BY <1>2, <1>6, <1>7 DEF a, n

\* What is replayed at a key depends on what the patches say of that key.
LEMMA ReplayColumn ==
    ASSUME NEW s, NEW v \in Seq(Patches), NEW w \in Seq(Patches), NEW k \in Keys,
           Len(v) = Len(w), \A i \in DOMAIN v : v[i][k] = w[i][k]
    PROVE  Replay(s, v)[k] = Replay(s, w)[k] /\ (Hit(v, k) <=> Hit(w, k))
<1>1. DOMAIN v = DOMAIN w
  OBVIOUS
<1>2. Hit(v, k) <=> Hit(w, k)
  BY <1>1 DEF Hit
<1>3. CASE ~Hit(v, k)
  BY <1>2, <1>3, ReplayAt
<1>4. CASE Hit(v, k)
  <2>1. PICK m \in DOMAIN v : /\ v[m][k] # Keep
                              /\ \A j \in DOMAIN v : v[j][k] # Keep => j <= m
    BY <1>4, ReplayAt
  <2>2. Replay(s, v)[k] = v[m][k]
    BY <2>1, ReplayAt
  <2>3. m \in DOMAIN w /\ w[m][k] # Keep /\ \A j \in DOMAIN w : w[j][k] # Keep => j <= m
    BY <1>1, <2>1
  <2>4. Replay(s, w)[k] = w[m][k]
    BY <2>3, ReplayAt
  <2> QED
    BY <1>2, <2>1, <2>2, <2>4
<1> QED
  BY <1>2, <1>3, <1>4

LEMMA WaitingType ==
    ASSUME NEW q \in Seq(Jobs)
    PROVE  WaitingOf(q) \in Seq(Patches) /\ Len(WaitingOf(q)) = Len(q)
<1> DEFINE w == WaitingOf(q)
<1>1. DOMAIN w = 1..Len(q) /\ Len(q) \in Nat
  BY DEF WaitingOf
<1>2. \A i \in 1..Len(q) : w[i] \in Patches
  BY JobType DEF WaitingOf
<1>3. w = [i \in 1..Len(q) |-> w[i]]
  BY DEF WaitingOf
<1> HIDE DEF w
<1>4. w \in Seq(Patches) /\ Len(w) = Len(q)
  BY <1>1, <1>2, <1>3, IsSequence
<1> QED
  BY <1>4 DEF w

LEMMA WaitingAppend ==
    ASSUME NEW q \in Seq(Jobs), NEW j \in Jobs
    PROVE  WaitingOf(Append(q, j)) = Append(WaitingOf(q), Logs(j))
<1> DEFINE a == Append(q, j)
           x == Logs(j)
<1>1. /\ DOMAIN a = 1..(Len(q) + 1) /\ Len(q) \in Nat
      /\ \A i \in 1..Len(q) : a[i] = q[i]
      /\ a[Len(q) + 1] = j
  OBVIOUS
<1>2. WaitingOf(q) \in Seq(Patches) /\ Len(WaitingOf(q)) = Len(q)
  BY WaitingType
<1>3. ASSUME NEW i \in 1..(Len(q) + 1)
      PROVE  WaitingOf(a)[i] = Append(WaitingOf(q), x)[i]
  <2>1. WaitingOf(a)[i] = Logs(a[i]) /\ (i \in 1..Len(q) => WaitingOf(q)[i] = Logs(q[i]))
    BY <1>1 DEF WaitingOf
  <2> HIDE DEF a, x
  <2>2. Append(WaitingOf(q), x)[i] = IF i = Len(q) + 1 THEN x ELSE WaitingOf(q)[i]
    BY <1>1, <1>2
  <2>3. i = Len(q) + 1 \/ i \in 1..Len(q)
    BY <1>1
  <2> QED
    BY <1>1, <2>1, <2>2, <2>3 DEF x
<1>4. WaitingOf(a) = [i \in 1..(Len(q) + 1) |-> WaitingOf(a)[i]]
  BY <1>1 DEF WaitingOf
<1> HIDE DEF a, x
<1>5. x \in Patches
  BY JobType DEF x
<1>6. Append(WaitingOf(q), x) = [i \in 1..(Len(q) + 1) |-> Append(WaitingOf(q), x)[i]]
  BY <1>2, <1>5, AppendIsFunction
<1>7. WaitingOf(a) = Append(WaitingOf(q), x)
  BY <1>3, <1>4, <1>6, Zenon
<1> QED
  BY <1>7 DEF a, x

LEMMA WaitingHead ==
    ASSUME NEW q \in Seq(Jobs), q # <<>>
    PROVE  /\ q[1] \in Jobs /\ Tail(q) \in Seq(Jobs) /\ Len(Tail(q)) = Len(q) - 1
           /\ WaitingOf(q) = <<Logs(q[1])>> \o WaitingOf(Tail(q))
<1> DEFINE t == Tail(q)
           x == Logs(q[1])
<1>1. /\ Len(q) \in Nat /\ Len(q) # 0 /\ q[1] \in Jobs
      /\ t \in Seq(Jobs) /\ Len(t) = Len(q) - 1
      /\ \A i \in 1..Len(t) : t[i] = q[i + 1]
  OBVIOUS
<1>2. /\ WaitingOf(t) \in Seq(Patches) /\ Len(WaitingOf(t)) = Len(t)
      /\ WaitingOf(q) \in Seq(Patches) /\ Len(WaitingOf(q)) = Len(q)
  BY <1>1, WaitingType
<1>3. /\ \A i \in 1..Len(t) : WaitingOf(t)[i] = Logs(t[i])
      /\ \A i \in 1..Len(q) : WaitingOf(q)[i] = Logs(q[i])
  BY <1>1 DEF WaitingOf
<1> HIDE DEF t, x
<1>4. x \in Patches
  BY <1>1, JobType DEF x
<1> DEFINE u == <<x>> \o WaitingOf(t)
<1>5. /\ Len(u) = Len(q) /\ DOMAIN u = 1..Len(q) /\ u \in Seq(Patches)
      /\ \A i \in 1..Len(q) : u[i] = IF i = 1 THEN x ELSE WaitingOf(t)[i - 1]
  BY <1>1, <1>2, <1>4
<1>6. ASSUME NEW i \in 1..Len(q)
      PROVE  WaitingOf(q)[i] = u[i]
  <2>1. i = 1 \/ (i - 1 \in 1..Len(t) /\ (i - 1) + 1 = i)
    BY <1>1
  <2>2. CASE i = 1
    BY <1>3, <1>5, <2>2 DEF x
  <2>3. CASE i # 1
    <3> HIDE DEF u
    <3>1. u[i] = WaitingOf(t)[i - 1]
      BY <1>5, <2>3
    <3>2. WaitingOf(t)[i - 1] = Logs(q[i])
      BY <1>1, <1>3, <2>1, <2>3
    <3> QED
      BY <1>3, <3>1, <3>2
  <2> QED
    BY <2>2, <2>3
<1>7. WaitingOf(q) = [i \in 1..Len(q) |-> WaitingOf(q)[i]] /\ u = [i \in 1..Len(q) |-> u[i]]
  BY <1>2, <1>5
<1> HIDE DEF u
<1>8. WaitingOf(q) = u
  BY <1>6, <1>7, Zenon
<1> QED
  BY <1>1, <1>8 DEF t, x, u

\* The value of a key that a line or a queued append touches does not come from
\* the snapshot, and that of another does.
LEMMA SettledFrom ==
    ASSUME NEW b \in Stores, NEW c \in Stores, NEW l \in Seq(Patches), NEW w \in Seq(Patches),
           NEW k \in Keys
    PROVE  /\ Hit(l, k) \/ Hit(w, k) \/ b[k] = c[k]
                 => Replay(Replay(b, l), w)[k] = Replay(Replay(c, l), w)[k]
           /\ ~Hit(l, k) /\ ~Hit(w, k) => Replay(Replay(b, l), w)[k] = b[k]
<1>1. Hit(l, k) \/ b[k] = c[k] => Replay(b, l)[k] = Replay(c, l)[k]
  BY ReplayKey
<1>2. Hit(w, k) \/ Replay(b, l)[k] = Replay(c, l)[k]
         => Replay(Replay(b, l), w)[k] = Replay(Replay(c, l), w)[k]
  BY ReplayKey
<1>3. ~Hit(l, k) /\ ~Hit(w, k) => Replay(Replay(b, l), w)[k] = b[k]
  BY ReplayAt
<1> QED
  BY <1>1, <1>2, <1>3

\* A job that leaves the queue: its patch is where the log has it.
LEMMA QueueMoves ==
    ASSUME NEW r \in Stores, NEW t, NEW x \in Patches, NEW w \in Seq(Patches),
           NEW k \in Keys, t[k] = ApplyPatch(r, x)[k]
    PROVE  Replay(t, w)[k] = Replay(r, <<x>> \o w)[k]
<1>1. Replay(r, <<x>> \o w) = Replay(ApplyPatch(r, x), w)
  BY ReplayFirst
<1>2. Replay(t, w)[k] = Replay(ApplyPatch(r, x), w)[k]
  BY ReplayKey
<1> QED
  BY <1>1, <1>2

\* The log, the queue and the snapshot are what Settled needs them to be.
LEMMA SettledTypes ==
    ASSUME TypeOK
    PROVE  /\ Lines \in Seq(Patches) /\ Waiting \in Seq(Patches)
           /\ Base \in Stores /\ Recovered \in Stores /\ Settled \in Stores
           /\ Recovered = Replay(Base, Lines) /\ Settled = Replay(Recovered, Waiting)
<1>1. Lines \in Seq(Patches)
  BY LinesType, StateNames DEF TypeOK
<1>2. Waiting \in Seq(Patches)
  BY WaitingType, StateNames DEF TypeOK
<1>3. Base \in Stores
  BY ClearProperties DEF TypeOK, Base
<1>4. Recovered = Replay(Base, Lines) /\ Settled = Replay(Recovered, Waiting)
  BY DEF Recovered, Settled
<1>5. \A s \in Stores, w \in Seq(Patches) : Replay(s, w) \in Stores
  <2>1. \A w \in Seq(Patches) : w \in Seq(Patches \cup {Torn})
    OBVIOUS
  <2> QED
    BY <2>1, ReplayType
<1> QED
  BY <1>1, <1>2, <1>3, <1>4, <1>5

\* What depends on the log, the queue and the snapshot only.
LEMMA SettledFrame ==
    ASSUME UNCHANGED <<log, queue, snap>>
    PROVE  /\ Lines' = Lines /\ Waiting' = Waiting /\ Settled' = Settled
           /\ Recovered' = Recovered /\ Running' = Running /\ \A k : Logged(k)' = Logged(k)
<1>1. Lines' = Lines
  BY DEF Lines
<1>2. Waiting' = Waiting
  BY DEF Waiting
<1>3. Base' = Base /\ Running' = Running
  BY DEF Base, Running
<1> QED
  BY <1>1, <1>2, <1>3 DEF Settled, Recovered, Logged

-----------------------------------------------------------------------------
(* The steps.                                                              *)

\* A patch of k touches nothing at or below a key that is neither above nor
\* below k.
Local(k, p) ==
    /\ p \in Patches
    /\ \A j \in Keys : ~Related(j, k) => \A i \in Below(j) : p[i] = Keep

LEMMA NextCases ==
    ASSUME TypeOK, Next
    PROVE  \/ \E k \in Keys : Get(k)
           \/ \E k \in Keys, p \in Patches :
                 /\ Local(k, p) /\ Awake
                 /\ calls' \in {calls, Tail(calls)} /\ calls' \in Seq(Calls)
                 /\ Change(k, p)
           \/ \E k \in Keys, p \in Patches : Local(k, p) /\ TxChange(k, p)
           \/ \E c \in Calls : Call(c)
           \/ DeleteNothing \/ PushTx \/ PushTxLate \/ Clear \/ PushCompact
           \/ AppendLine \/ AppendShort \/ AppendFails
           \/ SkipCompact \/ RotateSerialize \/ WriteFails \/ Rename \/ Truncate
           \/ Begin \/ Commit \/ Rollback \/ AwaitJob
           \/ Close \/ Release \/ Exit \/ Crash \/ Open
<1>1. ASSUME NEW k \in Keys
      PROVE  Local(k, DelPatch(k)) /\ \A v \in Values : Local(k, SetPatch(k, v))
  BY CallPatches DEF Local
<1>2. \A k \in Keys : \A p : Local(k, p) => p \in Patches
  BY DEF Local
<1>3. ASSUME Delete
      PROVE  \E k \in Keys, p \in Patches :
                /\ Local(k, p) /\ Awake
                /\ calls' \in {calls, Tail(calls)} /\ calls' \in Seq(Calls)
                /\ Change(k, p)
  <2> DEFINE k == calls[1].key
  <2>1. calls # <<>> /\ calls[1].op = "delete" /\ Awake /\ calls' = Tail(calls)
        /\ Change(k, DelPatch(k))
    BY <1>3 DEF Delete, Resumes
  <2>2. calls[1] \in Calls /\ calls' \in Seq(Calls)
    BY <2>1 DEF TypeOK
  <2>3. k \in Keys
    BY <2>1, <2>2 DEF Calls
  <2> HIDE DEF k
  <2> QED
    BY <1>1, <1>2, <2>1, <2>2, <2>3
<1>4. ASSUME NEW k \in Keys, NEW v \in Values, Set(k, v)
      PROVE  \E p \in Patches : /\ Local(k, p) /\ Awake
                                /\ calls' \in {calls, Tail(calls)} /\ calls' \in Seq(Calls)
                                /\ Change(k, p)
  BY <1>1, <1>2, <1>4 DEF Set, Awake, TypeOK
<1>5. ASSUME NEW k \in Keys, NEW v \in Values, TxChange(k, SetPatch(k, v))
      PROVE  \E p \in Patches : Local(k, p) /\ TxChange(k, p)
  BY <1>1, <1>2, <1>5
<1>6. ASSUME NEW k \in Keys, TxChange(k, DelPatch(k))
      PROVE  \E p \in Patches : Local(k, p) /\ TxChange(k, p)
  BY <1>1, <1>2, <1>6
<1> QED
  BY <1>3, <1>4, <1>5, <1>6 DEF Next, Job, Resume

\* The calls that wait, when one goes on.
LEMMA AfterResume ==
    ASSUME TypeOK, NEW op, Resumes(op)
    PROVE  calls' \in Seq(Calls) /\ phase # "down"
BY DEF Resumes, Awake, TypeOK

\* The queue while a job runs.
LEMMA RunningHead ==
    ASSUME TypeOK, Running # "none"
    PROVE  /\ queue # <<>> /\ queue[1] \in Jobs /\ queue[1].kind = Running
           /\ Tail(queue) \in Seq(Jobs) /\ Len(Tail(queue)) = Len(queue) - 1
           /\ Len(queue) \in Nat /\ Len(queue) # 0
           /\ Logs(queue[1]) \in Patches
           /\ Waiting = <<Logs(queue[1])>> \o WaitingOf(Tail(queue))
           /\ Running = "append" => queue[1].patch = Logs(queue[1])
           /\ Running # "append" => Logs(queue[1]) = NoChange
<1>1. queue # <<>> /\ queue[1].kind = Running /\ queue \in Seq(Jobs)
  BY DEF Running, TypeOK
<1>2. /\ queue[1] \in Jobs /\ Tail(queue) \in Seq(Jobs) /\ Len(Tail(queue)) = Len(queue) - 1
      /\ WaitingOf(queue) = <<Logs(queue[1])>> \o WaitingOf(Tail(queue))
  BY <1>1, WaitingHead
<1>3. Len(queue) \in Nat /\ Len(queue) # 0
  BY <1>1
<1>4. /\ Logs(queue[1]) \in Patches
      /\ Running = "append" => queue[1].patch = Logs(queue[1])
      /\ Running # "append" => Logs(queue[1]) = NoChange
  BY <1>1, <1>2, JobType
<1> QED
  BY <1>1, <1>2, <1>3, <1>4, StateNames

\* The end of a job.
LEMMA AfterDone ==
    ASSUME TypeOK, Running # "none", Done
    PROVE  /\ queue' \in Seq(Jobs) /\ Len(queue') = Len(queue) - 1
           /\ content' \in Stores /\ base' \in Stores
           /\ awaited' \in Nat /\ late' \in Nat /\ step' = "start" /\ calls' = calls
           /\ Waiting' \in Seq(Patches)
           /\ Waiting = <<Logs(queue[1])>> \o Waiting'
<1>1. queue' = Tail(queue) /\ step' = "start" /\ content' \in Stores /\ base' \in Stores
  BY ClearProperties DEF Done
<1>2. awaited' \in Nat /\ late' \in Nat /\ calls' = calls
  <2>1. Len(queue) \in Nat /\ Len(queue) # 0
    BY RunningHead
  <2> QED
    BY <2>1 DEF Done, TypeOK
<1>3. queue' \in Seq(Jobs) /\ Len(queue') = Len(queue) - 1
  BY <1>1, RunningHead
<1>4. Waiting' = WaitingOf(queue') /\ Waiting' \in Seq(Patches)
  <2>1. Waiting' = WaitingOf(queue')
    BY DEF Waiting, WaitingOf, Logs
  <2> QED
    BY <1>3, <2>1, WaitingType
<1>5. Waiting = <<Logs(queue[1])>> \o Waiting'
  BY <1>1, <1>4, RunningHead
<1> QED
  BY <1>1, <1>2, <1>3, <1>4, <1>5

\* A job is put last.
LEMMA AfterPush ==
    ASSUME TypeOK, NEW job \in Jobs, Push(job)
    PROVE  /\ queue' \in Seq(Jobs) /\ Len(queue') = Len(queue) + 1
           /\ late' = (IF phase = "open" THEN late ELSE late + 1) /\ late' \in Nat
           /\ Running # "none" => Running' = Running
           /\ Waiting' = Append(Waiting, Logs(job))
<1>1. queue \in Seq(Jobs) /\ queue' = Append(queue, job)
      /\ late' = IF phase = "open" THEN late ELSE late + 1
  BY DEF Push, TypeOK
<1>2. queue' \in Seq(Jobs) /\ Len(queue') = Len(queue) + 1
  BY <1>1
<1>3. queue # <<>> => queue'[1] = queue[1] /\ queue' # <<>>
  BY <1>1
<1>4. Running # "none" => Running' = Running
  BY <1>3 DEF Running
<1>5. Waiting' = WaitingOf(queue')
  BY DEF Waiting, WaitingOf, Logs
<1>6. Waiting' = Append(Waiting, Logs(job))
  BY <1>1, <1>5, WaitingAppend, StateNames
<1>7. late' \in Nat
  BY <1>1 DEF TypeOK
<1> QED
  BY <1>1, <1>2, <1>4, <1>6, <1>7

LEMMA InitOK == Init => FallbackInv
<1> SUFFICES ASSUME Init
             PROVE  FallbackInv
  OBVIOUS
<1> USE DEF Init
<1>1. TypeOK
  <2>1. CacheSize \in Nat /\ MaxFails \in Nat
    BY FallbackAssumption
  <2>2. store \in Stores /\ content \in Stores /\ base \in Stores
    BY ClearProperties
  <2>3. cache \in Seq(Entries) /\ Len(cache) <= CacheSize
    BY <2>1
  <2>4. calls \in Seq(Calls) /\ queue \in Seq(Jobs) /\ log \in Seq(Pieces)
    OBVIOUS
  <2>5. fails \in 0..MaxFails /\ awaited \in Nat /\ late \in Nat
    BY <2>1
  <2> QED
    BY <2>2, <2>3, <2>4, <2>5 DEF TypeOK
<1>2. RestOK /\ HeadOK /\ SettledOK /\ CloseOK
  BY DEF RestOK, HeadOK, SettledOK, CloseOK
<1>3. CacheCoherent
  BY DEF CacheCoherent
<1> QED
  BY <1>1, <1>2, <1>3 DEF FallbackInv

\* What ends with the process.
LEMMA AfterEnds ==
    ASSUME TypeOK, Ends
    PROVE  /\ phase' = "down" /\ queue' = <<>> /\ cache' = <<>> /\ step' = "start"
           /\ calls' = <<>> /\ awaited' = 0 /\ loose' = {} /\ rotated' = FALSE /\ late' = 0
           /\ store' \in Stores /\ content' \in Stores /\ base' \in Stores
BY ClearProperties DEF Ends

\* Every variable keeps its type.
LEMMA TypeStep ==
    ASSUME TypeOK, [Next]_vars
    PROVE  TypeOK'
<1>1. CASE UNCHANGED vars
  BY <1>1 DEF vars, TypeOK
<1>2. ASSUME NEW k \in Keys, Get(k)
      PROVE  TypeOK'
  <2>1. PICK e \in Entries : cache' = ToFront(cache, e)
    <3>1. CASE Cached(k) /\ cache' = ToFront(cache, Entry(k))
      <4>1. \E e \in ToSet(cache) : e.key = k
        BY <3>1 DEF Cached, ToSet
      <4>2. Entry(k) \in ToSet(cache)
        BY <4>1 DEF Entry
      <4>3. ToSet(cache) \subseteq Entries
        BY DEF ToSet, TypeOK
      <4> QED
        BY <3>1, <4>2, <4>3
    <3>2. CASE cache' = ToFront(cache, [key |-> k, view |-> View(store, k)])
      BY <3>2, EntryType DEF TypeOK
    <3> QED
      BY <1>2, <3>1, <3>2 DEF Get
  <2>2. cache' \in Seq(Entries) /\ Len(cache') <= CacheSize
    BY <2>1, ToFrontProperties DEF TypeOK
  <2> QED
    BY <1>2, <2>2 DEF Get, TypeOK
<1>3. ASSUME NEW k \in Keys, cache' = Invalidated(cache, k)
      PROVE  cache' \in Seq(Entries) /\ Len(cache') <= CacheSize
  <2>1. cache' \in Seq(Entries) /\ Len(cache') <= Len(cache)
    BY <1>3, InvalidatedProperties DEF TypeOK
  <2>2. Len(cache') \in Nat /\ Len(cache) \in Nat /\ CacheSize \in Nat /\ Len(cache) <= CacheSize
    BY <2>1, FallbackAssumption DEF TypeOK
  <2> QED
    BY <2>1, <2>2
<1>4. cache' = <<>> => cache' \in Seq(Entries) /\ Len(cache') <= CacheSize
  BY FallbackAssumption
<1>5. \A p \in Patches : ApplyPatch(store, p) \in Stores
  BY ApplyType DEF TypeOK
<1>6. ASSUME NEW k \in Keys, NEW p \in Patches, Change(k, p), calls' \in Seq(Calls)
      PROVE  TypeOK'
  <2>1. AppendJob(p) \in Jobs /\ Push(AppendJob(p))
    BY <1>6, JobType DEF Change
  <2>2. queue' \in Seq(Jobs) /\ late' \in Nat
    BY <2>1, AfterPush
  <2>3. cache' \in Seq(Entries) /\ Len(cache') <= CacheSize
    BY <1>3, <1>6 DEF Change
  <2> QED
    BY <1>5, <1>6, <2>2, <2>3 DEF Change, TypeOK
<1>7. ASSUME NEW k \in Keys, NEW p \in Patches, TxChange(k, p)
      PROVE  TypeOK'
  <2>1. cache' \in Seq(Entries) /\ Len(cache') <= CacheSize
    BY <1>3, <1>7 DEF TxChange
  <2>2. loose' \subseteq Keys
    BY <1>7 DEF TxChange, Touched, TypeOK
  <2> QED
    BY <1>5, <1>7, <2>1, <2>2 DEF TxChange, TypeOK
<1>8. CASE Clear
  <2>1. AppendJob(ClearFrame) \in Jobs /\ Push(AppendJob(ClearFrame))
    BY <1>8, JobType, ClearProperties DEF Clear
  <2>2. queue' \in Seq(Jobs) /\ late' \in Nat
    BY <2>1, AfterPush
  <2>3. store' \in Stores
    BY <1>8, ClearProperties DEF Clear
  <2> QED
    BY <1>4, <1>8, <2>2, <2>3 DEF Clear, TypeOK
<1>9. CASE PushCompact \/ PushTx \/ PushTxLate \/ AwaitJob
  <2>1. \E j \in Jobs : Push(j)
    BY <1>9, JobType DEF PushCompact, PushTx, PushTxLate, AwaitJob
  <2>2. queue' \in Seq(Jobs) /\ late' \in Nat
    BY <2>1, AfterPush
  <2>3. step' \in {"start", "rotated", "renamed", "open", "stuck"}
    BY <1>9 DEF PushCompact, PushTx, PushTxLate, AwaitJob, TypeOK
  <2>4. calls' \in Seq(Calls)
    BY <1>9, AfterResume DEF PushCompact, PushTx, PushTxLate, AwaitJob, TypeOK
  <2> QED
    BY <1>9, <2>2, <2>3, <2>4 DEF PushCompact, PushTx, PushTxLate, AwaitJob, TypeOK
<1>10. ASSUME Running # "none", Done
       PROVE  /\ queue' \in Seq(Jobs) /\ content' \in Stores /\ base' \in Stores
              /\ awaited' \in Nat /\ late' \in Nat /\ calls' \in Seq(Calls) /\ step' = "start"
  BY <1>10, AfterDone DEF TypeOK
<1>11. fails' = fails + 1 /\ fails < MaxFails => fails' \in 0..MaxFails
  BY FallbackAssumption DEF TypeOK
<1>12. \A e \in Pieces : Append(log, e) \in Seq(Pieces)
  BY DEF TypeOK
<1>13. \A p \in Patches : {Line(p), BareLine(p), CutLine} \subseteq Pieces
  BY NoChangeChangesNothing DEF Line, BareLine, CutLine, Pieces
<1>14. CASE AppendLine \/ AppendShort \/ AppendFails
  <2>1. Running = "append" /\ Done
    BY <1>14 DEF AppendLine, AppendShort, AppendFails
  <2>2. queue[1].patch \in Patches
    BY <2>1, RunningHead
  <2>3. log' \in Seq(Pieces)
    BY <1>12, <1>13, <1>14, <2>2 DEF AppendLine, AppendShort, AppendFails, TypeOK
  <2>4. loose' \subseteq Keys
    BY <1>14 DEF AppendLine, AppendShort, AppendFails, Spoilt, Touched, TypeOK
  <2>5. fails' \in 0..MaxFails
    BY <1>11, <1>14 DEF AppendLine, AppendShort, AppendFails, TypeOK
  <2>6. UNCHANGED <<store, cache, snap, phase, rotated>>
    BY <1>14 DEF AppendLine, AppendShort, AppendFails
  <2> QED
    BY <1>10, <2>1, <2>3, <2>4, <2>5, <2>6 DEF TypeOK
<1>15. CASE SkipCompact
  BY <1>10, <1>15 DEF SkipCompact, TypeOK
<1>16. CASE RotateSerialize
  BY <1>16 DEF RotateSerialize, TypeOK
<1>17. CASE WriteFails
  <2>1. fails' \in 0..MaxFails
    BY <1>11, <1>17 DEF WriteFails
  <2> QED
    BY <1>10, <1>17, <2>1 DEF WriteFails, TypeOK
<1>18. CASE Rename
  BY <1>18 DEF Rename, TypeOK
<1>19. CASE Truncate
  <2>1. log' \in Seq(Pieces) /\ loose' \subseteq Keys
    BY <1>19 DEF Truncate, TypeOK
  <2> QED
    BY <1>10, <1>19, <2>1 DEF Truncate, TypeOK
<1>20. CASE Begin
  BY <1>20 DEF Begin, TypeOK
<1>21. CASE Commit
  BY <1>10, <1>21 DEF Commit, TypeOK
<1>22. CASE Rollback
  <2>1. loose' \subseteq Keys /\ store' \in Stores
    BY <1>22 DEF Rollback, TypeOK
  <2> QED
    BY <1>4, <1>10, <1>22, <2>1 DEF Rollback, TypeOK
<1>23. CASE Close
  <2>1. awaited' \in Nat
    BY <1>23 DEF Close, TypeOK
  <2> QED
    BY <1>23, <2>1 DEF Close, TypeOK
<1>24. CASE Release
  BY <1>4, <1>24 DEF Release, TypeOK
<1>25. CASE Exit \/ Crash
  <2>1. Ends /\ snap' = snap
    BY <1>25 DEF Exit, Crash
  <2>2. log' \in Seq(Pieces)
    <3>1. CASE log' = log
      BY <3>1 DEF TypeOK
    <3>2. CASE log' # log
      <4>1. /\ Running = "append"
            /\ \E piece \in {CutLine, BareLine(queue[1].patch)} : log' = Append(log, piece)
        BY <1>25, <3>2 DEF Exit, Crash
      <4>2. queue[1].patch \in Patches
        BY <4>1, RunningHead
      <4> QED
        BY <1>12, <1>13, <4>1, <4>2
    <3> QED
      BY <3>1, <3>2
  <2>3. fails' \in 0..MaxFails
    BY <1>11, <1>25 DEF Exit, Crash, TypeOK
  <2>4. calls' \in Seq(Calls) /\ queue' \in Seq(Jobs) /\ loose' \subseteq Keys
    BY <2>1, AfterEnds
  <2>5. cache' \in Seq(Entries) /\ Len(cache') <= CacheSize
    BY <1>4, <2>1, AfterEnds
  <2>6. snap' \in Stores \cup {NoFile}
    BY <2>1 DEF TypeOK
  <2>7. /\ store' \in Stores /\ content' \in Stores /\ base' \in Stores
        /\ step' = "start" /\ phase' = "down" /\ awaited' = 0 /\ awaited' \in Nat
        /\ rotated' = FALSE /\ late' = 0 /\ late' \in Nat
    BY <2>1, AfterEnds
  <2> QED
    BY <2>2, <2>3, <2>4, <2>5, <2>6, <2>7 DEF TypeOK
<1>26. CASE Open
  BY <1>26, SettledTypes DEF Open, TypeOK
<1>27. ASSUME NEW c \in Calls, Call(c)
       PROVE  TypeOK'
  <2>1. calls' \in Seq(Calls)
    BY <1>27 DEF Call, TypeOK
  <2> QED
    BY <1>27, <2>1 DEF Call, TypeOK
<1>28. CASE DeleteNothing
  BY <1>28, AfterResume DEF DeleteNothing, TypeOK
<1> QED
  BY <1>1, <1>2, <1>6, <1>7, <1>8, <1>9, <1>14, <1>15, <1>16, <1>17, <1>18, <1>19, <1>20,
     <1>21, <1>22, <1>23, <1>24, <1>25, <1>26, <1>27, <1>28, NextCases, Zenon

\* A job runs while the process is up.
LEMMA RunsAwake ==
    ASSUME RestOK, Running # "none"
    PROVE  phase # "down"
BY DEF RestOK, Running

\* A process that is down keeps nothing in memory.
LEMMA RestStep ==
    ASSUME TypeOK, RestOK, [Next]_vars
    PROVE  RestOK'
<1>1. CASE UNCHANGED vars
  BY <1>1 DEF vars, RestOK
<1>2. CASE phase' # "down"
  BY <1>2 DEF RestOK
<1>3. CASE phase # "down" /\ phase' = phase
  BY <1>2, <1>3
<1>4. ASSUME NEW k \in Keys, Get(k)
      PROVE  RestOK'
  BY <1>3, <1>4 DEF Get
<1>5. ASSUME NEW k \in Keys, NEW p \in Patches, Awake, Change(k, p)
      PROVE  RestOK'
  BY <1>3, <1>5 DEF Change, Awake
<1>6. ASSUME NEW k \in Keys, NEW p \in Patches, TxChange(k, p)
      PROVE  RestOK'
  BY <1>3, <1>6, RunsAwake DEF TxChange
<1>7. CASE Clear \/ PushCompact \/ PushTx \/ PushTxLate \/ DeleteNothing
  BY <1>3, <1>7 DEF Clear, PushCompact, PushTx, PushTxLate, DeleteNothing, Resumes, Awake
<1>8. CASE AppendLine \/ AppendShort \/ AppendFails
  BY <1>3, <1>8, RunsAwake DEF AppendLine, AppendShort, AppendFails
<1>9. CASE SkipCompact \/ RotateSerialize \/ WriteFails \/ Rename \/ Truncate
  BY <1>3, <1>9, RunsAwake DEF SkipCompact, RotateSerialize, WriteFails, Rename, Truncate
<1>10. CASE Begin \/ Commit \/ Rollback \/ AwaitJob
  BY <1>3, <1>10, RunsAwake DEF Begin, Commit, Rollback, AwaitJob
<1>11. CASE Close \/ Release \/ Open
  BY <1>2, <1>11 DEF Close, Release, Open
<1>12. CASE Exit \/ Crash
  <2>1. Ends
    BY <1>12 DEF Exit, Crash
  <2> QED
    BY <2>1, AfterEnds DEF RestOK
<1>13. ASSUME NEW c \in Calls, Call(c)
       PROVE  RestOK'
  BY <1>3, <1>13 DEF Call
<1> QED
  BY <1>1, <1>4, <1>5, <1>6, <1>7, <1>8, <1>9, <1>10, <1>11, <1>12, <1>13, NextCases, Zenon

\* A step of a job is one of the job at the head of the queue.
LEMMA HeadStep ==
    ASSUME TypeOK, HeadOK, [Next]_vars
    PROVE  HeadOK'
<1>1. CASE UNCHANGED vars
  BY <1>1 DEF vars, HeadOK, Running
<1>2. CASE step' = "start"
  BY <1>2 DEF HeadOK
<1>3. CASE step' = step /\ queue' = queue
  BY <1>3 DEF HeadOK, Running
<1>4. ASSUME NEW job \in Jobs, Push(job), step' = step
      PROVE  HeadOK'
  <2>1. Running # "none" => Running' = Running
    BY <1>4, AfterPush
  <2> QED
    BY <1>4, <2>1 DEF HeadOK
<1>5. ASSUME NEW k \in Keys, Get(k)
      PROVE  HeadOK'
  BY <1>3, <1>5 DEF Get
<1>6. ASSUME NEW k \in Keys, NEW p \in Patches, Change(k, p)
      PROVE  HeadOK'
  BY <1>4, <1>6, JobType DEF Change
<1>7. ASSUME NEW k \in Keys, NEW p \in Patches, TxChange(k, p)
      PROVE  HeadOK'
  BY <1>3, <1>7 DEF TxChange
<1>8. CASE Clear
  BY <1>4, <1>8, JobType, ClearProperties DEF Clear
<1>9. CASE PushCompact \/ PushTx \/ PushTxLate
  BY <1>4, <1>9, JobType DEF PushCompact, PushTx, PushTxLate
<1>10. CASE \/ AppendLine \/ AppendShort \/ AppendFails
            \/ SkipCompact \/ WriteFails \/ Truncate \/ Commit \/ Rollback
  BY <1>2, <1>10 DEF AppendLine, AppendShort, AppendFails, SkipCompact, WriteFails, Truncate,
                     Commit, Rollback, Done
<1>11. CASE RotateSerialize
  BY <1>11 DEF RotateSerialize, HeadOK, Running
<1>12. CASE Rename
  BY <1>12 DEF Rename, HeadOK, Running
<1>13. CASE Begin
  BY <1>13 DEF Begin, HeadOK, Running
<1>14. CASE AwaitJob
  <2>1. Running = "tx" /\ Push(CompactJob) /\ step' = "stuck"
    BY <1>14 DEF AwaitJob
  <2>2. Running' = "tx"
    BY <2>1, AfterPush, JobType
  <2> QED
    BY <2>1, <2>2 DEF HeadOK
<1>15. CASE Close \/ Release \/ Open
  BY <1>3, <1>15 DEF Close, Release, Open
<1>16. CASE Exit \/ Crash
  BY <1>2, <1>16 DEF Exit, Crash, Ends
<1>17. ASSUME NEW c \in Calls, Call(c)
       PROVE  HeadOK'
  BY <1>3, <1>17 DEF Call
<1>18. CASE DeleteNothing
  BY <1>3, <1>18 DEF DeleteNothing
<1> QED
  BY <1>1, <1>5, <1>6, <1>7, <1>8, <1>9, <1>10, <1>11, <1>12, <1>13, <1>14, <1>15, <1>16,
     <1>17, <1>18, NextCases, Zenon

\* close waits for what is in the queue, and for nothing else.
LEMMA CloseStep ==
    ASSUME TypeOK, RestOK, CloseOK, [Next]_vars
    PROVE  CloseOK'
<1>1. CASE UNCHANGED vars
  BY <1>1 DEF vars, CloseOK
<1>2. CASE phase' \in {"open", "down"} /\ late' = 0
  BY <1>2 DEF CloseOK
<1>3. CASE UNCHANGED <<phase, queue, awaited, late>>
  BY <1>3 DEF CloseOK
<1>4. ASSUME NEW job \in Jobs, Push(job), UNCHANGED <<phase, awaited>>, phase # "down"
      PROVE  CloseOK'
  <2>1. /\ Len(queue') = Len(queue) + 1
        /\ late' = IF phase = "open" THEN late ELSE late + 1
    BY <1>4, AfterPush
  <2>2. awaited \in Nat /\ late \in Nat /\ Len(queue) \in Nat
    BY DEF TypeOK
  <2> QED
    BY <1>4, <2>1, <2>2 DEF CloseOK
<1>5. ASSUME Running # "none", Done, phase' = phase
      PROVE  CloseOK'
  <2>1. Len(queue) \in Nat /\ Len(queue) # 0 /\ Len(queue') = Len(queue) - 1
    BY <1>5, RunningHead, AfterDone
  <2>2. /\ awaited' = IF awaited > 0 THEN awaited - 1 ELSE 0
        /\ late' = IF late < Len(queue) THEN late ELSE Len(queue) - 1
    BY <1>5 DEF Done
  <2>3. awaited \in Nat /\ late \in Nat
    BY DEF TypeOK
  <2>4. late = 0 => late' = 0
    BY <2>1, <2>2
  <2>5. Len(queue) = awaited + late => Len(queue') = awaited' + late'
    <3>1. CASE awaited > 0
      BY <2>1, <2>2, <2>3, <3>1
    <3>2. CASE awaited = 0
      BY <2>1, <2>2, <2>3, <3>2
    <3> QED
      BY <2>3, <3>1, <3>2
  <2>6. Len(queue) = late => Len(queue') = late'
    BY <2>1, <2>2, <2>3
  <2> QED
    BY <1>5, <2>4, <2>5, <2>6 DEF CloseOK
<1>6. ASSUME NEW k \in Keys, Get(k)
      PROVE  CloseOK'
  BY <1>3, <1>6 DEF Get
<1>7. ASSUME NEW k \in Keys, NEW p \in Patches, Awake, Change(k, p)
      PROVE  CloseOK'
  BY <1>4, <1>7, JobType DEF Change, Awake
<1>8. ASSUME NEW k \in Keys, NEW p \in Patches, TxChange(k, p)
      PROVE  CloseOK'
  BY <1>3, <1>8 DEF TxChange
<1>9. CASE Clear
  BY <1>4, <1>9, JobType, ClearProperties DEF Clear, Awake
<1>10. CASE PushCompact \/ PushTx \/ PushTxLate \/ AwaitJob
  <2>1. phase # "down" /\ UNCHANGED <<phase, awaited>>
    BY <1>10, RunsAwake DEF PushCompact, PushTx, PushTxLate, AwaitJob, Resumes, Awake
  <2> QED
    BY <1>4, <1>10, <2>1, JobType DEF PushCompact, PushTx, PushTxLate, AwaitJob
<1>11. CASE \/ AppendLine \/ AppendShort \/ AppendFails
            \/ SkipCompact \/ WriteFails \/ Truncate \/ Commit \/ Rollback
  BY <1>5, <1>11 DEF AppendLine, AppendShort, AppendFails, SkipCompact, WriteFails, Truncate,
                     Commit, Rollback
<1>12. CASE RotateSerialize \/ Rename \/ Begin
  BY <1>3, <1>12 DEF RotateSerialize, Rename, Begin
<1>13. CASE Close
  <2>1. Len(queue) \in Nat
    BY DEF TypeOK
  <2> QED
    BY <1>13, <2>1 DEF Close, CloseOK
<1>14. CASE Release
  <2>1. awaited = 0 /\ late \in Nat
    BY <1>14 DEF Release, TypeOK
  <2> QED
    BY <1>14, <2>1 DEF Release, CloseOK
<1>15. CASE Open
  BY <1>2, <1>15 DEF Open, CloseOK
<1>16. CASE Exit \/ Crash
  BY <1>2, <1>16, AfterEnds DEF Exit, Crash
<1>17. ASSUME NEW c \in Calls, Call(c)
       PROVE  CloseOK'
  BY <1>3, <1>17 DEF Call
<1>18. CASE DeleteNothing
  BY <1>3, <1>18 DEF DeleteNothing
<1> QED
  BY <1>1, <1>6, <1>7, <1>8, <1>9, <1>10, <1>11, <1>12, <1>13, <1>14, <1>15, <1>16, <1>17,
     <1>18, NextCases, Zenon

\* The cache answers what the store says.
LEMMA CacheStep ==
    ASSUME TypeOK, RestOK, CacheCoherent, [Next]_vars
    PROVE  CacheCoherent'
<1>1. CASE UNCHANGED vars
  BY <1>1 DEF vars, CacheCoherent, View
<1>2. CASE cache' = <<>>
  BY <1>2 DEF CacheCoherent
<1>3. CASE UNCHANGED <<cache, store>>
  BY <1>3 DEF CacheCoherent, View
<1>4. \A i \in DOMAIN cache : cache[i] \in Entries /\ cache[i].view = View(store, cache[i].key)
  BY DEF TypeOK, CacheCoherent
<1>5. ASSUME NEW k \in Keys, Get(k)
      PROVE  CacheCoherent'
  <2>1. PICK e \in Entries : cache' = ToFront(cache, e) /\ e.view = View(store, e.key)
    <3>1. CASE Cached(k) /\ cache' = ToFront(cache, Entry(k))
      <4>1. \E e \in ToSet(cache) : e.key = k
        BY <3>1 DEF Cached, ToSet
      <4>2. Entry(k) \in ToSet(cache)
        BY <4>1 DEF Entry
      <4>3. \A e \in ToSet(cache) : e \in Entries /\ e.view = View(store, e.key)
        BY <1>4 DEF ToSet
      <4> QED
        BY <3>1, <4>2, <4>3
    <3>2. CASE cache' = ToFront(cache, [key |-> k, view |-> View(store, k)])
      <4> DEFINE e == [key |-> k, view |-> View(store, k)]
      <4>1. e \in Entries /\ e.key = k /\ e.view = View(store, k)
        BY EntryType DEF TypeOK
      <4> QED
        BY <3>2, <4>1
    <3> QED
      BY <1>5, <3>1, <3>2 DEF Get
  <2>2. \A i \in DOMAIN cache' : cache'[i] = e \/ \E j \in DOMAIN cache : cache'[i] = cache[j]
    BY <2>1, ToFrontProperties DEF TypeOK
  <2>3. \A i \in DOMAIN cache' : cache'[i].view = View(store, cache'[i].key)
    BY <1>4, <2>1, <2>2
  <2>4. store' = store
    BY <1>5 DEF Get
  <2> QED
    BY <2>3, <2>4 DEF CacheCoherent
<1>6. ASSUME NEW k \in Keys, NEW p, Local(k, p), store' = ApplyPatch(store, p),
             cache' = Invalidated(cache, k)
      PROVE  CacheCoherent'
  <2>1. ASSUME NEW j \in Keys, ~Related(j, k)
        PROVE  View(store', j) = View(store, j)
    <3>1. \A i \in Below(j) : i \in Keys /\ p[i] = Keep
      BY <1>6, <2>1 DEF Local, Below
    <3>2. \A i \in Below(j) : store'[i] = store[i]
      BY <1>6, <3>1 DEF ApplyPatch
    <3> QED
      BY <3>2, SameView
  <2>2. \A i \in DOMAIN cache' :
           \E j \in DOMAIN cache : /\ cache'[i] = cache[j]
                                   /\ cache[j].key \in Keys /\ ~Related(cache[j].key, k)
    BY <1>6, InvalidatedProperties DEF TypeOK
  <2>3. \A i \in DOMAIN cache' : cache'[i].view = View(store', cache'[i].key)
    BY <1>4, <2>1, <2>2
  <2> QED
    BY <2>3 DEF CacheCoherent
<1>7. ASSUME NEW k \in Keys, NEW p \in Patches, Local(k, p), Change(k, p)
      PROVE  CacheCoherent'
  BY <1>6, <1>7 DEF Change
<1>8. ASSUME NEW k \in Keys, NEW p \in Patches, Local(k, p), TxChange(k, p)
      PROVE  CacheCoherent'
  BY <1>6, <1>8 DEF TxChange
<1>9. CASE Clear \/ Rollback \/ Release \/ Exit \/ Crash
  BY <1>2, <1>9 DEF Clear, Rollback, Release, Exit, Crash, Ends
<1>10. CASE PushCompact \/ PushTx \/ PushTxLate \/ DeleteNothing \/ AwaitJob
  BY <1>3, <1>10 DEF PushCompact, PushTx, PushTxLate, DeleteNothing, AwaitJob
<1>11. CASE \/ AppendLine \/ AppendShort \/ AppendFails
            \/ SkipCompact \/ RotateSerialize \/ WriteFails \/ Rename
  BY <1>3, <1>11 DEF AppendLine, AppendShort, AppendFails, SkipCompact, RotateSerialize,
                     WriteFails, Rename
<1>12. CASE Truncate \/ Begin \/ Commit \/ Close
  BY <1>3, <1>12 DEF Truncate, Begin, Commit, Close
<1>13. CASE Open
  BY <1>2, <1>13 DEF Open, RestOK
<1>14. ASSUME NEW c \in Calls, Call(c)
       PROVE  CacheCoherent'
  BY <1>3, <1>14 DEF Call
<1> QED
  BY <1>1, <1>5, <1>7, <1>8, <1>9, <1>10, <1>11, <1>12, <1>13, <1>14, NextCases, Zenon

\* A job that logs nothing leaves the queue.
LEMMA SilentDone ==
    ASSUME TypeOK, Running \in {"compact", "tx"}, Done
    PROVE  /\ Waiting \in Seq(Patches) /\ Waiting' \in Seq(Patches)
           /\ \A s \in Stores : Replay(s, Waiting') = Replay(s, Waiting)
           /\ \A k \in Keys : Hit(Waiting', k) <=> Hit(Waiting, k)
           /\ UNCHANGED <<log, snap>> =>
                 Settled' = Settled /\ \A k \in Keys : Logged(k)' <=> Logged(k)
<1>1. /\ Waiting' \in Seq(Patches) /\ Waiting = <<NoChange>> \o Waiting'
      /\ NoChange \in Patches /\ \A s \in Stores : ApplyPatch(s, NoChange) = s
      /\ \A k \in Keys : NoChange[k] = Keep
  BY AfterDone, RunningHead, NoChangeChangesNothing
<1>2. \A s \in Stores : Replay(s, Waiting') = Replay(s, Waiting)
  BY <1>1, ReplayFirst
<1>3. \A k \in Keys : Hit(Waiting', k) <=> Hit(Waiting, k)
  BY <1>1, ReplayFirst, ClearProperties
<1>4. ASSUME UNCHANGED <<log, snap>>
      PROVE  Settled' = Settled /\ \A k \in Keys : Logged(k)' <=> Logged(k)
  <2>1. Lines' = Lines
    BY <1>4 DEF Lines
  <2>2. Base' = Base
    BY <1>4 DEF Base
  <2>3. Recovered' = Recovered
    BY <2>1, <2>2 DEF Recovered
  <2>4. Settled' = Settled
    BY <1>2, <2>3, SettledTypes DEF Settled
  <2>5. \A k \in Keys : Logged(k)' <=> Logged(k)
    BY <1>3, <2>1 DEF Logged
  <2> QED
    BY <2>4, <2>5
<1> QED
  BY <1>1, <1>2, <1>3, <1>4, SettledTypes

\* A call that is queued with its patch.
LEMMA CallStep ==
    ASSUME TypeOK, SettledOK, NEW job \in Jobs, Push(job),
           store' = ApplyPatch(store, Logs(job)),
           UNCHANGED <<content, log, snap, phase, loose, rotated>>,
           step' = step \/ step' = "stuck"
    PROVE  SettledOK'
<1> DEFINE p == Logs(job)
<1>1. /\ Waiting' = Append(Waiting, p) /\ p \in Patches /\ Lines' = Lines /\ Base' = Base
  BY AfterPush, JobType DEF Lines, Base
<1>2. Recovered' = Recovered
  BY <1>1 DEF Recovered
<1>3. /\ Settled' = ApplyPatch(Settled, p)
      /\ \A k \in Keys : Hit(Waiting', k) <=> Hit(Waiting, k) \/ p[k] # Keep
  <2> HIDE DEF p
  <2>1. Settled' = Replay(Recovered, Append(Waiting, p))
    BY <1>1, <1>2 DEF Settled
  <2> QED
    BY <1>1, <2>1, SettledTypes, ReplayLast
<1> HIDE DEF p
<1>4. ASSUME NEW k \in Keys
      PROVE  /\ store'[k] = IF p[k] = Keep THEN store[k] ELSE p[k]
             /\ Settled'[k] = IF p[k] = Keep THEN Settled[k] ELSE p[k]
             /\ p[k] = Keep => (Logged(k)' <=> Logged(k))
  BY <1>1, <1>3 DEF ApplyPatch, Logged, p
<1>5. phase' # "down" =>
         \A k \in Keys \ loose' : ~rotated' \/ Logged(k)' => Settled'[k] = store'[k]
  BY <1>4 DEF SettledOK
<1>6. step' = "rotated" => \A k \in Keys : Hit(Waiting', k) \/ content'[k] = store'[k]
  BY <1>3, <1>4 DEF SettledOK
<1>7. step' = "renamed" =>
         snap' \in Stores /\ \A k \in Keys : Hit(Waiting', k) \/ snap'[k] = store'[k]
  BY <1>3, <1>4 DEF SettledOK
<1> QED
  BY <1>5, <1>6, <1>7 DEF SettledOK

\* A write that leaves a piece of the patch x in the log, at a key of which the
\* piece says what x does and that is not spoilt by a line without its newline:
\* the log has x there.
LEMMA PieceStep ==
    ASSUME TypeOK, NEW x \in Patches, NEW e \in Pieces, log' = Append(log, e),
           NEW k \in Keys, k \notin Spoilt(x), e.patch[k] = x[k]
    PROVE  /\ Lines' \in Seq(Patches)
           /\ \A s \in Stores : Replay(s, Lines')[k] = ApplyPatch(Replay(s, Lines), x)[k]
           /\ Hit(Lines', k) <=> Hit(Lines, k) \/ x[k] # Keep
<1> DEFINE n == Len(log)
           z == IF Unended THEN NoChange ELSE e.patch
           w == Append(Lines, z)
<1>1. /\ Lines \in Seq(Patches) /\ Len(Lines) = n /\ n \in Nat
      /\ Lines' = LinesOf(Append(log, e)) /\ Lines = LinesOf(log)
  <2>1. Lines' = LinesOf(log')
    BY DEF Lines, LinesOf
  <2> QED
    BY <2>1, LinesType, StateNames DEF TypeOK
<1>2. /\ Lines' \in Seq(Patches) /\ Len(Lines') = n + 1 /\ Lines'[n + 1] = z
      /\ \A i \in 1..n : Lines'[i] = IF i = n /\ Unended THEN NoChange ELSE Lines[i]
  BY <1>1, LinesAppend, StateNames DEF TypeOK
<1>3. z \in Patches /\ \A j \in Keys : NoChange[j] = Keep
  BY NoChangeChangesNothing DEF Pieces
<1>4. ASSUME Unended
      PROVE  Lines[n][k] = Keep /\ x[k] = Keep /\ n # 0
  <2>1. k \notin Touched(Lines[n]) /\ k \notin Touched(x)
    BY <1>4 DEF Spoilt
  <2>2. n # 0
    BY <1>4 DEF Unended, TypeOK
  <2> QED
    BY <2>1, <2>2 DEF Touched
<1>5. z[k] = x[k]
  BY <1>3, <1>4
<1> HIDE DEF n, z
<1>6. w \in Seq(Patches) /\ Len(w) = n + 1 /\ w[n + 1] = z /\ \A i \in 1..n : w[i] = Lines[i]
  BY <1>1, <1>3
<1> HIDE DEF w
<1>7. ASSUME NEW i \in DOMAIN Lines'
      PROVE  Lines'[i][k] = w[i][k]
  <2>1. i \in 1..n \/ i = n + 1
    BY <1>1, <1>2
  <2>2. CASE i = n + 1
    BY <1>2, <1>6, <2>2
  <2>3. CASE i \in 1..n
    BY <1>2, <1>3, <1>4, <1>6, <2>3
  <2> QED
    BY <2>1, <2>2, <2>3
<1>8. /\ \A s : Replay(s, Lines')[k] = Replay(s, w)[k]
      /\ Hit(Lines', k) <=> Hit(w, k)
  BY <1>2, <1>6, <1>7, ReplayColumn
<1>9. /\ \A s \in Stores : Replay(s, w) = ApplyPatch(Replay(s, Lines), z)
      /\ Hit(w, k) <=> Hit(Lines, k) \/ z[k] # Keep
  <2>1. EmptyStore \in Stores
    BY ClearProperties
  <2> QED
    BY <1>1, <1>3, <2>1, ReplayLast DEF w
<1>10. \A s : ApplyPatch(s, z)[k] = ApplyPatch(s, x)[k]
  BY <1>5 DEF ApplyPatch
<1> QED
  BY <1>2, <1>5, <1>8, <1>9, <1>10

\* An append leaves the queue for the log, or for nowhere.
LEMMA AppendStep ==
    ASSUME TypeOK, SettledOK, phase # "down", AppendLine \/ AppendShort \/ AppendFails
    PROVE  SettledOK'
<1> DEFINE x == queue[1].patch
<1>1. Running = "append" /\ Done
  BY DEF AppendLine, AppendShort, AppendFails
<1>2. /\ x \in Patches /\ Waiting' \in Seq(Patches) /\ Waiting = <<x>> \o Waiting'
      /\ step' = "start"
  BY <1>1, RunningHead, AfterDone
<1>3. /\ Base' = Base /\ UNCHANGED <<store, phase, rotated>>
      /\ loose \subseteq loose'
  BY DEF AppendLine, AppendShort, AppendFails, Base
<1>4. \/ \E e \in Pieces : /\ log' = Append(log, e)
                           /\ \A k \in Keys \ loose' : k \notin Spoilt(x) /\ e.patch[k] = x[k]
      \/ log' = log /\ \A k \in Keys \ loose' : x[k] = Keep
  <2>1. /\ {Line(x), BareLine(x), CutLine} \subseteq Pieces
        /\ Line(x).patch = x /\ BareLine(x).patch = x /\ CutLine.patch = NoChange
    BY <1>2, NoChangeChangesNothing DEF Line, BareLine, CutLine, Pieces
  <2>2. \A k \in Keys : k \notin Touched(x) => x[k] = Keep /\ NoChange[k] = Keep
    BY NoChangeChangesNothing DEF Touched
  <2>3. CASE AppendLine
    BY <2>1, <2>3 DEF AppendLine
  <2>4. CASE AppendShort
    BY <2>1, <2>2, <2>4 DEF AppendShort
  <2>5. CASE AppendFails
    BY <2>2, <2>5 DEF AppendFails
  <2> QED
    BY <2>3, <2>4, <2>5
<1> HIDE DEF x
<1>5. /\ Recovered' = Replay(Base, Lines') /\ Recovered = Replay(Base, Lines)
      /\ Settled' = Replay(Recovered', Waiting') /\ Settled = Replay(Recovered, Waiting)
      /\ Base \in Stores /\ Recovered \in Stores /\ Lines \in Seq(Patches)
  BY <1>3, SettledTypes DEF Recovered, Settled
<1>6. \A k \in Keys : Hit(Waiting, k) <=> x[k] # Keep \/ Hit(Waiting', k)
  BY <1>2, <1>5, ReplayFirst
<1>7. ASSUME NEW k \in Keys \ loose'
      PROVE  /\ Recovered'[k] = ApplyPatch(Recovered, x)[k]
             /\ Hit(Lines', k) <=> Hit(Lines, k) \/ x[k] # Keep
  <2>1. ASSUME NEW e \in Pieces, log' = Append(log, e), k \notin Spoilt(x), e.patch[k] = x[k]
        PROVE  /\ Recovered'[k] = ApplyPatch(Recovered, x)[k]
               /\ Hit(Lines', k) <=> Hit(Lines, k) \/ x[k] # Keep
    BY <1>2, <1>5, <2>1, PieceStep
  <2>2. ASSUME log' = log, x[k] = Keep
        PROVE  /\ Recovered'[k] = ApplyPatch(Recovered, x)[k]
               /\ Hit(Lines', k) <=> Hit(Lines, k) \/ x[k] # Keep
    <3>1. Lines' = Lines
      BY <2>2 DEF Lines
    <3> QED
      BY <1>5, <2>2, <3>1 DEF ApplyPatch
  <2> QED
    BY <1>4, <2>1, <2>2
<1>8. ASSUME NEW k \in Keys \ loose'
      PROVE  k \notin loose /\ Settled'[k] = Settled[k] /\ (Logged(k)' => Logged(k))
  <2>1. Settled'[k] = Settled[k]
    BY <1>2, <1>5, <1>7, QueueMoves
  <2>2. Logged(k)' => Logged(k)
    BY <1>6, <1>7 DEF Logged
  <2> QED
    BY <1>3, <2>1, <2>2
<1> QED
  BY <1>2, <1>3, <1>8 DEF SettledOK

\* A snapshot leaves or comes: what the lines and the queue touch does not
\* depend on it, and the rest does on nothing else.
LEMMA SnapshotStep ==
    ASSUME TypeOK, SettledOK, phase # "down", snap' \in Stores \cup {NoFile},
           UNCHANGED <<store, queue, log, phase, loose>>
    PROVE  \A k \in Keys \ loose :
              /\ Logged(k)' => Settled'[k] = store'[k]
              /\ ~Logged(k)' => Settled'[k] = Base'[k]
<1>1. Lines' = Lines /\ Waiting' = Waiting
  BY DEF Lines, Waiting
<1>2. Base' \in Stores
  BY ClearProperties DEF Base
<1>3. /\ Settled' = Replay(Replay(Base', Lines), Waiting)
      /\ Settled = Replay(Replay(Base, Lines), Waiting)
      /\ Lines \in Seq(Patches) /\ Waiting \in Seq(Patches) /\ Base \in Stores
  BY <1>1, SettledTypes DEF Settled, Recovered
<1>4. ASSUME NEW k \in Keys \ loose
      PROVE  /\ Logged(k)' => Settled'[k] = store'[k]
             /\ ~Logged(k)' => Settled'[k] = Base'[k]
  <2>1. Logged(k)' <=> Hit(Lines, k) \/ Hit(Waiting, k)
    BY <1>1 DEF Logged
  <2>2. CASE Logged(k)'
    <3>1. Settled'[k] = Settled[k]
      BY <1>2, <1>3, <2>1, <2>2, SettledFrom
    <3>2. Settled[k] = store[k]
      BY <2>1, <2>2 DEF SettledOK, Logged
    <3> QED
      BY <2>2, <3>1, <3>2
  <2>3. CASE ~Logged(k)'
    BY <1>2, <1>3, <2>1, <2>3, SettledFrom
  <2> QED
    BY <2>2, <2>3
<1> QED
  BY <1>4

\* The log is emptied: the snapshot that was just renamed has the store, where
\* no append is queued.
LEMMA TruncateStep ==
    ASSUME TypeOK, SettledOK, phase # "down", Truncate
    PROVE  SettledOK'
<1>1. /\ Running = "compact" /\ step = "renamed" /\ Done /\ log' = <<>>
      /\ UNCHANGED <<store, snap, phase, rotated>>
      /\ loose' = {k \in loose : Hit(Waiting, k)}
  BY DEF Truncate
<1>2. step' = "start"
  BY <1>1 DEF Done
<1>3. snap \in Stores /\ \A k \in Keys : Hit(Waiting, k) \/ snap[k] = store[k]
  BY <1>1 DEF SettledOK
<1>4. Base = snap /\ Base' = snap
  BY <1>1, <1>3, FallbackAssumption DEF Base
<1>5. Lines' = <<>>
  BY <1>1 DEF Lines
<1>6. Recovered' = snap /\ \A k \in Keys : ~Hit(Lines', k)
  <2>1. Recovered' = Replay(snap, <<>>)
    BY <1>4, <1>5 DEF Recovered
  <2>2. \A k \in Keys : ~Hit(<<>>, k)
    BY DEF Hit
  <2> QED
    BY <1>3, <1>5, <2>1, <2>2, ReplayEmpty
<1>7. /\ Waiting \in Seq(Patches) /\ Waiting' \in Seq(Patches)
      /\ \A s \in Stores : Replay(s, Waiting') = Replay(s, Waiting)
      /\ \A k \in Keys : Hit(Waiting', k) <=> Hit(Waiting, k)
  BY <1>1, SilentDone
<1>8. Settled' = Replay(snap, Waiting) /\ Settled = Replay(Recovered, Waiting) /\ Recovered \in Stores
  BY <1>3, <1>6, <1>7, SettledTypes DEF Settled
<1>9. ASSUME NEW k \in Keys \ loose'
      PROVE  ~rotated' \/ Logged(k)' => Settled'[k] = store'[k]
  <2>1. CASE Hit(Waiting, k)
    <3>1. k \notin loose /\ Logged(k)
      BY <1>1, <2>1 DEF Logged
    <3>2. Settled[k] = store[k]
      BY <3>1 DEF SettledOK
    <3>3. Settled'[k] = Settled[k]
      BY <1>3, <1>7, <1>8, <2>1, ReplayKey
    <3> QED
      BY <1>1, <3>2, <3>3
  <2>2. CASE ~Hit(Waiting, k)
    <3>1. Settled'[k] = snap[k]
      BY <1>3, <1>7, <1>8, <2>2, ReplayAt
    <3> QED
      BY <1>1, <1>3, <2>2, <3>1
  <2> QED
    BY <2>1, <2>2
<1> QED
  BY <1>2, <1>9 DEF SettledOK

\* The files and the queue account for the store, at every step of a job.
LEMMA SettledStep ==
    ASSUME TypeOK, RestOK, SettledOK, [Next]_vars
    PROVE  SettledOK'
<1>1. CASE UNCHANGED vars
  <2>1. /\ Settled' = Settled /\ Waiting' = Waiting /\ \A k : Logged(k)' = Logged(k)
        /\ UNCHANGED <<store, content, snap, step, phase, loose, rotated>>
    BY <1>1, SettledFrame DEF vars
  <2> QED
    BY <2>1 DEF SettledOK
<1>2. ASSUME phase # "down", UNCHANGED <<log, queue, snap, store, rotated>>,
             loose \subseteq loose',
             step' \in {"start", "open"} \/ UNCHANGED <<step, content>>
      PROVE  SettledOK'
  <2>1. Settled' = Settled /\ Waiting' = Waiting /\ \A k : Logged(k)' = Logged(k)
    BY <1>2, SettledFrame
  <2> QED
    BY <1>2, <2>1 DEF SettledOK
<1>3. CASE phase' = "down" /\ step' = "start"
  BY <1>3 DEF SettledOK
<1>4. ASSUME NEW k \in Keys, Get(k)
      PROVE  SettledOK'
  BY <1>2, <1>4 DEF Get
<1>5. ASSUME NEW k \in Keys, NEW p \in Patches, Change(k, p)
      PROVE  SettledOK'
  <2>1. AppendJob(p) \in Jobs /\ Logs(AppendJob(p)) = p
    BY JobType
  <2> QED
    BY <1>5, <2>1, CallStep DEF Change
<1>6. ASSUME NEW k \in Keys, NEW p \in Patches, TxChange(k, p)
      PROVE  SettledOK'
  <2>1. Settled' = Settled /\ \A j : Logged(j)' = Logged(j)
    BY <1>6, SettledFrame DEF TxChange
  <2>2. \A j \in Keys \ loose' : j \notin loose /\ store'[j] = store[j]
    BY <1>6 DEF TxChange, Touched, ApplyPatch
  <2>3. UNCHANGED <<phase, rotated>> /\ step = "open" /\ step' = "open" /\ phase # "down"
    BY <1>6, RunsAwake DEF TxChange
  <2> QED
    BY <2>1, <2>2, <2>3 DEF SettledOK
<1>7. CASE Clear
  <2>1. /\ AppendJob(ClearFrame) \in Jobs /\ Logs(AppendJob(ClearFrame)) = ClearFrame
        /\ ApplyPatch(store, ClearFrame) = EmptyStore
    BY JobType, ClearProperties DEF TypeOK
  <2> QED
    BY <1>7, <2>1, CallStep DEF Clear
<1>8. CASE PushCompact \/ PushTx \/ PushTxLate \/ AwaitJob
  <2>1. PICK job \in Jobs : Push(job) /\ Logs(job) = NoChange
    BY <1>8, JobType DEF PushCompact, PushTx, PushTxLate, AwaitJob
  <2>2. store' = ApplyPatch(store, Logs(job))
    BY <1>8, <2>1, NoChangeChangesNothing DEF PushCompact, PushTx, PushTxLate, AwaitJob, TypeOK
  <2> QED
    BY <1>8, <2>1, <2>2, CallStep DEF PushCompact, PushTx, PushTxLate, AwaitJob
<1>9. CASE AppendLine \/ AppendShort \/ AppendFails
  BY <1>9, AppendStep, RunsAwake DEF AppendLine, AppendShort, AppendFails
<1>10. CASE SkipCompact \/ WriteFails \/ Commit
  <2>1. /\ Running \in {"compact", "tx"} /\ Done /\ phase # "down"
        /\ UNCHANGED <<log, snap, store, phase, loose, rotated>>
    BY <1>10, RunsAwake DEF SkipCompact, WriteFails, Commit
  <2>2. Settled' = Settled /\ \A k \in Keys : Logged(k)' <=> Logged(k)
    BY <2>1, SilentDone
  <2>3. step' = "start"
    BY <2>1 DEF Done
  <2> QED
    BY <2>1, <2>2, <2>3 DEF SettledOK
<1>11. CASE RotateSerialize
  <2>1. /\ phase # "down" /\ snap' = NoFile /\ content' = store /\ step' = "rotated"
        /\ UNCHANGED <<store, queue, log, phase, loose>>
    BY <1>11 DEF RotateSerialize
  <2>2. \A k \in Keys \ loose : Logged(k)' => Settled'[k] = store'[k]
    BY <2>1, SnapshotStep
  <2>3. CASE rotated'
    BY <2>1, <2>2, <2>3 DEF SettledOK
  <2>4. CASE ~rotated'
    <3>1. ~rotated /\ snap = NoFile
      BY <1>11, <2>4 DEF RotateSerialize
    <3>2. Settled' = Settled
      BY <2>1, <3>1, SettledFrame
    <3>3. \A k \in Keys \ loose : Settled'[k] = store'[k]
      BY <2>1, <3>1, <3>2 DEF SettledOK
    <3> QED
      BY <2>1, <3>3 DEF SettledOK
  <2> QED
    BY <2>3, <2>4
<1>12. CASE Rename
  <2>1. /\ phase # "down" /\ snap' = content /\ step = "rotated" /\ step' = "renamed"
        /\ UNCHANGED <<store, queue, log, phase, loose>> /\ content \in Stores
    BY <1>12, RunsAwake DEF Rename, TypeOK
  <2>2. \A k \in Keys \ loose : /\ Logged(k)' => Settled'[k] = store'[k]
                                /\ ~Logged(k)' => Settled'[k] = Base'[k]
    BY <2>1, SnapshotStep
  <2>3. Base' = content
    BY <2>1, FallbackAssumption DEF Base
  <2>4. Waiting' = Waiting
    BY <2>1 DEF Waiting
  <2>5. \A k \in Keys : Hit(Waiting', k) \/ content[k] = store'[k]
    BY <2>1, <2>4 DEF SettledOK
  <2>6. \A k \in Keys \ loose' : Settled'[k] = store'[k]
    BY <2>1, <2>2, <2>3, <2>5 DEF Logged
  <2> QED
    BY <2>1, <2>5, <2>6 DEF SettledOK
<1>13. CASE Truncate
  BY <1>13, TruncateStep, RunsAwake DEF Truncate
<1>14. CASE Begin
  BY <1>2, <1>14, RunsAwake DEF Begin
<1>15. CASE Rollback
  <2>1. /\ Running \in {"compact", "tx"} /\ Done /\ phase # "down"
        /\ UNCHANGED <<log, snap, phase, rotated>>
    BY <1>15, RunsAwake DEF Rollback
  <2>2. Settled' = Settled /\ \A k \in Keys : Logged(k)' <=> Logged(k)
    BY <2>1, SilentDone
  <2>3. \A k \in Keys \ loose' : k \notin loose /\ store'[k] = store[k]
    BY <1>15 DEF Rollback
  <2>4. step' = "start"
    BY <2>1 DEF Done
  <2> QED
    BY <2>1, <2>2, <2>3, <2>4 DEF SettledOK
<1>16. CASE Close \/ Release
  BY <1>2, <1>16 DEF Close, Release
<1>17. CASE Exit \/ Crash
  BY <1>3, <1>17 DEF Exit, Crash, Ends
<1>18. CASE Open
  <2>1. /\ store' = Recovered /\ queue = <<>> /\ step' = "start"
        /\ UNCHANGED <<log, queue, snap>>
    BY <1>18 DEF Open, RestOK
  <2>2. Waiting = <<>>
    BY <2>1 DEF Waiting
  <2>3. Settled = Recovered
    BY <2>2, SettledTypes, ReplayEmpty
  <2>4. Settled' = store'
    BY <2>1, <2>3, SettledFrame
  <2> QED
    BY <2>1, <2>4 DEF SettledOK
<1>19. ASSUME NEW c \in Calls, Call(c)
       PROVE  SettledOK'
  BY <1>2, <1>19 DEF Call
<1>20. CASE DeleteNothing
  BY <1>2, <1>20 DEF DeleteNothing, Resumes, Awake
<1> QED
  BY <1>1, <1>4, <1>5, <1>6, <1>7, <1>8, <1>9, <1>10, <1>11, <1>12, <1>13, <1>14, <1>15,
     <1>16, <1>17, <1>18, <1>19, <1>20, NextCases, Zenon

-----------------------------------------------------------------------------
(* The theorems.                                                           *)

\* At every step of every job, with calls, failures, crashes and restarts in
\* between, the files and the queue account for the store, the cache for what
\* the store says, and close for what is in the queue (engine.js,
\* write-queue.js, lru-cache.js).
THEOREM FallbackInvariant == Spec => []FallbackInv
<1>1. Init => FallbackInv
  BY InitOK
<1>2. FallbackInv /\ [Next]_vars => FallbackInv'
  BY TypeStep, RestStep, HeadStep, SettledStep, CloseStep, CacheStep DEF FallbackInv
<1> QED
  BY <1>1, <1>2, PTL DEF Spec

\* Every variable of the JavaScript engine has its type: the cache never holds
\* more than maxCacheSize entries (LRUCache.set).
THEOREM FallbackTypes == Spec => []TypeOK
<1>1. FallbackInv => TypeOK
  BY DEF FallbackInv
<1> QED
  BY <1>1, FallbackInvariant, PTL

\* A read from the cache answers what the store says, after changes above and
\* below the key, in and out of transactions, and rollbacks
\* (LRUCache.invalidate, Engine.transaction).
THEOREM CacheStaysCoherent == Spec => []CacheCoherent
<1>1. FallbackInv => CacheCoherent
  BY DEF FallbackInv
<1> QED
  BY <1>1, FallbackInvariant, PTL

\* The snapshot, the log and the queued appends make up the store, at every
\* step of a compaction among calls (Engine._compact, WALWriter.append,
\* Engine._replayWAL), but for the keys of transactions and rollbacks, of appends
\* that failed or were written short, of a last line that lacks its newline and
\* the append that runs into it, and while the snapshot is in the backups.
THEOREM NothingGoesMissing == Spec => []NothingMissing
<1>1. FallbackInv => NothingMissing
  BY DEF FallbackInv, SettledOK, NothingMissing
<1> QED
  BY <1>1, FallbackInvariant, PTL

\* When close has released the lock, every job that was queued when it was called
\* has run: what is left was pushed later, by calls made after it or by a delete
\* or a transaction that then waited to begin (Engine.close, WriteQueue.flush).
THEOREM ClosedIsQuiet == Spec => []QuietWhenClosed
<1>1. FallbackInv => QuietWhenClosed
  BY DEF FallbackInv, CloseOK, QuietWhenClosed
<1> QED
  BY <1>1, FallbackInvariant, PTL
=============================================================================
