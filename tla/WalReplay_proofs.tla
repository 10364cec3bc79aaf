-------------------------- MODULE WalReplay_proofs --------------------------
(***************************************************************************)
(* What replaying a log does, for logs of any length and any set of keys.  *)
(***************************************************************************)
EXTENDS WalReplay, TLAPS, WellFoundedInduction


\* A non-empty set of positions has a last one.
LEMMA HasLast ==
    ASSUME NEW n \in Nat, NEW I \in SUBSET (1..n), I # {}
    PROVE  \E m \in I : \A j \in I : j <= m
<1> DEFINE T == {n - x : x \in I}
<1>1. T \subseteq Nat /\ T # {}
  <2>1. PICK x0 \in I : TRUE
    OBVIOUS
  <2>2. n - x0 \in T
    BY <2>1
  <2>3. T \subseteq Nat
    BY SMT
  <2> QED
    BY <2>2, <2>3
<1>2. IsWellFoundedOn(OpToRel(<, Nat), Nat)
  BY NatLessThanWellFounded
<1>3. PICK t \in T : \A y \in T : ~(<<y, t>> \in OpToRel(<, Nat))
  <2> HIDE DEF T
  <2> QED
    BY <1>1, <1>2, WFMin, Zenon
<1>4. \A y \in T : ~(y < t)
  <2> HIDE DEF T
  <2> QED
    BY <1>1, <1>3 DEF OpToRel
<1>5. PICK m \in I : t = n - m
  BY <1>3
<1>6. \A x \in I : x <= m
  <2> TAKE x \in I
  <2>1. n - x \in T
    OBVIOUS
  <2>2. ~((n - x) < (n - m))
    BY <1>4, <1>5, <2>1
  <2> QED
    BY <2>2
<1> QED
  BY <1>6

LEMMA LatestIsLast ==
    ASSUME NEW n \in Nat, NEW I \in SUBSET (1..n), I # {}
    PROVE  Latest(I) \in I /\ \A j \in I : j <= Latest(I)
BY HasLast DEF Latest

\* Only one position of a set is its last.
LEMMA LatestUnique ==
    ASSUME NEW n \in Nat, NEW I \in SUBSET (1..n), NEW m \in I,
           \A j \in I : j <= m
    PROVE  Latest(I) = m
<1>1. Latest(I) \in I /\ \A j \in I : j <= Latest(I)
  BY LatestIsLast
<1>2. Latest(I) <= m /\ m <= Latest(I)
  BY <1>1
<1>3. \A x \in I : x \in Nat
  OBVIOUS
<1>4. Latest(I) \in Nat /\ m \in Nat
  BY <1>1, <1>3
<1> QED
  BY <1>2, <1>4

\* A log without torn frames is read to its end.
LEMMA ReadableAll ==
    ASSUME NEW w \in Seq(Patches)
    PROVE  Readable(w) = DOMAIN w
<1>1. \A i \in DOMAIN w : w[i] # Torn
  BY ReplayAssumption DEF Patches
<1>2. \A i \in DOMAIN w : \A j \in 1..i : j \in DOMAIN w
  OBVIOUS
<1> QED
  BY <1>1, <1>2 DEF Readable

\* What replay leaves at a key: the value of the last frame that touches it,
\* or what was there.
LEMMA ReplayAt ==
    ASSUME NEW s, NEW w \in Seq(Patches), NEW k \in Keys
    PROVE  /\ ~Hit(w, k) => Replay(s, w)[k] = s[k]
           /\ \A m \in DOMAIN w :
                 /\ w[m][k] # Keep
                 /\ \A j \in DOMAIN w : w[j][k] # Keep => j <= m
                 => Replay(s, w)[k] = w[m][k]
           /\ Hit(w, k) => \E m \in DOMAIN w :
                 /\ w[m][k] # Keep
                 /\ \A j \in DOMAIN w : w[j][k] # Keep => j <= m
<1> DEFINE hits == {i \in DOMAIN w : w[i][k] # Keep}
<1>1. Readable(w) = DOMAIN w
  BY ReadableAll
<1>2. Replay(s, w)[k] = IF hits = {} THEN s[k] ELSE w[Latest(hits)][k]
  BY <1>1 DEF Replay, Overlay
<1>3. Len(w) \in Nat /\ hits \in SUBSET (1..Len(w))
  OBVIOUS
<1>4. Hit(w, k) <=> hits # {}
  BY DEF Hit
<1>5. ASSUME NEW m \in DOMAIN w, w[m][k] # Keep,
             \A j \in DOMAIN w : w[j][k] # Keep => j <= m
      PROVE  Replay(s, w)[k] = w[m][k]
  <2>1. m \in hits /\ \A j \in hits : j <= m
    BY <1>5
  <2>2. Latest(hits) = m
    <3> HIDE DEF hits
    <3> QED
      BY <1>3, <2>1, LatestUnique
  <2> QED
    BY <1>2, <2>1, <2>2
<1>6. hits # {} => \E m \in hits : \A j \in hits : j <= m
  <2> HIDE DEF hits
  <2> QED
    BY <1>3, HasLast
<1> QED
  BY <1>2, <1>4, <1>5, <1>6

\* Overlaying patches on a map gives a map, whichever patches are taken.
LEMMA OverlayType ==
    ASSUME NEW s \in Stores, NEW w, NEW n \in Nat, NEW I \in SUBSET (1..n),
           \A i \in I : w[i] \in Patches
    PROVE  Overlay(s, w, I) \in Stores
<1>1. ASSUME NEW k \in Keys
      PROVE  Overlay(s, w, I)[k] \in Values \cup {Absent}
  <2> DEFINE hits == {i \in I : w[i][k] # Keep}
  <2>1. Overlay(s, w, I)[k] = IF hits = {} THEN s[k] ELSE w[Latest(hits)][k]
    BY DEF Overlay
  <2>2. CASE hits = {}
    BY <2>1, <2>2 DEF Stores
  <2>3. CASE hits # {}
    <3>1. hits \in SUBSET (1..n)
      OBVIOUS
    <3>2. Latest(hits) \in hits
      <4> HIDE DEF hits
      <4> QED
        BY <2>3, <3>1, LatestIsLast
    <3>3. Latest(hits) \in I /\ w[Latest(hits)][k] # Keep
      BY <3>2
    <3> QED
      BY <2>1, <2>3, <3>3 DEF Patches
  <2> QED
    BY <2>2, <2>3
<1>2. Overlay(s, w, I) = [k \in Keys |-> Overlay(s, w, I)[k]]
  BY DEF Overlay
<1> QED
  BY <1>1, <1>2 DEF Stores

LEMMA ReplayType ==
    ASSUME NEW s \in Stores, NEW w \in Seq(Patches \cup {Torn})
    PROVE  Replay(s, w) \in Stores
<1>1. Readable(w) \in SUBSET (1..Len(w))
  BY DEF Readable
<1>2. \A i \in Readable(w) : w[i] # Torn /\ w[i] \in Patches \cup {Torn}
  BY DEF Readable
<1>3. \A i \in Readable(w) : w[i] \in Patches
  BY <1>2
<1>4. Len(w) \in Nat
  OBVIOUS
<1>5. Overlay(s, w, Readable(w)) \in Stores
  BY <1>1, <1>3, <1>4, OverlayType
<1> QED
  BY <1>5 DEF Replay

\* Replay looks at the map below only where no frame touches a key.
LEMMA ReplayAgrees ==
    ASSUME NEW s, NEW t, NEW w \in Seq(Patches),
           \A k \in Keys : Hit(w, k) \/ s[k] = t[k]
    PROVE  Replay(s, w) = Replay(t, w)
<1>1. ASSUME NEW k \in Keys
      PROVE  Replay(s, w)[k] = Replay(t, w)[k]
  <2>1. CASE Hit(w, k)
    <3>1. PICK m \in DOMAIN w : /\ w[m][k] # Keep
                                /\ \A j \in DOMAIN w : w[j][k] # Keep => j <= m
      BY <2>1, ReplayAt
    <3>2. Replay(s, w)[k] = w[m][k]
      BY <3>1, ReplayAt
    <3>3. Replay(t, w)[k] = w[m][k]
      BY <3>1, ReplayAt
    <3> QED
      BY <3>2, <3>3
  <2>2. CASE ~Hit(w, k)
    BY <2>2, ReplayAt
  <2> QED
    BY <2>1, <2>2
<1>2. /\ Replay(s, w) = [k \in Keys |-> Replay(s, w)[k]]
      /\ Replay(t, w) = [k \in Keys |-> Replay(t, w)[k]]
  BY DEF Replay, Overlay
<1> QED
  BY <1>1, <1>2

\* Replaying a log over the map it already produced changes nothing: the crash
\* between the rename of a snapshot and the reset of the log is harmless
\* (engine.rs, compact_legacy).
THEOREM ReplayIdempotent ==
    ASSUME NEW s \in Stores, NEW w \in Seq(Patches)
    PROVE  Replay(Replay(s, w), w) = Replay(s, w)
<1>1. \A k \in Keys : Hit(w, k) \/ Replay(s, w)[k] = s[k]
  BY ReplayAt
<1> DEFINE r == Replay(s, w)
<1>2. \A k \in Keys : Hit(w, k) \/ r[k] = s[k]
  BY <1>1
<1> QED
  <2> HIDE DEF r
  <2>1. Replay(r, w) = Replay(s, w)
    BY <1>2, ReplayAgrees
  <2> QED
    BY <2>1 DEF r

\* Logging a frame at the end has the effect of applying it to the map that the
\* log stood for.
THEOREM ReplayAppend ==
    ASSUME NEW s \in Stores, NEW w \in Seq(Patches), NEW f \in Patches
    PROVE  Replay(s, Append(w, f)) = ApplyPatch(Replay(s, w), f)
<1> DEFINE v == Append(w, f)
<1>1. v \in Seq(Patches) /\ Len(v) = Len(w) + 1 /\ v[Len(w) + 1] = f
  OBVIOUS
<1>2. \A i \in DOMAIN w : i \in DOMAIN v /\ v[i] = w[i]
  OBVIOUS
<1>3. \A i \in DOMAIN v : i \in DOMAIN w \/ i = Len(w) + 1
  OBVIOUS
<1>4. ASSUME NEW k \in Keys
      PROVE  Replay(s, v)[k] = ApplyPatch(Replay(s, w), f)[k]
  <2> HIDE DEF v
  <2>1. CASE f[k] # Keep
    <3>1. Len(w) + 1 \in DOMAIN v /\ \A j \in DOMAIN v : j <= Len(w) + 1
      BY <1>1
    <3>2. Replay(s, v)[k] = v[Len(w) + 1][k]
      BY <1>1, <2>1, <3>1, ReplayAt
    <3> QED
      BY <1>1, <2>1, <3>2 DEF ApplyPatch
  <2>2. CASE f[k] = Keep /\ ~Hit(w, k)
    <3>1. ~Hit(v, k)
      BY <1>1, <1>2, <1>3, <2>2 DEF Hit
    <3>2. Replay(s, v)[k] = s[k]
      BY <1>1, <3>1, ReplayAt
    <3>3. Replay(s, w)[k] = s[k]
      BY <2>2, ReplayAt
    <3> QED
      BY <2>2, <3>2, <3>3 DEF ApplyPatch
  <2>3. CASE f[k] = Keep /\ Hit(w, k)
    <3>1. PICK m \in DOMAIN w : /\ w[m][k] # Keep
                                /\ \A j \in DOMAIN w : w[j][k] # Keep => j <= m
      BY <2>3, ReplayAt
    <3>2. Replay(s, w)[k] = w[m][k]
      BY <3>1, ReplayAt
    <3>3. m \in DOMAIN v /\ v[m] = w[m]
      BY <1>2
    <3>4. \A j \in DOMAIN v : v[j][k] # Keep => j <= m
      BY <1>1, <1>2, <1>3, <2>3, <3>1
    <3>5. Replay(s, v)[k] = v[m][k]
      BY <1>1, <3>1, <3>3, <3>4, ReplayAt
    <3> QED
      BY <2>3, <3>2, <3>3, <3>5 DEF ApplyPatch
  <2> QED
    BY <2>1, <2>2, <2>3
<1>5. /\ Replay(s, v) = [k \in Keys |-> Replay(s, v)[k]]
      /\ ApplyPatch(Replay(s, w), f) = [k \in Keys |-> ApplyPatch(Replay(s, w), f)[k]]
  BY DEF Replay, Overlay, ApplyPatch
<1> QED
  BY <1>4, <1>5

LEMMA ReplayEmpty ==
    ASSUME NEW s \in Stores
    PROVE  Replay(s, <<>>) = s
<1>1. \A k \in Keys : ~Hit(<<>>, k)
  BY DEF Hit
<1>2. <<>> \in Seq(Patches)
  OBVIOUS
<1>3. \A k \in Keys : Replay(s, <<>>)[k] = s[k]
  BY <1>1, <1>2, ReplayAt
<1>4. Replay(s, <<>>) = [k \in Keys |-> Replay(s, <<>>)[k]]
  BY DEF Replay, Overlay
<1> QED
  BY <1>3, <1>4 DEF Stores

LEMMA ApplyType ==
    ASSUME NEW s \in Stores, NEW p \in Patches
    PROVE  ApplyPatch(s, p) \in Stores
BY DEF ApplyPatch, Stores, Patches

\* A frame that is logged stays.
LEMMA HitConcat ==
    ASSUME NEW v \in Seq(Patches), NEW w \in Seq(Patches), NEW k \in Keys
    PROVE  Hit(v \o w, k) <=> Hit(v, k) \/ Hit(w, k)
<1>1. \A i \in DOMAIN v : i \in DOMAIN (v \o w) /\ (v \o w)[i] = v[i]
  OBVIOUS
<1>2. \A i \in DOMAIN w : Len(v) + i \in DOMAIN (v \o w) /\ (v \o w)[Len(v) + i] = w[i]
  OBVIOUS
<1>3. \A i \in DOMAIN (v \o w) :
         \/ i \in DOMAIN v /\ (v \o w)[i] = v[i]
         \/ i - Len(v) \in DOMAIN w /\ (v \o w)[i] = w[i - Len(v)]
  OBVIOUS
<1>4. ASSUME Hit(v \o w, k)
      PROVE  Hit(v, k) \/ Hit(w, k)
  <2>1. PICK i \in DOMAIN (v \o w) : (v \o w)[i][k] # Keep
    BY <1>4 DEF Hit
  <2> QED
    BY <2>1, <1>3 DEF Hit
<1>5. Hit(v, k) => Hit(v \o w, k)
  BY <1>1 DEF Hit
<1>6. ASSUME Hit(w, k)
      PROVE  Hit(v \o w, k)
  <2>1. PICK i \in DOMAIN w : w[i][k] # Keep
    BY <1>6 DEF Hit
  <2>2. Len(v) + i \in DOMAIN (v \o w) /\ (v \o w)[Len(v) + i][k] # Keep
    BY <2>1, <1>2
  <2> QED
    BY <2>2 DEF Hit
<1> QED
  BY <1>4, <1>5, <1>6

\* The value replayed at a key depends on no other key of the map below, and
\* on none at all where a frame touches it.
LEMMA ReplayKey ==
    ASSUME NEW s, NEW t, NEW w \in Seq(Patches), NEW k \in Keys,
           Hit(w, k) \/ s[k] = t[k]
    PROVE  Replay(s, w)[k] = Replay(t, w)[k]
<1>1. CASE Hit(w, k)
  <2>1. PICK m \in DOMAIN w : /\ w[m][k] # Keep
                              /\ \A j \in DOMAIN w : w[j][k] # Keep => j <= m
    BY <1>1, ReplayAt
  <2>2. Replay(s, w)[k] = w[m][k]
    BY <2>1, ReplayAt
  <2>3. Replay(t, w)[k] = w[m][k]
    BY <2>1, ReplayAt
  <2> QED
    BY <2>2, <2>3
<1>2. CASE ~Hit(w, k)
  BY <1>2, ReplayAt
<1> QED
  BY <1>1, <1>2

\* Two logs one after the other are replayed one after the other.
LEMMA ReplayConcat ==
    ASSUME NEW s \in Stores, NEW v \in Seq(Patches), NEW w \in Seq(Patches)
    PROVE  Replay(s, v \o w) = Replay(Replay(s, v), w)
<1> DEFINE u == v \o w
           t == Replay(s, v)
<1>1. /\ u \in Seq(Patches) /\ Len(v) \in Nat /\ DOMAIN v = 1..Len(v)
      /\ \A i \in DOMAIN v : i \in DOMAIN u /\ u[i] = v[i]
      /\ \A i \in DOMAIN w : Len(v) + i \in DOMAIN u /\ u[Len(v) + i] = w[i]
      /\ \A i \in DOMAIN u :
            \/ i \in DOMAIN v /\ u[i] = v[i]
            \/ i - Len(v) \in DOMAIN w /\ u[i] = w[i - Len(v)] /\ i > Len(v)
      /\ \A i \in DOMAIN w : i \in Nat /\ 1 <= i
      /\ \A i \in DOMAIN u : i \in Nat
  OBVIOUS
<1>2. u \in Seq(Patches \cup {Torn}) /\ v \in Seq(Patches \cup {Torn})
      /\ w \in Seq(Patches \cup {Torn})
  BY <1>1
<1> HIDE DEF u
<1>3. t \in Stores /\ Replay(s, u) \in Stores
  BY <1>2, ReplayType
<1> HIDE DEF t
<1>4. Replay(t, w) \in Stores
  BY <1>2, <1>3, ReplayType
<1>5. ASSUME NEW k \in Keys
      PROVE  Replay(s, u)[k] = Replay(t, w)[k]
  <2>1. CASE Hit(w, k)
    <3>1. PICK m \in DOMAIN w : /\ w[m][k] # Keep
                                /\ \A j \in DOMAIN w : w[j][k] # Keep => j <= m
      BY <2>1, ReplayAt
    <3>2. Replay(t, w)[k] = w[m][k]
      BY <3>1, ReplayAt
    <3>3. Len(v) + m \in DOMAIN u /\ u[Len(v) + m] = w[m]
      BY <1>1
    <3>4. ASSUME NEW j \in DOMAIN u, u[j][k] # Keep
          PROVE  j <= Len(v) + m
      <4>1. CASE j \in DOMAIN v
        BY <1>1, <4>1
      <4>2. CASE j - Len(v) \in DOMAIN w /\ u[j] = w[j - Len(v)]
        <5>1. j - Len(v) <= m
          BY <3>1, <3>4, <4>2
        <5> QED
          BY <1>1, <5>1
      <4> QED
        BY <1>1, <3>4, <4>1, <4>2
    <3>5. Replay(s, u)[k] = u[Len(v) + m][k]
      <4> DEFINE n == Len(v) + m
      <4>1. n \in DOMAIN u /\ u[n][k] # Keep /\ \A j \in DOMAIN u : u[j][k] # Keep => j <= n
        BY <3>1, <3>3, <3>4
      <4> HIDE DEF n
      <4>2. Replay(s, u)[k] = u[n][k]
        BY <1>1, <4>1, ReplayAt
      <4> QED
        BY <4>2 DEF n
    <3> QED
      BY <3>2, <3>3, <3>5
  <2>2. CASE ~Hit(w, k) /\ Hit(v, k)
    <3>1. PICK m \in DOMAIN v : /\ v[m][k] # Keep
                                /\ \A j \in DOMAIN v : v[j][k] # Keep => j <= m
      BY <2>2, ReplayAt
    <3>2. t[k] = v[m][k]
      BY <3>1, ReplayAt DEF t
    <3>3. Replay(t, w)[k] = t[k]
      BY <2>2, ReplayAt
    <3>4. m \in DOMAIN u /\ u[m] = v[m]
      BY <1>1
    <3>5. ASSUME NEW j \in DOMAIN u, u[j][k] # Keep
          PROVE  j <= m
      BY <1>1, <2>2, <3>1, <3>5 DEF Hit
    <3>6. Replay(s, u)[k] = u[m][k]
      BY <1>1, <3>1, <3>4, <3>5, ReplayAt
    <3> QED
      BY <3>2, <3>3, <3>4, <3>6
  <2>3. CASE ~Hit(w, k) /\ ~Hit(v, k)
    <3>1. ~Hit(u, k)
      BY <2>3, HitConcat DEF u
    <3>2. Replay(s, u)[k] = s[k]
      BY <1>1, <3>1, ReplayAt
    <3>3. Replay(t, w)[k] = t[k] /\ t[k] = s[k]
      BY <2>3, ReplayAt DEF t
    <3> QED
      BY <3>2, <3>3
  <2> QED
    BY <2>1, <2>2, <2>3
<1>6. Replay(s, u) = Replay(t, w)
  BY <1>3, <1>4, <1>5 DEF Stores
<1> QED
  BY <1>6 DEF u, t

\* The first frame is applied first.
LEMMA ReplayFirst ==
    ASSUME NEW s \in Stores, NEW p \in Patches, NEW w \in Seq(Patches)
    PROVE  /\ Replay(s, <<p>> \o w) = Replay(ApplyPatch(s, p), w)
           /\ \A k \in Keys : Hit(<<p>> \o w, k) <=> p[k] # Keep \/ Hit(w, k)
<1> DEFINE one == <<p>>
<1>1. one \in Seq(Patches) /\ one = Append(<<>>, p) /\ <<>> \in Seq(Patches)
      /\ DOMAIN one = {1} /\ one[1] = p
  OBVIOUS
<1> HIDE DEF one
<1>2. Replay(s, one) = ApplyPatch(s, p)
  BY <1>1, ReplayAppend, ReplayEmpty
<1>3. Replay(s, one \o w) = Replay(Replay(s, one), w)
  BY <1>1, ReplayConcat
<1>4. \A k \in Keys : Hit(one, k) <=> p[k] # Keep
  BY <1>1 DEF Hit
<1>5. \A k \in Keys : Hit(one \o w, k) <=> Hit(one, k) \/ Hit(w, k)
  BY <1>1, HitConcat
<1> QED
  BY <1>2, <1>3, <1>4, <1>5 DEF one

\* And the last one last.
LEMMA ReplayLast ==
    ASSUME NEW s \in Stores, NEW p \in Patches, NEW w \in Seq(Patches)
    PROVE  /\ Append(w, p) \in Seq(Patches)
           /\ Replay(s, Append(w, p)) = ApplyPatch(Replay(s, w), p)
           /\ \A k \in Keys : Hit(Append(w, p), k) <=> Hit(w, k) \/ p[k] # Keep
<1> DEFINE v == Append(w, p)
<1>1. /\ v \in Seq(Patches)
      /\ \A i \in DOMAIN w : i \in DOMAIN v /\ v[i] = w[i]
      /\ Len(v) \in DOMAIN v /\ v[Len(v)] = p
      /\ \A i \in DOMAIN v : v[i] = p \/ (i \in DOMAIN w /\ v[i] = w[i])
  OBVIOUS
<1>2. \A k \in Keys : Hit(v, k) <=> Hit(w, k) \/ p[k] # Keep
  <2> HIDE DEF v
  <2> QED
    BY <1>1 DEF Hit
<1> QED
  BY <1>1, <1>2, ReplayAppend

\* The patch that touches nothing.
LEMMA NoChangeChangesNothing ==
    /\ NoChange \in Patches
    /\ \A k \in Keys : NoChange[k] = Keep
    /\ \A s \in Stores : ApplyPatch(s, NoChange) = s
BY DEF NoChange, Patches, Stores, ApplyPatch
=============================================================================
