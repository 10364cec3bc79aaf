--------------------------- MODULE WalLog_proofs ---------------------------
(***************************************************************************)
(* The write-ahead log under failing writes, for every set of keys and     *)
(* values, every size of the buffer and every number of failures: LogInv   *)
(* is inductive, and with it go the safety properties of WalLog.           *)
(***************************************************************************)
EXTENDS WalLogInv, WalReplay_proofs, FiniteSetTheorems, SequenceTheorems

-----------------------------------------------------------------------------
(* Laying the frames of a log over a map.                                  *)

LEMMA PieceTypes ==
    ASSUME NEW w \in Seq(Pieces)
    PROVE  /\ Len(w) \in Nat /\ DOMAIN w = 1..Len(w)
           /\ Arrived(w) \in SUBSET (1..Len(w))
           /\ \A i \in DOMAIN w : /\ w[i] \in Pieces
                                  /\ w[i].patch \in Patches
                                  /\ w[i].lsn \in Nat
                                  /\ w[i].end \in Ends
<1>1. \A i \in DOMAIN w : w[i] \in Pieces
  OBVIOUS
<1> QED
  BY <1>1 DEF Pieces, Arrived

\* A key has the value of the last frame that touches it, or the one it had.
LEMMA LaidAt ==
    ASSUME NEW s, NEW w \in Seq(Pieces), NEW k \in Keys
    PROVE  /\ ~Reaches(w, k) => Laid(s, w)[k] = s[k]
           /\ \A m \in Arrived(w) :
                 /\ w[m].patch[k] # Keep
                 /\ \A j \in Arrived(w) : w[j].patch[k] # Keep => j <= m
                 => Laid(s, w)[k] = w[m].patch[k]
           /\ Reaches(w, k) => \E m \in Arrived(w) :
                 /\ w[m].patch[k] # Keep
                 /\ \A j \in Arrived(w) : w[j].patch[k] # Keep => j <= m
<1> DEFINE p == [i \in DOMAIN w |-> w[i].patch]
           hits == {i \in Arrived(w) : p[i][k] # Keep}
<1>1. Laid(s, w)[k] = IF hits = {} THEN s[k] ELSE p[Latest(hits)][k]
  BY DEF Laid, Overlay
<1>2. \A i \in Arrived(w) : i \in DOMAIN w /\ p[i] = w[i].patch
  BY DEF Arrived
<1>3. Len(w) \in Nat /\ hits \in SUBSET (1..Len(w))
  BY PieceTypes
<1>4. \A i : i \in hits <=> i \in Arrived(w) /\ w[i].patch[k] # Keep
  BY <1>2
<1> HIDE DEF p, hits
<1>5. Reaches(w, k) <=> hits # {}
  BY <1>4 DEF Reaches
<1>6. ASSUME NEW m \in Arrived(w), w[m].patch[k] # Keep,
             \A j \in Arrived(w) : w[j].patch[k] # Keep => j <= m
      PROVE  Laid(s, w)[k] = w[m].patch[k]
  <2>1. m \in hits /\ \A j \in hits : j <= m
    BY <1>4, <1>6
  <2>2. Latest(hits) = m
    BY <1>3, <2>1, LatestUnique
  <2> QED
    BY <1>1, <1>2, <2>1, <2>2
<1>7. hits # {} => \E m \in hits : \A j \in hits : j <= m
  BY <1>3, HasLast
<1> QED
  BY <1>1, <1>4, <1>5, <1>6, <1>7

LEMMA LaidMap ==
    ASSUME NEW s, NEW w
    PROVE  Laid(s, w) = [k \in Keys |-> Laid(s, w)[k]]
BY DEF Laid, Overlay

LEMMA LaidType ==
    ASSUME NEW s \in Stores, NEW w \in Seq(Pieces)
    PROVE  Laid(s, w) \in Stores
<1> DEFINE p == [i \in DOMAIN w |-> w[i].patch]
<1>1. Len(w) \in Nat /\ Arrived(w) \in SUBSET (1..Len(w))
  BY PieceTypes
<1>2. \A i \in Arrived(w) : p[i] \in Patches
  BY PieceTypes DEF Arrived
<1> HIDE DEF p
<1>3. Overlay(s, p, Arrived(w)) \in Stores
  BY <1>1, <1>2, OverlayType
<1> QED
  BY <1>3 DEF Laid, p

\* Maps with the same values are the same map.
LEMMA SameMap ==
    ASSUME NEW s \in Stores, NEW t \in Stores, \A k \in Keys : s[k] = t[k]
    PROVE  s = t
BY DEF Stores

\* Where a frame touches a key, the map below does not matter.
LEMMA LaidOver ==
    ASSUME NEW s, NEW t, NEW w \in Seq(Pieces), NEW k \in Keys, Reaches(w, k)
    PROVE  Laid(s, w)[k] = Laid(t, w)[k]
<1>1. PICK m \in Arrived(w) : /\ w[m].patch[k] # Keep
                              /\ \A j \in Arrived(w) : w[j].patch[k] # Keep => j <= m
  BY LaidAt
<1>2. Laid(s, w)[k] = w[m].patch[k]
  BY <1>1, LaidAt
<1>3. Laid(t, w)[k] = w[m].patch[k]
  BY <1>1, LaidAt
<1> QED
  BY <1>2, <1>3

LEMMA ArrivedConcat ==
    ASSUME NEW v \in Seq(Pieces), NEW w \in Seq(Pieces)
    PROVE  /\ v \o w \in Seq(Pieces)
           /\ \A i \in Arrived(v) : i \in Arrived(v \o w) /\ (v \o w)[i] = v[i]
           /\ \A i \in Arrived(w) :
                 Len(v) + i \in Arrived(v \o w) /\ (v \o w)[Len(v) + i] = w[i]
           /\ \A i \in Arrived(v \o w) :
                 \/ i \in Arrived(v) /\ (v \o w)[i] = v[i]
                 \/ /\ i - Len(v) \in Arrived(w) /\ (v \o w)[i] = w[i - Len(v)]
                    /\ i > Len(v)
<1>1. \A i \in DOMAIN v : i \in DOMAIN (v \o w) /\ (v \o w)[i] = v[i]
  OBVIOUS
<1>2. \A i \in DOMAIN w : Len(v) + i \in DOMAIN (v \o w) /\ (v \o w)[Len(v) + i] = w[i]
  OBVIOUS
<1>3. \A i \in DOMAIN (v \o w) :
         \/ i \in DOMAIN v /\ (v \o w)[i] = v[i]
         \/ i - Len(v) \in DOMAIN w /\ (v \o w)[i] = w[i - Len(v)] /\ i > Len(v)
  OBVIOUS
<1> QED
  BY <1>1, <1>2, <1>3 DEF Arrived

LEMMA ReachesConcat ==
    ASSUME NEW v \in Seq(Pieces), NEW w \in Seq(Pieces), NEW k \in Keys
    PROVE  Reaches(v \o w, k) <=> Reaches(v, k) \/ Reaches(w, k)
<1>1. ASSUME Reaches(v \o w, k)
      PROVE  Reaches(v, k) \/ Reaches(w, k)
  <2>1. PICK i \in Arrived(v \o w) : (v \o w)[i].patch[k] # Keep
    BY <1>1 DEF Reaches
  <2>2. \/ i \in Arrived(v) /\ (v \o w)[i] = v[i]
        \/ i - Len(v) \in Arrived(w) /\ (v \o w)[i] = w[i - Len(v)]
    BY ArrivedConcat
  <2> QED
    BY <2>1, <2>2 DEF Reaches
<1>2. ASSUME Reaches(v, k)
      PROVE  Reaches(v \o w, k)
  <2>1. PICK i \in Arrived(v) : v[i].patch[k] # Keep
    BY <1>2 DEF Reaches
  <2>2. i \in Arrived(v \o w) /\ (v \o w)[i] = v[i]
    BY ArrivedConcat
  <2> QED
    BY <2>1, <2>2 DEF Reaches
<1>3. ASSUME Reaches(w, k)
      PROVE  Reaches(v \o w, k)
  <2>1. PICK i \in Arrived(w) : w[i].patch[k] # Keep
    BY <1>3 DEF Reaches
  <2>2. Len(v) + i \in Arrived(v \o w) /\ (v \o w)[Len(v) + i] = w[i]
    BY ArrivedConcat
  <2> QED
    BY <2>1, <2>2 DEF Reaches
<1> QED
  BY <1>1, <1>2, <1>3

\* Two logs one after the other are laid one after the other.
LEMMA LaidConcat ==
    ASSUME NEW s \in Stores, NEW v \in Seq(Pieces), NEW w \in Seq(Pieces)
    PROVE  Laid(s, v \o w) = Laid(Laid(s, v), w)
<1> DEFINE u == v \o w
<1>0. /\ u \in Seq(Pieces) /\ Laid(s, u) \in Stores
      /\ Laid(s, v) \in Stores /\ Laid(Laid(s, v), w) \in Stores
  BY ArrivedConcat, LaidType
<1>1. ASSUME NEW k \in Keys
      PROVE  Laid(s, u)[k] = Laid(Laid(s, v), w)[k]
  <2>1. CASE Reaches(w, k)
    <3>1. PICK m \in Arrived(w) : /\ w[m].patch[k] # Keep
                                  /\ \A j \in Arrived(w) : w[j].patch[k] # Keep => j <= m
      BY <2>1, LaidAt
    <3>2. Len(v) + m \in Arrived(u) /\ u[Len(v) + m] = w[m]
      BY ArrivedConcat
    <3>3. m \in Nat /\ Len(v) \in Nat /\ 1 <= m
      BY PieceTypes
    <3>4. ASSUME NEW j \in Arrived(u), u[j].patch[k] # Keep
          PROVE  j <= Len(v) + m
      <4>1. CASE j \in Arrived(v)
        BY <3>3, <4>1, PieceTypes
      <4>2. CASE j - Len(v) \in Arrived(w) /\ u[j] = w[j - Len(v)]
        <5>1. j - Len(v) <= m /\ j \in Nat
          <6>1. j \in 1..Len(u) /\ Len(u) \in Nat
            <7> HIDE DEF u
            <7> QED
              BY <1>0, PieceTypes
          <6>2. w[j - Len(v)].patch[k] # Keep
            BY <3>4, <4>2
          <6> QED
            BY <3>1, <4>2, <6>1, <6>2
        <5> QED
          BY <5>1, <3>3
      <4> QED
        BY <3>4, <4>1, <4>2, ArrivedConcat
    <3>5. Laid(s, u)[k] = w[m].patch[k]
      <4> HIDE DEF u
      <4> QED
        BY <1>0, <3>1, <3>2, <3>4, LaidAt
    <3> QED
      BY <3>1, <3>5, LaidAt
  <2>2. CASE ~Reaches(w, k) /\ Reaches(v, k)
    <3>1. PICK m \in Arrived(v) : /\ v[m].patch[k] # Keep
                                  /\ \A j \in Arrived(v) : v[j].patch[k] # Keep => j <= m
      BY <2>2, LaidAt
    <3>2. m \in Arrived(u) /\ u[m] = v[m]
      BY ArrivedConcat
    <3>3. ASSUME NEW j \in Arrived(u), u[j].patch[k] # Keep
          PROVE  j <= m
      <4>1. \/ j \in Arrived(v) /\ u[j] = v[j]
            \/ j - Len(v) \in Arrived(w) /\ u[j] = w[j - Len(v)]
        BY ArrivedConcat
      <4>2. ~(j - Len(v) \in Arrived(w) /\ u[j] = w[j - Len(v)])
        BY <2>2, <3>3 DEF Reaches
      <4> QED
        BY <3>1, <3>3, <4>1, <4>2
    <3>4. Laid(s, u)[k] = v[m].patch[k]
      <4> HIDE DEF u
      <4> QED
        BY <1>0, <3>1, <3>2, <3>3, LaidAt
    <3>5. Laid(s, v)[k] = v[m].patch[k]
      BY <3>1, LaidAt
    <3> QED
      BY <2>2, <3>4, <3>5, LaidAt
  <2>3. CASE ~Reaches(w, k) /\ ~Reaches(v, k)
    <3>1. ~Reaches(u, k)
      BY <2>3, ReachesConcat
    <3>2. Laid(s, u)[k] = s[k]
      <4> HIDE DEF u
      <4> QED
        BY <1>0, <3>1, LaidAt
    <3> QED
      BY <2>3, <3>2, LaidAt
  <2> QED
    BY <2>1, <2>2, <2>3
<1> QED
  <2> HIDE DEF u
  <2>1. Laid(s, u) = Laid(Laid(s, v), w)
    BY <1>0, <1>1, SameMap
  <2> QED
    BY <2>1 DEF u

LEMMA LaidEmpty ==
    ASSUME NEW s \in Stores
    PROVE  Laid(s, <<>>) = s /\ \A k \in Keys : ~Reaches(<<>>, k)
<1>1. <<>> \in Seq(Pieces) /\ Arrived(<<>>) = {}
  BY DEF Arrived
<1>2. \A k \in Keys : ~Reaches(<<>>, k)
  BY <1>1 DEF Reaches
<1>3. \A k \in Keys : Laid(s, <<>>)[k] = s[k]
  BY <1>1, <1>2, LaidAt
<1> QED
  BY <1>1, <1>2, <1>3, LaidType, SameMap

\* One frame more.
LEMMA LaidAppend ==
    ASSUME NEW s \in Stores, NEW w \in Seq(Pieces), NEW p \in Pieces
    PROVE  /\ Append(w, p) \in Seq(Pieces)
           /\ Append(w, p) = w \o <<p>>
           /\ p.end = "cut" => Laid(s, Append(w, p)) = Laid(s, w)
           /\ p.end # "cut" => Laid(s, Append(w, p)) = ApplyPatch(Laid(s, w), p.patch)
<1> DEFINE one == <<p>>
           t == Laid(s, w)
<1>1. one \in Seq(Pieces) /\ Len(one) = 1 /\ one[1] = p /\ Append(w, p) = w \o one
  OBVIOUS
<1>2. t \in Stores /\ Laid(t, one) \in Stores /\ p.patch \in Patches
  <2>1. t \in Stores
    BY LaidType
  <2>2. Laid(t, one) \in Stores
    <3> HIDE DEF t, one
    <3> QED
      BY <1>1, <2>1, LaidType
  <2>3. p.patch \in Patches
    BY DEF Pieces
  <2> QED
    BY <2>1, <2>2, <2>3
<1>3. Laid(s, Append(w, p)) = Laid(t, one)
  <2> HIDE DEF one
  <2> QED
    BY <1>1, LaidConcat
<1> HIDE DEF t, one
<1>4. ASSUME p.end = "cut"
      PROVE  Laid(t, one) = t
  <2>1. Arrived(one) = {}
    BY <1>1, <1>4 DEF Arrived
  <2>2. \A k \in Keys : Laid(t, one)[k] = t[k]
    BY <1>1, <2>1, LaidAt DEF Reaches
  <2> QED
    BY <1>2, <2>2, SameMap
<1>5. ASSUME p.end # "cut"
      PROVE  Laid(t, one) = ApplyPatch(t, p.patch)
  <2>1. Arrived(one) = {1}
    BY <1>1, <1>5 DEF Arrived
  <2>2. ASSUME NEW k \in Keys
        PROVE  Laid(t, one)[k] = ApplyPatch(t, p.patch)[k]
    <3>1. CASE p.patch[k] = Keep
      <4>1. ~Reaches(one, k)
        BY <1>1, <2>1, <3>1 DEF Reaches
      <4>2. Laid(t, one)[k] = t[k]
        BY <1>1, <4>1, LaidAt
      <4> QED
        BY <3>1, <4>2 DEF ApplyPatch
    <3>2. CASE p.patch[k] # Keep
      <4>1. 1 \in Arrived(one) /\ one[1].patch[k] # Keep /\ \A j \in Arrived(one) : j <= 1
        BY <1>1, <2>1, <3>2
      <4>2. Laid(t, one)[k] = one[1].patch[k]
        BY <1>1, <4>1, LaidAt
      <4> QED
        BY <1>1, <3>2, <4>2 DEF ApplyPatch
    <3> QED
      BY <3>1, <3>2
  <2>3. ApplyPatch(t, p.patch) \in Stores
    BY <1>2, ApplyType
  <2> QED
    BY <1>2, <2>2, <2>3, SameMap
<1> QED
  BY <1>1, <1>3, <1>4, <1>5 DEF t

-----------------------------------------------------------------------------
(* The first frames of a buffer, written again and again.                  *)

LEMMA PrefixTypes ==
    ASSUME NEW b \in Seq(Pieces), NEW n \in 0..Len(b)
    PROVE  /\ SubSeq(b, 1, n) \in Seq(Pieces)
           /\ Len(SubSeq(b, 1, n)) = n
           /\ \A i \in 1..n : SubSeq(b, 1, n)[i] = b[i]
           /\ SubSeq(b, 1, Len(b)) = b
           /\ SubSeq(b, 1, 0) = <<>>
OBVIOUS

LEMMA PrefixReaches ==
    ASSUME NEW b \in Seq(Pieces), NEW n \in 0..Len(b), NEW m \in 0..n, NEW k,
           Reaches(SubSeq(b, 1, m), k)
    PROVE  Reaches(SubSeq(b, 1, n), k)
<1>1. /\ SubSeq(b, 1, m) \in Seq(Pieces) /\ Len(SubSeq(b, 1, m)) = m
      /\ \A i \in 1..m : SubSeq(b, 1, m)[i] = b[i]
  BY PrefixTypes
<1>2. /\ SubSeq(b, 1, n) \in Seq(Pieces) /\ Len(SubSeq(b, 1, n)) = n
      /\ \A i \in 1..n : SubSeq(b, 1, n)[i] = b[i]
  BY PrefixTypes
<1>3. PICK i \in Arrived(SubSeq(b, 1, m)) : SubSeq(b, 1, m)[i].patch[k] # Keep
  BY DEF Reaches
<1>4. i \in 1..m /\ i \in 1..n
  BY <1>1 DEF Arrived
<1>5. i \in Arrived(SubSeq(b, 1, n)) /\ SubSeq(b, 1, n)[i].patch[k] # Keep
  BY <1>1, <1>2, <1>3, <1>4 DEF Arrived
<1> QED
  BY <1>5 DEF Reaches

\* A key that is where some shorter prefix left it comes to where this one
\* leaves it, as if nothing had been written before.
LEMMA KeyRewritten ==
    ASSUME NEW b \in Seq(Pieces), NEW n \in 0..Len(b), NEW m \in 0..n,
           NEW g \in Stores, NEW r \in Stores, NEW k \in Keys,
           r[k] = Laid(g, SubSeq(b, 1, m))[k]
    PROVE  Laid(r, SubSeq(b, 1, n))[k] = Laid(g, SubSeq(b, 1, n))[k]
<1>1. SubSeq(b, 1, n) \in Seq(Pieces)
  BY PrefixTypes
<1>2. m \in 0..Len(b) /\ SubSeq(b, 1, m) \in Seq(Pieces)
  BY PrefixTypes
<1>3. CASE Reaches(SubSeq(b, 1, n), k)
  BY <1>1, <1>3, LaidOver
<1>4. CASE ~Reaches(SubSeq(b, 1, n), k)
  <2>1. ~Reaches(SubSeq(b, 1, m), k)
    BY <1>4, PrefixReaches
  <2>2. r[k] = g[k]
    BY <1>2, <2>1, LaidAt
  <2> QED
    BY <1>1, <1>4, <2>2, LaidAt
<1> QED
  BY <1>3, <1>4

\* In any case it stays where it is or comes there.
LEMMA KeyStaysOrMoves ==
    ASSUME NEW w \in Seq(Pieces), NEW g, NEW r, NEW k \in Keys
    PROVE  Laid(r, w)[k] \in {r[k], Laid(g, w)[k]}
BY LaidAt, LaidOver

LEMMA PrefixOfAppend ==
    ASSUME NEW b \in Seq(Pieces), NEW p \in Pieces
    PROVE  /\ Append(b, p) \in Seq(Pieces) /\ Len(Append(b, p)) = Len(b) + 1
           /\ \A n \in 0..Len(b) : SubSeq(Append(b, p), 1, n) = SubSeq(b, 1, n)
           /\ SubSeq(Append(b, p), 1, Len(b) + 1) = Append(b, p)
OBVIOUS

\* The first n frames and a part of the next.
Partial(b, n, e) == SubSeq(b, 1, n) \o <<[b[n + 1] EXCEPT !.end = e]>>

\* What one more line without its newline adds.
LEMMA LineArrives ==
    ASSUME NEW b \in Seq(Pieces), NEW n \in 0..Len(b), n < Len(b), NEW r \in Stores,
           \A i \in DOMAIN b : b[i].end = "whole", NEW e \in {"eol", "cut"}
    PROVE  /\ Partial(b, n, e) \in Seq(Pieces)
           /\ Partial(b, n, e) # <<>> /\ Len(Partial(b, n, e)) = n + 1
           /\ Partial(b, n, e)[n + 1].end = e
           /\ e = "cut" => Laid(r, Partial(b, n, e)) = Laid(r, SubSeq(b, 1, n))
           /\ e = "eol" => Laid(r, Partial(b, n, e)) = Laid(r, SubSeq(b, 1, n + 1))
<1> DEFINE q == [b[n + 1] EXCEPT !.end = e]
           w == SubSeq(b, 1, n)
<1>1. n + 1 \in DOMAIN b /\ b[n + 1] \in Pieces /\ n + 1 \in 0..Len(b) /\ Len(b) \in Nat
  OBVIOUS
<1>2. q \in Pieces /\ q.end = e /\ q.patch = b[n + 1].patch
  BY <1>1 DEF Pieces, Ends
<1>3. w \in Seq(Pieces) /\ Len(w) = n
  BY PrefixTypes
<1>4. SubSeq(b, 1, n + 1) = Append(w, b[n + 1])
  BY <1>1
<1> HIDE DEF q, w
<1>5. /\ w \o <<q>> = Append(w, q) /\ Append(w, q) \in Seq(Pieces)
      /\ Len(Append(w, q)) = n + 1 /\ Append(w, q)[n + 1] = q
  BY <1>2, <1>3
<1>6. Append(w, q) # <<>>
  BY <1>5
<1>7. e = "cut" => Laid(r, Append(w, q)) = Laid(r, w)
  BY <1>2, <1>3, LaidAppend
<1>8. ASSUME e = "eol"
      PROVE  Laid(r, Append(w, q)) = Laid(r, Append(w, b[n + 1]))
  <2>1. b[n + 1].end # "cut"
    BY <1>1
  <2>2. Laid(r, Append(w, b[n + 1])) = ApplyPatch(Laid(r, w), b[n + 1].patch)
    BY <1>1, <1>3, <2>1, LaidAppend
  <2>3. Laid(r, Append(w, q)) = ApplyPatch(Laid(r, w), q.patch)
    BY <1>2, <1>3, <1>8, LaidAppend
  <2> QED
    BY <1>2, <2>2, <2>3
<1>9. /\ w \o <<q>> \in Seq(Pieces)
      /\ w \o <<q>> # <<>> /\ Len(w \o <<q>>) = n + 1 /\ (w \o <<q>>)[n + 1].end = e
      /\ e = "cut" => Laid(r, w \o <<q>>) = Laid(r, w)
      /\ e = "eol" => Laid(r, w \o <<q>>) = Laid(r, SubSeq(b, 1, n + 1))
  BY <1>2, <1>4, <1>5, <1>6, <1>7, <1>8
<1>10. Partial(b, n, e) = w \o <<q>>
  BY DEF Partial, w, q
<1> QED
  BY <1>9, <1>10 DEF w

-----------------------------------------------------------------------------
(* Reading a log.                                                          *)

LEMMA ReadType ==
    ASSUME TypeOK
    PROVE  /\ log \in Seq(Pieces) /\ Len(log) \in Nat
           /\ Read \in SUBSET (1..Len(log)) /\ Read \subseteq Arrived(log)
           /\ ReadableFrames \subseteq DOMAIN log
           /\ \A i \in ReadableFrames : log[i].end = "whole"
           /\ Recovered \in Stores
<1>1. log \in Seq(Pieces) /\ Len(log) \in Nat /\ snap \in Stores
  BY DEF TypeOK
<1>2. ReadableFrames \subseteq DOMAIN log /\ \A i \in ReadableFrames : log[i].end = "whole"
  BY <1>1 DEF ReadableFrames
<1>3. Read \subseteq Arrived(log)
  BY <1>2 DEF Read, ReadableLines, Arrived
<1>4. Arrived(log) \in SUBSET (1..Len(log))
  BY <1>1, PieceTypes
<1> DEFINE p == [i \in DOMAIN log |-> log[i].patch]
<1>5. \A i \in Read : p[i] \in Patches
  BY <1>1, <1>3, PieceTypes DEF Arrived
<1>6. Overlay(snap, p, Read) \in Stores
  <2> HIDE DEF p
  <2> QED
    BY <1>1, <1>3, <1>4, <1>5, OverlayType
<1> QED
  BY <1>1, <1>2, <1>3, <1>4, <1>6 DEF Recovered

\* What has arrived is what is read, if nothing is behind a cut frame.
LEMMA Unshadowed ==
    ASSUME TypeOK, ~Shadowed
    PROVE  Read = Arrived(log) /\ Recovered = Laid(snap, log)
<1>1. Read = Arrived(log)
  BY ReadType DEF Shadowed, Arrived
<1> QED
  BY <1>1 DEF Recovered, Laid

\* What is shadowed stays so when the log grows.
LEMMA ShadowStays ==
    ASSUME TypeOK, NEW c \in Seq(Pieces), log' = log \o c, head' = head, mode' = mode
    PROVE  /\ Shadowed => Shadowed'
           /\ EndsInLine /\ c # <<>> => Shadowed'
<1>1. log \in Seq(Pieces) /\ Len(log) \in Nat /\ Len(c) \in Nat
  BY DEF TypeOK
<1>2. \A i \in DOMAIN log : i \in DOMAIN log' /\ log'[i] = log[i]
  BY <1>1
<1>3. Len(log') = Len(log) + Len(c) /\ DOMAIN log' = 1..Len(log')
  BY <1>1
<1>4. ASSUME NEW i \in DOMAIN log, i \in ReadableFrames'
      PROVE  i \in ReadableFrames
  BY <1>1, <1>2, <1>4 DEF ReadableFrames
<1>5. ASSUME NEW i \in DOMAIN log, i \in ReadableLines'
      PROVE  i \in ReadableLines
  <2>1. i = 1 \/ log'[i - 1].end = "whole"
    BY <1>5 DEF ReadableLines
  <2>2. i = 1 \/ log[i - 1].end = "whole"
    BY <1>1, <1>2, <2>1
  <2>3. log[i].end = "whole" \/ (log[i].end = "eol" /\ i = Len(log'))
    BY <1>2, <1>5 DEF ReadableLines
  <2>4. i = Len(log') => i = Len(log)
    BY <1>1, <1>3
  <2> QED
    BY <2>2, <2>3, <2>4 DEF ReadableLines
<1>6. ASSUME NEW i \in DOMAIN log, i \in Read'
      PROVE  i \in Read
  BY <1>4, <1>5, <1>6 DEF Read
<1>7. Shadowed => Shadowed'
  BY <1>2, <1>6 DEF Shadowed
<1>8. ASSUME EndsInLine, c # <<>>
      PROVE  Shadowed'
  <2> DEFINE z == Len(log)
  <2>1. z \in DOMAIN log /\ log[z].end = "eol" /\ z # Len(log')
    BY <1>1, <1>3, <1>8 DEF EndsInLine
  <2>2. z \notin ReadableFrames'
    BY <1>2, <2>1 DEF ReadableFrames
  <2>3. z \notin ReadableLines'
    BY <1>2, <2>1 DEF ReadableLines
  <2> QED
    BY <1>2, <2>1, <2>2, <2>3 DEF Shadowed, Read
<1> QED
  BY <1>7, <1>8

\* The highest LSN read is above all of them.
LEMMA LsnBound ==
    ASSUME NEW w \in Seq(Pieces)
    PROVE  \E b \in Nat : \A i \in DOMAIN w : w[i].lsn <= b
<1> DEFINE Bounded(n) == \E b \in Nat : \A i \in 1..n : w[i].lsn <= b
           Bad == {n \in 0..Len(w) : ~Bounded(n)}
<1>1. Len(w) \in Nat /\ DOMAIN w = 1..Len(w) /\ \A i \in DOMAIN w : w[i].lsn \in Nat
  BY PieceTypes
<1>2. Bounded(0)
  OBVIOUS
<1>3. ASSUME NEW n \in 0..Len(w), n # 0, Bounded(n - 1)
      PROVE  Bounded(n)
  <2>1. PICK b \in Nat : \A i \in 1..(n - 1) : w[i].lsn <= b
    BY <1>3
  <2>2. n \in DOMAIN w /\ w[n].lsn \in Nat
    BY <1>1, <1>3
  <2> DEFINE c == IF w[n].lsn <= b THEN b ELSE w[n].lsn
  <2>3. c \in Nat /\ b <= c /\ w[n].lsn <= c
    BY <2>2
  <2>4. \A i \in 1..n : w[i].lsn <= c
    <3> TAKE i \in 1..n
    <3>1. i \in 1..(n - 1) \/ i = n
      BY <1>1
    <3>2. i \in DOMAIN w /\ w[i].lsn \in Nat
      BY <1>1
    <3> HIDE DEF c
    <3> QED
      BY <2>1, <2>3, <3>1, <3>2
  <2> HIDE DEF c
  <2> QED
    BY <2>3, <2>4
<1>4. Bad = {}
  <2> SUFFICES ASSUME Bad # {}
               PROVE  FALSE
    OBVIOUS
  <2>1. IsWellFoundedOn(OpToRel(<, Nat), Nat)
    BY NatLessThanWellFounded
  <2>2. Bad \subseteq Nat
    OBVIOUS
  <2>3. PICK n \in Bad : \A m \in Bad : ~(<<m, n>> \in OpToRel(<, Nat))
    <3> HIDE DEF Bad
    <3> QED
      BY <2>1, <2>2, WFMin, Zenon
  <2>4. n \in 0..Len(w) /\ ~Bounded(n)
    OBVIOUS
  <2>5. n # 0 /\ n - 1 \in 0..Len(w) /\ n - 1 < n
    <3> HIDE DEF Bounded
    <3> QED
      BY <1>1, <1>2, <2>4
  <2>6. n - 1 \notin Bad
    <3> HIDE DEF Bad
    <3> QED
      BY <2>2, <2>3, <2>5 DEF OpToRel
  <2>7. Bounded(n - 1)
    <3> HIDE DEF Bounded
    <3> QED
      BY <2>5, <2>6
  <2> HIDE DEF Bounded
  <2> QED
    BY <1>3, <2>4, <2>5, <2>7
<1>5. Bounded(Len(w))
  <2> HIDE DEF Bounded
  <2> QED
    BY <1>1, <1>4
<1> QED
  BY <1>1, <1>5

LEMMA ReplayLsnLast ==
    ASSUME TypeOK
    PROVE  /\ ReplayLsn \in Nat
           /\ \A i \in Read : log[i].lsn <= ReplayLsn
<1> DEFINE L == {log[i].lsn : i \in Read}
<1>1. /\ log \in Seq(Pieces) /\ Read \subseteq DOMAIN log
      /\ \A i \in DOMAIN log : log[i].lsn \in Nat
  BY ReadType, PieceTypes
<1>2. PICK b \in Nat : \A i \in DOMAIN log : log[i].lsn <= b
  BY <1>1, LsnBound
<1>3. CASE Read = {}
  BY <1>3 DEF ReplayLsn
<1>4. CASE Read # {}
  <2> DEFINE T == {x + 1 : x \in L}
  <2>1. L \subseteq 0..b /\ L # {}
    BY <1>1, <1>2, <1>4
  <2> HIDE DEF L
  <2>2. T \in SUBSET (1..(b + 1)) /\ T # {} /\ b + 1 \in Nat
    BY <2>1
  <2>3. PICK t \in T : \A u \in T : u <= t
    <3> HIDE DEF T
    <3> QED
      BY <2>2, HasLast
  <2>4. PICK m \in L : t = m + 1
    BY <2>3
  <2>5. \A x \in L : x <= m
    <3> TAKE x \in L
    <3>1. x + 1 <= m + 1
      BY <2>3, <2>4
    <3> QED
      BY <3>1, <2>1
  <2>6. Latest(L) \in L /\ \A x \in L : x <= Latest(L)
    BY <2>5 DEF Latest
  <2>7. ReplayLsn = Latest(L)
    BY <1>4 DEF ReplayLsn, L
  <2> QED
    BY <2>1, <2>6, <2>7 DEF L
<1> QED
  BY <1>3, <1>4

LEMMA ReadFinite ==
    ASSUME TypeOK
    PROVE  /\ Cardinality(Read) \in Nat
           /\ Cardinality(Read) = 0 => Read = {}
<1>1. Read \in SUBSET (1..Len(log)) /\ Len(log) \in Nat
  BY ReadType
<1>2. IsFiniteSet(1..Len(log))
  BY <1>1, FS_Interval
<1>3. IsFiniteSet(Read)
  BY <1>1, <1>2, FS_Subset
<1> QED
  BY <1>3, FS_CardinalityType, FS_EmptySet

-----------------------------------------------------------------------------
(* What the actions have in common.                                        *)

\* The frame a call logs.
Frame(f) ==
    [lsn |-> IF mode = "v2" THEN lastLsn + 1 ELSE 0, patch |-> f, end |-> "whole"]

LEMMA FrameTypes ==
    /\ EmptyStore \in Stores /\ EmptyStore \in Patches /\ NoChange \in Patches
    /\ ClearFrame \in Patches
    /\ \A k \in Keys : DelFrame(k) \in Patches
    /\ \A k \in Keys, v \in Values : SetFrame(k, v) \in Patches
    /\ Batches \subseteq Patches
BY LogAssumption DEF EmptyStore, NoChange, ClearFrame, DelFrame, SetFrame, Stores, Patches

\* A call logs one frame, of a set, delete, clear or batch, and tells the store.
LEMMA Calls ==
    ASSUME Next
    PROVE  \/ Open
           \/ \E f \in Patches, ok \in BOOLEAN : Write(f, ok) \/ Batch(f, ok)
           \/ Begin("compact") \/ Begin("close")
           \/ BeginFails
           \/ ResetWal \/ ResetOpenFails \/ ResetHeadFails
           \/ CloseIdle \/ Crash
<1>1. ASSUME NEW ok \in BOOLEAN, NEW k \in Keys, NEW v \in Values, Set(k, v, ok)
      PROVE  \E f \in Patches : Write(f, ok)
  BY <1>1, FrameTypes DEF Set
<1>2. ASSUME NEW ok \in BOOLEAN, NEW k \in Keys, Delete(k, ok)
      PROVE  \E f \in Patches : Write(f, ok)
  BY <1>2, FrameTypes DEF Delete
<1>3. ASSUME NEW ok \in BOOLEAN, Clear(ok)
      PROVE  \E f \in Patches : Write(f, ok)
  BY <1>3, FrameTypes DEF Clear
<1>4. ASSUME NEW ok \in BOOLEAN, NEW f \in Batches, Batch(f, ok)
      PROVE  \E p \in Patches : Batch(p, ok)
  BY <1>4, FrameTypes
<1> QED
  BY <1>1, <1>2, <1>3, <1>4 DEF Next

LEMMA FrameType ==
    ASSUME TypeOK, NEW f \in Patches
    PROVE  /\ Frame(f) \in Pieces /\ Frame(f).end = "whole" /\ Frame(f).patch = f
           /\ Append(walBuf, Frame(f)) \in Seq(Pieces)
           /\ Append(walBuf, Frame(f)) # <<>>
<1>1. lastLsn \in Nat /\ walBuf \in Seq(Pieces)
  BY DEF TypeOK
<1>2. (IF mode = "v2" THEN lastLsn + 1 ELSE 0) \in Nat /\ "whole" \in Ends
  BY <1>1 DEF Ends
<1>3. Frame(f) \in Pieces /\ Frame(f).end = "whole" /\ Frame(f).patch = f
  BY <1>2 DEF Frame, Pieces
<1>4. ASSUME NEW p \in Pieces
      PROVE  Append(walBuf, p) \in Seq(Pieces) /\ Append(walBuf, p) # <<>>
  BY <1>1, AppendProperties
<1> QED
  BY <1>3, <1>4

LEMMA ConcatPieces ==
    ASSUME NEW u \in Seq(Pieces), NEW v \in Seq(Pieces), NEW w \in Seq(Pieces)
    PROVE  (u \o v) \o w = u \o (v \o w)
BY ConcatAssociative

\* A failed write leaves a part of the buffer behind the log.
LEMMA ArrivesType ==
    ASSUME TypeOK, NEW b \in Seq(Pieces), \A i \in DOMAIN b : b[i].end = "whole",
           NEW n \in 0..Len(b), NEW end \in Ends, Arrives(b, n, end)
    PROVE  \E c \in Seq(Pieces) :
              /\ log' = log \o c
              /\ end = "whole" => c = SubSeq(b, 1, n)
              /\ end # "whole" => /\ n < Len(b)
                                  /\ c = Partial(b, n, end)
                                  /\ c # <<>>
<1>1. log \in Seq(Pieces) /\ SubSeq(b, 1, n) \in Seq(Pieces)
  BY PrefixTypes DEF TypeOK
<1>2. CASE end = "whole"
  <2>1. log' = log \o SubSeq(b, 1, n)
    BY <1>1, <1>2 DEF Arrives
  <2> QED
    BY <1>1, <1>2, <2>1
<1>3. CASE end # "whole"
  <2> DEFINE one == <<[b[n + 1] EXCEPT !.end = end]>>
             c == SubSeq(b, 1, n) \o one
  <2>1. n < Len(b) /\ end \in {"eol", "cut"}
    BY <1>3 DEF Arrives, Ends
  <2>2. c \in Seq(Pieces) /\ c # <<>>
    <3>1. EmptyStore \in Stores
      BY FrameTypes
    <3>2. Partial(b, n, end) \in Seq(Pieces) /\ Partial(b, n, end) # <<>>
      BY <2>1, <3>1, LineArrives
    <3> QED
      BY <3>2 DEF Partial
  <2>3. one \in Seq(Pieces)
    <3>1. n + 1 \in DOMAIN b /\ b[n + 1] \in Pieces
      BY <2>1
    <3>2. [b[n + 1] EXCEPT !.end = end] \in Pieces
      BY <3>1 DEF Pieces
    <3> QED
      BY <3>2
  <2>4. log' = (log \o SubSeq(b, 1, n)) \o one
    BY <1>3 DEF Arrives
  <2>5. log' = log \o c
    <3> DEFINE w == SubSeq(b, 1, n)
    <3>1. w \in Seq(Pieces) /\ log' = (log \o w) \o one
      BY <1>1, <2>4
    <3> HIDE DEF one, w
    <3>2. (log \o w) \o one = log \o (w \o one)
      BY <1>1, <2>3, <3>1, ConcatPieces
    <3> QED
      BY <3>1, <3>2 DEF w
  <2>6. c = Partial(b, n, end)
    BY DEF Partial
  <2> HIDE DEF c
  <2> QED
    BY <1>3, <2>1, <2>2, <2>5, <2>6
<1> QED
  BY <1>2, <1>3

\* What a failed flush of b does to the buffer, the log and the history.
LEMMA FlushFailsResult ==
    ASSUME TypeOK, NEW b \in Seq(Pieces), \A i \in DOMAIN b : b[i].end = "whole",
           NEW m, FlushFails(b, m)
    PROVE  /\ walBuf' = b /\ promised' = promised \cup {m}
           /\ \/ UNCHANGED <<log, sent, rewound, fails>>
              \/ \E n \in 0..Len(b), end \in Ends :
                    /\ Arrives(b, n, end)
                    /\ sent' = (IF n > sent THEN n ELSE sent)
                    /\ rewound' = (n < sent)
                    /\ fails < MaxFails /\ fails' = fails + 1
           /\ log' \in Seq(Pieces) /\ sent' \in Nat /\ rewound' \in BOOLEAN
           /\ fails' \in 0..MaxFails
<1>1. CASE UNCHANGED <<log, sent, rewound, fails>>
  BY <1>1 DEF FlushFails, TypeOK
<1>2. CASE ~ UNCHANGED <<log, sent, rewound, fails>>
  <2>1. PICK n \in 0..Len(b), end \in Ends :
            /\ Arrives(b, n, end)
            /\ sent' = (IF n > sent THEN n ELSE sent)
            /\ rewound' = (n < sent)
            /\ fails < MaxFails /\ fails' = fails + 1
    BY <1>2 DEF FlushFails
  <2>2. PICK c \in Seq(Pieces) : log' = log \o c
    BY <2>1, ArrivesType
  <2>3. log' \in Seq(Pieces)
    BY <2>2 DEF TypeOK
  <2>4. sent' \in Nat /\ fails' \in 0..MaxFails /\ rewound' \in BOOLEAN
    BY <2>1, LogAssumption DEF TypeOK
  <2> QED
    BY <2>1, <2>3, <2>4 DEF FlushFails
<1> QED
  BY <1>1, <1>2

\* What a call does to the buffer, the log and the history.
LEMMA LogFrameResult ==
    ASSUME TypeOK, PhaseOK, NEW f \in Patches, NEW ok \in BOOLEAN, LogFrame(f, ok)
    PROVE  LET b == Append(walBuf, Frame(f))
               m == ApplyPatch(logical, f)
           IN  /\ b \in Seq(Pieces) /\ \A i \in DOMAIN b : b[i].end = "whole"
               /\ m \in Stores /\ logical' = m
               /\ pc = "idle" /\ lastLsn' = Frame(f).lsn /\ walOps' = walOps + 1
               /\ UNCHANGED <<mode, opened, head, snap, pc, call>>
               /\ \/ /\ walBuf' = b /\ promised' = promised \cup {m}
                     /\ UNCHANGED <<log, sent, rewound, fails>>
                  \/ FlushSucceeds(b, m)
                  \/ FlushFails(b, m)
<1> DEFINE p == Frame(f)
           b == Append(walBuf, p)
           m == ApplyPatch(logical, f)
<1>1. p \in Pieces /\ p.end = "whole" /\ b \in Seq(Pieces)
  BY FrameType
<1>2. walBuf \in Seq(Pieces) /\ logical \in Stores /\ lastLsn \in Nat
  BY DEF TypeOK
<1>3. ASSUME NEW i \in DOMAIN b
      PROVE  b[i].end = "whole"
  <2>1. (i \in DOMAIN walBuf /\ b[i] = walBuf[i]) \/ b[i] = p
    <3> HIDE DEF p
    <3> QED
      BY <1>1, <1>2
  <2> QED
    BY <1>1, <2>1 DEF PhaseOK
<1>4. m \in Stores
  BY <1>2, ApplyType
<1>5. /\ pc = "idle" /\ lastLsn' = p.lsn /\ walOps' = walOps + 1 /\ logical' = m
      /\ UNCHANGED <<mode, opened, head, snap, pc, call>>
  BY DEF LogFrame, Frame
<1>6. \/ /\ walBuf' = b /\ promised' = promised \cup {m}
         /\ UNCHANGED <<log, sent, rewound, fails>>
      \/ FlushSucceeds(b, m)
      \/ FlushFails(b, m)
  BY DEF LogFrame, Frame
<1> QED
  BY <1>1, <1>3, <1>4, <1>5, <1>6

LEMMA LogFrameType ==
    ASSUME TypeOK, PhaseOK, NEW f \in Patches, NEW ok \in BOOLEAN, LogFrame(f, ok),
           store' \in Stores, batchFailed' \in BOOLEAN
    PROVE  TypeOK'
<1> DEFINE b == Append(walBuf, Frame(f))
           m == ApplyPatch(logical, f)
<1>1. /\ b \in Seq(Pieces) /\ \A i \in DOMAIN b : b[i].end = "whole"
      /\ m \in Stores /\ logical' = m
      /\ lastLsn' = Frame(f).lsn /\ walOps' = walOps + 1
      /\ UNCHANGED <<mode, opened, head, snap, pc, call>>
      /\ \/ /\ walBuf' = b /\ promised' = promised \cup {m}
            /\ UNCHANGED <<log, sent, rewound, fails>>
         \/ FlushSucceeds(b, m)
         \/ FlushFails(b, m)
  BY LogFrameResult
<1>2. lastLsn' \in Nat /\ walOps' \in Nat
  BY <1>1, FrameType DEF Pieces, TypeOK
<1> HIDE DEF b, m
<1>3. /\ walBuf' \in Seq(Pieces) /\ promised' \subseteq Stores /\ log' \in Seq(Pieces)
      /\ sent' \in Nat /\ rewound' \in BOOLEAN /\ fails' \in 0..MaxFails
  <2>1. CASE walBuf' = b /\ promised' = promised \cup {m} /\ UNCHANGED <<log, sent, rewound, fails>>
    <3>1. rewound' \in BOOLEAN
      BY <2>1 DEF TypeOK
    <3>2. promised' \subseteq Stores
      BY <1>1, <2>1 DEF TypeOK
    <3> QED
      BY <1>1, <2>1, <3>1, <3>2 DEF TypeOK
  <2>2. CASE FlushSucceeds(b, m)
    <3>1. rewound' \in BOOLEAN
      BY <2>2 DEF FlushSucceeds
    <3>2. log' \in Seq(Pieces) /\ walBuf' \in Seq(Pieces) /\ sent' \in Nat /\ fails' \in 0..MaxFails
      BY <1>1, <2>2 DEF TypeOK, FlushSucceeds
    <3>3. promised' \subseteq Stores
      BY <1>1, <2>2 DEF FlushSucceeds
    <3> QED
      BY <3>1, <3>2, <3>3
  <2>3. CASE FlushFails(b, m)
    BY <1>1, <2>3, FlushFailsResult DEF TypeOK
  <2> QED
    BY <1>1, <2>1, <2>2, <2>3
<1> QED
  BY <1>1, <1>2, <1>3 DEF TypeOK

LEMMA StoreType ==
    ASSUME TypeOK, NEW f \in Patches
    PROVE  ApplyPatch(store, f) \in Stores
BY ApplyType DEF TypeOK

LEMMA WriteType ==
    ASSUME TypeOK, PhaseOK, NEW f \in Patches, NEW ok \in BOOLEAN,
           Write(f, ok) \/ Batch(f, ok)
    PROVE  TypeOK'
<1>1. LogFrame(f, ok)
  BY DEF Write, Batch
<1>2. store' \in Stores /\ batchFailed' \in BOOLEAN
  BY StoreType DEF Write, Batch, TypeOK
<1> QED
  BY <1>1, <1>2, LogFrameType

-----------------------------------------------------------------------------
(* The types.                                                              *)

LEMMA TypeInit == Init => TypeOK
<1> SUFFICES ASSUME Init
             PROVE  TypeOK
  OBVIOUS
<1>1. opened \in BOOLEAN /\ batchFailed \in BOOLEAN /\ rewound \in BOOLEAN
  BY DEF Init
<1>2. fails \in 0..MaxFails /\ log \in Seq(Pieces) /\ walBuf \in Seq(Pieces)
  BY LogAssumption DEF Init
<1>3. store \in Stores /\ snap \in Stores /\ logical \in Stores /\ promised \subseteq Stores
  BY FrameTypes DEF Init
<1> QED
  BY <1>1, <1>2, <1>3 DEF Init, TypeOK

LEMMA OpenType ==
    ASSUME TypeOK, Open
    PROVE  TypeOK'
<1>1. Recovered \in Stores /\ Cardinality(Read) \in Nat
  BY ReadType, ReadFinite
<1>2. LsnAfterLoad \in Nat
  BY ReplayLsnLast DEF LsnAfterLoad
<1>3. head' \in Nat \cup {NoHead, CutHead} /\ fails' \in 0..MaxFails
  <2>1. Headers(LsnAfterLoad) \subseteq Nat \cup {NoHead, CutHead}
    BY <1>2 DEF Headers
  <2> QED
    BY <2>1, LogAssumption DEF Open, TypeOK, CutHeaders
<1> QED
  BY <1>1, <1>2, <1>3 DEF Open, TypeOK

LEMMA DownType ==
    ASSUME TypeOK, Down
    PROVE  /\ pc' = "down" /\ call' = "none" /\ store' \in Stores /\ walBuf' = <<>>
           /\ walOps' \in Nat /\ lastLsn' \in Nat /\ opened' \in BOOLEAN
           /\ logical' \in Stores /\ batchFailed' \in BOOLEAN /\ sent' = 0
BY FrameTypes DEF Down

LEMMA BeginType ==
    ASSUME TypeOK, NEW op \in {"compact", "close"}, Begin(op)
    PROVE  TypeOK'
<1>1. opened' \in BOOLEAN /\ batchFailed' \in BOOLEAN /\ rewound' \in BOOLEAN
  BY DEF Begin, TypeOK
<1>2. log' \in Seq(Pieces) /\ walBuf' \in Seq(Pieces)
  <2>1. walBuf \in Seq(Pieces) /\ log \in Seq(Pieces) /\ log \o walBuf \in Seq(Pieces)
    BY DEF TypeOK
  <2>2. CASE walBuf = <<>>
    <3>1. log' = log /\ walBuf' = walBuf
      BY <2>2 DEF Begin
    <3> QED
      BY <2>1, <3>1
  <2>3. CASE walBuf # <<>>
    <3>1. log' = log \o walBuf /\ walBuf' = <<>>
      BY <2>3 DEF Begin
    <3> QED
      BY <2>1, <3>1
  <2> QED
    BY <2>2, <2>3
<1>4. sent' \in Nat /\ fails' \in 0..MaxFails
  BY DEF Begin, TypeOK
<1>3. promised' \subseteq Stores
  BY DEF Begin, TypeOK
<1> QED
  BY <1>1, <1>2, <1>3, <1>4 DEF Begin, TypeOK

LEMMA BeginFailsType ==
    ASSUME TypeOK, PhaseOK, BeginFails
    PROVE  TypeOK'
<1>1. FlushFails(walBuf, logical) /\ walBuf \in Seq(Pieces) /\ logical \in Stores
  BY DEF BeginFails, TypeOK
<1>2. /\ walBuf' = walBuf /\ promised' = promised \cup {logical}
      /\ log' \in Seq(Pieces) /\ sent' \in Nat /\ rewound' \in BOOLEAN
      /\ fails' \in 0..MaxFails
  BY <1>1, FlushFailsResult DEF PhaseOK
<1> QED
  BY <1>1, <1>2 DEF BeginFails, TypeOK

LEMMA ResetType ==
    ASSUME TypeOK, ResetWal \/ ResetOpenFails \/ ResetHeadFails
    PROVE  TypeOK'
<1>1. lastLsn \in Nat /\ store \in Stores
  BY DEF TypeOK
<1>2. Headers(lastLsn) \subseteq Nat \cup {NoHead, CutHead}
  BY <1>1 DEF Headers
<1>3. CASE ResetWal
  <2>1. CASE call = "close"
    <3>1. Down
      BY <1>3, <2>1 DEF ResetWal
    <3>2. opened' \in BOOLEAN /\ batchFailed' \in BOOLEAN /\ rewound' \in BOOLEAN
      BY <1>3, <3>1, DownType DEF ResetWal, TypeOK
    <3>3. log' \in Seq(Pieces) /\ walBuf' \in Seq(Pieces) /\ head' \in Nat \cup {NoHead, CutHead}
      BY <1>2, <1>3, <3>1 DEF ResetWal, Down
    <3>4. promised' \subseteq Stores /\ mode' \in Modes /\ snap' \in Stores /\ fails' \in 0..MaxFails
      BY <1>3 DEF ResetWal, TypeOK
    <3> QED
      BY <3>1, <3>2, <3>3, <3>4, DownType DEF TypeOK
  <2>2. CASE call # "close"
    <3>1. opened' \in BOOLEAN /\ batchFailed' \in BOOLEAN /\ rewound' \in BOOLEAN
      BY <1>3, <2>2 DEF ResetWal
    <3>2. log' \in Seq(Pieces) /\ walBuf' \in Seq(Pieces) /\ head' \in Nat \cup {NoHead, CutHead}
      BY <1>2, <1>3, <2>2 DEF ResetWal, TypeOK
    <3>3. promised' \subseteq Stores /\ logical' \in Stores /\ store' \in Stores
      BY <1>1, <1>3, <2>2 DEF ResetWal
    <3>4. /\ sent' \in Nat /\ walOps' \in Nat /\ lastLsn' \in Nat /\ mode' \in Modes
          /\ snap' \in Stores /\ fails' \in 0..MaxFails /\ pc' = "idle" /\ call' = "none"
      BY <1>3, <2>2 DEF ResetWal, TypeOK
    <3> QED
      BY <3>1, <3>2, <3>3, <3>4 DEF TypeOK
  <2> QED
    BY <2>1, <2>2
<1>4. CASE ResetOpenFails
  <2>1. opened' \in BOOLEAN /\ batchFailed' \in BOOLEAN /\ rewound' \in BOOLEAN
    BY <1>4 DEF ResetOpenFails, TypeOK
  <2>2. fails' \in 0..MaxFails
    BY <1>4, LogAssumption DEF ResetOpenFails, TypeOK
  <2> QED
    BY <1>4, <2>1, <2>2 DEF ResetOpenFails, TypeOK, files
<1>5. CASE ResetHeadFails
  <2>1. opened' \in BOOLEAN /\ batchFailed' \in BOOLEAN /\ rewound' \in BOOLEAN
    BY <1>5 DEF ResetHeadFails
  <2>2. fails' \in 0..MaxFails /\ head' \in Nat \cup {NoHead, CutHead} /\ log' \in Seq(Pieces)
    BY <1>5, LogAssumption DEF ResetHeadFails, TypeOK, CutHeaders
  <2>3. promised' \subseteq Stores /\ logical' \in Stores
    BY <1>1, <1>5 DEF ResetHeadFails
  <2> QED
    BY <1>5, <2>1, <2>2, <2>3 DEF ResetHeadFails, TypeOK
<1> QED
  BY <1>3, <1>4, <1>5

LEMMA TypeStep == TypeOK /\ PhaseOK /\ [Next]_vars => TypeOK'
<1> SUFFICES ASSUME TypeOK, PhaseOK, [Next]_vars
             PROVE  TypeOK'
  OBVIOUS
<1>1. CASE CloseIdle
  <2>1. rewound' \in BOOLEAN /\ log' \in Seq(Pieces) /\ promised' \subseteq Stores
    BY <1>1 DEF CloseIdle, TypeOK
  <2>2. head' \in Nat \cup {NoHead, CutHead} /\ snap' \in Stores /\ mode' \in Modes
        /\ fails' \in 0..MaxFails /\ Down
    BY <1>1 DEF CloseIdle, TypeOK
  <2>3. /\ pc' = "down" /\ call' = "none" /\ store' \in Stores /\ walBuf' \in Seq(Pieces)
        /\ walOps' \in Nat /\ lastLsn' \in Nat /\ logical' \in Stores /\ sent' \in Nat
    BY <2>2, DownType
  <2>4. opened' \in BOOLEAN /\ batchFailed' \in BOOLEAN
    BY <2>2, DownType
  <2> QED
    BY <2>1, <2>2, <2>3, <2>4 DEF TypeOK
<1>2. CASE Crash
  <2>1. rewound' \in BOOLEAN /\ log' \in Seq(Pieces) /\ promised' \subseteq Stores
    BY <1>2 DEF Crash, TypeOK, files
  <2>2. head' \in Nat \cup {NoHead, CutHead} /\ snap' \in Stores /\ mode' \in Modes
        /\ fails' \in 0..MaxFails /\ Down
    BY <1>2 DEF Crash, TypeOK, files
  <2>3. /\ pc' = "down" /\ call' = "none" /\ store' \in Stores /\ walBuf' \in Seq(Pieces)
        /\ walOps' \in Nat /\ lastLsn' \in Nat /\ logical' \in Stores /\ sent' \in Nat
    BY <2>2, DownType
  <2>4. opened' \in BOOLEAN /\ batchFailed' \in BOOLEAN
    BY <2>2, DownType
  <2> QED
    BY <2>1, <2>2, <2>3, <2>4 DEF TypeOK
<1>3. CASE UNCHANGED vars
  BY <1>3 DEF vars, memory, files, history, TypeOK
<1> QED
  BY <1>1, <1>2, <1>3, Calls, OpenType, WriteType, BeginType, BeginFailsType, ResetType

-----------------------------------------------------------------------------
(* What is read when the log stays, and when it is empty.                  *)

LEMMA ReadSame ==
    ASSUME TypeOK, log' = log, mode' = mode, head' = head \/ log = <<>>
    PROVE  /\ Read' = Read /\ ReadableFrames' = ReadableFrames
           /\ Shadowed' <=> Shadowed
           /\ EndsInLine' <=> EndsInLine
           /\ snap' = snap => Recovered' = Recovered
<1>1. ReadableFrames' = ReadableFrames
  <2>1. CASE head' = head
    BY <2>1 DEF ReadableFrames
  <2>2. CASE log = <<>>
    <3>1. \A i : i \notin DOMAIN log
      BY <2>2
    <3> QED
      BY <3>1 DEF ReadableFrames
  <2> QED
    BY <2>1, <2>2
<1>2. ReadableLines' = ReadableLines
  BY DEF ReadableLines
<1>3. Read' = Read
  BY <1>1, <1>2 DEF Read
<1>4. snap' = snap => Recovered' = Recovered
  BY <1>3 DEF Recovered
<1> QED
  BY <1>1, <1>3, <1>4 DEF Shadowed, EndsInLine

LEMMA ReadEmpty ==
    ASSUME log' = <<>>
    PROVE  /\ Read' = {} /\ ReadableFrames' = {} /\ ~Shadowed' /\ ~EndsInLine'
           /\ snap' \in Stores => Recovered' = snap'
<1>1. ReadableFrames' = {}
  BY DEF ReadableFrames
<1>2. ReadableLines' = {}
  BY DEF ReadableLines
<1>3. Read' = {}
  BY <1>1, <1>2 DEF Read
<1>4. ASSUME snap' \in Stores
      PROVE  Recovered' = snap'
  <2>1. Recovered' = [k \in Keys |-> snap'[k]]
    BY <1>3 DEF Recovered, Overlay
  <2> QED
    BY <1>4, <2>1 DEF Stores
<1> QED
  BY <1>1, <1>3, <1>4 DEF Shadowed, EndsInLine

LEMMA ReadNothing ==
    ASSUME TypeOK, Read = {}
    PROVE  Recovered = snap
<1>1. Recovered = [k \in Keys |-> snap[k]]
  BY DEF Recovered, Overlay
<1> QED
  BY <1>1 DEF Stores, TypeOK

-----------------------------------------------------------------------------
(* The buffer and the calls.                                               *)

LEMMA FlushPhase ==
    ASSUME TypeOK, PhaseOK, NEW b \in Seq(Pieces), \A i \in DOMAIN b : b[i].end = "whole",
           NEW m, sent <= Len(b), FlushSucceeds(b, m) \/ FlushFails(b, m)
    PROVE  walBuf' \in {b, <<>>} /\ sent' <= Len(walBuf')
<1>1. CASE FlushSucceeds(b, m)
  BY <1>1 DEF FlushSucceeds
<1>2. CASE FlushFails(b, m)
  <2>1. walBuf' = b /\ (sent' = sent \/ \E n \in 0..Len(b) : sent' = (IF n > sent THEN n ELSE sent))
    BY <1>2, FlushFailsResult
  <2>2. sent \in Nat /\ Len(b) \in Nat
    BY DEF TypeOK
  <2> QED
    BY <2>1, <2>2
<1> QED
  BY <1>1, <1>2

LEMMA WritePhase ==
    ASSUME TypeOK, PhaseOK, NEW f \in Patches, NEW ok \in BOOLEAN, LogFrame(f, ok)
    PROVE  PhaseOK'
<1> DEFINE b == Append(walBuf, Frame(f))
           m == ApplyPatch(logical, f)
<1>1. /\ b \in Seq(Pieces) /\ \A i \in DOMAIN b : b[i].end = "whole"
      /\ pc = "idle" /\ pc' = pc /\ walOps' = walOps + 1
      /\ \/ walBuf' = b /\ sent' = sent
         \/ FlushSucceeds(b, m)
         \/ FlushFails(b, m)
  BY LogFrameResult
<1>2. Len(b) = Len(walBuf) + 1 /\ Len(walBuf) \in Nat /\ sent \in Nat /\ walOps \in Nat
  BY FrameType, PrefixOfAppend DEF TypeOK
<1> HIDE DEF b, m
<1>3. sent <= Len(b)
  BY <1>2 DEF PhaseOK
<1>4. walBuf' \in {b, <<>>} /\ sent' <= Len(walBuf')
  BY <1>1, <1>3, FlushPhase
<1>5. \A i \in DOMAIN walBuf' : walBuf'[i].end = "whole"
  BY <1>1, <1>4
<1> QED
  BY <1>1, <1>2, <1>4, <1>5 DEF PhaseOK

LEMMA OpenPhase ==
    ASSUME TypeOK, PhaseOK, Open
    PROVE  PhaseOK'
<1>1. walBuf = <<>> /\ walBuf' = walBuf /\ sent' = sent /\ pc' = "idle"
  BY DEF Open, PhaseOK
<1>2. ASSUME walOps' = 0
      PROVE  Read' = {} /\ snap' = store'
  <2>1. Read = {} /\ Recovered = snap
    BY <1>2, ReadFinite, ReadNothing DEF Open
  <2>2. log' = log /\ mode' = mode /\ (head' = head \/ log = <<>>)
    BY DEF Open
  <2> QED
    BY <2>1, <2>2, ReadSame DEF Open
<1> QED
  BY <1>1, <1>2 DEF PhaseOK

LEMMA BeginPhase ==
    ASSUME TypeOK, PhaseOK, NEW op \in {"compact", "close"}, Begin(op)
    PROVE  PhaseOK'
<1>1. walBuf' = <<>> /\ sent' <= Len(walBuf')
  BY DEF Begin, PhaseOK
<1>2. snap' = store /\ store' = store /\ pc' = "reset"
  BY DEF Begin
<1>3. ASSUME walOps' = 0
      PROVE  Read' = {}
  <2>1. walBuf = <<>> /\ Read = {}
    BY <1>3 DEF Begin, PhaseOK
  <2>2. log' = log /\ mode' = mode /\ head' = head
    BY <2>1 DEF Begin
  <2> QED
    BY <2>1, <2>2, ReadSame
<1> QED
  BY <1>1, <1>2, <1>3 DEF PhaseOK

LEMMA BeginFailsPhase ==
    ASSUME TypeOK, PhaseOK, BeginFails
    PROVE  PhaseOK'
<1>1. /\ FlushFails(walBuf, logical) /\ walBuf \in Seq(Pieces) /\ walBuf # <<>>
      /\ pc = "idle" /\ pc' = pc /\ walOps' = walOps
  BY DEF BeginFails, TypeOK
<1>2. walOps # 0
  BY <1>1 DEF PhaseOK
<1>3. walBuf' = walBuf
  BY <1>1 DEF FlushFails
<1>4. sent' <= Len(walBuf')
  BY <1>1, FlushPhase DEF PhaseOK
<1> QED
  BY <1>1, <1>2, <1>3, <1>4 DEF PhaseOK

LEMMA ResetPhase ==
    ASSUME TypeOK, PhaseOK, ResetWal \/ ResetOpenFails \/ ResetHeadFails
    PROVE  PhaseOK'
<1>1. walBuf = <<>> /\ snap = store /\ sent <= 0 /\ pc = "reset"
  BY DEF PhaseOK, ResetWal, ResetOpenFails, ResetHeadFails
<1>2. CASE ResetWal /\ call = "close"
  BY <1>2 DEF ResetWal, Down, PhaseOK
<1>3. CASE (ResetWal /\ call # "close") \/ ResetHeadFails
  <2>1. /\ log' = <<>> /\ walBuf' = <<>> /\ sent' = sent /\ snap' = snap /\ store' = store
        /\ pc' = "idle"
    BY <1>1, <1>3 DEF ResetWal, ResetHeadFails
  <2> QED
    BY <1>1, <2>1, ReadEmpty DEF PhaseOK
<1>4. CASE ResetOpenFails
  <2>1. /\ log' = log /\ head' = head /\ mode' = mode /\ walBuf' = walBuf /\ sent' = sent
        /\ snap' = snap /\ store' = store /\ pc' = "idle" /\ walOps' = walOps
    BY <1>4 DEF ResetOpenFails, files
  <2>2. Read' = Read
    BY <2>1, ReadSame
  <2>3. walOps = 0 => Read = {}
    BY <1>1 DEF PhaseOK
  <2> QED
    BY <1>1, <2>1, <2>2, <2>3 DEF PhaseOK
<1> QED
  BY <1>2, <1>3, <1>4

LEMMA SamePhase ==
    ASSUME TypeOK, PhaseOK, UNCHANGED vars
    PROVE  PhaseOK'
<1>1. Read' = Read
  BY ReadSame DEF vars, files
<1> QED
  BY <1>1 DEF PhaseOK, vars, memory, files, history

LEMMA PhaseStep == TypeOK /\ PhaseOK /\ [Next]_vars => PhaseOK'
<1> SUFFICES ASSUME TypeOK, PhaseOK, [Next]_vars
             PROVE  PhaseOK'
  OBVIOUS
<1>1. CASE CloseIdle \/ Crash
  BY <1>1 DEF CloseIdle, Crash, Down, PhaseOK
<1>2. ASSUME NEW f \in Patches, NEW ok \in BOOLEAN, Write(f, ok) \/ Batch(f, ok)
      PROVE  PhaseOK'
  BY <1>2, WritePhase DEF Write, Batch
<1> QED
  BY <1>1, <1>2, Calls, OpenPhase, BeginPhase, BeginFailsPhase, ResetPhase, SamePhase

-----------------------------------------------------------------------------
(* The store against the log.                                              *)

\* What reaches a key in file or buffer still does after a flush of the buffer.
LEMMA ReachStays ==
    ASSUME TypeOK, NEW b \in Seq(Pieces), \A i \in DOMAIN b : b[i].end = "whole",
           NEW m, NEW k \in Keys, Reaches(log, k) \/ Reaches(b, k),
           \/ walBuf' = b /\ log' = log
           \/ FlushSucceeds(b, m)
           \/ FlushFails(b, m)
    PROVE  Reaches(log', k) \/ Reaches(walBuf', k)
<1>1. CASE walBuf' = b /\ log' = log
  BY <1>1
<1>2. CASE FlushSucceeds(b, m)
  <2>1. log' = log \o b /\ log \in Seq(Pieces)
    BY <1>2 DEF FlushSucceeds, TypeOK
  <2> QED
    BY <2>1, ReachesConcat
<1>3. CASE FlushFails(b, m)
  <2>1. walBuf' = b /\ log \in Seq(Pieces)
    BY <1>3 DEF FlushFails, TypeOK
  <2>2. log' = log \/ \E c \in Seq(Pieces) : log' = log \o c
    BY <1>3, FlushFailsResult, ArrivesType
  <2>3. CASE log' = log
    BY <2>1, <2>3
  <2>4. ASSUME NEW c \in Seq(Pieces), log' = log \o c
        PROVE  Reaches(log', k) \/ Reaches(walBuf', k)
    <3>1. Reaches(log \o c, k) <=> Reaches(log, k) \/ Reaches(c, k)
      BY <2>1, ReachesConcat
    <3> QED
      BY <2>1, <2>4, <3>1
  <2> QED
    BY <2>2, <2>3, <2>4
<1> QED
  BY <1>1, <1>2, <1>3

LEMMA WriteStore ==
    ASSUME TypeOK, PhaseOK, StoreOK, NEW f \in Patches, NEW ok \in BOOLEAN,
           Write(f, ok) \/ Batch(f, ok)
    PROVE  StoreOK'
<1> DEFINE b == Append(walBuf, Frame(f))
           m == ApplyPatch(logical, f)
<1>0. LogFrame(f, ok)
  BY DEF Write, Batch
<1>1. /\ b \in Seq(Pieces) /\ \A i \in DOMAIN b : b[i].end = "whole"
      /\ logical' = m /\ pc = "idle"
      /\ \/ walBuf' = b /\ log' = log
         \/ FlushSucceeds(b, m)
         \/ FlushFails(b, m)
  BY <1>0, LogFrameResult
<1>2. /\ log \in Seq(Pieces) /\ walBuf \in Seq(Pieces) /\ store \in Stores /\ logical \in Stores
  BY DEF TypeOK
<1>3. /\ Frame(f) \in Pieces /\ Frame(f).patch = f /\ Frame(f).end = "whole"
      /\ b = walBuf \o <<Frame(f)>>
  BY <1>2, FrameType, LaidAppend
<1>4. ASSUME NEW k \in Keys
      PROVE  /\ Reaches(walBuf, k) => Reaches(b, k)
             /\ f[k] # Keep => Reaches(b, k)
  <2> DEFINE one == <<Frame(f)>>
  <2>1. one \in Seq(Pieces) /\ 1 \in DOMAIN one /\ one[1] = Frame(f)
    BY <1>3
  <2>2. f[k] # Keep => Reaches(one, k)
    BY <1>3, <2>1 DEF Reaches, Arrived
  <2> HIDE DEF one
  <2>3. Reaches(walBuf \o one, k) <=> Reaches(walBuf, k) \/ Reaches(one, k)
    BY <1>2, <2>1, ReachesConcat
  <2> QED
    BY <1>3, <2>2, <2>3 DEF one
<1> HIDE DEF b
<1>5. \/ store' = ApplyPatch(store, f) /\ batchFailed' = batchFailed
      \/ store' = ApplyPatch(store, f) /\ batchFailed' = (batchFailed \/ ~ok) /\ ok
      \/ store' = store /\ batchFailed' = (batchFailed \/ ~ok) /\ ~ok
  BY DEF Write, Batch
<1>6. store' = logical' \/ batchFailed'
  BY <1>1, <1>5 DEF StoreOK
<1>7. ASSUME NEW k \in Keys, store'[k] # logical'[k]
      PROVE  Reaches(log', k) \/ Reaches(walBuf', k)
  <2>1. CASE f[k] # Keep
    <3>1. Reaches(b, k)
      BY <1>4, <2>1
    <3> HIDE DEF m
    <3> QED
      BY <1>1, <3>1, ReachStays
  <2>2. CASE f[k] = Keep
    <3>1. logical'[k] = logical[k] /\ store'[k] = store[k]
      BY <1>1, <1>5, <2>2 DEF ApplyPatch
    <3>2. Reaches(log, k) \/ Reaches(b, k)
      BY <1>1, <1>4, <1>7, <3>1 DEF StoreOK
    <3> HIDE DEF m
    <3> QED
      BY <1>1, <3>2, ReachStays
  <2> QED
    BY <2>1, <2>2
<1> QED
  BY <1>6, <1>7 DEF StoreOK

LEMMA BeginStore ==
    ASSUME TypeOK, PhaseOK, StoreOK,
           BeginFails \/ (\E op \in {"compact", "close"} : Begin(op))
    PROVE  StoreOK'
<1>1. /\ pc = "idle" /\ store' = store /\ logical' = logical /\ batchFailed' = batchFailed
      /\ walBuf \in Seq(Pieces) /\ log \in Seq(Pieces)
  BY DEF Begin, BeginFails, TypeOK
<1>2. ASSUME NEW k \in Keys, store'[k] # logical'[k]
      PROVE  Reaches(log', k) \/ Reaches(walBuf', k)
  <2>1. Reaches(log, k) \/ Reaches(walBuf, k)
    BY <1>1, <1>2 DEF StoreOK
  <2>2. CASE BeginFails
    BY <1>1, <2>1, <2>2, ReachStays DEF BeginFails, PhaseOK
  <2>3. CASE \E op \in {"compact", "close"} : Begin(op)
    <3>1. (log' = log /\ walBuf' = walBuf) \/ log' = log \o walBuf
      BY <2>3 DEF Begin
    <3>2. Reaches(log \o walBuf, k) <=> Reaches(log, k) \/ Reaches(walBuf, k)
      BY <1>1, ReachesConcat
    <3> QED
      BY <2>1, <3>1, <3>2
  <2> QED
    BY <2>2, <2>3
<1>3. store' = logical' \/ batchFailed'
  BY <1>1 DEF StoreOK
<1> QED
  BY <1>2, <1>3 DEF StoreOK

LEMMA StoreStep == TypeOK /\ PhaseOK /\ StoreOK /\ [Next]_vars => StoreOK'
<1> SUFFICES ASSUME TypeOK, PhaseOK, StoreOK, [Next]_vars
             PROVE  StoreOK'
  OBVIOUS
<1>1. CASE CloseIdle \/ Crash \/ (ResetWal /\ call = "close")
  BY <1>1 DEF CloseIdle, Crash, ResetWal, Down, StoreOK
<1>2. CASE Open \/ ResetHeadFails \/ (ResetWal /\ call # "close")
  BY <1>2 DEF Open, ResetHeadFails, ResetWal, StoreOK
<1>3. CASE ResetOpenFails \/ UNCHANGED vars
  <2>1. /\ store' = store /\ logical' = logical /\ batchFailed' = batchFailed
        /\ log' = log /\ walBuf' = walBuf /\ (pc' # "down" => pc # "down")
    BY <1>3 DEF ResetOpenFails, files, vars, memory, history
  <2> QED
    BY <2>1 DEF StoreOK
<1> QED
  BY <1>1, <1>2, <1>3, Calls, WriteStore, BeginStore

-----------------------------------------------------------------------------
(* The numbers of the frames.                                              *)

\* What is read of a longer log is what was read of it, and frames that came.
LEMMA FramesGrow ==
    ASSUME TypeOK, NEW c \in Seq(Pieces), log' = log \o c, head' = head
    PROVE  \A i \in ReadableFrames' :
              \/ i \in ReadableFrames /\ log'[i] = log[i]
              \/ \E j \in DOMAIN c : log'[i] = c[j] /\ c[j].end = "whole"
<1>1. log \in Seq(Pieces)
  BY DEF TypeOK
<1>2. \A i \in DOMAIN log : i \in DOMAIN log' /\ log'[i] = log[i]
  BY <1>1
<1>3. \A i \in DOMAIN log' : i \in DOMAIN log \/ (i - Len(log) \in DOMAIN c /\ log'[i] = c[i - Len(log)])
  BY <1>1
<1>4. \A i \in ReadableFrames' : i \in DOMAIN log' /\ log'[i].end = "whole" /\ head' \in Nat
  <2>1. log' \in Seq(Pieces)
    BY <1>1
  <2> QED
    BY <2>1 DEF ReadableFrames
<1>5. ASSUME NEW i \in ReadableFrames', i \in DOMAIN log
      PROVE  i \in ReadableFrames
  <2>1. \A j \in 1..i : j \in DOMAIN log /\ log'[j].end = "whole"
    BY <1>1, <1>5 DEF ReadableFrames
  <2> QED
    BY <1>2, <1>4, <1>5, <2>1 DEF ReadableFrames
<1> QED
  BY <1>2, <1>3, <1>4, <1>5

\* What arrives of a flush is a frame of the buffer, or cut.
LEMMA FlushFrames ==
    ASSUME TypeOK, NEW b \in Seq(Pieces), \A i \in DOMAIN b : b[i].end = "whole",
           NEW m, head' = head,
           \/ walBuf' = b /\ log' = log
           \/ walBuf' = <<>> /\ log' = log \o b
           \/ FlushFails(b, m)
    PROVE  Frames' \subseteq {log[i] : i \in ReadableFrames} \cup {b[i] : i \in DOMAIN b}
<1>1. walBuf' \in {b, <<>>}
  BY DEF FlushFails
<1>2. CASE log' = log
  <2>1. ReadableFrames' = ReadableFrames
    BY <1>2 DEF ReadableFrames
  <2> QED
    BY <1>1, <1>2, <2>1 DEF Frames
<1>3. ASSUME NEW c \in Seq(Pieces), log' = log \o c,
             \A j \in DOMAIN c : c[j].end = "whole" => \E i \in DOMAIN b : c[j] = b[i]
      PROVE  Frames' \subseteq {log[i] : i \in ReadableFrames} \cup {b[i] : i \in DOMAIN b}
  <2>1. \A i \in ReadableFrames' :
           \/ i \in ReadableFrames /\ log'[i] = log[i]
           \/ \E j \in DOMAIN c : log'[i] = c[j] /\ c[j].end = "whole"
    BY <1>3, FramesGrow
  <2>2. ASSUME NEW i \in ReadableFrames'
        PROVE  log'[i] \in {log[j] : j \in ReadableFrames} \cup {b[j] : j \in DOMAIN b}
    <3>1. CASE i \in ReadableFrames /\ log'[i] = log[i]
      BY <3>1
    <3>2. CASE \E j \in DOMAIN c : log'[i] = c[j] /\ c[j].end = "whole"
      BY <1>3, <3>2
    <3> QED
      BY <2>1, <3>1, <3>2
  <2>3. \A i \in DOMAIN walBuf' : walBuf'[i] \in {b[j] : j \in DOMAIN b}
    BY <1>1
  <2> QED
    BY <2>2, <2>3 DEF Frames
<1>4. CASE log' = log \o b
  BY <1>3, <1>4
<1>5. CASE FlushFails(b, m) /\ log' # log
  <2>1. PICK n \in 0..Len(b), end \in Ends : Arrives(b, n, end)
    BY <1>5, FlushFailsResult
  <2>2. PICK c \in Seq(Pieces) :
              /\ log' = log \o c
              /\ end = "whole" => c = SubSeq(b, 1, n)
              /\ end # "whole" => /\ n < Len(b)
                                  /\ c = Partial(b, n, end)
    BY <2>1, ArrivesType
  <2>3. \A j \in 1..n : j \in DOMAIN b /\ SubSeq(b, 1, n)[j] = b[j]
    OBVIOUS
  <2>4. CASE end = "whole"
    <3> DEFINE w == SubSeq(b, 1, n)
    <3>1. w \in Seq(Pieces) /\ Len(w) = n /\ \A j \in 1..n : j \in DOMAIN b /\ w[j] = b[j]
      BY <2>3, PrefixTypes
    <3>2. c = w
      BY <2>2, <2>4
    <3> HIDE DEF w
    <3>3. \A j \in DOMAIN c : \E i \in DOMAIN b : c[j] = b[i]
      BY <3>1, <3>2
    <3> QED
      BY <1>3, <2>2, <3>3
  <2>5. CASE end # "whole"
    <3> DEFINE q == [b[n + 1] EXCEPT !.end = end]
               w == SubSeq(b, 1, n)
    <3>1. b[n + 1] \in Pieces
      BY <2>2, <2>5
    <3>2. q.end = end /\ q \in Pieces
      BY <3>1 DEF Pieces
    <3>3. w \in Seq(Pieces) /\ Len(w) = n /\ \A j \in 1..n : w[j] = b[j]
      BY PrefixTypes
    <3> HIDE DEF q, w
    <3>4. \A j \in DOMAIN (w \o <<q>>) : (j \in 1..n /\ (w \o <<q>>)[j] = w[j]) \/ (w \o <<q>>)[j] = q
      BY <3>2, <3>3
    <3>5. c = w \o <<q>>
      BY <2>2, <2>5 DEF w, q, Partial
    <3>6. \A j \in DOMAIN c : c[j].end = "whole" => \E i \in DOMAIN b : c[j] = b[i]
      BY <2>3, <2>5, <3>2, <3>3, <3>4, <3>5
    <3> QED
      BY <1>3, <2>2, <3>6
  <2> QED
    BY <2>4, <2>5
<1> QED
  BY <1>2, <1>4, <1>5 

LEMMA FewerFrames ==
    ASSUME LsnOK, mode' = mode, Frames' \subseteq Frames,
           pc' # "down" => pc # "down" /\ lastLsn' = lastLsn
    PROVE  LsnOK'
BY DEF LsnOK

LEMMA WriteLsn ==
    ASSUME TypeOK, PhaseOK, LsnOK, NEW f \in Patches, NEW ok \in BOOLEAN, LogFrame(f, ok)
    PROVE  LsnOK'
<1> DEFINE one == Frame(f)
           b == Append(walBuf, one)
           m == ApplyPatch(logical, f)
<1>1. /\ b \in Seq(Pieces) /\ \A i \in DOMAIN b : b[i].end = "whole"
      /\ pc = "idle" /\ lastLsn' = one.lsn /\ mode' = mode /\ head' = head
      /\ \/ walBuf' = b /\ log' = log
         \/ FlushSucceeds(b, m)
         \/ FlushFails(b, m)
  BY LogFrameResult
<1>2. Frames' \subseteq {log[i] : i \in ReadableFrames} \cup {b[i] : i \in DOMAIN b}
  <2> HIDE DEF b, m
  <2> QED
    BY <1>1, FlushFrames DEF FlushSucceeds
<1>3. walBuf \in Seq(Pieces) /\ lastLsn \in Nat /\ one \in Pieces
  BY FrameType DEF TypeOK
<1>4. \A i \in DOMAIN b : b[i] = one \/ (i \in DOMAIN walBuf /\ b[i] = walBuf[i])
  <2> HIDE DEF one
  <2> QED
    BY <1>3
<1>5. Frames' \subseteq Frames \cup {one}
  BY <1>2, <1>4 DEF Frames
<1>6. SUFFICES ASSUME mode = "v2"
               PROVE  LsnOK'
  BY <1>1 DEF LsnOK
<1>7. one.lsn = lastLsn + 1
  BY <1>6 DEF Frame
<1>8. \A p \in Frames : p.lsn <= lastLsn /\ p.lsn \in Nat
  <2>1. \A p \in Frames : p.lsn <= lastLsn
    BY <1>1, <1>6 DEF LsnOK
  <2>2. \A i \in ReadableFrames : log[i].lsn \in Nat
    BY ReadType, PieceTypes
  <2>3. \A i \in DOMAIN walBuf : walBuf[i].lsn \in Nat
    BY <1>3, PieceTypes
  <2> QED
    BY <2>1, <2>2, <2>3 DEF Frames
<1> HIDE DEF one, b, m
<1>9. \A p \in Frames : p.lsn # one.lsn /\ p.lsn <= lastLsn'
  BY <1>1, <1>3, <1>7, <1>8
<1>10. one.lsn <= lastLsn'
  BY <1>1, <1>3, <1>7
<1>11. \A p, q \in Frames' : p.lsn = q.lsn => p = q
  BY <1>5, <1>6, <1>9 DEF LsnOK
<1>12. \A p \in Frames' : p.lsn <= lastLsn'
  BY <1>5, <1>9, <1>10
<1> QED
  BY <1>11, <1>12 DEF LsnOK

LEMMA OpenLsn ==
    ASSUME TypeOK, PhaseOK, LsnOK, Open
    PROVE  LsnOK'
<1>1. /\ log' = log /\ mode' = mode /\ (head' = head \/ log = <<>>)
      /\ walBuf' = walBuf /\ lastLsn' = LsnAfterLoad /\ walBuf = <<>>
  BY DEF Open, PhaseOK
<1>2. Frames' = Frames /\ Frames = {log[i] : i \in ReadableFrames}
  BY <1>1, ReadSame DEF Frames
<1>3. SUFFICES ASSUME mode = "v2"
               PROVE  LsnOK'
  BY <1>1 DEF LsnOK
<1>4. ASSUME NEW i \in ReadableFrames
      PROVE  log[i].lsn <= lastLsn'
  <2>1. head \in Nat /\ i \in Read
    BY <1>3 DEF ReadableFrames, Read
  <2>2. log[i].lsn <= ReplayLsn /\ ReplayLsn \in Nat /\ log[i].lsn \in Nat
    BY <2>1, ReplayLsnLast, ReadType, PieceTypes
  <2>3. lastLsn' = head + ReplayLsn
    BY <1>1, <1>3, <2>1 DEF LsnAfterLoad
  <2> QED
    BY <2>1, <2>2, <2>3
<1>5. \A p \in Frames' : p.lsn <= lastLsn'
  BY <1>2, <1>4
<1> QED
  BY <1>2, <1>3, <1>5 DEF LsnOK

LEMMA LsnStep == TypeOK /\ PhaseOK /\ LsnOK /\ [Next]_vars => LsnOK'
<1> SUFFICES ASSUME TypeOK, PhaseOK, LsnOK, [Next]_vars
             PROVE  LsnOK'
  OBVIOUS
<1>0. walBuf \in Seq(Pieces) /\ log \in Seq(Pieces) /\ \A i \in DOMAIN walBuf : walBuf[i].end = "whole"
  BY DEF TypeOK, PhaseOK
<1>1. CASE BeginFails
  <2>1. FlushFails(walBuf, logical) /\ head' = head /\ mode' = mode /\ pc' = pc /\ lastLsn' = lastLsn
    BY <1>1 DEF BeginFails
  <2>2. Frames' \subseteq Frames
    BY <1>0, <2>1, FlushFrames DEF Frames
  <2> QED
    BY <2>1, <2>2, FewerFrames
<1>2. CASE \E op \in {"compact", "close"} : Begin(op)
  <2>1. head' = head /\ mode' = mode /\ pc = "idle" /\ lastLsn' = lastLsn
    BY <1>2 DEF Begin
  <2>2. (walBuf' = walBuf /\ log' = log) \/ (walBuf' = <<>> /\ log' = log \o walBuf)
    BY <1>2 DEF Begin
  <2>3. Frames' \subseteq Frames
    BY <1>0, <2>1, <2>2, FlushFrames DEF Frames
  <2> QED
    BY <2>1, <2>3, FewerFrames
<1>3. CASE CloseIdle
  <2>1. head' = head /\ mode' = mode /\ pc' = "down" /\ walBuf' = <<>> /\ log' = log \o walBuf
    BY <1>3 DEF CloseIdle, Down
  <2>2. Frames' \subseteq Frames
    BY <1>0, <2>1, FlushFrames DEF Frames
  <2> QED
    BY <2>1, <2>2, FewerFrames
<1>4. CASE Crash
  <2>1. head' = head /\ mode' = mode /\ pc' = "down" /\ walBuf' = <<>> /\ log' = log
    BY <1>4 DEF Crash, Down, files
  <2>2. ReadableFrames' = ReadableFrames
    BY <2>1 DEF ReadableFrames
  <2>3. Frames' \subseteq Frames
    BY <2>1, <2>2 DEF Frames
  <2> QED
    BY <2>1, <2>3, FewerFrames
<1>5. CASE ResetWal \/ ResetHeadFails
  <2>1. walBuf' = <<>> /\ log' = <<>> /\ mode' = mode
    BY <1>5 DEF ResetWal, ResetHeadFails, Down, PhaseOK
  <2>2. Frames' = {}
    BY <2>1, ReadEmpty DEF Frames
  <2> QED
    BY <2>2 DEF LsnOK
<1>6. CASE ResetOpenFails \/ UNCHANGED vars
  <2>1. /\ log' = log /\ head' = head /\ mode' = mode /\ walBuf' = walBuf /\ lastLsn' = lastLsn
        /\ pc' # "down" => pc # "down"
    BY <1>6 DEF ResetOpenFails, files, vars, memory
  <2>2. ReadableFrames' = ReadableFrames
    BY <2>1 DEF ReadableFrames
  <2>3. Frames' = Frames
    BY <2>1, <2>2 DEF Frames
  <2> QED
    BY <2>1, <2>3, FewerFrames
<1>7. ASSUME NEW f \in Patches, NEW ok \in BOOLEAN, Write(f, ok) \/ Batch(f, ok)
      PROVE  LsnOK'
  BY <1>7, WriteLsn DEF Write, Batch
<1> QED
  BY <1>1, <1>2, <1>3, <1>4, <1>5, <1>6, <1>7, Calls, OpenLsn

-----------------------------------------------------------------------------
(* The log against the prefixes of the buffer.                             *)

LEMMA UnshadowedAfter ==
    ASSUME log' \in Seq(Pieces), ~Shadowed'
    PROVE  Recovered' = Laid(snap', log')
<1>1. Read' \subseteq Arrived(log')
  BY DEF Read, ReadableFrames, ReadableLines, Arrived
<1>2. Arrived(log') \subseteq Read'
  BY DEF Shadowed, Arrived
<1>3. Read' = Arrived(log')
  BY <1>1, <1>2
<1> QED
  BY <1>3 DEF Recovered, Laid

\* LineFrom(g) as it will be when b is the buffer and m the map of its frames.
Ready(g, b, m) ==
    /\ m = Laid(g, b)
    /\ \A n \in 0..Len(b) : Laid(g, SubSeq(b, 1, n)) \in promised \cup {m}
    /\ ~Shadowed =>
          \A k \in Keys : \E n \in 0..Len(b) :
              Recovered[k] = Laid(g, SubSeq(b, 1, n))[k] /\ (EndsInLine \/ n <= sent)
    /\ ~Shadowed /\ (~rewound \/ sent = 0) =>
          \E n \in 0..Len(b) :
              Recovered = Laid(g, SubSeq(b, 1, n)) /\ (EndsInLine \/ n = sent)

LEMMA ReadyBuffer ==
    ASSUME NEW g \in Stores, LineFrom(g)
    PROVE  Ready(g, walBuf, logical)
BY DEF Ready, LineFrom, Part

LEMMA ReadyAppend ==
    ASSUME TypeOK, NEW g \in Stores, LineFrom(g), NEW p \in Pieces, p.end = "whole"
    PROVE  Ready(g, Append(walBuf, p), ApplyPatch(logical, p.patch))
<1> DEFINE b == Append(walBuf, p)
           m == ApplyPatch(logical, p.patch)
<1>1. walBuf \in Seq(Pieces) /\ Len(walBuf) \in Nat
  BY DEF TypeOK
<1>2. /\ b \in Seq(Pieces) /\ Len(b) = Len(walBuf) + 1
      /\ \A n \in 0..Len(walBuf) : SubSeq(b, 1, n) = SubSeq(walBuf, 1, n)
      /\ SubSeq(b, 1, Len(b)) = b
  BY <1>1, PrefixOfAppend
<1>3. m = Laid(g, b)
  BY <1>1, LaidAppend DEF LineFrom
<1> HIDE DEF b, m
<1>4. \A n \in 0..Len(walBuf) : n \in 0..Len(b) /\ Laid(g, SubSeq(b, 1, n)) = Part(g, n)
  <2> TAKE n \in 0..Len(walBuf)
  <2>1. n \in 0..Len(b)
    BY <1>1, <1>2
  <2>2. SubSeq(b, 1, n) = SubSeq(walBuf, 1, n)
    BY <1>2
  <2> QED
    BY <2>1, <2>2 DEF Part
<1>5. \A n \in 0..Len(b) : Laid(g, SubSeq(b, 1, n)) \in promised \cup {m}
  <2> TAKE n \in 0..Len(b)
  <2>1. n \in 0..Len(walBuf) \/ n = Len(b)
    BY <1>1, <1>2
  <2> QED
    BY <1>2, <1>3, <1>4, <2>1 DEF LineFrom
<1>6. ~Shadowed => \A k \in Keys : \E n \in 0..Len(b) :
         Recovered[k] = Laid(g, SubSeq(b, 1, n))[k] /\ (EndsInLine \/ n <= sent)
  BY <1>4 DEF LineFrom
<1>7. ~Shadowed /\ (~rewound \/ sent = 0) => \E n \in 0..Len(b) :
         Recovered = Laid(g, SubSeq(b, 1, n)) /\ (EndsInLine \/ n = sent)
  BY <1>4 DEF LineFrom
<1>8. Ready(g, b, m)
  BY <1>3, <1>5, <1>6, <1>7 DEF Ready
<1> QED
  BY <1>8 DEF b, m

\* Nothing reaches the file.
LEMMA LineKept ==
    ASSUME TypeOK, NEW g \in Stores, NEW b \in Seq(Pieces), NEW m, Ready(g, b, m),
           walBuf' = b, logical' = m, promised' = promised \cup {m},
           log' = log, UNCHANGED <<head, mode, snap, sent, rewound>>
    PROVE  LineFrom(g)'
<1>1. /\ Shadowed' <=> Shadowed
      /\ EndsInLine' <=> EndsInLine
      /\ Recovered' = Recovered
  BY ReadSame
<1> QED
  BY <1>1 DEF Ready, LineFrom, Part

\* The log stands for m and the buffer is empty.
LEMMA LineFresh ==
    ASSUME NEW m \in Stores, walBuf' = <<>>, logical' = m, m \in promised', sent' = 0,
           ~Shadowed' => Recovered' = m
    PROVE  LineFrom(m)'
<1>1. Laid(m, <<>>) = m /\ SubSeq(<<>>, 1, 0) = <<>> /\ Len(<<>>) = 0
  BY LaidEmpty
<1>2. \A n \in 0..Len(walBuf') : n = 0
  OBVIOUS
<1>3. Part(m, 0)' = m /\ 0 \in 0..Len(walBuf')
  <2>1. SubSeq(walBuf', 1, 0) = <<>> /\ Len(walBuf') = 0
    BY <1>1
  <2>2. Part(m, 0)' = Laid(m, SubSeq(walBuf', 1, 0))
    BY DEF Part
  <2>3. Part(m, 0)' = m
    BY <1>1, <2>1, <2>2
  <2> QED
    BY <2>1, <2>3
<1> QED
  BY <1>1, <1>2, <1>3 DEF LineFrom

\* After a flush has succeeded the log stands for the whole buffer, whatever
\* earlier ones have left in it.
LEMMA FlushedMap ==
    ASSUME TypeOK, NEW g \in Stores, NEW b \in Seq(Pieces), NEW m, Ready(g, b, m),
           log' = log \o b, head' = head, mode' = mode, ~Shadowed'
    PROVE  Laid(snap, log') = m
<1>1. ~Shadowed /\ snap \in Stores /\ log \in Seq(Pieces)
  BY ShadowStays DEF TypeOK
<1>2. Recovered = Laid(snap, log) /\ Recovered \in Stores
  BY <1>1, Unshadowed, ReadType
<1>3. Laid(snap, log') = Laid(Recovered, b)
  BY <1>1, <1>2, LaidConcat
<1>4. Laid(Recovered, b) \in Stores /\ Laid(g, b) \in Stores
  BY <1>2, LaidType
<1>5. ASSUME NEW k \in Keys
      PROVE  Laid(Recovered, b)[k] = Laid(g, b)[k]
  <2>1. PICK n \in 0..Len(b) : Recovered[k] = Laid(g, SubSeq(b, 1, n))[k]
    BY <1>1 DEF Ready
  <2>2. Len(b) \in 0..Len(b) /\ SubSeq(b, 1, Len(b)) = b
    BY PrefixTypes
  <2>3. Laid(Recovered, SubSeq(b, 1, Len(b)))[k] = Laid(g, SubSeq(b, 1, Len(b)))[k]
    BY <1>2, <2>1, <2>2, KeyRewritten
  <2> QED
    BY <2>2, <2>3
<1>6. Laid(Recovered, b) = Laid(g, b)
  BY <1>4, <1>5, SameMap
<1> QED
  BY <1>3, <1>6 DEF Ready

\* A flush that fails has left the first n frames of the buffer and perhaps a
\* part of the next behind the log.
LEMMA LineFails ==
    ASSUME TypeOK, NEW g \in Stores, NEW b \in Seq(Pieces),
           \A i \in DOMAIN b : b[i].end = "whole", sent <= Len(b),
           NEW m, Ready(g, b, m),
           NEW n \in 0..Len(b), NEW end \in Ends, Arrives(b, n, end),
           walBuf' = b, logical' = m, promised' = promised \cup {m},
           sent' = (IF n > sent THEN n ELSE sent), rewound' = (n < sent),
           UNCHANGED <<head, mode, snap>>
    PROVE  LineFrom(g)'
<1>0. Len(b) \in Nat /\ n \in Nat /\ sent \in Nat /\ log \in Seq(Pieces) /\ snap \in Stores
  BY DEF TypeOK
<1>1. PICK c \in Seq(Pieces) :
            /\ log' = log \o c
            /\ end = "whole" => c = SubSeq(b, 1, n)
            /\ end # "whole" => /\ n < Len(b)
                                /\ c = Partial(b, n, end)
                                /\ c # <<>>
  BY ArrivesType
<1>2. logical' = Laid(g, walBuf') /\ \A i \in 0..Len(walBuf') : Part(g, i)' \in promised'
  BY DEF Ready, Part
<1>3. CASE c = <<>>
  <2>1. log' = log
    BY <1>0, <1>1, <1>3
  <2>2. n = 0
    <3>1. end = "whole" /\ SubSeq(b, 1, n) = <<>>
      BY <1>1, <1>3
    <3>2. Len(SubSeq(b, 1, n)) = n
      BY PrefixTypes
    <3> QED
      BY <3>1, <3>2
  <2>3. sent' = sent /\ (~rewound' \/ sent' = 0 => sent = 0)
    <3>1. ~rewound' => ~(n < sent)
      OBVIOUS
    <3> QED
      BY <1>0, <2>2, <3>1
  <2>4. /\ Shadowed' <=> Shadowed
        /\ EndsInLine' <=> EndsInLine
        /\ Recovered' = Recovered
    BY <2>1, ReadSame
  <2>5. ~Shadowed' => \A k \in Keys : \E i \in 0..Len(walBuf') :
           Recovered'[k] = Part(g, i)'[k] /\ (EndsInLine' \/ i <= sent')
    BY <2>3, <2>4 DEF Ready, Part
  <2>6. ~Shadowed' /\ (~rewound' \/ sent' = 0) => \E i \in 0..Len(walBuf') :
           Recovered' = Part(g, i)' /\ (EndsInLine' \/ i = sent')
    BY <2>3, <2>4 DEF Ready, Part
  <2> QED
    BY <1>2, <2>5, <2>6 DEF LineFrom
<1>4. CASE c # <<>>
  <2> SUFFICES ASSUME ~Shadowed'
               PROVE  LineFrom(g)'
    BY <1>2 DEF LineFrom
  <2>1. ~Shadowed /\ ~EndsInLine
    BY <1>1, <1>4, ShadowStays
  <2>2. log' \in Seq(Pieces)
    BY <1>0, <1>1
  <2>3. Recovered = Laid(snap, log) /\ Recovered \in Stores
    BY <2>1, Unshadowed, ReadType
  <2>4. Recovered' = Laid(Recovered, c)
    <3>1. Recovered' = Laid(snap, log')
      BY <2>2, UnshadowedAfter
    <3> QED
      BY <1>0, <1>1, <2>3, <3>1, LaidConcat
  \* z: how far into the buffer this flush has got, a line without its end counted.
  <2>5. PICK z \in n..Len(b) : /\ Laid(Recovered, c) = Laid(Recovered, SubSeq(b, 1, z))
                               /\ EndsInLine' \/ z = n
    <3>1. CASE end = "whole"
      <4>1. c = SubSeq(b, 1, n) /\ n \in n..Len(b)
        BY <1>0, <1>1, <3>1
      <4> QED
        BY <4>1
    <3>2. CASE end # "whole"
      <4>1. /\ n < Len(b) /\ end \in {"eol", "cut"}
            /\ c = Partial(b, n, end)
        BY <1>1, <3>2 DEF Ends
      <4>2. /\ c # <<>> /\ Len(c) = n + 1 /\ c[n + 1].end = end
            /\ end = "cut" => Laid(Recovered, c) = Laid(Recovered, SubSeq(b, 1, n))
            /\ end = "eol" => Laid(Recovered, c) = Laid(Recovered, SubSeq(b, 1, n + 1))
        BY <2>3, <4>1, LineArrives
      <4>3. CASE end = "cut"
        BY <1>0, <4>1, <4>2, <4>3
      <4>4. CASE end = "eol"
        <5>1. Len(log') = Len(log) + Len(c) /\ log'[Len(log')] = c[Len(c)] /\ log' # <<>>
          BY <1>0, <1>1, <1>4
        <5>2. EndsInLine'
          BY <4>1, <4>2, <4>4, <5>1 DEF EndsInLine
        <5>3. n + 1 \in n..Len(b)
          BY <1>0, <4>1
        <5> QED
          BY <4>1, <4>2, <4>4, <5>2, <5>3
      <4> QED
        BY <4>1, <4>3, <4>4
    <3> QED
      BY <3>1, <3>2
  <2>6. z \in 0..Len(b) /\ z \in Nat /\ SubSeq(b, 1, z) \in Seq(Pieces)
    <3>1. z \in 0..Len(b) /\ z \in Nat
      BY <1>0
    <3> QED
      BY <3>1, PrefixTypes
  <2>7. \A k \in Keys : \E i \in 0..Len(b) :
           i <= sent /\ Recovered[k] = Laid(g, SubSeq(b, 1, i))[k]
    BY <2>1 DEF Ready
  <2>8. ASSUME NEW k \in Keys
        PROVE  \E i \in 0..Len(b) :
                  Recovered'[k] = Laid(g, SubSeq(b, 1, i))[k] /\ (EndsInLine' \/ i <= sent')
    <3>1. Recovered'[k] \in {Recovered[k], Laid(g, SubSeq(b, 1, z))[k]}
      BY <2>4, <2>5, <2>6, KeyStaysOrMoves
    <3>2. CASE Recovered'[k] = Recovered[k]
      <4>1. PICK i \in 0..Len(b) : i <= sent /\ Recovered[k] = Laid(g, SubSeq(b, 1, i))[k]
        BY <2>7
      <4>2. i <= sent'
        BY <1>0, <4>1
      <4> QED
        BY <3>2, <4>1, <4>2
    <3>3. CASE Recovered'[k] = Laid(g, SubSeq(b, 1, z))[k]
      <4>1. EndsInLine' \/ z <= sent'
        BY <1>0, <2>5
      <4> QED
        BY <2>6, <3>3, <4>1
    <3> QED
      BY <3>1, <3>2, <3>3
  <2>9. ASSUME ~rewound' \/ sent' = 0
        PROVE  \E i \in 0..Len(b) :
                  Recovered' = Laid(g, SubSeq(b, 1, i)) /\ (EndsInLine' \/ i = sent')
    <3>1. sent <= n /\ sent' = n
      <4>1. ~rewound' => ~(n < sent)
        OBVIOUS
      <4> QED
        BY <1>0, <2>9, <4>1
    <3>2. Laid(Recovered, SubSeq(b, 1, z)) \in Stores /\ Laid(g, SubSeq(b, 1, z)) \in Stores
      BY <2>3, <2>6, LaidType
    <3>3. ASSUME NEW k \in Keys
          PROVE  Laid(Recovered, SubSeq(b, 1, z))[k] = Laid(g, SubSeq(b, 1, z))[k]
      <4>1. PICK i \in 0..Len(b) : i <= sent /\ Recovered[k] = Laid(g, SubSeq(b, 1, i))[k]
        BY <2>7
      <4>2. i \in 0..z
        BY <1>0, <3>1, <4>1
      <4> QED
        BY <2>3, <2>6, <4>1, <4>2, KeyRewritten
    <3>4. Recovered' = Laid(g, SubSeq(b, 1, z))
      BY <2>4, <2>5, <3>2, <3>3, SameMap
    <3>5. EndsInLine' \/ z = sent'
      BY <2>5, <3>1
    <3> QED
      BY <2>6, <3>4, <3>5
  <2> QED
    BY <1>2, <2>8, <2>9 DEF LineFrom, Part
<1> QED
  BY <1>3, <1>4

\* A flush of b, or none.
LEMMA LineFlush ==
    ASSUME TypeOK, NEW g \in Stores, NEW b \in Seq(Pieces),
           \A i \in DOMAIN b : b[i].end = "whole", sent <= Len(b),
           NEW m \in Stores, Ready(g, b, m), logical' = m, UNCHANGED <<head, mode, snap>>,
           \/ /\ walBuf' = b /\ promised' = promised \cup {m}
              /\ UNCHANGED <<log, sent, rewound>>
           \/ FlushSucceeds(b, m)
           \/ FlushFails(b, m)
    PROVE  \E h \in Stores : LineFrom(h)'
<1>1. CASE walBuf' = b /\ promised' = promised \cup {m} /\ UNCHANGED <<log, sent, rewound>>
  BY <1>1, LineKept
<1>2. CASE FlushSucceeds(b, m)
  <2>1. log' = log \o b /\ walBuf' = <<>> /\ promised' = {m} /\ sent' = 0
    BY <1>2 DEF FlushSucceeds
  <2>2. log' \in Seq(Pieces)
    BY <2>1 DEF TypeOK
  <2>3. ~Shadowed' => Recovered' = m
    BY <2>1, <2>2, FlushedMap, UnshadowedAfter
  <2> QED
    BY <2>1, <2>3, LineFresh
<1>3. CASE FlushFails(b, m)
  <2>1. walBuf' = b /\ promised' = promised \cup {m}
    BY <1>3, FlushFailsResult
  <2>2. CASE UNCHANGED <<log, sent, rewound, fails>>
    BY <2>1, <2>2, LineKept
  <2>3. CASE ~UNCHANGED <<log, sent, rewound, fails>>
    <3>1. PICK n \in 0..Len(b), end \in Ends :
              /\ Arrives(b, n, end)
              /\ sent' = (IF n > sent THEN n ELSE sent)
              /\ rewound' = (n < sent)
      BY <1>3, <2>3, FlushFailsResult
    <3>2. LineFrom(g)'
      BY <2>1, <3>1, LineFails
    <3> QED
      BY <3>2
  <2> QED
    BY <2>2, <2>3
<1> QED
  BY <1>1, <1>2, <1>3

LEMMA WriteLine ==
    ASSUME TypeOK, PhaseOK, LineOK, NEW f \in Patches, NEW ok \in BOOLEAN, LogFrame(f, ok),
           UNCHANGED snap
    PROVE  LineOK'
<1> DEFINE one == Frame(f)
           b == Append(walBuf, one)
           m == ApplyPatch(logical, f)
<1>1. /\ b \in Seq(Pieces) /\ \A i \in DOMAIN b : b[i].end = "whole"
      /\ m \in Stores /\ logical' = m /\ pc = "idle"
      /\ UNCHANGED <<mode, head>>
      /\ \/ /\ walBuf' = b /\ promised' = promised \cup {m}
            /\ UNCHANGED <<log, sent, rewound, fails>>
         \/ FlushSucceeds(b, m)
         \/ FlushFails(b, m)
  BY LogFrameResult
<1>2. PICK g \in Stores : LineFrom(g)
  BY <1>1 DEF LineOK
<1>3. one \in Pieces /\ one.end = "whole" /\ one.patch = f
  BY FrameType
<1> HIDE DEF one
<1>4. Ready(g, b, m)
  BY <1>2, <1>3, ReadyAppend
<1>5. sent <= Len(b)
  BY <1>3 DEF PhaseOK, TypeOK
<1> HIDE DEF b, m
<1>6. \E h \in Stores : LineFrom(h)'
  BY <1>1, <1>4, <1>5, LineFlush
<1> QED
  BY <1>6 DEF LineOK

LEMMA OpenLine ==
    ASSUME TypeOK, PhaseOK, Open
    PROVE  LineOK'
<1>1. walBuf' = <<>> /\ sent' = 0
  BY DEF Open, PhaseOK, TypeOK
<1>2. /\ logical' = Recovered /\ Recovered \in promised' /\ Recovered \in Stores
  BY ReadType DEF Open
<1>3. Recovered' = Recovered
  BY ReadSame DEF Open
<1>4. ASSUME NEW x \in Stores, x = Recovered
      PROVE  LineFrom(x)'
  BY <1>1, <1>2, <1>3, <1>4, LineFresh
<1> QED
  BY <1>2, <1>4 DEF LineOK

LEMMA BeginLine ==
    ASSUME TypeOK, PhaseOK, StoreOK, LineOK, NEW op \in {"compact", "close"}, Begin(op)
    PROVE  LineOK'
<1>1. /\ pc = "idle" /\ snap' = store /\ logical' = logical /\ promised' = {logical, store}
      /\ head' = head /\ mode' = mode
  BY DEF Begin
<1>2. walBuf \in Seq(Pieces) /\ log \in Seq(Pieces) /\ logical \in Stores /\ store \in Stores
      /\ sent \in Nat /\ snap \in Stores
  BY DEF TypeOK
<1>3. walBuf' = <<>> /\ sent' = 0 /\ log' = log \o walBuf
  <2>1. CASE walBuf = <<>>
    <3>1. walBuf' = walBuf /\ log' = log /\ sent' = sent
      BY <2>1 DEF Begin
    <3>2. sent <= 0
      BY <2>1 DEF PhaseOK
    <3> QED
      BY <1>2, <2>1, <3>1, <3>2
  <2>2. CASE walBuf # <<>>
    BY <2>2 DEF Begin
  <2> QED
    BY <2>1, <2>2
<1>4. PICK g \in Stores : LineFrom(g)
  BY <1>1 DEF LineOK
<1>5. log' \in Seq(Pieces)
  BY <1>2, <1>3
<1>6. ASSUME ~Shadowed'
      PROVE  Recovered' = logical
  <2>1. Laid(snap, log') = logical
    BY <1>1, <1>2, <1>3, <1>4, <1>6, ReadyBuffer, FlushedMap
  <2>2. Recovered' = Laid(store, log') /\ Laid(store, log') \in Stores
    BY <1>1, <1>2, <1>5, <1>6, UnshadowedAfter, LaidType
  <2>3. ASSUME NEW k \in Keys
        PROVE  Laid(store, log')[k] = logical[k]
    <3>1. CASE Reaches(log', k)
      <4>1. Laid(store, log')[k] = Laid(snap, log')[k]
        BY <1>5, <3>1, LaidOver
      <4> QED
        BY <2>1, <4>1
    <3>2. CASE ~Reaches(log', k)
      <4>1. ~Reaches(log, k) /\ ~Reaches(walBuf, k)
        <5>1. Reaches(log \o walBuf, k) <=> Reaches(log, k) \/ Reaches(walBuf, k)
          BY <1>2, ReachesConcat
        <5> QED
          BY <1>3, <3>2, <5>1
      <4>2. store[k] = logical[k]
        BY <1>1, <4>1 DEF StoreOK
      <4>3. Laid(store, log')[k] = store[k]
        BY <1>5, <3>2, LaidAt
      <4> QED
        BY <4>2, <4>3
    <3> QED
      BY <3>1, <3>2
  <2> QED
    BY <1>2, <2>2, <2>3, SameMap
<1>7. ASSUME NEW x \in Stores, x = logical
      PROVE  LineFrom(x)'
  BY <1>1, <1>3, <1>6, <1>7, LineFresh
<1> QED
  BY <1>1, <1>2, <1>7 DEF LineOK

LEMMA BeginFailsLine ==
    ASSUME TypeOK, PhaseOK, LineOK, BeginFails
    PROVE  LineOK'
<1>1. /\ pc = "idle" /\ FlushFails(walBuf, logical) /\ logical' = logical
      /\ UNCHANGED <<head, mode, snap>>
  BY DEF BeginFails
<1>2. walBuf \in Seq(Pieces) /\ logical \in Stores
  BY DEF TypeOK
<1>3. PICK g \in Stores : LineFrom(g)
  BY <1>1 DEF LineOK
<1>4. Ready(g, walBuf, logical)
  BY <1>3, ReadyBuffer
<1>5. sent <= Len(walBuf) /\ \A i \in DOMAIN walBuf : walBuf[i].end = "whole"
  BY DEF PhaseOK
<1>6. \E h \in Stores : LineFrom(h)'
  BY <1>1, <1>2, <1>4, <1>5, LineFlush
<1> QED
  BY <1>6 DEF LineOK

LEMMA ResetLine ==
    ASSUME TypeOK, PhaseOK, ResetHeadFails \/ (ResetWal /\ call # "close")
    PROVE  LineOK'
<1>1. walBuf = <<>> /\ snap = store /\ store \in Stores /\ sent <= 0 /\ sent \in Nat
  BY DEF PhaseOK, TypeOK, ResetWal, ResetHeadFails
<1>2. /\ log' = <<>> /\ walBuf' = walBuf /\ sent' = sent /\ snap' = snap
      /\ logical' = store /\ promised' = {store}
  BY DEF ResetWal, ResetHeadFails
<1>3. Recovered' = store
  BY <1>1, <1>2, ReadEmpty
<1>4. sent' = 0 /\ walBuf' = <<>>
  BY <1>1, <1>2
<1>5. ASSUME NEW x \in Stores, x = store
      PROVE  LineFrom(x)'
  BY <1>2, <1>3, <1>4, <1>5, LineFresh
<1> QED
  BY <1>1, <1>5 DEF LineOK

LEMMA LineStep == TypeOK /\ PhaseOK /\ StoreOK /\ LineOK /\ [Next]_vars => LineOK'
<1> SUFFICES ASSUME TypeOK, PhaseOK, StoreOK, LineOK, [Next]_vars
             PROVE  LineOK'
  OBVIOUS
<1>1. CASE CloseIdle \/ Crash \/ (ResetWal /\ call = "close")
  BY <1>1 DEF CloseIdle, Crash, ResetWal, Down, LineOK
<1>2. CASE ResetOpenFails \/ UNCHANGED vars
  <2>1. /\ UNCHANGED <<head, mode, snap, log, walBuf, logical, promised, sent, rewound>>
        /\ pc' # "down" => pc # "down"
    BY <1>2 DEF ResetOpenFails, files, vars, memory, history
  <2>2. /\ Shadowed' <=> Shadowed
        /\ EndsInLine' <=> EndsInLine
        /\ Recovered' = Recovered
    BY <2>1, ReadSame
  <2>3. \A g \in Stores : LineFrom(g) => LineFrom(g)'
    BY <2>1, <2>2 DEF LineFrom, Part
  <2> QED
    BY <2>1, <2>3 DEF LineOK
<1>3. ASSUME NEW f \in Patches, NEW ok \in BOOLEAN, Write(f, ok) \/ Batch(f, ok)
      PROVE  LineOK'
  <2>1. LogFrame(f, ok) /\ UNCHANGED snap
    BY <1>3 DEF Write, Batch, LogFrame
  <2> QED
    BY <2>1, WriteLine
<1> QED
  BY <1>1, <1>2, <1>3, Calls, OpenLine, BeginLine, BeginFailsLine, ResetLine

-----------------------------------------------------------------------------
(* What a recovery finds.                                                  *)

LEMMA AckedDown ==
    ASSUME TypeOK, PhaseOK, LineOK, pc # "down", log' = log, promised' = promised,
           UNCHANGED <<head, mode, snap, rewound>>
    PROVE  AckedKeys' /\ AckedMaps'
<1>1. PICK g \in Stores : LineFrom(g)
  BY DEF LineOK
<1>2. /\ Shadowed' <=> Shadowed
      /\ Recovered' = Recovered
  BY ReadSame
<1>3. ASSUME ~Shadowed, NEW k \in Keys
      PROVE  \E m \in promised : Recovered[k] = m[k]
  <2>1. PICK n \in 0..Len(walBuf) : Recovered[k] = Part(g, n)[k]
    BY <1>1, <1>3 DEF LineFrom
  <2> QED
    BY <1>1, <2>1 DEF LineFrom
<1>4. ASSUME ~Shadowed, ~rewound
      PROVE  Recovered \in promised
  BY <1>1, <1>4 DEF LineFrom
<1>5. AckedKeys'
  BY <1>2, <1>3 DEF AckedKeys
<1>6. AckedMaps'
  BY <1>2, <1>4 DEF AckedMaps
<1> QED
  BY <1>5, <1>6

LEMMA AckedStep ==
    TypeOK /\ PhaseOK /\ LineOK /\ AckedKeys /\ AckedMaps /\ [Next]_vars
        => AckedKeys' /\ AckedMaps'
<1> SUFFICES ASSUME TypeOK, PhaseOK, LineOK, AckedKeys, AckedMaps, [Next]_vars
             PROVE  AckedKeys' /\ AckedMaps'
  OBVIOUS
<1>1. ASSUME pc' # "down"
      PROVE  AckedKeys' /\ AckedMaps'
  BY <1>1 DEF AckedKeys, AckedMaps
<1>2. CASE Crash
  BY <1>2, AckedDown DEF Crash, files
<1>3. CASE CloseIdle
  <2>1. walBuf = <<>> /\ log \in Seq(Pieces) /\ log' = log \o walBuf
    BY <1>3 DEF CloseIdle, PhaseOK, TypeOK
  <2>2. log' = log
    BY <2>1
  <2>3. pc # "down" /\ promised' = promised /\ UNCHANGED <<head, mode, snap, rewound>>
    BY <1>3 DEF CloseIdle
  <2> QED
    BY <2>2, <2>3, AckedDown
<1>4. CASE ResetWal
  <2>1. log' = <<>> /\ promised' = {store} /\ snap' = store /\ store \in Stores
    BY <1>4 DEF ResetWal, PhaseOK, TypeOK
  <2>2. Recovered' = store
    BY <2>1, ReadEmpty
  <2> QED
    BY <2>1, <2>2 DEF AckedKeys, AckedMaps
<1>5. CASE UNCHANGED vars
  <2>1. pc' = pc /\ log' = log /\ promised' = promised /\ UNCHANGED <<head, mode, snap, rewound>>
    BY <1>5 DEF vars, files, history
  <2>2. /\ Shadowed' <=> Shadowed
        /\ Recovered' = Recovered
    BY <2>1, ReadSame
  <2> QED
    BY <2>1, <2>2 DEF AckedKeys, AckedMaps
<1>6. ASSUME NEW f \in Patches, NEW ok \in BOOLEAN, Write(f, ok) \/ Batch(f, ok)
      PROVE  pc' = "idle"
  BY <1>6 DEF Write, Batch, LogFrame
<1>7. CASE Open \/ BeginFails \/ ResetOpenFails \/ ResetHeadFails
  <2>1. pc' = "idle"
    BY <1>7 DEF Open, BeginFails, ResetOpenFails, ResetHeadFails
  <2> QED
    BY <1>1, <2>1
<1>8. CASE Begin("compact") \/ Begin("close")
  <2>1. pc' = "reset"
    BY <1>8 DEF Begin
  <2> QED
    BY <1>1, <2>1
<1> QED
  BY <1>1, <1>2, <1>3, <1>4, <1>5, <1>6, <1>7, <1>8, Calls

-----------------------------------------------------------------------------
(* The properties of WalLog.                                               *)

LEMMA LogInvInit == Init => LogInv
<1> SUFFICES ASSUME Init
             PROVE  LogInv
  OBVIOUS
<1>1. TypeOK
  BY TypeInit
<1>2. PhaseOK /\ StoreOK /\ LineOK
  BY DEF Init, PhaseOK, StoreOK, LineOK
<1>3. Frames = {}
  BY DEF Init, Frames, ReadableFrames
<1>4. LsnOK
  BY <1>3 DEF LsnOK
<1>5. Recovered = EmptyStore
  <2>1. Read = {}
    BY <1>1, ReadType DEF Init
  <2> QED
    BY <1>1, <2>1, ReadNothing DEF Init
<1>6. AckedKeys /\ AckedMaps
  BY <1>5 DEF Init, AckedKeys, AckedMaps
<1> QED
  BY <1>1, <1>2, <1>4, <1>6 DEF LogInv

LEMMA LogInvStep == LogInv /\ [Next]_vars => LogInv'
<1> SUFFICES ASSUME LogInv, [Next]_vars
             PROVE  LogInv'
  OBVIOUS
<1>1. TypeOK /\ PhaseOK /\ StoreOK /\ LineOK /\ LsnOK /\ AckedKeys /\ AckedMaps
  BY DEF LogInv
<1>2. TypeOK' /\ PhaseOK'
  BY <1>1, TypeStep, PhaseStep
<1>3. StoreOK' /\ LineOK'
  BY <1>1, StoreStep, LineStep
<1>4. LsnOK' /\ AckedKeys' /\ AckedMaps'
  BY <1>1, LsnStep, AckedStep
<1> QED
  BY <1>2, <1>3, <1>4 DEF LogInv

\* Buffer, store, log and the maps a recovery may return agree in every
\* reachable state, whatever writes fail and are retried (wal_append,
\* wal_append_batch, wal_flush, open_wal, reset_wal).
THEOREM LogInvariant == Spec => []LogInv
<1>1. Init => LogInv
  BY LogInvInit
<1>2. LogInv /\ [Next]_vars => LogInv'
  BY LogInvStep
<1> QED
  BY <1>1, <1>2, PTL DEF Spec

\* Every variable of the log keeps its type.
THEOREM LogTypes == Spec => []TypeOK
<1>1. LogInv => TypeOK
  BY DEF LogInv
<1> QED
  BY <1>1, LogInvariant, PTL

\* Flushes retried in whole or in part never give a key a value it was not
\* acknowledged or in flight to have (wal_flush, replay_wal, decode_json_wal).
THEOREM RetryKeepsKeys == Spec => []AckedKeys
<1>1. LogInv => AckedKeys
  BY DEF LogInv
<1> QED
  BY <1>1, LogInvariant, PTL

\* And a recovery finds a promised map, no half of a batch in it, unless the
\* last failed flush stopped short of an earlier one.
THEOREM RetryKeepsMaps == Spec => []AckedMaps
<1>1. LogInv => AckedMaps
  BY DEF LogInv
<1> QED
  BY <1>1, LogInvariant, PTL

\* What the caller reads is what the log will say, unless a batch has failed
\* (set, delete, clear, batch).
THEOREM StoreIsLogged == Spec => []LiveAgrees
<1>1. LogInv => LiveAgrees
  BY DEF LogInv, StoreOK, LiveAgrees
<1> QED
  BY <1>1, LogInvariant, PTL

\* No two frames share an LSN, and the next is above all of them, over
\* restarts, retries and resets (wal_append, load_state, reset_wal).
THEOREM OneFramePerLsn == Spec => []LsnNamesFrame
<1>1. LogInv => LsnNamesFrame
  BY DEF LogInv, LsnOK, LsnNamesFrame, Frames
<1> QED
  BY <1>1, LogInvariant, PTL

\* If close succeeds, the next open finds the store as it was left, however
\* many writes have failed before (close, reset_wal).
THEOREM CloseKeepsStore == Spec => CloseDurable
<1>1. ASSUME LogInv, (ResetWal /\ call = "close") \/ CloseIdle
      PROVE  Recovered' = store
  <2>1. TypeOK /\ PhaseOK /\ store \in Stores
    BY <1>1 DEF LogInv, TypeOK
  <2>2. CASE ResetWal
    <3>1. log' = <<>> /\ snap' = store
      BY <2>1, <2>2 DEF ResetWal, PhaseOK
    <3> QED
      BY <2>1, <3>1, ReadEmpty
  <2>3. CASE CloseIdle
    <3>1. /\ walBuf = <<>> /\ log \in Seq(Pieces) /\ log' = log \o walBuf
          /\ Read = {} /\ snap = store
      BY <2>1, <2>3 DEF CloseIdle, PhaseOK, TypeOK
    <3>2. log' = log /\ UNCHANGED <<head, mode, snap>>
      BY <2>3, <3>1 DEF CloseIdle
    <3>3. Recovered' = Recovered /\ Recovered = snap
      BY <2>1, <3>1, <3>2, ReadSame, ReadNothing
    <3> QED
      BY <3>1, <3>3
  <2> QED
    BY <1>1, <2>2, <2>3
<1>2. LogInv /\ [Next]_vars =>
          [(ResetWal /\ call = "close") \/ CloseIdle => Recovered' = store]_vars
  BY <1>1
<1> QED
  BY <1>2, LogInvariant, PTL DEF Spec, CloseDurable
=============================================================================
