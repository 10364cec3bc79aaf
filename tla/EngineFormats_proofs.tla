------------------------ MODULE EngineFormats_proofs ------------------------
(***************************************************************************)
(* The two sets of files of the native engine, for every set of keys and   *)
(* values, any number of backups and every bound: FormatsInv is inductive, *)
(* and with it go the safety properties of EngineFormats.                  *)
(***************************************************************************)
EXTENDS EngineFormatsInv, WalReplay_proofs, FiniteSetTheorems

-----------------------------------------------------------------------------
(* What a snapshot and a log amount to.                                    *)

FramesIn(l) == IF l = NoFile THEN <<>> ELSE l
PatchSeq(w) == [i \in DOMAIN w |-> w[i].patch]
Pure(w, f) == \A i \in DOMAIN w : w[i].as = f
ReadOf(w) == [v2 |-> {i \in DOMAIN w : \A j \in 1..i : w[j].as = "v2"},
              json |-> {i \in DOMAIN w : \A j \in {i - 1, i} \cap DOMAIN w : w[j].as = "json"}]
Content(b, w, f) == Overlay(b, PatchSeq(w), ReadOf(w)[f])

\* The names of the state, before and after a step.
LEMMA StateNames ==
    ASSUME NEW f
    PROVE  /\ Loaded(f) = Content(Base(f), FramesIn(log[f]), f)
           /\ Loaded(f)' = Content(Base(f)', FramesIn(log'[f]), f)
           /\ Mixed(f) <=> ~Pure(FramesIn(log[f]), f)
           /\ Mixed(f)' <=> ~Pure(FramesIn(log'[f]), f)
           /\ \A k : Logged(f, k) <=> Hit(PatchSeq(FramesIn(log[f])), k)
           /\ \A k : Logged(f, k)' <=> Hit(PatchSeq(FramesIn(log'[f])), k)
           /\ FramesOf(f) = FramesIn(log[f]) /\ FramesOf(f)' = FramesIn(log'[f])
<1>1. FramesOf(f) = FramesIn(log[f]) /\ FramesOf(f)' = FramesIn(log'[f])
  BY DEF FramesOf, FramesIn
<1>2. Decodable(f) = ReadOf(FramesIn(log[f]))[f] /\ Decodable(f)' = ReadOf(FramesIn(log'[f]))[f]
  BY <1>1 DEF Decodable, ReadOf
<1>3. /\ [i \in DOMAIN FramesOf(f) |-> FramesOf(f)[i].patch] = PatchSeq(FramesIn(log[f]))
      /\ [i \in DOMAIN FramesOf(f)' |-> FramesOf(f)'[i].patch] = PatchSeq(FramesIn(log'[f]))
  BY <1>1 DEF PatchSeq
<1>4. /\ Loaded(f) = Content(Base(f), FramesIn(log[f]), f)
      /\ Loaded(f)' = Content(Base(f)', FramesIn(log'[f]), f)
  BY <1>2, <1>3 DEF Loaded, Content
<1>5. (Mixed(f) <=> ~Pure(FramesIn(log[f]), f)) /\ (Mixed(f)' <=> ~Pure(FramesIn(log'[f]), f))
  BY <1>1 DEF Mixed, Pure
<1>6. /\ \A k : Logged(f, k) <=> Hit(PatchSeq(FramesIn(log[f])), k)
      /\ \A k : Logged(f, k)' <=> Hit(PatchSeq(FramesIn(log'[f])), k)
  BY <1>1 DEF Logged, Hit, PatchSeq
<1> QED
  BY <1>1, <1>4, <1>5, <1>6

\* A log of one format is read to its end.
LEMMA ContentIs ==
    ASSUME NEW w \in Seq(Frames), NEW f \in Formats, Pure(w, f)
    PROVE  /\ PatchSeq(w) \in Seq(Patches)
           /\ \A b : Content(b, w, f) = Replay(b, PatchSeq(w))
<1>1. Len(w) \in Nat /\ DOMAIN w = 1..Len(w) /\ \A i \in DOMAIN w : w[i] \in Frames
  OBVIOUS
<1>2. PatchSeq(w) \in Seq(Patches) /\ DOMAIN PatchSeq(w) = DOMAIN w
  <2> DEFINE q == PatchSeq(w)
  <2>1. DOMAIN q = 1..Len(w) /\ q = [i \in 1..Len(w) |-> q[i]]
    BY <1>1 DEF PatchSeq
  <2>2. \A i \in 1..Len(w) : q[i] \in Patches
    BY <1>1 DEF PatchSeq, Frames
  <2> HIDE DEF q
  <2>3. q \in Seq(Patches)
    BY <1>1, <2>1, <2>2
  <2> QED
    BY <1>1, <2>1, <2>3 DEF q
<1>3. ReadOf(w)[f] = DOMAIN w
  <2>1. \A i \in DOMAIN w : \A j \in 1..i : j \in DOMAIN w
    BY <1>1
  <2>2. CASE f = "v2"
    <3>1. ReadOf(w)[f] = {i \in DOMAIN w : \A j \in 1..i : w[j].as = "v2"}
      BY <2>2 DEF ReadOf
    <3> QED
      BY <2>1, <2>2, <3>1 DEF Pure
  <2>3. CASE f = "json"
    <3>1. ReadOf(w)[f] = {i \in DOMAIN w : \A j \in {i - 1, i} \cap DOMAIN w : w[j].as = "json"}
      BY <2>3 DEF ReadOf
    <3> QED
      BY <2>3, <3>1 DEF Pure
  <2> QED
    BY <2>2, <2>3 DEF Formats
<1> QED
  BY <1>2, <1>3, ReadableAll DEF Content, Replay

\* Keys the log touches do not depend on the snapshot, the others on it alone.
LEMMA ContentKey ==
    ASSUME NEW w \in Seq(Frames), NEW f \in Formats, Pure(w, f), NEW b, NEW c, NEW k \in Keys
    PROVE  /\ Hit(PatchSeq(w), k) \/ b[k] = c[k] => Content(b, w, f)[k] = Content(c, w, f)[k]
           /\ ~Hit(PatchSeq(w), k) => Content(b, w, f)[k] = b[k]
<1>1. PatchSeq(w) \in Seq(Patches) /\ \A s : Content(s, w, f) = Replay(s, PatchSeq(w))
  BY ContentIs
<1>2. Hit(PatchSeq(w), k) \/ b[k] = c[k]
         => Replay(b, PatchSeq(w))[k] = Replay(c, PatchSeq(w))[k]
  BY <1>1, ReplayKey
<1>3. ~Hit(PatchSeq(w), k) => Replay(b, PatchSeq(w))[k] = b[k]
  BY <1>1, ReplayAt
<1> QED
  BY <1>1, <1>2, <1>3

\* A frame more is its effect last.
LEMMA ContentAppend ==
    ASSUME NEW w \in Seq(Frames), NEW f \in Formats, NEW p \in Patches, NEW fr,
           fr = [patch |-> p, as |-> f], Pure(Append(w, fr), f), NEW b \in Stores
    PROVE  /\ Pure(w, f)
           /\ Content(b, Append(w, fr), f) = ApplyPatch(Content(b, w, f), p)
           /\ \A k \in Keys : Hit(PatchSeq(Append(w, fr)), k)
                                 <=> Hit(PatchSeq(w), k) \/ p[k] # Keep
<1> DEFINE a == Append(w, fr)
<1>1. fr \in Frames /\ fr.patch = p
  BY DEF Frames
<1>2. /\ a \in Seq(Frames) /\ Len(w) \in Nat /\ DOMAIN w = 1..Len(w)
      /\ DOMAIN a = 1..(Len(w) + 1)
      /\ \A i \in DOMAIN w : i \in DOMAIN a /\ a[i] = w[i]
      /\ a[Len(w) + 1] = fr
  BY <1>1
<1>3. Pure(w, f)
  BY <1>2 DEF Pure
<1>4. /\ PatchSeq(w) \in Seq(Patches) /\ PatchSeq(a) \in Seq(Patches)
      /\ \A s : Content(s, w, f) = Replay(s, PatchSeq(w))
      /\ \A s : Content(s, a, f) = Replay(s, PatchSeq(a))
  BY <1>2, <1>3, ContentIs
<1>5. PatchSeq(a) = Append(PatchSeq(w), p)
  <2> DEFINE q == PatchSeq(w)
             r == PatchSeq(a)
             t == Append(q, p)
  <2>1. /\ DOMAIN q = 1..Len(w) /\ DOMAIN r = 1..(Len(w) + 1)
        /\ \A i \in 1..(Len(w) + 1) : r[i] = IF i = Len(w) + 1 THEN p ELSE q[i]
        /\ r = [i \in 1..(Len(w) + 1) |-> r[i]]
    <3> HIDE DEF a
    <3> QED
      BY <1>1, <1>2 DEF PatchSeq
  <2> HIDE DEF q, r
  <2>2. q \in Seq(Patches) /\ Len(q) = Len(w)
    BY <1>2, <1>4, <2>1 DEF q
  <2>3. /\ DOMAIN t = 1..(Len(w) + 1)
        /\ \A i \in 1..(Len(w) + 1) : t[i] = IF i = Len(w) + 1 THEN p ELSE q[i]
        /\ t \in Seq(Patches)
    BY <1>2, <2>2
  <2> HIDE DEF t
  <2>4. \A i \in 1..(Len(w) + 1) : r[i] = t[i]
    BY <2>1, <2>3
  <2>5. t = [i \in 1..(Len(w) + 1) |-> t[i]]
    BY <2>3
  <2>6. r = t
    BY <2>1, <2>4, <2>5, Zenon
  <2> QED
    BY <2>6 DEF q, r, t
<1>6. /\ Replay(b, Append(PatchSeq(w), p)) = ApplyPatch(Replay(b, PatchSeq(w)), p)
      /\ \A k \in Keys : Hit(Append(PatchSeq(w), p), k) <=> Hit(PatchSeq(w), k) \/ p[k] # Keep
  BY <1>4, ReplayLast
<1> HIDE DEF a
<1>7. Content(b, a, f) = ApplyPatch(Content(b, w, f), p)
  BY <1>4, <1>5, <1>6
<1> QED
  BY <1>3, <1>5, <1>6, <1>7 DEF a

LEMMA ContentEmpty ==
    ASSUME NEW f \in Formats
    PROVE  /\ <<>> \in Seq(Frames) /\ Pure(<<>>, f) /\ \A k : ~Hit(PatchSeq(<<>>), k)
           /\ \A b \in Stores : Content(b, <<>>, f) = b
<1>1. <<>> \in Seq(Frames) /\ Pure(<<>>, f) /\ \A k : ~Hit(PatchSeq(<<>>), k)
  BY DEF Pure, Hit, PatchSeq
<1>2. PatchSeq(<<>>) = <<>>
  BY DEF PatchSeq
<1>3. ASSUME NEW b \in Stores
      PROVE  Content(b, <<>>, f) = b
  BY <1>1, <1>2, ContentIs, ReplayEmpty
<1> QED
  BY <1>1, <1>3

\* A non-empty set of positions has a first one.
LEMMA HasFirst ==
    ASSUME NEW n \in Nat, NEW I \in SUBSET (1..n), I # {}
    PROVE  \E m \in I : \A j \in I : m <= j
<1>1. IsWellFoundedOn(OpToRel(<, Nat), Nat)
  BY NatLessThanWellFounded, Zenon
<1>2. I \subseteq Nat
  OBVIOUS
<1>3. PICK m \in I : \A j \in I : ~(<<j, m>> \in OpToRel(<, Nat))
  BY <1>1, <1>2, WFMin, Zenon
<1>4. \A j \in I : ~(j < m)
  BY <1>2, <1>3 DEF OpToRel
<1> QED
  BY <1>2, <1>4

\* What restore_from_backup returns is a store, and the newest backup if that
\* is usable.
LEMMA RestoredType ==
    ASSUME TypeOK, NEW f \in Formats
    PROVE  /\ Restored(f) \in Stores /\ Base(f) \in Stores
           /\ 1 \in Gens /\ Opens(f, bak[f][1]) => Restored(f) = bak[f][1].map
<1>1. EmptyStore \in Stores /\ BackupCount \in Nat
  BY FormatsAssumption DEF EmptyStore, Stores
<1> DEFINE g == CHOOSE g \in Usable(f) : \A h \in Usable(f) : g <= h
<1>2. Usable(f) # {} => g \in Usable(f) /\ \A h \in Usable(f) : g <= h
  <2>1. Usable(f) \in SUBSET (1..BackupCount)
    BY DEF Usable, Gens
  <2> QED
    BY <1>1, <2>1, HasFirst
<1>3. Restored(f) = IF Usable(f) = {} THEN EmptyStore ELSE bak[f][g].map
  BY DEF Restored
<1> HIDE DEF g
<1>4. ASSUME NEW h \in Usable(f)
      PROVE  bak[f][h].map \in Stores
  <2>1. h \in Gens /\ bak[f][h] # NoFile /\ bak[f][h].map # Bad
    BY DEF Usable, Opens
  <2>2. bak[f][h] \in Backups
    BY <2>1 DEF TypeOK
  <2> QED
    BY <2>1, <2>2 DEF Backups
<1>5. Restored(f) \in Stores
  BY <1>1, <1>2, <1>3, <1>4
<1>6. Base(f) \in Stores
  BY <1>1, <1>5 DEF Base, TypeOK
<1>7. ASSUME 1 \in Gens, Opens(f, bak[f][1])
      PROVE  Restored(f) = bak[f][1].map
  <2>1. 1 \in Usable(f)
    BY <1>7 DEF Usable
  <2>2. g \in Gens /\ g <= 1
    BY <1>2, <2>1 DEF Usable
  <2>3. g = 1
    BY <1>1, <2>2 DEF Gens
  <2> QED
    BY <1>3, <2>1, <2>3
<1> QED
  BY <1>5, <1>6, <1>7

-----------------------------------------------------------------------------
(* Types.                                                                  *)

LEMMA OtherFormat ==
    ASSUME NEW f \in Formats
    PROVE  Other(f) \in Formats /\ Other(f) # f /\ Other(Other(f)) = f /\ Formats = {f, Other(f)}
BY DEF Formats, Other

LEMMA EmptyStoreType == EmptyStore \in Stores
BY DEF EmptyStore, Stores

\* A log that is there is no missing file.
LEMMA LogType ==
    ASSUME TypeOK, NEW f \in Formats
    PROVE  /\ log[f] \in {NoFile} \cup Seq(Frames)
           /\ FramesOf(f) \in Seq(Frames) /\ FramesOf(f) = FramesIn(log[f]) /\ FramesOf(f) # NoFile
           /\ log[f] # NoFile => log[f] \in Seq(Frames) /\ FramesIn(log[f]) = log[f]
<1>1. log[f] \in {NoFile} \cup Seq(Frames)
  BY DEF TypeOK
<1>2. <<>> \in Seq(Frames) /\ NoFile \notin Seq(Frames)
  BY FormatsAssumption
<1> QED
  BY <1>1, <1>2 DEF FramesOf, FramesIn

LEMMA LoadedType ==
    ASSUME TypeOK, NEW f \in Formats
    PROVE  Loaded(f) \in Stores /\ Cardinality(Decodable(f)) \in Nat
<1> DEFINE w == FramesIn(log[f])
           I == ReadOf(w)[f]
<1>1. w \in Seq(Frames)
  BY LogType
<1> HIDE DEF w
<1>2. Len(w) \in Nat /\ DOMAIN w = 1..Len(w) /\ \A i \in DOMAIN w : w[i].patch \in Patches
  <2>1. Len(w) \in Nat /\ DOMAIN w = 1..Len(w) /\ \A i \in DOMAIN w : w[i] \in Frames
    BY <1>1
  <2>2. \A x \in Frames : x.patch \in Patches
    BY DEF Frames
  <2> QED
    BY <2>1, <2>2
<1>3. I \in SUBSET (1..Len(w))
  <2>1. ReadOf(w)["v2"] \subseteq DOMAIN w /\ ReadOf(w)["json"] \subseteq DOMAIN w
    BY DEF ReadOf
  <2> QED
    BY <1>2, <2>1 DEF Formats
<1> HIDE DEF I
<1>4. \A i \in I : PatchSeq(w)[i] \in Patches
  BY <1>2, <1>3 DEF PatchSeq
<1>5. Overlay(Base(f), PatchSeq(w), I) \in Stores
  BY <1>2, <1>3, <1>4, RestoredType, OverlayType
<1>6. Loaded(f) \in Stores
  BY <1>5, StateNames DEF Content, w, I
<1>7. Cardinality(I) \in Nat
  <2>1. IsFiniteSet(1..Len(w))
    BY <1>2, FS_Interval
  <2> QED
    BY <1>3, <2>1, FS_Subset, FS_CardinalityType
<1>8. Decodable(f) = I
  BY DEF Decodable, ReadOf, FramesOf, FramesIn, w, I
<1> QED
  BY <1>6, <1>7, <1>8

LEMMA NextCases ==
    ASSUME Next
    PROVE  \/ \E o \in FormatOpts : Open(o)
           \/ \E p \in Patches : Write(p)
           \/ WriteManifest \/ Compact \/ Close \/ Migrate
           \/ Rotate \/ WriteSnapshot \/ SnapshotFails
           \/ EncryptBackup \/ EncryptFails \/ ResetWal
           \/ RemoveManifest \/ RemoveOldSnapshot \/ RemoveOldLog
           \/ Crash \/ Damage
<1>1. \A k \in Keys, v \in Values : SetFrame(k, v) \in Patches
  BY DEF SetFrame, NoChange, Patches
<1>2. \A k \in Present(store) : DelFrame(k) \in Patches
  BY DEF DelFrame, NoChange, Patches, Present
<1> QED
  BY <1>1, <1>2 DEF Next

LEMMA InitOK == Init => FormatsInv
<1> SUFFICES ASSUME Init
             PROVE  FormatsInv
  OBVIOUS
<1>1. "v2" \in Formats /\ "json" \in Formats /\ Formats = {"v2", "json"}
  BY DEF Formats
<1>2. TypeOK
  <2>1. \A f \in Formats : Len(completed[f]) <= BackupCount + 1
    BY FormatsAssumption DEF Init
  <2>2. completed \in [Formats -> Seq(Stores \cup {Bad})]
    BY DEF Init
  <2>3. gen \in 0..BackupCount
    BY FormatsAssumption DEF Init
  <2> QED
    BY <1>1, <2>1, <2>2, <2>3, EmptyStoreType DEF Init, TypeOK
<1>3. CallOK /\ FilesOK
  BY DEF Init, CallOK, FilesOK, Up, Ending, Beginning
<1>4. KeptOK
  <2>1. ModeOf(opt) = "v2"
    BY DEF Init, ModeOf, Detect, Exists, Formats
  <2>2. FramesIn(log["v2"]) = <<>> /\ Base("v2") = EmptyStore /\ acked = EmptyStore
    BY <1>1 DEF Init, FramesIn, Base
  <2>3. Loaded("v2") = EmptyStore
    BY <1>1, <2>2, StateNames, ContentEmpty, EmptyStoreType
  <2> QED
    BY <2>1, <2>2, <2>3 DEF KeptOK
<1>5. BackupsOK
  <2>1. \A f \in Formats : completed[f] = <<>>
    BY DEF Init
  <2>2. \A f \in Formats : Settled(f)
    BY <2>1 DEF SnapOK, Match, Settled
  <2>3. pc = "down"
    BY DEF Init
  <2> QED
    BY <2>2, <2>3 DEF BackupsOK, Unfinished
<1> QED
  BY <1>2, <1>3, <1>4, <1>5 DEF FormatsInv

\* The backups while they are moved.
LEMMA RotateType ==
    ASSUME TypeOK, CallOK, Rotate
    PROVE  /\ bak' \in [Formats -> [Gens -> Backups \cup {NoFile}]]
           /\ snap' \in [Formats -> Stores \cup {NoFile, Bad}]
           /\ rotated' \subseteq Formats /\ gen' \in 0..BackupCount
<1>1. mode \in Formats /\ gen \in Gens /\ gen \in Nat /\ BackupCount \in Nat
  BY FormatsAssumption DEF TypeOK, Rotate, CallOK, Gens
<1>2. gen' = gen - 1 /\ gen' \in 0..BackupCount
  BY <1>1 DEF Rotate, Gens
<1>3. rotated' \subseteq Formats
  BY <1>1 DEF Rotate, TypeOK
<1>4. snap' \in [Formats -> Stores \cup {NoFile, Bad}]
  BY <1>1 DEF Rotate, TypeOK
<1>5. CASE bak' = bak
  BY <1>2, <1>3, <1>4, <1>5 DEF TypeOK
<1>6. CASE gen = 1 /\ snap[mode] # NoFile /\ bak' = [bak EXCEPT ![mode] = [@ EXCEPT ![1] = [map |-> snap[mode], enc |-> 0]]]
  <2>1. [map |-> snap[mode], enc |-> 0] \in Backups
    BY <1>1, <1>6 DEF TypeOK, Backups
  <2>2. bak[mode] \in [Gens -> Backups \cup {NoFile}]
    BY <1>1 DEF TypeOK
  <2>3. [bak[mode] EXCEPT ![1] = [map |-> snap[mode], enc |-> 0]] \in [Gens -> Backups \cup {NoFile}]
    BY <2>1, <2>2
  <2>4. bak' \in [Formats -> [Gens -> Backups \cup {NoFile}]]
    BY <1>1, <1>6, <2>3 DEF TypeOK
  <2> QED
    BY <1>2, <1>3, <1>4, <2>4
<1>7. CASE gen # 1 /\ bak' = [bak EXCEPT ![mode] = [@ EXCEPT ![gen] = bak[mode][gen - 1], ![gen - 1] = NoFile]]
  <2>1. gen - 1 \in Gens
    BY <1>1, <1>7 DEF Gens
  <2>2. bak[mode] \in [Gens -> Backups \cup {NoFile}] /\ bak[mode][gen - 1] \in Backups \cup {NoFile}
    BY <1>1, <2>1 DEF TypeOK
  <2>3. [bak[mode] EXCEPT ![gen] = bak[mode][gen - 1], ![gen - 1] = NoFile] \in [Gens -> Backups \cup {NoFile}]
    BY <2>1, <2>2
  <2>4. bak' \in [Formats -> [Gens -> Backups \cup {NoFile}]]
    BY <1>1, <1>7, <2>3 DEF TypeOK
  <2> QED
    BY <1>2, <1>3, <1>4, <2>4
<1> QED
  BY <1>5, <1>6, <1>7 DEF Rotate

\* The newest backup, when it is rewritten in place.
LEMMA NewestType ==
    ASSUME TypeOK, HasBackup
    PROVE  /\ mode \in Formats /\ 1 \in Gens /\ bak[mode] \in [Gens -> Backups \cup {NoFile}]
           /\ Newest = bak[mode][1] /\ Newest \in Backups /\ Newest.enc \in Nat
           /\ [bak EXCEPT ![mode][1].enc = @ + 1] \in [Formats -> [Gens -> Backups \cup {NoFile}]]
           /\ [bak EXCEPT ![mode][1].map = Bad] \in [Formats -> [Gens -> Backups \cup {NoFile}]]
<1>1. mode \in Formats /\ 1 \in Gens /\ bak[mode] \in [Gens -> Backups \cup {NoFile}]
  BY FormatsAssumption DEF HasBackup, TypeOK, Gens
<1>2. Newest = bak[mode][1] /\ Newest \in Backups
  BY <1>1 DEF Newest, HasBackup
<1>3. Newest.enc \in Nat /\ Newest.map \in Stores \cup {Bad}
  BY <1>2 DEF Backups
<1>4. ASSUME NEW b \in Backups
      PROVE  [bak EXCEPT ![mode][1] = b] \in [Formats -> [Gens -> Backups \cup {NoFile}]]
  <2>1. [bak[mode] EXCEPT ![1] = b] \in [Gens -> Backups \cup {NoFile}]
    BY <1>1, <1>4
  <2> QED
    BY <1>1, <2>1 DEF TypeOK
<1>5. [Newest EXCEPT !.enc = @ + 1] \in Backups /\ [Newest EXCEPT !.map = Bad] \in Backups
  BY <1>2, <1>3 DEF Backups
<1>6. /\ [bak EXCEPT ![mode][1].enc = @ + 1] = [bak EXCEPT ![mode][1] = [Newest EXCEPT !.enc = @ + 1]]
      /\ [bak EXCEPT ![mode][1].map = Bad] = [bak EXCEPT ![mode][1] = [Newest EXCEPT !.map = Bad]]
  BY <1>2
<1> QED
  BY <1>1, <1>2, <1>3, <1>4, <1>5, <1>6

\* The list of past snapshots with a new one.
LEMMA PushedIs ==
    ASSUME TypeOK, NEW f \in Formats
    PROVE  /\ Pushed(f) \in Seq(Stores \cup {Bad}) /\ Len(Pushed(f)) <= BackupCount + 1
           /\ 1 \in DOMAIN Pushed(f) /\ Pushed(f)[1] = store
           /\ \A g \in Gens : g + 1 \in DOMAIN Pushed(f) =>
                 g \in DOMAIN completed[f] /\ Pushed(f)[g + 1] = completed[f][g]
<1> DEFINE c == completed[f]
           s == <<store>> \o c
           n == IF Len(c) > BackupCount THEN BackupCount + 1 ELSE Len(c) + 1
<1>1. c \in Seq(Stores \cup {Bad}) /\ store \in Stores /\ BackupCount \in Nat
  BY FormatsAssumption DEF TypeOK
<1> HIDE DEF c
<1>2. /\ s \in Seq(Stores \cup {Bad}) /\ Len(s) = Len(c) + 1 /\ Len(c) \in Nat
      /\ s[1] = store /\ \A i \in 1..Len(c) : s[i + 1] = c[i]
  BY <1>1
<1> HIDE DEF s
<1>3. n \in Nat /\ 1 <= n /\ n <= Len(s) /\ n <= BackupCount + 1
  BY <1>1, <1>2
<1>4. Pushed(f) = SubSeq(s, 1, n)
  BY DEF Pushed, s, c
<1> HIDE DEF n
<1>5. /\ SubSeq(s, 1, n) \in Seq(Stores \cup {Bad}) /\ Len(SubSeq(s, 1, n)) = n
      /\ DOMAIN SubSeq(s, 1, n) = 1..n /\ \A i \in 1..n : SubSeq(s, 1, n)[i] = s[i]
  BY <1>2, <1>3
<1>6. ASSUME NEW g \in Gens, g + 1 \in 1..n
      PROVE  g \in DOMAIN c /\ s[g + 1] = c[g]
  <2>1. g \in 1..Len(c) /\ DOMAIN c = 1..Len(c)
    BY <1>1, <1>2, <1>3, <1>6 DEF Gens
  <2> QED
    BY <1>2, <2>1
<1> QED
  BY <1>2, <1>3, <1>4, <1>5, <1>6 DEF c

\* A history of which the last entry has been lost.
LEMMA HeadLost ==
    ASSUME TypeOK, NEW f \in Formats, NEW c,
           c = IF Len(completed[f]) < 2 THEN <<>> ELSE [completed[f] EXCEPT ![1] = Bad]
    PROVE  /\ c \in Seq(Stores \cup {Bad}) /\ Len(c) <= BackupCount + 1
           /\ c # <<>> => c[1] = Bad
           /\ \A g \in Gens : g + 1 \in DOMAIN c =>
                 g + 1 \in DOMAIN completed[f] /\ c[g + 1] = completed[f][g + 1]
<1>1. completed[f] \in Seq(Stores \cup {Bad}) /\ Len(completed[f]) <= BackupCount + 1
  BY DEF TypeOK
<1>2. BackupCount \in Nat /\ \A g \in Gens : g + 1 # 1
  BY FormatsAssumption DEF Gens
<1>3. CASE Len(completed[f]) < 2
  BY <1>2, <1>3
<1>4. CASE ~(Len(completed[f]) < 2)
  <2>1. /\ c \in Seq(Stores \cup {Bad}) /\ Len(c) = Len(completed[f])
        /\ DOMAIN c = DOMAIN completed[f] /\ c[1] = Bad
        /\ \A i \in DOMAIN c : i # 1 => c[i] = completed[f][i]
    BY <1>1, <1>4
  <2> QED
    BY <1>1, <1>2, <2>1
<1> QED
  BY <1>3, <1>4

\* The log of a format with one frame more.
LEMMA WriteType ==
    ASSUME TypeOK, CallOK, NEW p \in Patches, Write(p)
    PROVE  /\ logOf \in Formats /\ mode \in Formats /\ log[logOf] \in Seq(Frames)
           /\ [patch |-> p, as |-> mode] \in Frames
           /\ Append(log[logOf], [patch |-> p, as |-> mode]) \in Seq(Frames)
           /\ log' \in [Formats -> {NoFile} \cup Seq(Frames)]
           /\ log'[logOf] = Append(log[logOf], [patch |-> p, as |-> mode])
<1>1. logOf \in Formats /\ mode \in Formats /\ log[logOf] \in Seq(Frames)
  BY DEF TypeOK, CallOK, Write, Up
<1>2. [patch |-> p, as |-> mode] \in Frames
  BY <1>1 DEF Frames
<1>3. Append(log[logOf], [patch |-> p, as |-> mode]) \in Seq(Frames)
  BY <1>1, <1>2
<1> QED
  BY <1>1, <1>2, <1>3 DEF Write, TypeOK

\* Every variable keeps its type.
LEMMA TypeStep ==
    ASSUME TypeOK, CallOK, [Next]_vars
    PROVE  TypeOK'
<1>1. CASE UNCHANGED vars
  BY <1>1 DEF vars, memory, files, control, history, TypeOK
<1>2. mode \in Formats /\ Other(mode) \in Formats /\ logOf \in Formats
  BY OtherFormat DEF TypeOK
<1>3. BackupCount \in Nat /\ 0 \in 0..BackupCount /\ BackupCount \in 0..BackupCount
  BY FormatsAssumption
<1>4. \A f \in Formats, l \in {NoFile} \cup Seq(Frames) :
         [log EXCEPT ![f] = l] \in [Formats -> {NoFile} \cup Seq(Frames)]
  BY DEF TypeOK
<1>5. \A f \in Formats, s \in Stores \cup {NoFile, Bad} :
         [snap EXCEPT ![f] = s] \in [Formats -> Stores \cup {NoFile, Bad}]
  BY DEF TypeOK
<1>6. ASSUME NEW f \in Formats, NEW c \in Seq(Stores \cup {Bad}), Len(c) <= BackupCount + 1,
             completed' = [completed EXCEPT ![f] = c]
      PROVE  /\ completed' \in [Formats -> Seq(Stores \cup {Bad})]
             /\ \A g \in Formats : Len(completed'[g]) <= BackupCount + 1
  BY <1>6 DEF TypeOK
<1>7. <<>> \in Seq(Stores \cup {Bad}) /\ Len(<<>>) <= BackupCount + 1 /\ <<>> \in Seq(Frames)
  BY <1>3
<1>8. ASSUME completed' = Spoiled(mode)
      PROVE  /\ completed' \in [Formats -> Seq(Stores \cup {Bad})]
             /\ \A g \in Formats : Len(completed'[g]) <= BackupCount + 1
  BY <1>2, <1>6, <1>7, <1>8 DEF Spoiled
<1>9. ASSUME Stops
      PROVE  /\ pc' = "down" /\ call' = "none" /\ gen' \in 0..BackupCount
             /\ store' \in Stores /\ walOps' \in Nat /\ logOf' = mode /\ mode \in Formats
  BY <1>2, <1>3, <1>9, EmptyStoreType DEF Stops
<1>10. ASSUME NEW o \in FormatOpts, Open(o)
       PROVE  TypeOK'
  <2> DEFINE f == ModeOf(o)
  <2>1. f \in Formats
    BY FormatsAssumption DEF ModeOf, Detect, Formats
  <2> HIDE DEF f
  <2>2. Loaded(f) \in Stores /\ Cardinality(Decodable(f)) \in Nat /\ FramesOf(f) \in Seq(Frames)
    BY <2>1, LoadedType, LogType
  <2>3. log' \in [Formats -> {NoFile} \cup Seq(Frames)]
    BY <1>4, <1>10, <2>1, <2>2 DEF Open, f
  <2>4. calls' \in Nat
    BY <1>10 DEF Open, TypeOK
  <2>5. /\ store' \in Stores /\ acked' \in Stores /\ walOps' \in Nat
        /\ mode' \in Formats /\ logOf' \in Formats /\ pc' = "idle" /\ opt' = o
        /\ rotated' = {} /\ windows' = {}
    BY <1>10, <2>1, <2>2 DEF Open, f
  <2> QED
    BY <1>10, <2>3, <2>4, <2>5 DEF Open, TypeOK
<1>11. ASSUME NEW p \in Patches, Write(p)
       PROVE  TypeOK'
  <2>1. log' \in [Formats -> {NoFile} \cup Seq(Frames)]
    BY <1>11, WriteType
  <2>2. store' \in Stores /\ acked' \in Stores /\ walOps' \in Nat
    BY <1>11, ApplyType DEF Write, TypeOK
  <2> QED
    BY <1>11, <2>1, <2>2 DEF Write, control, TypeOK
<1>12. CASE WriteManifest
  BY <1>12 DEF WriteManifest, memory, control, history, TypeOK
<1>13. ASSUME NEW c, Steps(c)
       PROVE  calls' \in Nat /\ call' = c /\ gen' \in 0..BackupCount /\ pc' \in {"write", "rotate"}
  BY <1>3, <1>13 DEF Steps, TypeOK
<1>14. CASE Compact
  <2>1. calls' \in Nat /\ call' = "compact" /\ gen' \in 0..BackupCount /\ pc' \in {"write", "rotate"}
    BY <1>13, <1>14 DEF Compact
  <2> QED
    BY <1>14, <2>1 DEF Compact, memory, files, TypeOK
<1>15. CASE Close
  <2>1. CASE Steps("close") /\ UNCHANGED <<store, walOps, logOf>>
    <3>1. calls' \in Nat /\ call' = "close" /\ gen' \in 0..BackupCount /\ pc' \in {"write", "rotate"}
      BY <1>13, <2>1
    <3> QED
      BY <1>15, <2>1, <3>1 DEF Close, files, TypeOK
  <2>2. CASE Stops /\ UNCHANGED calls
    BY <1>9, <1>15, <2>2 DEF Close, files, TypeOK
  <2> QED
    BY <1>15, <2>1, <2>2 DEF Close
<1>16. CASE Migrate
  <2>1. calls' \in Nat /\ call' = "migrate" /\ gen' \in 0..BackupCount /\ pc' \in {"write", "rotate"}
    BY <1>13, <1>16 DEF Migrate
  <2> QED
    BY <1>2, <1>16, <2>1 DEF Migrate, files, TypeOK
<1>17. CASE Rotate
  <2>1. /\ bak' \in [Formats -> [Gens -> Backups \cup {NoFile}]]
        /\ snap' \in [Formats -> Stores \cup {NoFile, Bad}]
        /\ rotated' \subseteq Formats /\ gen' \in 0..BackupCount
    BY <1>17, RotateType
  <2>2. pc' \in {"write", "rotate"}
    BY <1>17 DEF Rotate
  <2>3. UNCHANGED <<memory, man, log, call, acked, completed, windows, calls, faults, fails>>
    BY <1>17 DEF Rotate
  <2> QED
    BY <2>1, <2>2, <2>3 DEF memory, TypeOK
<1>18. CASE WriteSnapshot
  <2>1. /\ completed' \in [Formats -> Seq(Stores \cup {Bad})]
        /\ \A g \in Formats : Len(completed'[g]) <= BackupCount + 1
    <3>1. Pushed(mode) \in Seq(Stores \cup {Bad}) /\ Len(Pushed(mode)) <= BackupCount + 1
      BY <1>2, PushedIs
    <3> QED
      BY <1>2, <1>6, <1>18, <3>1 DEF WriteSnapshot
  <2>2. snap' \in [Formats -> Stores \cup {NoFile, Bad}]
    BY <1>2, <1>5, <1>18 DEF WriteSnapshot, TypeOK
  <2>3. pc' \in {"encrypt", "reset"} /\ rotated' \subseteq Formats
    BY <1>18 DEF WriteSnapshot, TypeOK
  <2> QED
    BY <1>18, <2>1, <2>2, <2>3 DEF WriteSnapshot, memory, TypeOK
<1>19. ASSUME Fails
       PROVE  /\ pc' = "idle" /\ call' = "none" /\ windows' \subseteq Windows
              /\ completed' \in [Formats -> Seq(Stores \cup {Bad})]
              /\ \A g \in Formats : Len(completed'[g]) <= BackupCount + 1
              /\ UNCHANGED <<memory, man, snap, log, gen, acked, rotated, calls, faults>>
  <2>1. windows' \subseteq Windows
    BY <1>19 DEF Fails, Windows, TypeOK
  <2> QED
    BY <1>8, <1>19, <2>1 DEF Fails
<1>20. CASE SnapshotFails
  <2>1. fails' \in Nat /\ Fails /\ bak' = bak
    BY <1>20 DEF SnapshotFails, TypeOK
  <2> QED
    BY <1>19, <2>1 DEF memory, TypeOK
<1>21. CASE EncryptBackup
  <2>1. bak' \in [Formats -> [Gens -> Backups \cup {NoFile}]]
    BY <1>21, NewestType DEF EncryptBackup, TypeOK
  <2> QED
    BY <1>21, <2>1 DEF EncryptBackup, memory, history, TypeOK
<1>22. CASE EncryptFails
  <2>1. Fails /\ HasBackup
    BY <1>22 DEF EncryptFails
  <2>2. bak' = bak \/ bak' = [bak EXCEPT ![mode][1].map = Bad]
    BY <1>22 DEF EncryptFails
  <2>3. bak' \in [Formats -> [Gens -> Backups \cup {NoFile}]]
    BY <2>1, <2>2, NewestType DEF TypeOK
  <2>4. fails' \in Nat
    BY <1>22 DEF EncryptFails, TypeOK
  <2> QED
    BY <1>19, <2>1, <2>3, <2>4 DEF memory, TypeOK
<1>23. CASE ResetWal
  <2>1. log' \in [Formats -> {NoFile} \cup Seq(Frames)]
    BY <1>2, <1>4, <1>7, <1>23 DEF ResetWal
  <2>2. /\ pc' \in {"down", "idle", "manifest"} /\ call' \in {"none", "compact", "close", "migrate"}
        /\ gen' \in 0..BackupCount /\ store' \in Stores /\ walOps' \in Nat /\ logOf' = mode
    <3>1. CASE call = "close"
      BY <1>9, <1>23, <3>1 DEF ResetWal
    <3>2. CASE call # "close"
      BY <1>23, <3>2 DEF ResetWal, TypeOK
    <3> QED
      BY <3>1, <3>2
  <2> QED
    BY <1>2, <1>23, <2>1, <2>2 DEF ResetWal, history, TypeOK
<1>24. CASE RemoveManifest
  BY <1>24 DEF RemoveManifest, memory, history, TypeOK
<1>25. ASSUME NEW f \in Formats,
              completed' = [completed EXCEPT ![f] =
                              IF Len(@) < 2 THEN <<>> ELSE [@ EXCEPT ![1] = Bad]]
       PROVE  /\ completed' \in [Formats -> Seq(Stores \cup {Bad})]
              /\ \A g \in Formats : Len(completed'[g]) <= BackupCount + 1
  <2> DEFINE c == IF Len(completed[f]) < 2 THEN <<>> ELSE [completed[f] EXCEPT ![1] = Bad]
  <2>1. c \in Seq(Stores \cup {Bad}) /\ Len(c) <= BackupCount + 1
    BY HeadLost
  <2>2. completed' = [completed EXCEPT ![f] = c]
    BY <1>25
  <2> HIDE DEF c
  <2> QED
    BY <1>6, <2>1, <2>2
<1>26. CASE RemoveOldSnapshot
  <2>1. /\ completed' \in [Formats -> Seq(Stores \cup {Bad})]
        /\ \A g \in Formats : Len(completed'[g]) <= BackupCount + 1
    BY <1>2, <1>25, <1>26 DEF RemoveOldSnapshot
  <2>2. windows' \subseteq Windows
    BY <1>26 DEF RemoveOldSnapshot, Windows, TypeOK
  <2>3. snap' \in [Formats -> Stores \cup {NoFile, Bad}]
    BY <1>2, <1>5, <1>26 DEF RemoveOldSnapshot
  <2>4. pc' = "oldlog" /\ UNCHANGED <<memory, man, bak, log, gen, call, acked, rotated, calls, faults, fails>>
    BY <1>26 DEF RemoveOldSnapshot
  <2> QED
    BY <2>1, <2>2, <2>3, <2>4 DEF memory, TypeOK
<1>27. CASE RemoveOldLog
  <2>1. log' \in [Formats -> {NoFile} \cup Seq(Frames)]
    BY <1>2, <1>4, <1>27 DEF RemoveOldLog
  <2>2. rotated' \subseteq Formats /\ windows' \subseteq Windows
    BY <1>27 DEF RemoveOldLog, TypeOK
  <2> QED
    BY <1>27, <2>1, <2>2 DEF RemoveOldLog, memory, TypeOK
<1>28. CASE Crash
  <2>1. bak' \in [Formats -> [Gens -> Backups \cup {NoFile}]]
    BY <1>28, NewestType DEF Crash, TypeOK
  <2>2. /\ completed' \in [Formats -> Seq(Stores \cup {Bad})]
        /\ \A g \in Formats : Len(completed'[g]) <= BackupCount + 1
    BY <1>8, <1>28 DEF Crash, TypeOK
  <2>3. Stops /\ UNCHANGED <<options, opt, mode, man, snap, log, acked, rotated, windows, calls, faults, fails>>
    BY <1>28 DEF Crash
  <2> QED
    BY <1>9, <2>1, <2>2, <2>3 DEF TypeOK
<1>29. CASE Damage
  <2>1. /\ completed' \in [Formats -> Seq(Stores \cup {Bad})]
        /\ \A g \in Formats : Len(completed'[g]) <= BackupCount + 1
    BY <1>2, <1>25, <1>29 DEF Damage
  <2>2. windows' \subseteq Windows /\ faults' \in Nat
    BY <1>29 DEF Damage, Windows, TypeOK
  <2>3. snap' \in [Formats -> Stores \cup {NoFile, Bad}]
    BY <1>2, <1>5, <1>29 DEF Damage
  <2>4. UNCHANGED <<memory, man, bak, log, control, acked, rotated, calls, fails>>
    BY <1>29 DEF Damage
  <2> QED
    BY <2>1, <2>2, <2>3, <2>4 DEF memory, control, TypeOK
<1> QED
  BY <1>1, <1>10, <1>11, <1>12, <1>14, <1>15, <1>16, <1>17, <1>18, <1>20, <1>21, <1>22, <1>23,
     <1>24, <1>26, <1>27, <1>28, <1>29, NextCases, Zenon

-----------------------------------------------------------------------------
(* Which call is at which step, and which files there are.                 *)

LEMMA CallStep ==
    ASSUME TypeOK, CallOK, [Next]_vars
    PROVE  CallOK'
<1> USE DEF Up, Migrating, Beginning, Ending
<1>1. CASE UNCHANGED vars
  BY <1>1 DEF vars, memory, files, control, history, CallOK
<1>2. /\ mode \in Formats /\ Other(mode) \in Formats /\ Other(mode) # mode /\ logOf \in Formats
      /\ \A f \in Formats : DOMAIN snap = Formats /\ DOMAIN log = Formats
  BY OtherFormat DEF TypeOK
<1>3. /\ <<>> # NoFile
      /\ \A f \in Formats : log[f] # NoFile => log[f] \in Seq(Frames)
      /\ \A l \in Seq(Frames) : l # NoFile
  <2>1. <<>> \in Seq(Frames)
    OBVIOUS
  <2> HIDE DEF Frames
  <2> QED
    BY <2>1, FormatsAssumption, LogType
<1>4. \A f \in Formats : FramesOf(f) # NoFile
  BY LogType
<1>5. ASSUME Stops, windows' = windows
      PROVE  CallOK'
  BY <1>5 DEF Stops, CallOK
<1>6. ASSUME NEW o \in FormatOpts, Open(o)
      PROVE  CallOK'
  <2>1. ModeOf(o) \in Formats
    BY FormatsAssumption DEF ModeOf, Detect, Formats
  <2>2. log'[logOf'] # NoFile
    BY <1>2, <1>4, <1>6, <2>1 DEF Open
  <2> QED
    BY <1>6, <2>2 DEF Open, CallOK
<1>7. ASSUME NEW p \in Patches, Write(p)
      PROVE  CallOK'
  <2>1. log'[logOf] # NoFile
    BY <1>3, <1>7, WriteType
  <2> QED
    BY <1>7, <2>1 DEF Write, control, CallOK
<1>8. CASE WriteManifest
  BY <1>8 DEF WriteManifest, memory, control, history, CallOK
<1>9. ASSUME NEW c, Steps(c)
      PROVE  call' = c /\ pc' \in {"write", "rotate"} /\ (pc' = "rotate" => gen' \in Gens)
  <2>1. BackupCount # 0 => BackupCount \in Gens
    BY FormatsAssumption DEF Gens
  <2> QED
    BY <1>9, <2>1 DEF Steps
<1>10. CASE Compact
  <2>1. call' = "compact" /\ pc' \in {"write", "rotate"} /\ (pc' = "rotate" => gen' \in Gens)
    BY <1>9, <1>10 DEF Compact
  <2> QED
    BY <1>10, <2>1 DEF Compact, memory, files, CallOK
<1>11. CASE Close
  <2>1. CASE Steps("close") /\ UNCHANGED <<store, walOps, logOf>>
    <3>1. call' = "close" /\ pc' \in {"write", "rotate"} /\ (pc' = "rotate" => gen' \in Gens)
      BY <1>9, <2>1
    <3> QED
      BY <1>11, <2>1, <3>1 DEF Close, files, CallOK
  <2>2. CASE Stops
    BY <1>5, <1>11, <2>2 DEF Close
  <2> QED
    BY <1>11, <2>1, <2>2 DEF Close
<1>12. CASE Migrate
  <2>1. call' = "migrate" /\ pc' \in {"write", "rotate"} /\ (pc' = "rotate" => gen' \in Gens)
    BY <1>9, <1>12 DEF Migrate
  <2> QED
    BY <1>12, <2>1 DEF Migrate, files, CallOK
<1>13. CASE Rotate
  <2>1. gen # 1 => gen - 1 \in Gens
    BY <1>13, FormatsAssumption DEF Rotate, Gens, CallOK
  <2>2. pc' \in {"write", "rotate"} /\ gen' = gen - 1 /\ (pc' = "rotate" => gen # 1)
    BY <1>13 DEF Rotate
  <2> QED
    BY <1>13, <2>1, <2>2 DEF Rotate, memory, CallOK
<1>14. CASE WriteSnapshot
  <2>1. snap'[mode] = store /\ mode \notin rotated'
    BY <1>2, <1>14 DEF WriteSnapshot
  <2> QED
    BY <1>14, <2>1 DEF WriteSnapshot, memory, CallOK
<1>15. ASSUME Fails, pc # "down", pc # "oldlog"
       PROVE  CallOK'
  BY <1>15 DEF Fails, memory, CallOK
<1>16. CASE SnapshotFails
  BY <1>15, <1>16 DEF SnapshotFails
<1>17. CASE EncryptBackup
  BY <1>17 DEF EncryptBackup, memory, history, CallOK
<1>18. CASE EncryptFails
  BY <1>15, <1>18 DEF EncryptFails
<1>19. CASE ResetWal
  <2>1. CASE call = "close"
    BY <1>5, <1>19, <2>1 DEF ResetWal, history
  <2>2. CASE call = "compact"
    BY <1>2, <1>3, <1>19, <2>2 DEF ResetWal, history, CallOK
  <2>3. CASE call = "migrate"
    BY <1>2, <1>3, <1>19, <2>3 DEF ResetWal, history, CallOK
  <2> QED
    BY <1>19, <2>1, <2>2, <2>3 DEF ResetWal, CallOK
<1>20. CASE RemoveManifest
  BY <1>20 DEF RemoveManifest, memory, history, CallOK
<1>21. CASE RemoveOldSnapshot
  <2>1. snap'[mode] = snap[mode] /\ snap'[Other(mode)] = NoFile
    BY <1>2, <1>21 DEF RemoveOldSnapshot
  <2> QED
    BY <1>21, <2>1 DEF RemoveOldSnapshot, memory, CallOK, Other
<1>22. CASE RemoveOldLog
  <2>1. log'[mode] = log[mode]
    BY <1>2, <1>22 DEF RemoveOldLog
  <2> QED
    BY <1>22, <2>1 DEF RemoveOldLog, memory, CallOK
<1>23. CASE Crash
  BY <1>5, <1>23 DEF Crash
<1>24. CASE Damage
  BY <1>24 DEF Damage, memory, control, CallOK
<1> QED
  BY <1>1, <1>6, <1>7, <1>8, <1>10, <1>11, <1>12, <1>13, <1>14, <1>16, <1>17, <1>18, <1>19,
     <1>20, <1>21, <1>22, <1>23, <1>24, NextCases, Zenon

LEMMA FilesStep ==
    ASSUME TypeOK, CallOK, FilesOK, [Next]_vars
    PROVE  FilesOK'
<1> USE DEF Up, Migrating, Beginning, Ending
<1>1. CASE UNCHANGED vars
  BY <1>1 DEF vars, memory, files, control, history, FilesOK, V2Gone
<1>2. /\ mode \in Formats /\ Other(mode) \in Formats /\ Other(mode) # mode /\ logOf \in Formats
      /\ Other(Other(mode)) = mode /\ DOMAIN snap = Formats /\ DOMAIN log = Formats
      /\ "v2" \in Formats /\ "json" \in Formats
  BY OtherFormat DEF TypeOK, Formats
<1>3. ASSUME Stops
      PROVE  FilesOK'
  BY <1>3 DEF Stops, FilesOK
<1>4. ASSUME NEW o \in FormatOpts, Open(o)
      PROVE  FilesOK'
  <2>1. call = "none"
    BY <1>4 DEF Open, CallOK
  <2>2. ASSUME o = "auto", Detect = "json"
        PROVE  V2Gone'
    <3>1. V2Gone
      BY <2>2 DEF Detect, Exists, V2Gone
    <3> QED
      BY <1>2, <1>4, <2>2, <3>1 DEF Open, ModeOf, V2Gone
  <2> QED
    BY <1>4, <2>1, <2>2 DEF Open, ModeOf, FilesOK
<1>5. ASSUME NEW p \in Patches, Write(p)
      PROVE  FilesOK'
  <2>1. call = "none"
    BY <1>5 DEF Write, CallOK
  <2> QED
    BY <1>2, <1>5, <2>1 DEF Write, control, FilesOK, V2Gone
<1>6. CASE WriteManifest
  <2>1. call = "none"
    BY <1>6 DEF WriteManifest, CallOK
  <2> QED
    BY <1>6, <2>1 DEF WriteManifest, memory, control, history, FilesOK
<1>7. CASE Compact
  BY <1>7 DEF Compact, Steps, memory, files, CallOK, FilesOK, V2Gone
<1>8. CASE Close
  <2>1. CASE Steps("close") /\ UNCHANGED <<store, walOps, logOf>>
    BY <1>8, <2>1 DEF Close, Steps, files, CallOK, FilesOK, V2Gone
  <2>2. CASE Stops
    BY <1>3, <2>2
  <2> QED
    BY <1>8, <2>1, <2>2 DEF Close
<1>9. CASE Migrate
  <2>1. pc' \in {"write", "rotate"} /\ call' = "migrate"
    BY <1>9 DEF Migrate, Steps
  <2> QED
    BY <1>2, <1>9, <2>1 DEF Migrate, files, CallOK, FilesOK, V2Gone, Formats, Other
<1>10. CASE Rotate
  <2>1. snap'["v2"] = snap["v2"] \/ mode = "v2"
    BY <1>2, <1>10 DEF Rotate
  <2>2. snap["v2"] = NoFile /\ mode = "v2" => snap' = snap
    BY <1>10 DEF Rotate
  <2> QED
    BY <1>10, <2>1, <2>2 DEF Rotate, memory, FilesOK, V2Gone
<1>11. CASE WriteSnapshot
  <2>1. snap'["v2"] = snap["v2"] \/ mode = "v2"
    BY <1>2, <1>11 DEF WriteSnapshot
  <2> QED
    BY <1>11, <2>1 DEF WriteSnapshot, memory, FilesOK, V2Gone
<1>12. ASSUME Fails, Unfinished
       PROVE  FilesOK'
  BY <1>12 DEF Fails, Unfinished, memory, FilesOK, V2Gone
<1>13. CASE SnapshotFails
  BY <1>12, <1>13 DEF SnapshotFails, Unfinished
<1>14. CASE EncryptBackup
  BY <1>14 DEF EncryptBackup, memory, history, FilesOK, V2Gone
<1>15. CASE EncryptFails
  BY <1>12, <1>15 DEF EncryptFails, Unfinished
<1>16. CASE ResetWal
  <2>1. CASE call = "close"
    BY <1>3, <1>16, <2>1 DEF ResetWal
  <2>2. CASE call = "compact"
    BY <1>2, <1>16, <2>2 DEF ResetWal, history, FilesOK, V2Gone
  <2>3. CASE call = "migrate"
    BY <1>2, <1>16, <2>3 DEF ResetWal, history, FilesOK
  <2> QED
    BY <1>16, <2>1, <2>2, <2>3 DEF ResetWal, CallOK
<1>17. CASE RemoveManifest
  BY <1>17 DEF RemoveManifest, memory, history, CallOK, FilesOK
<1>18. CASE RemoveOldSnapshot
  BY <1>18 DEF RemoveOldSnapshot, memory, CallOK, FilesOK
<1>19. CASE RemoveOldLog
  <2>1. /\ log'[Other(mode)] = NoFile /\ snap[Other(mode)] = NoFile /\ ~man
        /\ logOf = mode /\ call = "migrate"
    BY <1>2, <1>19 DEF RemoveOldLog, CallOK
  <2>2. mode = "json" => V2Gone'
    BY <1>19, <2>1 DEF RemoveOldLog, V2Gone, Other
  <2>3. "halfway" \notin windows' => opt = "auto"
    BY <1>19, <2>1 DEF RemoveOldLog, FilesOK
  <2> QED
    BY <1>19, <2>1, <2>2, <2>3 DEF RemoveOldLog, memory, FilesOK
<1>20. CASE Crash
  BY <1>3, <1>20 DEF Crash
<1>21. CASE Damage
  BY <1>21 DEF Damage, control, FilesOK
<1> QED
  BY <1>1, <1>4, <1>5, <1>6, <1>7, <1>8, <1>9, <1>10, <1>11, <1>13, <1>14, <1>15, <1>16, <1>17,
     <1>18, <1>19, <1>20, <1>21, NextCases, Zenon

-----------------------------------------------------------------------------
(* What the files an open would choose hold.                               *)

\* The format an open of the same options would find.
Choice ==
    IF Migrating /\ (mode = "json" \/ pc \in {"rotate", "write"}) THEN Other(mode) ELSE mode

LEMMA ModeType ==
    /\ TypeOK => ModeOf(opt) \in Formats
    /\ \A o \in FormatOpts : ModeOf(o) \in Formats
BY FormatsAssumption DEF ModeOf, Detect, Formats, TypeOK

LEMMA ChosenFormat ==
    ASSUME TypeOK, CallOK, FilesOK, Up, "halfway" \notin windows
    PROVE  ModeOf(opt) = Choice
<1> USE DEF Up, Migrating, Beginning, Ending
<1>1. mode \in {"v2", "json"} /\ store \in Stores /\ NoFile \notin Stores
  BY FormatsAssumption DEF TypeOK, Formats
<1>2. CASE ~Migrating
  <2>1. logOf = mode /\ log[mode] # NoFile /\ (opt # "auto" => mode = opt)
    BY <1>2 DEF FilesOK, CallOK
  <2>2. opt = "auto" /\ mode = "json" => V2Gone
    BY <1>2 DEF FilesOK
  <2> QED
    BY <1>1, <1>2, <2>1, <2>2 DEF ModeOf, Detect, Exists, V2Gone, Choice
<1>3. CASE Migrating
  <2>1. opt = "auto" /\ log[Other(mode)] # NoFile /\ pc \in Beginning \cup Ending
    BY <1>3 DEF FilesOK, CallOK, TypeOK
  <2>2. CASE mode = "json"
    BY <1>3, <2>1, <2>2 DEF ModeOf, Detect, Exists, Choice, Other
  <2>3. CASE mode = "v2" /\ pc \in {"rotate", "write"}
    <3>1. V2Gone
      BY <1>3, <2>3 DEF FilesOK
    <3> QED
      BY <1>3, <2>1, <2>3, <3>1 DEF ModeOf, Detect, Exists, Choice, Other, V2Gone
  <2>4. CASE mode = "v2" /\ pc \notin {"rotate", "write"}
    <3>1. snap["v2"] # NoFile
      BY <1>1, <2>1, <2>4 DEF CallOK
    <3> QED
      BY <2>1, <2>4, <3>1 DEF ModeOf, Detect, Exists, Choice
  <2> QED
    BY <1>1, <2>2, <2>3, <2>4
<1> QED
  BY <1>2, <1>3

LEMMA ChosenNext ==
    ASSUME TypeOK', CallOK', FilesOK', Up', "halfway" \notin windows'
    PROVE  ModeOf(opt)' = Choice'
<1> USE DEF Up, Migrating, Beginning, Ending
<1>1. mode' \in {"v2", "json"} /\ store' \in Stores /\ NoFile \notin Stores
  BY FormatsAssumption DEF TypeOK, Formats
<1>2. CASE ~Migrating'
  <2>1. logOf' = mode' /\ log'[mode'] # NoFile /\ (opt' # "auto" => mode' = opt')
    BY <1>2 DEF FilesOK, CallOK
  <2>2. opt' = "auto" /\ mode' = "json" => V2Gone'
    BY <1>2 DEF FilesOK
  <2> QED
    BY <1>1, <1>2, <2>1, <2>2 DEF ModeOf, Detect, Exists, V2Gone, Choice
<1>3. CASE Migrating'
  <2>1. opt' = "auto" /\ log'[Other(mode')] # NoFile /\ pc' \in Beginning \cup Ending
    BY <1>3 DEF FilesOK, CallOK, TypeOK
  <2>2. CASE mode' = "json"
    BY <1>3, <2>1, <2>2 DEF ModeOf, Detect, Exists, Choice, Other
  <2>3. CASE mode' = "v2" /\ pc' \in {"rotate", "write"}
    <3>1. V2Gone'
      BY <1>3, <2>3 DEF FilesOK
    <3> QED
      BY <1>3, <2>1, <2>3, <3>1 DEF ModeOf, Detect, Exists, Choice, Other, V2Gone
  <2>4. CASE mode' = "v2" /\ pc' \notin {"rotate", "write"}
    <3>1. snap'["v2"] # NoFile
      BY <1>1, <2>1, <2>4 DEF CallOK
    <3> QED
      BY <2>1, <2>4, <3>1 DEF ModeOf, Detect, Exists, Choice
  <2> QED
    BY <1>1, <2>2, <2>3, <2>4
<1> QED
  BY <1>2, <1>3

\* The same files exist.
LEMMA DetectSame ==
    ASSUME Exists("v2")' <=> Exists("v2"), Exists("json")' <=> Exists("json"),
           man' = man, opt' = opt
    PROVE  ModeOf(opt)' = ModeOf(opt)
BY DEF ModeOf, Detect

LEMMA BaseSame ==
    ASSUME NEW f, options' = options, snap'[f] = snap[f], snap[f] # Bad \/ bak'[f] = bak[f]
    PROVE  Base(f)' = Base(f)
<1>1. CASE bak'[f] = bak[f]
  <2>1. \A b : Opens(f, b)' <=> Opens(f, b)
    BY DEF Opens
  <2>2. Usable(f)' = Usable(f)
    BY <1>1, <2>1 DEF Usable
  <2> QED
    BY <1>1, <2>2 DEF Base, Restored
<1>2. CASE snap[f] # Bad
  BY <1>2 DEF Base
<1> QED
  BY <1>1, <1>2

\* A key the log touches, or any key of an unchanged snapshot.
LEMMA LoadedSame ==
    ASSUME TypeOK, NEW f \in Formats, log'[f] = log[f], ~Mixed(f)', NEW k \in Keys,
           Logged(f, k)' \/ Base(f)' = Base(f)
    PROVE  /\ ~Mixed(f) /\ (Logged(f, k)' => Logged(f, k))
           /\ Loaded(f)'[k] = Loaded(f)[k]
<1>1. PICK w \in Seq(Frames) : w = FramesIn(log[f])
  BY LogType
<1>2. /\ Loaded(f) = Content(Base(f), w, f) /\ Loaded(f)' = Content(Base(f)', w, f)
      /\ (Mixed(f) <=> ~Pure(w, f)) /\ (Mixed(f)' <=> ~Pure(w, f))
      /\ (Logged(f, k) <=> Hit(PatchSeq(w), k))
      /\ (Logged(f, k)' <=> Hit(PatchSeq(w), k))
  BY <1>1, StateNames
<1>3. Pure(w, f)
  BY <1>2
<1>4. \A b, c : Hit(PatchSeq(w), k) => Content(b, w, f)[k] = Content(c, w, f)[k]
  BY <1>3, ContentKey
<1> QED
  BY <1>2, <1>4

\* A step that leaves the log alone.
LEMMA KeptFrame ==
    ASSUME TypeOK, KeptOK, NEW f \in Formats, f = ModeOf(opt), f = ModeOf(opt)',
           log'[f] = log[f], acked' = acked, windows \subseteq windows',
           windows' = {} /\ f \notin rotated' => f \notin rotated /\ Base(f)' = Base(f)
    PROVE  KeptOK'
<1>1. SUFFICES ASSUME windows' \subseteq {"damaged"}, ~Mixed(f)', NEW k \in Keys,
                      (windows' = {} /\ f \notin rotated') \/ Logged(f, k)'
               PROVE  Loaded(f)'[k] = acked'[k]
  BY DEF KeptOK
<1>2. windows \subseteq {"damaged"} /\ (windows' = {} => windows = {})
  BY <1>1
<1>3. ~Mixed(f) /\ (Logged(f, k)' => Logged(f, k)) /\ Loaded(f)'[k] = Loaded(f)[k]
  BY <1>1, LoadedSame
<1>4. (windows = {} /\ f \notin rotated) \/ Logged(f, k)
  BY <1>1, <1>2, <1>3
<1> QED
  BY <1>2, <1>3, <1>4 DEF KeptOK

\* A step to an empty log and a snapshot that has it all.
LEMMA KeptWhole ==
    ASSUME NEW f \in Formats, f = ModeOf(opt)', FramesIn(log'[f]) = <<>>,
           Base(f)' = acked', acked' \in Stores
    PROVE  KeptOK'
<1>1. Loaded(f)' = acked'
  BY StateNames, ContentEmpty
<1> QED
  BY <1>1 DEF KeptOK

LEMMA KeptStep ==
    ASSUME TypeOK, CallOK, FilesOK, KeptOK, [Next]_vars, TypeOK', CallOK', FilesOK'
    PROVE  KeptOK'
<1>1. SUFFICES ASSUME windows' \subseteq {"damaged"}
               PROVE  KeptOK'
  BY DEF KeptOK
<1>2. /\ mode \in Formats /\ Other(mode) \in Formats /\ Other(mode) # mode /\ logOf \in Formats
      /\ DOMAIN snap = Formats /\ DOMAIN log = Formats /\ DOMAIN bak = Formats
      /\ Formats = {"v2", "json"} /\ Formats = {mode, Other(mode)}
  BY OtherFormat DEF TypeOK, Formats
<1>3. store \in Stores /\ acked \in Stores /\ acked' \in Stores
      /\ NoFile \notin Stores /\ Bad \notin Stores /\ Bad # NoFile /\ <<>> # NoFile
  <2>1. <<>> \in Seq(Frames)
    OBVIOUS
  <2> HIDE DEF Frames
  <2> QED
    BY <2>1, FormatsAssumption DEF TypeOK
<1>4. PICK f \in Formats : f = ModeOf(opt)
  BY ModeType
<1>5. ASSUME Up, windows \subseteq {"damaged"}
      PROVE  windows = {} /\ f = Choice /\ store = acked
  <2>1. windows = {} /\ store = acked
    BY <1>5 DEF CallOK
  <2> QED
    BY <1>4, <1>5, <2>1, ChosenFormat
<1>6. ASSUME Up'
      PROVE  ModeOf(opt)' = Choice'
  BY <1>1, <1>6, ChosenNext
<1>7. ASSUME UNCHANGED <<man, snap, log, options, opt, acked, rotated>>, windows \subseteq windows',
             \/ bak' = bak
             \/ snap[mode] # Bad /\ \A h \in Formats \ {mode} : bak'[h] = bak[h]
      PROVE  KeptOK'
  <2>1. f = ModeOf(opt)'
    BY <1>4, <1>7, DetectSame DEF Exists
  <2>2. Base(f)' = Base(f)
    BY <1>2, <1>7, BaseSame
  <2> QED
    BY <1>4, <1>7, <2>1, <2>2, KeptFrame
<1>8. CASE UNCHANGED vars
  BY <1>7, <1>8 DEF vars, memory, files, control, history
<1>9. ASSUME NEW o \in FormatOpts, Open(o)
      PROVE  KeptOK'
  <2>1. PICK g \in Formats : g = ModeOf(o)
    BY ModeType
  <2>2. /\ log' = [log EXCEPT ![g] = FramesOf(g)] /\ acked' = Loaded(g) /\ opt' = o
        /\ UNCHANGED <<options, man, snap, bak>>
    BY <1>9, <2>1 DEF Open
  <2>3. FramesIn(log'[g]) = FramesIn(log[g]) /\ log'[g] # NoFile
    <3>1. log'[g] = FramesOf(g)
      BY <1>2, <2>2
    <3> QED
      BY <3>1, LogType DEF FramesIn
  <2>4. g = ModeOf(opt)'
    <3>1. CASE o # "auto"
      BY <2>1, <2>2, <3>1 DEF ModeOf
    <3>2. CASE o = "auto"
      BY <1>2, <2>1, <2>2, <2>3, <3>2 DEF ModeOf, Detect, Exists
    <3> QED
      BY <3>1, <3>2
  <2>5. Base(g)' = Base(g)
    BY <2>2, BaseSame
  <2>6. Loaded(g)' = acked'
    <3>1. Loaded(g) = Content(Base(g), FramesIn(log[g]), g)
          /\ Loaded(g)' = Content(Base(g)', FramesIn(log'[g]), g)
      BY StateNames
    <3> QED
      BY <2>2, <2>3, <2>5, <3>1
  <2> QED
    BY <2>4, <2>6 DEF KeptOK
<1>10. ASSUME NEW p \in Patches, Write(p)
       PROVE  KeptOK'
  <2>1. /\ UNCHANGED <<options, opt, mode, logOf, man, snap, bak, pc, call, rotated, windows>>
        /\ pc = "idle" /\ store' = ApplyPatch(store, p) /\ acked' = store'
    BY <1>10 DEF Write, control
  <2>2. Up /\ call = "none" /\ windows = {}
    BY <1>1, <2>1 DEF Up, CallOK
  <2>3. f = mode /\ store = acked
    BY <1>5, <2>2 DEF Choice, Migrating
  <2>4. logOf = mode
    BY <2>2 DEF FilesOK, Migrating
  <2>5. ModeOf(opt)' = f
    BY <1>6, <2>1, <2>2, <2>3 DEF Choice, Migrating, Up
  <2> DEFINE fr == [patch |-> p, as |-> f]
             w == log[f]
  <2>6. w \in Seq(Frames) /\ log'[f] = Append(w, fr) /\ Append(w, fr) \in Seq(Frames)
    BY <1>10, <2>3, <2>4, WriteType
  <2>7. PICK v \in Seq(Frames) : v = w
    BY <2>6
  <2>8. FramesIn(log[f]) = v /\ FramesIn(log'[f]) = Append(v, fr) /\ log'[f] # NoFile
    <3>1. v # NoFile /\ Append(v, fr) # NoFile
      BY <2>6, <2>7, FormatsAssumption
    <3> QED
      BY <2>6, <2>7, <3>1 DEF FramesIn
  <2> HIDE DEF w
  <2>9. PICK b \in Stores : b = Base(f)
    BY RestoredType
  <2>10. Base(f)' = b
    BY <2>1, <2>9, BaseSame
  <2>11. /\ Loaded(f) = Content(b, v, f) /\ Loaded(f)' = Content(b, Append(v, fr), f)
         /\ (Mixed(f) <=> ~Pure(v, f)) /\ (Mixed(f)' <=> ~Pure(Append(v, fr), f))
         /\ \A k : Logged(f, k) <=> Hit(PatchSeq(v), k)
         /\ \A k : Logged(f, k)' <=> Hit(PatchSeq(Append(v, fr)), k)
    BY <2>8, <2>9, <2>10, StateNames
  <2>12. SUFFICES ASSUME ~Mixed(f)', NEW k \in Keys, f \notin rotated' \/ Logged(f, k)'
                  PROVE  Loaded(f)'[k] = acked'[k]
    BY <2>1, <2>2, <2>5 DEF KeptOK
  <2>13. /\ Pure(v, f) /\ Loaded(f)' = ApplyPatch(Loaded(f), p)
         /\ Logged(f, k)' => Logged(f, k) \/ p[k] # Keep
    BY <2>11, <2>12, ContentAppend
  <2>14. ~Mixed(f)
    BY <2>11, <2>13
  <2>15. p[k] # Keep \/ Loaded(f)[k] = acked[k]
    BY <1>4, <2>1, <2>2, <2>12, <2>13, <2>14 DEF KeptOK
  <2> QED
    BY <2>1, <2>3, <2>13, <2>15 DEF ApplyPatch
<1>11. CASE WriteManifest
  <2>1. /\ UNCHANGED <<options, opt, mode, logOf, snap, bak, log, pc, call, acked, rotated, windows>>
        /\ pc = "idle"
    BY <1>11 DEF WriteManifest, memory, control, history
  <2>2. Up /\ call = "none"
    BY <2>1 DEF Up, CallOK
  <2>3. f = mode /\ ModeOf(opt)' = mode
    BY <1>1, <1>5, <1>6, <2>1, <2>2 DEF Choice, Migrating, Up
  <2>4. Base(f)' = Base(f)
    BY <2>1, BaseSame
  <2> QED
    BY <1>4, <2>1, <2>3, <2>4, KeptFrame
<1>12. CASE Compact
  BY <1>7, <1>12 DEF Compact, memory, files
<1>13. CASE Close
  BY <1>7, <1>13 DEF Close, files
<1>14. CASE Migrate
  BY <1>7, <1>14 DEF Migrate, files
<1>15. CASE Rotate
  <2>1. /\ UNCHANGED <<options, opt, mode, log, call, acked, windows>>
        /\ pc = "rotate" /\ pc' \in {"rotate", "write"}
    BY <1>15 DEF Rotate, memory
  <2>2. f = Choice /\ ModeOf(opt)' = Choice'
    BY <1>1, <1>5, <1>6, <2>1 DEF Up
  <2>3. f = ModeOf(opt)'
    BY <2>1, <2>2 DEF Choice, Migrating
  <2>4. rotated \subseteq rotated'
    BY <1>15 DEF Rotate
  <2>5. \A h \in Formats \ {mode} : snap'[h] = snap[h] /\ bak'[h] = bak[h]
    BY <1>2, <1>15 DEF Rotate
  <2>6. mode \notin rotated' => snap' = snap /\ (snap[mode] # Bad \/ bak' = bak)
    BY <1>15 DEF Rotate
  <2>7. f \notin rotated' => f \notin rotated /\ Base(f)' = Base(f)
    BY <1>2, <2>1, <2>4, <2>5, <2>6, BaseSame
  <2> QED
    BY <1>4, <2>1, <2>3, <2>7, KeptFrame
<1>16. CASE WriteSnapshot
  <2>1. /\ UNCHANGED <<options, opt, mode, log, bak, call, acked, windows>>
        /\ pc = "write" /\ pc' \in {"encrypt", "reset"} /\ rotated' = rotated \ {mode}
        /\ snap'[mode] = store /\ \A h \in Formats \ {mode} : snap'[h] = snap[h]
    BY <1>2, <1>16 DEF WriteSnapshot, memory
  <2>2. f = Choice /\ ModeOf(opt)' = Choice' /\ store = acked /\ "halfway" \notin windows
    BY <1>1, <1>5, <1>6, <2>1 DEF Up
  <2>3. \A g \in Formats : g = mode => Base(g)' = acked'
    BY <1>3, <2>1, <2>2 DEF Base
  <2>4. CASE call # "migrate"
    <3>1. f = mode /\ f = ModeOf(opt)' /\ log'[f] = log[f]
      BY <2>1, <2>2, <2>4 DEF Choice, Migrating
    <3>2. SUFFICES ASSUME ~Mixed(f)', NEW k \in Keys
                   PROVE  Loaded(f)'[k] = acked'[k]
      BY <3>1 DEF KeptOK
    <3>3. CASE Logged(f, k)'
      <4>1. ~Mixed(f) /\ Logged(f, k) /\ Loaded(f)'[k] = Loaded(f)[k]
        BY <3>1, <3>2, <3>3, LoadedSame
      <4> QED
        BY <1>1, <1>4, <2>1, <4>1 DEF KeptOK
    <3>4. CASE ~Logged(f, k)'
      <4>1. PICK w \in Seq(Frames) : w = FramesIn(log'[f])
        BY <3>1, LogType
      <4>2. /\ Loaded(f)' = Content(Base(f)', w, f) /\ Pure(w, f)
            /\ ~Hit(PatchSeq(w), k)
        BY <3>2, <3>4, <4>1, StateNames
      <4>3. \A b : Content(b, w, f)[k] = b[k]
        BY <4>2, ContentKey
      <4>4. Base(f)' = acked'
        BY <2>3, <3>1
      <4> QED
        BY <4>2, <4>3, <4>4
    <3> QED
      BY <3>3, <3>4
  <2>5. CASE call = "migrate" /\ mode = "json"
    <3>1. f = Other(mode) /\ f = ModeOf(opt)' /\ f # mode
      BY <1>2, <2>1, <2>2, <2>5 DEF Choice, Migrating
    <3>2. Base(f)' = Base(f)
      BY <2>1, <3>1, BaseSame
    <3> QED
      BY <1>4, <2>1, <3>1, <3>2, KeptFrame
  <2>6. CASE call = "migrate" /\ mode = "v2"
    <3>1. mode = ModeOf(opt)'
      BY <2>1, <2>2, <2>6 DEF Choice, Migrating
    <3>2. log[mode] = NoFile
      BY <2>1, <2>2, <2>6 DEF FilesOK, V2Gone, Up, Migrating
    <3>3. FramesIn(log'[mode]) = <<>>
      BY <2>1, <3>2 DEF FramesIn
    <3>4. PICK g \in Formats : g = mode
      BY <1>2
    <3>5. Base(g)' = acked' /\ FramesIn(log'[g]) = <<>> /\ g = ModeOf(opt)'
      BY <2>3, <3>1, <3>3, <3>4
    <3> QED
      BY <1>3, <3>5, KeptWhole
  <2> QED
    BY <1>2, <2>4, <2>5, <2>6
<1>17. ASSUME Fails
       PROVE  UNCHANGED <<man, snap, log, options, opt, acked, rotated>> /\ windows \subseteq windows'
  BY <1>17 DEF Fails, memory
<1>18. CASE SnapshotFails
  BY <1>7, <1>17, <1>18 DEF SnapshotFails
<1>19. pc = "encrypt" => snap[mode] # Bad
  BY <1>3 DEF CallOK
<1>20. CASE EncryptBackup
  BY <1>2, <1>7, <1>19, <1>20 DEF EncryptBackup, memory, history
<1>21. CASE EncryptFails
  <2>1. pc = "encrypt" /\ \A h \in Formats \ {mode} : bak'[h] = bak[h]
    BY <1>2, <1>21 DEF EncryptFails
  <2>2. Fails
    BY <1>21 DEF EncryptFails
  <2> QED
    BY <1>7, <1>17, <1>19, <2>1, <2>2
<1>22. CASE ResetWal
  <2>1. /\ UNCHANGED <<options, opt, mode, man, snap, bak, acked, rotated, windows>>
        /\ pc = "reset" /\ log'[mode] = <<>> /\ \A h \in Formats \ {mode} : log'[h] = log[h]
    BY <1>2, <1>22 DEF ResetWal, history
  <2>2. snap[mode] = store /\ store = acked
    BY <1>1, <1>5, <2>1 DEF CallOK, Up
  <2>3. Exists("v2")' = Exists("v2") /\ Exists("json")' = Exists("json")
    BY <1>2, <1>3, <2>1, <2>2 DEF Exists
  <2>4. f = ModeOf(opt)'
    BY <1>4, <2>1, <2>3, DetectSame
  <2>5. CASE f = mode
    <3>1. Base(f)' = acked'
      BY <1>3, <2>1, <2>2, <2>5 DEF Base
    <3>2. FramesIn(log'[f]) = <<>>
      BY <1>3, <2>1, <2>5 DEF FramesIn
    <3> QED
      BY <1>3, <2>4, <3>1, <3>2, KeptWhole
  <2>6. CASE f # mode
    <3>1. Base(f)' = Base(f) /\ log'[f] = log[f]
      BY <2>1, <2>6, BaseSame
    <3> QED
      BY <1>4, <2>1, <2>4, <3>1, KeptFrame
  <2> QED
    BY <2>5, <2>6
<1>23. CASE RemoveManifest
  <2>1. /\ UNCHANGED <<options, opt, mode, snap, bak, log, call, acked, rotated, windows>>
        /\ pc = "manifest" /\ pc' = "oldsnap"
    BY <1>23 DEF RemoveManifest, memory, history
  <2>2. f = Choice /\ ModeOf(opt)' = Choice'
    BY <1>1, <1>5, <1>6, <2>1 DEF Up
  <2>3. f = ModeOf(opt)'
    BY <2>1, <2>2 DEF Choice, Migrating
  <2>4. Base(f)' = Base(f)
    BY <2>1, BaseSame
  <2> QED
    BY <1>4, <2>1, <2>3, <2>4, KeptFrame
<1>24. CASE RemoveOldSnapshot
  <2>1. /\ UNCHANGED <<options, opt, mode, bak, log, call, acked, rotated>>
        /\ pc = "oldsnap" /\ pc' = "oldlog" /\ snap'[mode] = snap[mode]
        /\ windows' = windows \cup IF Other(mode) = "v2" THEN {"oldlog"} ELSE {}
    BY <1>2, <1>24 DEF RemoveOldSnapshot, memory
  <2>2. Other(mode) # "v2" /\ windows' = windows
    BY <1>1, <2>1
  <2>3. mode = "v2"
    BY <1>2, <2>2
  <2>4. f = Choice /\ ModeOf(opt)' = Choice'
    BY <1>1, <1>5, <1>6, <2>1, <2>2 DEF Up
  <2>5. f = mode /\ f = ModeOf(opt)'
    BY <2>1, <2>3, <2>4 DEF Choice
  <2>6. Base(f)' = Base(f)
    BY <2>1, <2>5, BaseSame
  <2> QED
    BY <1>4, <2>1, <2>2, <2>5, <2>6, KeptFrame
<1>25. CASE RemoveOldLog
  <2>1. /\ UNCHANGED <<mode, snap, bak, options, acked, store>> /\ pc = "oldlog" /\ pc' = "idle"
        /\ call' = "none" /\ log'[mode] = log[mode]
    BY <1>2, <1>25 DEF RemoveOldLog, memory
  <2>2. ModeOf(opt)' = mode
    BY <1>6, <2>1 DEF Choice, Migrating, Up
  <2>3. log[mode] = <<>> /\ snap[mode] = store /\ store = acked
    BY <2>1 DEF CallOK, Ending, Up
  <2>4. PICK g \in Formats : g = mode
    BY <1>2
  <2>5. FramesIn(log'[g]) = <<>> /\ Base(g)' = acked'
    BY <1>3, <2>1, <2>3, <2>4 DEF FramesIn, Base
  <2> QED
    BY <1>3, <2>2, <2>4, <2>5, KeptWhole
<1>26. CASE Crash
  <2>1. /\ UNCHANGED <<man, snap, log, options, opt, acked, rotated, windows>>
        /\ \/ bak' = bak
           \/ pc = "encrypt" /\ \A h \in Formats \ {mode} : bak'[h] = bak[h]
    BY <1>2, <1>26 DEF Crash
  <2> QED
    BY <1>7, <1>19, <2>1
<1>27. CASE Damage
  <2>1. /\ UNCHANGED <<options, opt, man, log, acked>> /\ snap[mode] \in Stores
        /\ snap'[mode] = Bad /\ \A h \in Formats \ {mode} : snap'[h] = snap[h]
        /\ windows' = windows \cup {"damaged"}
    BY <1>2, <1>27 DEF Damage, memory
  <2>2. Exists("v2")' = Exists("v2") /\ Exists("json")' = Exists("json")
    BY <1>2, <1>3, <2>1 DEF Exists
  <2>3. f = ModeOf(opt)'
    BY <1>4, <2>1, <2>2, DetectSame
  <2> QED
    BY <1>4, <2>1, <2>3, KeptFrame
<1> QED
  BY <1>8, <1>9, <1>10, <1>11, <1>12, <1>13, <1>14, <1>15, <1>16, <1>18, <1>20, <1>21, <1>22,
     <1>23, <1>24, <1>25, <1>26, <1>27, NextCases, Zenon

-----------------------------------------------------------------------------
(* The backups.                                                            *)

\* A snapshot of the past keeps its backup, wherever both are moved.
LEMMA MatchMoves ==
    ASSUME NEW f, NEW g, NEW h, NEW i, NEW j, options' = options, bak'[f][h] = bak[f][g],
           i \in DOMAIN completed'[f] /\ completed'[f][i] # Bad
           => j \in DOMAIN completed[f] /\ completed[f][j] = completed'[f][i],
           Match(f, g, j)
    PROVE  Match(f, h, i)'
<1>1. \A b : Opens(f, b)' <=> Opens(f, b)
  BY DEF Opens
<1> QED
  BY <1>1 DEF Match

\* A backup that opens after the step.
LEMMA MatchOpens ==
    ASSUME NEW f, NEW g, NEW i, options' = options,
           i \in DOMAIN completed'[f] /\ completed'[f][i] # Bad
           => Opens(f, bak'[f][g]) /\ bak'[f][g].map = completed'[f][i]
    PROVE  Match(f, g, i)'
<1>1. \A b : Opens(f, b)' <=> Opens(f, b)
  BY DEF Opens
<1> QED
  BY <1>1 DEF Match

LEMMA SettledSame ==
    ASSUME NEW f, options' = options, bak'[f] = bak[f], completed'[f] = completed[f],
           snap'[f] = snap[f], Settled(f)
    PROVE  Settled(f)'
<1>1. SnapOK(f)'
  BY DEF Settled, SnapOK
<1>2. ASSUME NEW g \in Gens
      PROVE  Match(f, g, g + 1)'
  <2>1. Match(f, g, g + 1)
    BY DEF Settled
  <2>2. PICK i : i = g + 1
    OBVIOUS
  <2>3. Match(f, g, i)'
    BY <2>1, <2>2, MatchMoves
  <2> QED
    BY <2>2, <2>3
<1> QED
  BY <1>1, <1>2 DEF Settled

\* A backup that was rotated and, if it must be, encrypted.
LEMMA FreshOpens ==
    ASSUME NEW f, Plain(f), NEW s \in Stores, NEW e \in Nat, NEW b,
           b = [map |-> s, enc |-> e], e = IF options.encrypt THEN 1 ELSE 0
    PROVE  Opens(f, b) /\ b.map = s
<1>1. b \in Backups /\ b # NoFile /\ s # Bad
  BY FormatsAssumption DEF Backups
<1> QED
  BY <1>1 DEF Opens, Plain

\* The last snapshot of f is not known any more.
LEMMA SettledLost ==
    ASSUME TypeOK, NEW f \in Formats, options' = options, bak'[f] = bak[f], Settled(f),
           completed'[f] = IF Len(completed[f]) < 2 THEN <<>> ELSE [completed[f] EXCEPT ![1] = Bad]
    PROVE  Settled(f)'
<1>1. PICK c : c = completed'[f]
  OBVIOUS
<1>2. /\ c # <<>> => c[1] = Bad
      /\ \A g \in Gens : g + 1 \in DOMAIN c =>
            g + 1 \in DOMAIN completed[f] /\ c[g + 1] = completed[f][g + 1]
  BY <1>1, HeadLost
<1>3. SnapOK(f)'
  BY <1>1, <1>2 DEF SnapOK
<1>4. ASSUME NEW g \in Gens
      PROVE  Match(f, g, g + 1)'
  <2>1. Match(f, g, g + 1)
    BY DEF Settled
  <2>2. PICK i : i = g + 1
    OBVIOUS
  <2>3. Match(f, g, i)'
    BY <1>1, <1>2, <2>1, <2>2, MatchMoves
  <2> QED
    BY <2>2, <2>3
<1> QED
  BY <1>3, <1>4 DEF Settled

\* The backups of f are known no more.
LEMMA SettledSpoiled ==
    ASSUME NEW f, completed'[f] = <<>>
    PROVE  Settled(f)'
BY DEF Settled, SnapOK, Match

LEMMA BackupsStep ==
    ASSUME TypeOK, CallOK, BackupsOK, [Next]_vars, TypeOK'
    PROVE  BackupsOK'
<1>1. /\ mode \in Formats /\ Other(mode) \in Formats /\ Other(mode) # mode
      /\ DOMAIN snap = Formats /\ DOMAIN bak = Formats /\ DOMAIN completed = Formats
      /\ BackupCount \in Nat /\ Gens = 1..BackupCount
      /\ \A f \in Formats : DOMAIN bak[f] = Gens
  <2>1. BackupCount \in Nat /\ Gens = 1..BackupCount
    BY FormatsAssumption DEF Gens
  <2>2. mode \in Formats /\ Other(mode) \in Formats /\ Other(mode) # mode
    BY OtherFormat DEF TypeOK
  <2>3. DOMAIN snap = Formats /\ DOMAIN bak = Formats /\ DOMAIN completed = Formats
    BY DEF TypeOK
  <2>4. \A f \in Formats : bak[f] \in [Gens -> Backups \cup {NoFile}]
    BY DEF TypeOK
  <2> QED
    BY <2>1, <2>2, <2>3, <2>4
<1>2. options' = options /\ \A f : Plain(f)' <=> Plain(f)
  <2>1. options' = options
    <3>1. CASE UNCHANGED vars
      BY <3>1 DEF vars, memory
    <3>2. CASE Next
      BY <3>2 DEF Next, Open, Write, WriteManifest, Compact, Close, Migrate, Rotate, WriteSnapshot,
         SnapshotFails, EncryptBackup, EncryptFails, Fails, ResetWal, RemoveManifest,
         RemoveOldSnapshot, RemoveOldLog, Crash, Damage, memory
    <3> QED
      BY <3>1, <3>2
  <2> QED
    BY <2>1 DEF Plain
<1>3. \A f \in Formats : Plain(f) /\ (f # mode \/ ~Unfinished) => Settled(f)
  BY DEF BackupsOK
\* Steps that neither begin nor end in the middle of a rotation.
<1>4. ASSUME ~Unfinished', \A f \in Formats : Plain(f) => Settled(f)'
      PROVE  BackupsOK'
  BY <1>2, <1>4 DEF BackupsOK, Unfinished
<1>5. ASSUME ~Unfinished, ~Unfinished', UNCHANGED <<bak, completed, snap>>
      PROVE  BackupsOK'
  BY <1>2, <1>3, <1>4, <1>5, SettledSame
<1>6. ASSUME NEW c, Steps(c), ~Unfinished, UNCHANGED <<bak, completed, snap>>
      PROVE  BackupsOK'
  <2>1. \A f \in Formats : Plain(f) => Settled(f)'
    BY <1>2, <1>3, <1>6, SettledSame
  <2>2. CASE BackupCount = 0
    <3>1. pc' = "write" /\ Gens = {}
      BY <1>1, <1>6, <2>2 DEF Steps
    <3> QED
      BY <1>2, <2>1, <3>1 DEF BackupsOK, Unfinished
  <2>3. CASE BackupCount # 0
    <3>1. pc' = "rotate" /\ gen' = BackupCount /\ \A g \in Gens : ~(g > BackupCount)
      BY <1>1, <1>6, <2>3 DEF Steps
    <3>2. ASSUME NEW f \in Formats, Plain(f)
          PROVE  SnapOK(f)' /\ \A g \in Gens : Match(f, g, g + 1)'
      BY <2>1, <3>2 DEF Settled
    <3> QED
      BY <1>2, <2>1, <3>1, <3>2 DEF BackupsOK, Unfinished
  <2> QED
    BY <2>2, <2>3
\* An error or a crash in the middle of one.
<1>7. ASSUME completed' = Spoiled(mode), ~Unfinished', snap' = snap,
             \A f \in Formats \ {mode} : bak'[f] = bak[f]
      PROVE  BackupsOK'
  <2>1. ASSUME NEW f \in Formats, Plain(f)
        PROVE  Settled(f)'
    <3>1. CASE f = mode
      <4>1. completed'[f] = <<>>
        BY <1>1, <1>7, <3>1 DEF Spoiled
      <4> QED
        BY <4>1, SettledSpoiled
    <3>2. CASE f # mode
      <4>1. completed'[f] = completed[f] /\ bak'[f] = bak[f] /\ snap'[f] = snap[f]
        BY <1>1, <1>7, <3>2 DEF Spoiled
      <4> QED
        BY <1>2, <1>3, <2>1, <3>2, <4>1, SettledSame
    <3> QED
      BY <3>1, <3>2
  <2> QED
    BY <1>4, <1>7, <2>1
\* The snapshot of h is lost.
<1>8. ASSUME NEW h \in Formats, ~Unfinished, ~Unfinished', bak' = bak,
             \A f \in Formats \ {h} : snap'[f] = snap[f],
             completed' = [completed EXCEPT ![h] =
                             IF Len(@) < 2 THEN <<>> ELSE [@ EXCEPT ![1] = Bad]]
      PROVE  BackupsOK'
  <2>1. ASSUME NEW f \in Formats, Plain(f)
        PROVE  Settled(f)'
    <3>1. CASE f = h
      <4>1. completed'[f] = IF Len(completed[f]) < 2 THEN <<>> ELSE [completed[f] EXCEPT ![1] = Bad]
        BY <1>1, <1>8, <3>1
      <4> QED
        BY <1>2, <1>3, <1>8, <2>1, <4>1, SettledLost
    <3>2. CASE f # h
      <4>1. completed'[f] = completed[f] /\ snap'[f] = snap[f]
        BY <1>1, <1>8, <3>2
      <4> QED
        BY <1>2, <1>3, <1>8, <2>1, <4>1, SettledSame
    <3> QED
      BY <3>1, <3>2
  <2> QED
    BY <1>4, <1>8, <2>1
<1>9. CASE UNCHANGED vars
  <2>1. UNCHANGED <<options, mode, snap, bak, pc, gen, completed>>
    BY <1>9 DEF vars, memory, files, control, history
  <2> QED
    BY <2>1 DEF BackupsOK, Settled, SnapOK, Match, Fresh, Opens, Plain, Unfinished
<1>10. ASSUME NEW o \in FormatOpts, Open(o)
       PROVE  BackupsOK'
  BY <1>5, <1>10 DEF Open, Unfinished
<1>11. ASSUME NEW p \in Patches, Write(p)
       PROVE  BackupsOK'
  BY <1>5, <1>11 DEF Write, control, Unfinished
<1>12. CASE WriteManifest
  BY <1>5, <1>12 DEF WriteManifest, memory, control, history, Unfinished
<1>13. CASE Compact
  BY <1>6, <1>13 DEF Compact, files, Unfinished
<1>14. CASE Close
  <2>1. CASE Steps("close")
    BY <1>6, <1>14, <2>1 DEF Close, files, Unfinished
  <2>2. CASE Stops
    BY <1>5, <1>14, <2>2 DEF Close, Stops, files, Unfinished
  <2> QED
    BY <1>14, <2>1, <2>2 DEF Close
<1>15. CASE Migrate
  BY <1>6, <1>15 DEF Migrate, files, Unfinished
<1>16. CASE Rotate
  <2>1. /\ mode' = mode /\ completed' = completed /\ pc = "rotate" /\ gen \in Gens
        /\ gen' = gen - 1 /\ pc' = IF gen = 1 THEN "write" ELSE "rotate"
    BY <1>16 DEF Rotate, memory, CallOK
  <2>2. \A f \in Formats \ {mode} : snap'[f] = snap[f] /\ bak'[f] = bak[f]
    BY <1>1, <1>16 DEF Rotate
  <2>3. \A f \in Formats \ {mode} : Plain(f) => Settled(f)'
    BY <1>2, <1>3, <2>1, <2>2, SettledSame
  <2>4. PICK f \in Formats : f = mode
    BY <1>1
  <2>5. SUFFICES ASSUME Plain(f)
                 PROVE  /\ gen # 1 => SnapOK(f)' /\ \A g \in Gens :
                             (g < gen - 1 => Match(f, g, g + 1)') /\ (g > gen - 1 => Match(f, g, g)')
                        /\ gen = 1 => \A g \in Gens : IF g = 1 THEN Fresh(f, 1)' ELSE Match(f, g, g)'
    BY <1>2, <2>1, <2>3, <2>4 DEF BackupsOK, Unfinished
  <2>6. /\ SnapOK(f)
        /\ \A g \in Gens : (g < gen => Match(f, g, g + 1)) /\ (g > gen => Match(f, g, g))
    BY <2>1, <2>4, <2>5 DEF BackupsOK
  <2>7. \A g \in Gens : g > gen \/ g < gen - 1 => bak'[f][g] = bak[f][g]
    BY <1>1, <1>16, <2>1, <2>4 DEF Rotate
  <2>8. ASSUME NEW g \in Gens, g > gen
        PROVE  Match(f, g, g)'
    BY <1>2, <2>1, <2>6, <2>7, <2>8, MatchMoves
  <2>9. CASE gen # 1
    <3>1. snap'[f] = snap[f]
      BY <1>1, <1>16, <2>4, <2>9 DEF Rotate
    <3>2. SnapOK(f)'
      BY <2>1, <2>6, <3>1 DEF SnapOK
    <3>3. ASSUME NEW g \in Gens, g < gen - 1
          PROVE  Match(f, g, g + 1)'
      <4>1. bak'[f][g] = bak[f][g] /\ Match(f, g, g + 1)
        BY <1>1, <2>1, <2>6, <2>7, <3>3
      <4>2. PICK i : i = g + 1
        OBVIOUS
      <4>3. Match(f, g, i)'
        BY <1>2, <2>1, <4>1, <4>2, MatchMoves
      <4> QED
        BY <4>2, <4>3
    <3>4. PICK g \in Gens, j \in Nat : g = gen /\ j = gen - 1
      BY <1>1, <2>1
    <3>5. j \in Gens /\ Match(f, j, g)
      BY <1>1, <2>1, <2>6, <2>9, <3>4
    <3>6. Match(f, g, g)'
      <4>1. CASE bak[f][j] = NoFile
        <5>1. ~(g \in DOMAIN completed[f] /\ completed[f][g] # Bad)
          BY <3>5, <4>1 DEF Match, Opens
        <5> QED
          BY <2>1, <5>1 DEF Match
      <4>2. CASE bak[f][j] # NoFile
        <5>1. bak'[f][g] = bak[f][j]
          BY <1>1, <1>16, <2>1, <2>4, <2>9, <3>4, <3>5, <4>2 DEF Rotate
        <5> QED
          BY <1>2, <2>1, <3>5, <5>1, MatchMoves
      <4> QED
        BY <4>1, <4>2
    <3>7. ASSUME NEW h \in Gens, h > gen - 1
          PROVE  Match(f, h, h)'
      <4>1. h > gen \/ h = g
        BY <1>1, <2>1, <3>4, <3>7
      <4> QED
        BY <2>8, <3>6, <4>1
    <3> QED
      BY <2>9, <3>2, <3>3, <3>7
  <2>10. CASE gen = 1
    <3>1. Fresh(f, 1)'
      <4>1. SUFFICES ASSUME 1 \in DOMAIN completed[f], completed[f][1] # Bad
                     PROVE  bak'[f][1] = [map |-> completed[f][1], enc |-> 0]
        BY <2>1 DEF Fresh
      <4>2. completed[f] \in Seq(Stores \cup {Bad})
        BY DEF TypeOK
      <4>3. completed[f][1] \in Stores /\ completed[f] # <<>>
        BY <4>1, <4>2
      <4>4. snap[f] = completed[f][1] /\ snap[f] # NoFile
        BY <2>6, <4>1, <4>3, FormatsAssumption DEF SnapOK
      <4> QED
        BY <1>1, <1>16, <2>1, <2>4, <2>10, <4>4 DEF Rotate
    <3>2. \A g \in Gens : g # 1 => g > gen
      BY <1>1, <2>10
    <3> QED
      BY <2>8, <2>10, <3>1, <3>2
  <2> QED
    BY <2>9, <2>10
<1>17. CASE WriteSnapshot
  <2>1. /\ mode' = mode /\ bak' = bak /\ pc = "write" /\ gen' = gen
        /\ pc' = IF options.encrypt THEN "encrypt" ELSE "reset"
    BY <1>17 DEF WriteSnapshot, memory
  <2>2. PICK f \in Formats : f = mode
    BY <1>1
  <2>3. \A h \in Formats \ {f} :
           snap'[h] = snap[h] /\ bak'[h] = bak[h] /\ completed'[h] = completed[h]
    BY <1>1, <1>17, <2>2 DEF WriteSnapshot
  <2>4. \A h \in Formats \ {f} : Plain(h) => Settled(h)'
    BY <1>2, <1>3, <2>2, <2>3, SettledSame
  <2>5. completed'[f] = Pushed(f) /\ snap'[f] = store
    BY <1>1, <1>17, <2>2 DEF WriteSnapshot
  <2>6. SnapOK(f)'
    BY <2>5, PushedIs DEF SnapOK
  <2>7. ASSUME NEW g \in Gens, g + 1 \in DOMAIN completed'[f]
        PROVE  g \in DOMAIN completed[f] /\ completed[f][g] = completed'[f][g + 1]
    BY <2>5, <2>7, PushedIs
  <2>8. SUFFICES ASSUME Plain(f)
                 PROVE  \A g \in Gens :
                           /\ g # 1 => Match(f, g, g + 1)'
                           /\ g = 1 => IF options.encrypt THEN Fresh(f, 2)' ELSE Match(f, g, g + 1)'
    <3>1. CASE options.encrypt
      <4>1. pc' = "encrypt"
        BY <2>1, <3>1
      <4> QED
        BY <1>2, <2>1, <2>2, <2>4, <2>6, <2>8, <3>1, <4>1 DEF BackupsOK, Unfinished
    <3>2. CASE ~options.encrypt
      <4>1. ~Unfinished'
        BY <2>1, <3>2 DEF Unfinished
      <4>2. Plain(f) => Settled(f)'
        BY <2>6, <2>8, <3>2 DEF Settled
      <4> QED
        BY <1>4, <2>4, <4>1, <4>2
    <3> QED
      BY <3>1, <3>2
  <2>9. \A g \in Gens : IF g = 1 THEN Fresh(f, 1) ELSE Match(f, g, g)
    BY <2>1, <2>2, <2>8 DEF BackupsOK
  <2>10. ASSUME NEW g \in Gens, g # 1
         PROVE  Match(f, g, g + 1)'
    <3>1. PICK i : i = g + 1
      OBVIOUS
    <3>2. i \in DOMAIN completed'[f] /\ completed'[f][i] # Bad
             => g \in DOMAIN completed[f] /\ completed[f][g] = completed'[f][i]
      BY <2>7, <3>1
    <3>3. Match(f, g, g)
      BY <2>9, <2>10
    <3>4. Match(f, g, i)'
      BY <1>2, <2>1, <3>2, <3>3, MatchMoves
    <3> QED
      BY <3>1, <3>4
  <2>11. ASSUME 1 \in Gens
         PROVE  IF options.encrypt THEN Fresh(f, 2)' ELSE Match(f, 1, 1 + 1)'
    <3>1. 2 \in DOMAIN completed'[f]
             => 1 \in DOMAIN completed[f] /\ completed[f][1] = completed'[f][2]
      BY <2>7, <2>11
    <3>2. Fresh(f, 1)
      BY <2>9, <2>11
    <3>3. Fresh(f, 2)'
      BY <2>1, <3>1, <3>2 DEF Fresh
    <3>4. ASSUME ~options.encrypt, 2 \in DOMAIN completed'[f], completed'[f][2] # Bad
          PROVE  Opens(f, bak'[f][1]) /\ bak'[f][1].map = completed'[f][2]
      <4>1. PICK s : s = completed'[f][2]
        OBVIOUS
      <4>2. s \in Stores
        <5>1. completed'[f] \in Seq(Stores \cup {Bad})
          BY DEF TypeOK
        <5> QED
          BY <3>4, <4>1, <5>1
      <4>3. bak[f][1] = [map |-> s, enc |-> 0]
        BY <3>1, <3>2, <3>4, <4>1 DEF Fresh
      <4>4. \A b : b = [map |-> s, enc |-> 0] => Opens(f, b) /\ b.map = s
        BY <2>8, <3>4, <4>2, FreshOpens
      <4> QED
        BY <2>1, <4>1, <4>3, <4>4
    <3>5. ~options.encrypt => Match(f, 1, 2)'
      BY <1>2, <3>4, MatchOpens
    <3> QED
      BY <3>3, <3>5
  <2> QED
    BY <2>10, <2>11
<1>18. CASE SnapshotFails
  <2>1. completed' = Spoiled(mode) /\ pc' = "idle" /\ snap' = snap /\ bak' = bak
    BY <1>18 DEF SnapshotFails, Fails
  <2> QED
    BY <1>7, <2>1 DEF Unfinished
<1>19. CASE EncryptBackup
  <2>1. /\ pc = "encrypt" /\ pc' = "reset" /\ completed' = completed /\ snap' = snap
        /\ options.encrypt
    BY <1>19 DEF EncryptBackup, history, CallOK
  <2>2. PICK f \in Formats : f = mode
    BY <1>1
  <2>3. \A h \in Formats \ {f} : bak'[h] = bak[h]
    BY <1>1, <1>19, <2>2 DEF EncryptBackup
  <2>4. \A h \in Formats \ {f} : Plain(h) => Settled(h)'
    BY <1>2, <1>3, <2>1, <2>2, <2>3, SettledSame
  <2>5. SUFFICES ASSUME Plain(f)
                 PROVE  Settled(f)'
    <3>1. ~Unfinished'
      BY <2>1 DEF Unfinished
    <3> QED
      BY <1>4, <2>4, <2>5, <3>1
  <2>6. SnapOK(f) /\ \A g \in Gens : IF g = 1 THEN Fresh(f, 2) ELSE Match(f, g, g + 1)
    BY <2>1, <2>2, <2>5 DEF BackupsOK
  <2>7. SnapOK(f)'
    BY <2>1, <2>6 DEF SnapOK
  <2>8. ASSUME NEW g \in Gens, g # 1
        PROVE  Match(f, g, g + 1)'
    <3>1. bak'[f][g] = bak[f][g]
      BY <1>1, <1>19, <2>2, <2>8 DEF EncryptBackup
    <3>2. PICK i : i = g + 1
      OBVIOUS
    <3>3. Match(f, g, i)
      BY <2>6, <2>8, <3>2
    <3>4. Match(f, g, i)'
      BY <1>2, <2>1, <3>1, <3>3, MatchMoves
    <3> QED
      BY <3>2, <3>4
  <2>9. ASSUME 1 \in Gens, 2 \in DOMAIN completed'[f], completed'[f][2] # Bad
        PROVE  Opens(f, bak'[f][1]) /\ bak'[f][1].map = completed'[f][2]
    <3>1. PICK s : s = completed'[f][2]
      OBVIOUS
    <3>2. s \in Stores
      <4>1. completed'[f] \in Seq(Stores \cup {Bad})
        BY DEF TypeOK
      <4> QED
        BY <2>9, <3>1, <4>1
    <3>3. bak[f][1] = [map |-> s, enc |-> 0]
      BY <2>1, <2>6, <2>9, <3>1 DEF Fresh
    <3>4. [map |-> s, enc |-> 0] # NoFile /\ [map |-> s, enc |-> 0].enc = 0
      <4>1. [map |-> s, enc |-> 0] \in Backups
        BY <3>2 DEF Backups
      <4> QED
        BY <4>1, FormatsAssumption
    <3>5. HasBackup
      BY <1>1, <2>2, <2>9, <3>3, <3>4 DEF HasBackup, Newest
    <3>6. bak'[f][1] = [bak[f][1] EXCEPT !.enc = @ + 1]
      BY <1>1, <1>19, <2>2, <2>9, <3>5 DEF EncryptBackup
    <3>7. bak'[f][1] = [map |-> s, enc |-> 1]
      BY <3>3, <3>6
    <3>8. \A b : b = [map |-> s, enc |-> 1] => Opens(f, b) /\ b.map = s
      BY <2>1, <2>5, <3>2, FreshOpens
    <3> QED
      BY <3>1, <3>7, <3>8
  <2>10. 1 \in Gens => Match(f, 1, 2)'
    BY <1>2, <2>9, MatchOpens
  <2>11. \A g \in Gens : Match(f, g, g + 1)'
    BY <2>8, <2>10
  <2> QED
    BY <2>7, <2>11 DEF Settled
<1>20. CASE EncryptFails
  <2>1. /\ completed' = Spoiled(mode) /\ pc' = "idle" /\ snap' = snap
        /\ \A f \in Formats \ {mode} : bak'[f] = bak[f]
    BY <1>1, <1>20 DEF EncryptFails, Fails
  <2> QED
    BY <1>7, <2>1 DEF Unfinished
<1>21. CASE ResetWal
  <2>1. pc = "reset" /\ pc' \in {"down", "idle", "manifest"} /\ UNCHANGED <<bak, completed, snap>>
    BY <1>21 DEF ResetWal, Stops, history
  <2> QED
    BY <1>5, <2>1 DEF Unfinished
<1>22. CASE RemoveManifest
  BY <1>5, <1>22 DEF RemoveManifest, memory, history, Unfinished
<1>23. CASE RemoveOldSnapshot
  <2>1. PICK h \in Formats : h = Other(mode)
    BY <1>1
  <2>2. /\ \A f \in Formats \ {h} : snap'[f] = snap[f]
        /\ completed' = [completed EXCEPT ![h] =
                           IF Len(@) < 2 THEN <<>> ELSE [@ EXCEPT ![1] = Bad]]
        /\ bak' = bak /\ pc = "oldsnap" /\ pc' = "oldlog"
    BY <1>1, <1>23, <2>1 DEF RemoveOldSnapshot
  <2>3. ~Unfinished /\ ~Unfinished'
    BY <2>2 DEF Unfinished
  <2> QED
    BY <1>8, <2>2, <2>3
<1>24. CASE RemoveOldLog
  BY <1>5, <1>24 DEF RemoveOldLog, memory, Unfinished
<1>25. CASE Crash
  <2>1. pc' = "down" /\ snap' = snap /\ ~Unfinished'
    BY <1>25 DEF Crash, Stops, Unfinished
  <2>2. CASE Unfinished
    <3>1. completed' = Spoiled(mode) /\ \A f \in Formats \ {mode} : bak'[f] = bak[f]
      BY <1>1, <1>25, <2>2 DEF Crash
    <3> QED
      BY <1>7, <2>1, <3>1
  <2>3. CASE ~Unfinished
    <3>1. completed' = completed /\ bak' = bak
      BY <1>25, <2>3 DEF Crash, Unfinished
    <3> QED
      BY <1>5, <2>1, <2>3, <3>1
  <2> QED
    BY <2>2, <2>3
<1>26. CASE Damage
  <2>1. PICK h \in Formats : h = mode
    BY <1>1
  <2>2. /\ \A f \in Formats \ {h} : snap'[f] = snap[f]
        /\ completed' = [completed EXCEPT ![h] =
                           IF Len(@) < 2 THEN <<>> ELSE [@ EXCEPT ![1] = Bad]]
        /\ bak' = bak /\ pc = "down" /\ pc' = "down"
    BY <1>1, <1>26, <2>1 DEF Damage, control
  <2>3. ~Unfinished /\ ~Unfinished'
    BY <2>2 DEF Unfinished
  <2> QED
    BY <1>8, <2>2, <2>3
<1> QED
  BY <1>9, <1>10, <1>11, <1>12, <1>13, <1>14, <1>15, <1>16, <1>17, <1>18, <1>19, <1>20, <1>21,
     <1>22, <1>23, <1>24, <1>25, <1>26, NextCases, Zenon

-----------------------------------------------------------------------------
(* The theorems.                                                           *)

\* At every step of open, compact, close and migrate, and whatever dies or
\* fails, the files an open would choose hold what the calls amounted to and the
\* backups are past snapshots (open, compact_legacy, rotate_backups, migrate).
THEOREM FormatsInvariant == Spec => []FormatsInv
<1>1. Init => FormatsInv
  BY InitOK
<1>2. FormatsInv /\ [Next]_vars => FormatsInv'
  <2>1. SUFFICES ASSUME FormatsInv, [Next]_vars
                 PROVE  FormatsInv'
    OBVIOUS
  <2>2. TypeOK /\ CallOK /\ FilesOK /\ KeptOK /\ BackupsOK
    BY <2>1 DEF FormatsInv
  <2>3. TypeOK'
    BY <2>1, <2>2, TypeStep
  <2>4. CallOK'
    BY <2>1, <2>2, CallStep
  <2>5. FilesOK'
    BY <2>1, <2>2, FilesStep
  <2>6. KeptOK'
    BY <2>1, <2>2, <2>3, <2>4, <2>5, KeptStep
  <2>7. BackupsOK'
    BY <2>1, <2>2, <2>3, BackupsStep
  <2> QED
    BY <2>3, <2>4, <2>5, <2>6, <2>7 DEF FormatsInv
<1> QED
  BY <1>1, <1>2, PTL DEF Spec

\* Every variable keeps its type.
THEOREM FormatsTypes == Spec => []TypeOK
<1>1. FormatsInv => TypeOK
  BY DEF FormatsInv
<1> QED
  BY <1>1, FormatsInvariant, PTL

\* A process that dies before or after any step of a compaction or a migration
\* leaves files in which the next open finds what the calls amounted to, outside
\* the windows the code leaves open (compact_legacy, migrate, load_state).
THEOREM AckedStaysKept == Spec => []AckedKept
<1>1. FormatsInv => AckedKept
  <2>1. SUFFICES ASSUME FormatsInv, windows = {}, ModeOf(opt) \notin rotated, ~Mixed(ModeOf(opt))
                 PROVE  Loaded(ModeOf(opt)) = acked
    BY DEF AckedKept
  <2>2. TypeOK /\ KeptOK
    BY <2>1 DEF FormatsInv
  <2>3. PICK f \in Formats : f = ModeOf(opt)
    BY <2>2, ModeType
  <2>4. \A k \in Keys : Loaded(f)[k] = acked[k]
    BY <2>1, <2>2, <2>3 DEF KeptOK
  <2>5. Loaded(f) \in Stores /\ acked \in Stores
    BY <2>2, LoadedType DEF TypeOK
  <2> QED
    BY <2>3, <2>4, <2>5 DEF Stores
<1> QED
  BY <1>1, FormatsInvariant, PTL

\* Automatic detection finds the format the engine works in, between any two
\* calls (open, migrate).
THEOREM DetectionFinds == Spec => []AutoFindsFormat
<1>1. FormatsInv => AutoFindsFormat
  <2>1. SUFFICES ASSUME FormatsInv, pc = "idle", opt = "auto", windows = {}
                 PROVE  Detect = mode
    BY DEF AutoFindsFormat
  <2>2. TypeOK /\ CallOK /\ FilesOK
    BY <2>1 DEF FormatsInv
  <2>3. ModeOf(opt) = Choice
    BY <2>1, <2>2, ChosenFormat DEF Up
  <2>4. call = "none"
    BY <2>1, <2>2 DEF CallOK
  <2> QED
    BY <2>1, <2>3, <2>4 DEF ModeOf, Choice, Migrating
<1> QED
  BY <1>1, FormatsInvariant, PTL

\* The backups are the snapshots of the past, newest first and readable under
\* the options, from one rotation to the next (rotate_backups, encrypt_backup).
THEOREM BackupsStayInOrder == Spec => []BackupsInOrder
<1>1. FormatsInv => BackupsInOrder
  <2>1. SUFFICES ASSUME FormatsInv, NEW f \in Formats, ~(Unfinished /\ f = mode), Plain(f)
                 PROVE  \A g \in Gens : Match(f, g, g + 1)
    BY DEF BackupsInOrder, Plain, Match
  <2>2. BackupsOK
    BY <2>1 DEF FormatsInv
  <2> QED
    BY <2>1, <2>2 DEF BackupsOK, Settled
<1> QED
  BY <1>1, FormatsInvariant, PTL

\* An open that finds the snapshot rotten loses only what lay between the last
\* two snapshots (load_state, restore_from_backup).
THEOREM RestoreSafety == Spec => RestoreKeepsLog
<1>1. ASSUME FormatsInv, NEW o \in FormatOpts
      PROVE  RestoresAll(o)
  <2>1. TypeOK /\ KeptOK /\ BackupsOK /\ CallOK
    BY <1>1 DEF FormatsInv
  <2>2. PICK f \in Formats : f = ModeOf(o)
    BY ModeType
  <2>3. SUFFICES ASSUME Open(o), f = ModeOf(opt), snap[f] = Bad, windows = {"damaged"},
                        ~Mixed(f), Len(completed[f]) > 1, completed[f][2] # Bad, Plain(f),
                        NEW k \in Keys
                 PROVE  store'[k] =
                          IF k \in UNION {Touched(FramesOf(f)[i].patch) : i \in DOMAIN FramesOf(f)}
                          THEN acked[k] ELSE completed[f][2][k]
    BY <2>2 DEF RestoresAll, Plain
  <2>4. store' = Loaded(f) /\ pc = "down"
    BY <2>2, <2>3 DEF Open
  <2>5. k \in UNION {Touched(FramesOf(f)[i].patch) : i \in DOMAIN FramesOf(f)} <=> Logged(f, k)
    BY DEF Logged, Touched
  <2>6. CASE Logged(f, k)
    BY <2>1, <2>3, <2>4, <2>5, <2>6 DEF KeptOK
  <2>7. CASE ~Logged(f, k)
    <3>1. PICK w \in Seq(Frames) : w = FramesIn(log[f])
      BY <2>1, LogType
    <3>2. Loaded(f) = Content(Base(f), w, f) /\ Pure(w, f) /\ ~Hit(PatchSeq(w), k)
      BY <2>3, <2>7, <3>1, StateNames
    <3>3. \A b : Content(b, w, f)[k] = b[k]
      BY <3>2, ContentKey
    <3>4. Match(f, 1, 2)
      <4>1. 1 \in Gens /\ 2 = 1 + 1
        <5>1. Len(completed[f]) <= BackupCount + 1 /\ Len(completed[f]) \in Nat
          BY <2>1 DEF TypeOK
        <5> QED
          BY <2>3, <5>1, FormatsAssumption DEF Gens
      <4>2. Settled(f)
        BY <2>1, <2>3, <2>4 DEF BackupsOK, Unfinished
      <4> QED
        BY <4>1, <4>2 DEF Settled
    <3>5. 1 \in Gens /\ 2 \in DOMAIN completed[f]
      <4>1. completed[f] \in Seq(Stores \cup {Bad}) /\ Len(completed[f]) <= BackupCount + 1
        BY <2>1 DEF TypeOK
      <4> QED
        BY <2>3, <4>1, FormatsAssumption DEF Gens
    <3>6. Opens(f, bak[f][1]) /\ bak[f][1].map = completed[f][2]
      BY <2>3, <3>4, <3>5 DEF Match
    <3>7. Base(f) = completed[f][2]
      <4>1. snap[f] # NoFile
        BY <2>3, FormatsAssumption
      <4> QED
        BY <2>1, <2>3, <3>5, <3>6, <4>1, RestoredType DEF Base
    <3> QED
      BY <2>4, <2>5, <2>7, <3>2, <3>3, <3>7
  <2> QED
    BY <2>6, <2>7
<1>2. FormatsInv /\ [Next]_vars => [\A o \in FormatOpts : RestoresAll(o)]_vars
  BY <1>1
<1> QED
  BY <1>2, FormatsInvariant, PTL DEF Spec, RestoreKeepsLog
=============================================================================
