--------------------------- MODULE FileLock_proofs ---------------------------
(***************************************************************************)
(* For every set of processes, native and fallback mixed, and wherever     *)
(* they may end or their system calls fail: what the lock file guarantees  *)
(* as long as no holder has been deposed, and that it is not left where    *)
(* nobody would remove it, but by one whose system calls failed.           *)
(***************************************************************************)
EXTENDS FileLock, TLAPS

\* A process between creation and release is the creator of the file.
CreatorHolds ==
    ~deposed => \A p \in Procs : pc[p] \in {"write", "own"} =>
        /\ lockFile # NoLock
        /\ lockFile.by = p
        /\ pc[p] = "own" => lockFile.named

\* The owner's own file names it, whoever else there is.
OwnFileNamed ==
    lockFile # NoLock /\ lockFile.by \in Procs /\ pc[lockFile.by] = "own" =>
        lockFile.named

\* The pid written into a file of the right form gives one.
LEMMA NamedFile ==
    ASSUME TypeOK, NEW p \in Procs
    PROVE  /\ Named(p) \in LockFiles \cup {NoLock}
           /\ ~Created(p) => Named(p) = lockFile
           /\ Created(p) => Named(p) # NoLock /\ Named(p).by = p /\ Named(p).named
<1>1. CASE Created(p)
  <2>1. lockFile # NoLock /\ lockFile.by = p /\ lockFile \in LockFiles
    BY <1>1 DEF Created, TypeOK
  <2>2. Named(p) = [lockFile EXCEPT !.named = TRUE]
    BY <1>1 DEF Named
  <2>3. Named(p) \in LockFiles /\ Named(p).by = p /\ Named(p).named
    BY <2>1, <2>2 DEF LockFiles
  <2>4. Named(p) # NoLock
    BY <2>3, LockAssumption DEF LockFiles, Pids
  <2> QED
    BY <1>1, <2>3, <2>4
<1>2. CASE ~Created(p)
  BY <1>2 DEF Named, TypeOK
<1> QED
  BY <1>1, <1>2

LEMMA FileTypes ==
    \A q \in Pids, n \in BOOLEAN :
        [by |-> q, named |-> n] \in LockFiles /\ [by |-> q, named |-> n] # NoLock
BY LockAssumption DEF LockFiles, Pids

LEMMA TypeInit == Init => TypeOK
<1> SUFFICES ASSUME Init
             PROVE  TypeOK
  OBVIOUS
<1>1. Stranger \in Pids /\ 0 \in 0..Polls
  BY LockAssumption DEF Pids
<1>2. lockFile \in LockFiles \cup {NoLock}
  BY <1>1, FileTypes DEF Init
<1> QED
  BY <1>1, <1>2 DEF Init, TypeOK, PCs

LEMMA TypeStep == TypeOK /\ [Next]_vars => TypeOK'
<1> SUFFICES ASSUME TypeOK, [Next]_vars
             PROVE  TypeOK'
  OBVIOUS
<1> USE LockAssumption DEF TypeOK, PCs, Pids, LockFiles, Goto
<1>1. ASSUME NEW p \in Procs, Open(p) \/ Probe(p) \/ TimeOut(p) \/ Poll(p)
      PROVE  TypeOK'
  BY <1>1 DEF Open, Probe, TimeOut, Poll
<1>2. ASSUME NEW p \in Procs, Create(p)
      PROVE  TypeOK'
  <2>0. [by |-> p, named |-> FALSE] \in LockFiles
    BY FileTypes
  <2>1. lockFile' \in LockFiles \cup {NoLock}
    <3>1. CASE lockFile = NoLock
      BY <1>2, <2>0, <3>1 DEF Create
    <3>2. CASE lockFile # NoLock
      BY <1>2, <3>2 DEF Create
    <3> QED
      BY <3>1, <3>2
  <2> QED
    BY <1>2, <2>1 DEF Create
<1>3. ASSUME NEW p \in Procs, WritePid(p) \/ PidFails(p)
      PROVE  TypeOK'
  <2>1. lockFile' \in LockFiles \cup {NoLock}
    BY <1>3, NamedFile DEF WritePid, PidFails
  <2> QED
    BY <1>3, <2>1 DEF WritePid, PidFails
<1>4. ASSUME NEW p \in Procs, Look(p)
      PROVE  TypeOK'
  BY <1>4 DEF Look
<1>5. ASSUME NEW p \in Procs, RemoveStale(p)
      PROVE  TypeOK'
  BY <1>5 DEF RemoveStale
<1>6. ASSUME NEW p \in Procs, Release(p)
      PROVE  TypeOK'
  BY <1>6 DEF Release
<1>7. ASSUME NEW p \in Procs, RemoveFails(p) \/ ReleaseFails(p) \/ Die(p)
      PROVE  TypeOK'
  BY <1>7 DEF RemoveFails, ReleaseFails, Die
<1>8. CASE UNCHANGED vars
  BY <1>8 DEF vars
<1> QED
  BY <1>1, <1>2, <1>3, <1>4, <1>5, <1>6, <1>7, <1>8 DEF Next, AcquireStep

LEMMA CreatorStep == TypeOK /\ CreatorHolds /\ [Next]_vars => CreatorHolds'
<1> SUFFICES ASSUME TypeOK, CreatorHolds, [Next]_vars
             PROVE  CreatorHolds'
  OBVIOUS
<1> USE LockAssumption DEF TypeOK, CreatorHolds, Goto
\* Steps that leave the file alone and make nobody a holder.
<1>1. ASSUME NEW p \in Procs,
             \/ Open(p) \/ Look(p) \/ Probe(p) \/ TimeOut(p) \/ Poll(p) \/ Die(p)
             \/ RemoveFails(p) \/ ReleaseFails(p)
      PROVE  CreatorHolds'
  BY <1>1 DEF Open, Look, Probe, TimeOut, Poll, Die, RemoveFails, ReleaseFails
<1>2. ASSUME NEW p \in Procs, Create(p)
      PROVE  CreatorHolds'
  <2>1. CASE lockFile = NoLock
    <3>1. lockFile' = [by |-> p, named |-> FALSE] /\ lockFile' # NoLock
          /\ pc' = [pc EXCEPT ![p] = "write"] /\ deposed' = deposed
      BY <1>2, <2>1, FileTypes DEF Create, Pids
    <3>2. ~deposed => \A q \in Procs : pc[q] \notin {"write", "own"}
      BY <2>1
    <3> QED
      BY <3>1, <3>2
  <2>2. CASE lockFile # NoLock
    BY <1>2, <2>2 DEF Create
  <2> QED
    BY <2>1, <2>2
\* What it writes is its own file: nobody has removed it.
<1>3. ASSUME NEW p \in Procs, WritePid(p)
      PROVE  CreatorHolds'
  <2> SUFFICES ASSUME ~deposed
               PROVE  CreatorHolds'
    BY <1>3 DEF WritePid
  <2>1. Created(p) /\ lockFile' = Named(p) /\ pc' = [pc EXCEPT ![p] = "own"]
    BY <1>3 DEF WritePid, Created
  <2>2. lockFile' # NoLock /\ lockFile'.by = p /\ lockFile'.named
    BY <2>1, NamedFile
  <2>3. \A q \in Procs : pc'[q] \in {"write", "own"} => q = p
    BY <2>1 DEF Created
  <2> QED
    BY <2>2, <2>3
\* To remove the file of a holder deposes.
<1>4. ASSUME NEW p \in Procs, RemoveStale(p)
      PROVE  CreatorHolds'
  <2> SUFFICES ASSUME ~deposed', NEW q \in Procs, pc'[q] \in {"write", "own"}
               PROVE  FALSE
    BY DEF CreatorHolds
  <2>1. pc[q] \in {"write", "own"} /\ ~deposed
    BY <1>4 DEF RemoveStale
  <2>2. lockFile # NoLock /\ lockFile.by = q /\ Holds(q)
    BY <2>1 DEF Holds
  <2> QED
    BY <1>4, <2>2 DEF RemoveStale
\* The one that releases is the only holder.
<1>5. ASSUME NEW p \in Procs, Release(p)
      PROVE  CreatorHolds'
  BY <1>5 DEF Release
\* One that fails to write is a holder no more, and there is no other.
<1>6. ASSUME NEW p \in Procs, PidFails(p)
      PROVE  CreatorHolds'
  <2> SUFFICES ASSUME ~deposed, NEW q \in Procs, pc'[q] \in {"write", "own"}
               PROVE  FALSE
    BY <1>6 DEF PidFails
  <2>1. q # p /\ pc[q] \in {"write", "own"} /\ pc[p] = "write"
    BY <1>6 DEF PidFails
  <2> QED
    BY <2>1
<1>7. CASE UNCHANGED vars
  BY <1>7 DEF vars
<1> QED
  BY <1>1, <1>2, <1>3, <1>4, <1>5, <1>6, <1>7 DEF Next, AcquireStep

LEMMA CreatorInit == Init => CreatorHolds
BY DEF Init, CreatorHolds

\* As long as no holder's file has been removed by another process, at most one
\* process has the database open, wherever processes end and system calls fail
\* (lock.rs and lock.js, acquire and release).
THEOREM SoleOwnerSafety == Spec => []SoleOwner
<1>1. CreatorHolds => SoleOwner
  BY DEF CreatorHolds, SoleOwner, MutualExclusion, Owners
<1> QED
  BY <1>1, TypeInit, TypeStep, CreatorInit, CreatorStep, PTL DEF Spec

\* And the file names that process.
THEOREM OwnerNamedSafety == Spec => []OwnerNamed
<1>1. TypeOK /\ CreatorHolds => OwnerNamed
  <2> SUFFICES ASSUME TypeOK, CreatorHolds, ~deposed, NEW p \in Procs, pc[p] = "own"
               PROVE  lockFile = [by |-> p, named |-> TRUE]
    BY DEF OwnerNamed, Owners
  <2>1. lockFile \in LockFiles /\ lockFile.by = p /\ lockFile.named
    BY DEF TypeOK, CreatorHolds
  <2>2. lockFile.named = TRUE
    BY <2>1 DEF LockFiles
  <2> QED
    BY <2>1, <2>2 DEF LockFiles
<1> QED
  BY <1>1, TypeInit, TypeStep, CreatorInit, CreatorStep, PTL DEF Spec

-----------------------------------------------------------------------------

LEMMA OrphanStep ==
    ASSUME TypeOK, OwnFileNamed, NoOrphan, [Next]_vars
    PROVE  OwnFileNamed' /\ NoOrphan'
<1> USE LockAssumption DEF TypeOK, OwnFileNamed, NoOrphan, Alive, Holds, Goto
<1>1. ASSUME NEW p \in Procs,
             Open(p) \/ Look(p) \/ Probe(p) \/ TimeOut(p) \/ Poll(p) \/ RemoveFails(p)
      PROVE  OwnFileNamed' /\ NoOrphan'
  BY <1>1 DEF Open, Look, Probe, TimeOut, Poll, RemoveFails
\* A file that is left by its creator at "write" or "own" counts as abandoned,
\* but for the one of an owner that ends, which names it.
<1>2. ASSUME NEW p \in Procs, Die(p) \/ ReleaseFails(p)
      PROVE  OwnFileNamed' /\ NoOrphan'
  <2>1. CASE Die(p)
    <3>1. /\ lockFile' = lockFile /\ pc' = [pc EXCEPT ![p] = "dead"]
          /\ abandoned' = (abandoned \/ (pc[p] = "write" /\ Created(p)))
      BY <2>1 DEF Die
    <3> QED
      BY <3>1 DEF Created
  <2>2. CASE ReleaseFails(p)
    <3>1. /\ lockFile' = lockFile /\ pc' = [pc EXCEPT ![p] = "out"] /\ pc[p] = "own"
          /\ abandoned' = (abandoned \/ Created(p))
      BY <2>2 DEF ReleaseFails
    <3> QED
      BY <3>1 DEF Created
  <2> QED
    BY <1>2, <2>1, <2>2
<1>3. ASSUME NEW p \in Procs, Create(p)
      PROVE  OwnFileNamed' /\ NoOrphan'
  <2>1. CASE lockFile = NoLock
    <3>1. lockFile' = [by |-> p, named |-> FALSE] /\ pc' = [pc EXCEPT ![p] = "write"]
      BY <1>3, <2>1 DEF Create
    <3> QED
      BY <3>1
  <2>2. CASE lockFile # NoLock
    BY <1>3, <2>2 DEF Create
  <2> QED
    BY <2>1, <2>2
<1>4. ASSUME NEW p \in Procs, WritePid(p)
      PROVE  OwnFileNamed' /\ NoOrphan'
  <2>1. lockFile' = Named(p) /\ pc' = [pc EXCEPT ![p] = "own"] /\ abandoned' = abandoned
    BY <1>4 DEF WritePid
  <2>2. CASE Created(p)
    <3>1. lockFile' # NoLock /\ lockFile'.by = p /\ lockFile'.named
      BY <2>1, <2>2, NamedFile
    <3> QED
      BY <2>1, <3>1
  <2>3. CASE ~Created(p)
    <3>1. lockFile' = lockFile
      BY <2>1, <2>3, NamedFile
    <3> QED
      BY <2>1, <2>3, <3>1 DEF Created
  <2> QED
    BY <2>2, <2>3
<1>5. ASSUME NEW p \in Procs, PidFails(p)
      PROVE  OwnFileNamed' /\ NoOrphan'
  <2>1. /\ lockFile' \in {lockFile, Named(p)} /\ pc' = [pc EXCEPT ![p] = "out"]
        /\ abandoned' = (abandoned \/ Created(p))
    BY <1>5 DEF PidFails
  <2>2. CASE Created(p)
    <3>1. lockFile'.by = p
      BY <2>1, <2>2, NamedFile DEF Created
    <3> QED
      BY <2>1, <2>2, <3>1
  <2>3. CASE ~Created(p)
    <3>1. lockFile' = lockFile
      BY <2>1, <2>3, NamedFile
    <3> QED
      BY <2>1, <2>3, <3>1 DEF Created
  <2> QED
    BY <2>2, <2>3
<1>6. ASSUME NEW p \in Procs, RemoveStale(p) \/ Release(p)
      PROVE  OwnFileNamed' /\ NoOrphan'
  BY <1>6 DEF RemoveStale, Release
<1>7. CASE UNCHANGED vars
  BY <1>7 DEF vars
<1> QED
  BY <1>1, <1>2, <1>3, <1>4, <1>5, <1>6, <1>7 DEF Next, AcquireStep

\* Wherever processes end and system calls fail, a lock file that nobody will
\* remove is one whose creator ended or failed while it wrote its pid, or
\* failed to remove it (lock.rs and lock.js, acquire and release).
THEOREM NoOrphanSafety == Spec => []NoOrphan
<1>1. Init => OwnFileNamed /\ NoOrphan
  BY LockAssumption DEF Init, OwnFileNamed, NoOrphan, Alive
<1>2. TypeOK /\ OwnFileNamed /\ NoOrphan /\ [Next]_vars => OwnFileNamed' /\ NoOrphan'
  BY OrphanStep
<1> QED
  BY <1>1, <1>2, TypeInit, TypeStep, PTL DEF Spec
=============================================================================
