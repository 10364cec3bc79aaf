------------------------------ MODULE FileLock ------------------------------
(***************************************************************************)
(* The lock file that gives one process the database: the native lock,     *)
(* crates/core/src/lock.rs, and the one of the fallback engine,            *)
(* fallback/src/storage/lock.js, which share the file <base>.lock.         *)
(*                                                                         *)
(* acquire creates the file exclusively and writes its pid into it.  When  *)
(* the file is there already it reads the pid, asks the system whether     *)
(* that process is alive, and removes the file if it is not.  Each of      *)
(* these is a system call of its own, between which any other process may  *)
(* run, or end, and which may fail.                                        *)
(***************************************************************************)
EXTENDS Naturals, FiniteSets

CONSTANTS
    Procs,      \* processes that open the database; a pid is not used twice
    Fallback,   \* those of them that run the fallback engine
    Protected,  \* those of them that others may not signal (another user's)
    Stranger,   \* the pid of a process that ended long ago
    NoLock,     \* the file does not exist
    Polls,      \* polls after which lockTimeout has certainly passed
    DieAt,      \* the pcs at which a process may end
    Fails       \* the pcs whose system call may fail

PCs == {"out", "create", "write", "look", "probe", "remove", "wait", "own", "dead"}

ASSUME LockAssumption ==
    /\ Fallback \subseteq Procs /\ Protected \subseteq Procs
    /\ Stranger \notin Procs
    /\ Polls \in Nat
    /\ DieAt \subseteq PCs \ {"dead"} /\ Fails \subseteq {"write", "remove", "own"}
    /\ NoLock \notin [by : Procs \cup {Stranger}, named : BOOLEAN]

VARIABLES
    pc,        \* where each process is in acquire
    seen,      \* at "probe", the pid it has read
    polls,     \* how often it has slept
    lockFile,  \* who has created the file, and whether the pid is in it
    \* history
    deposed,   \* the file of a process that held it was removed by another
    abandoned  \* the creator of the file could not write it or remove it

vars == <<pc, seen, polls, lockFile, deposed, abandoned>>

Pids == Procs \cup {Stranger}
LockFiles == [by : Pids, named : BOOLEAN]

TypeOK ==
    /\ pc \in [Procs -> PCs]
    /\ seen \in [Procs -> Pids]
    /\ polls \in [Procs -> 0..Polls]
    /\ lockFile \in LockFiles \cup {NoLock}
    /\ deposed \in BOOLEAN /\ abandoned \in BOOLEAN

Alive(q) == q \in Procs /\ pc[q] # "dead"
Created(p) == lockFile # NoLock /\ lockFile.by = p
Holds(p) == p \in Procs /\ pc[p] \in {"write", "own"}

-----------------------------------------------------------------------------

Goto(p, l) == pc' = [pc EXCEPT ![p] = l]

Open(p) ==
    /\ pc[p] = "out"
    /\ Goto(p, "create")
    /\ polls' = [polls EXCEPT ![p] = 0]
    /\ UNCHANGED <<seen, lockFile, deposed, abandoned>>

\* Mutant: create(true) in the place of create_new(true).
CreateAnyway(p) ==
    /\ pc[p] = "create"
    /\ lockFile' = [by |-> p, named |-> FALSE]
    /\ Goto(p, "write")
    /\ UNCHANGED <<seen, polls, deposed, abandoned>>

\* open with create_new, or with the flag wx.
Create(p) ==
    /\ pc[p] = "create"
    /\ IF lockFile = NoLock
       THEN /\ lockFile' = [by |-> p, named |-> FALSE]
            /\ Goto(p, "write")
       ELSE /\ Goto(p, "look")
            /\ UNCHANGED lockFile
    /\ UNCHANGED <<seen, polls, deposed, abandoned>>

\* Mutant: what is written does not reach the file.
WritePidLost(p) ==
    /\ pc[p] = "write"
    /\ Goto(p, "own")
    /\ UNCHANGED <<seen, polls, lockFile, deposed, abandoned>>

\* The file with the pid of the process that has created it; if that file is
\* gone by now, so is the pid.
Named(p) == IF Created(p) THEN [lockFile EXCEPT !.named = TRUE] ELSE lockFile

WritePid(p) ==
    /\ pc[p] = "write"
    /\ lockFile' = Named(p)
    /\ Goto(p, "own")
    /\ UNCHANGED <<seen, polls, deposed, abandoned>>

\* write_all or sync_all fails: an error, and the file stays, blank or not.
PidFails(p) ==
    /\ pc[p] = "write" /\ "write" \in Fails
    /\ lockFile' \in {lockFile, Named(p)}
    /\ abandoned' = (abandoned \/ Created(p))
    /\ Goto(p, "out")
    /\ UNCHANGED <<seen, polls, deposed>>

\* A file that has gone cannot be read.  One without a pid is left to its owner
\* by the native lock; the fallback calls process.kill(NaN, 0), which throws,
\* and takes that for a dead process.
Look(p) ==
    /\ pc[p] = "look"
    /\ \/ /\ lockFile = NoLock
          /\ Goto(p, "wait")
          /\ UNCHANGED seen
       \/ /\ lockFile # NoLock
          /\ ~lockFile.named
          /\ Goto(p, IF p \in Fallback THEN "remove" ELSE "wait")
          /\ UNCHANGED seen
       \/ /\ lockFile # NoLock
          /\ lockFile.named
          /\ Goto(p, "probe")
          /\ seen' = [seen EXCEPT ![p] = lockFile.by]
    /\ UNCHANGED <<polls, lockFile, deposed, abandoned>>

\* pid_alive, kill(pid, 0).  Not to be allowed to signal a process means for the
\* native lock that it is alive, for the fallback, as any error, that it is dead.
Probe(p) ==
    /\ pc[p] = "probe"
    /\ Goto(p, IF Alive(seen[p]) /\ ~(p \in Fallback /\ seen[p] \in Protected)
               THEN "wait" ELSE "remove")
    /\ seen' = [seen EXCEPT ![p] = Stranger]
    /\ UNCHANGED <<polls, lockFile, deposed, abandoned>>

\* Whatever file is there by now is removed.  If there is none the native lock
\* tries again at once; the fallback takes it for a file it cannot read.
RemoveStale(p) ==
    /\ pc[p] = "remove"
    /\ lockFile' = NoLock
    /\ deposed' = (deposed \/ (lockFile # NoLock /\ Holds(lockFile.by)))
    /\ abandoned' = FALSE
    /\ Goto(p, IF lockFile = NoLock /\ p \in Fallback THEN "wait" ELSE "create")
    /\ UNCHANGED <<seen, polls>>

\* The native lock ignores the error and tries again at once, without looking at
\* the clock; the fallback takes it for a file it cannot read.
RemoveFails(p) ==
    /\ pc[p] = "remove" /\ "remove" \in Fails
    /\ Goto(p, IF p \in Fallback THEN "wait" ELSE "create")
    /\ UNCHANGED <<seen, polls, lockFile, deposed, abandoned>>

\* The timeout is checked only here; it may have passed at any poll.
TimeOut(p) ==
    /\ pc[p] = "wait"
    /\ Goto(p, "out")
    /\ UNCHANGED <<seen, polls, lockFile, deposed, abandoned>>

\* Mutant: the elapsed time starts anew with each attempt.
PollForever(p) ==
    /\ pc[p] = "wait"
    /\ Goto(p, "create")
    /\ UNCHANGED <<seen, polls, lockFile, deposed, abandoned>>

Poll(p) ==
    /\ pc[p] = "wait"
    /\ polls[p] < Polls
    /\ polls' = [polls EXCEPT ![p] = polls[p] + 1]
    /\ Goto(p, "create")
    /\ UNCHANGED <<seen, lockFile, deposed, abandoned>>

\* Mutant: release closes the file and leaves it there.
ReleaseOnly(p) ==
    /\ pc[p] = "own"
    /\ Goto(p, "out")
    /\ UNCHANGED <<seen, polls, lockFile, deposed, abandoned>>

\* release removes the file, whoever has created it.
Release(p) ==
    /\ pc[p] = "own"
    /\ lockFile' = NoLock
    /\ abandoned' = FALSE
    /\ Goto(p, "out")
    /\ UNCHANGED <<seen, polls, deposed>>

\* The error is ignored.
ReleaseFails(p) ==
    /\ pc[p] = "own" /\ "own" \in Fails
    /\ abandoned' = (abandoned \/ Created(p))
    /\ Goto(p, "out")
    /\ UNCHANGED <<seen, polls, lockFile, deposed>>

\* The process ends, by itself or killed, without releasing what it holds.
Die(p) ==
    /\ pc[p] \in DieAt
    /\ abandoned' = (abandoned \/ (pc[p] = "write" /\ Created(p)))
    /\ Goto(p, "dead")
    /\ UNCHANGED <<seen, polls, lockFile, deposed>>

Acquiring == {"create", "write", "look", "probe", "remove", "wait"}

AcquireStep(p) ==
    \/ Create(p)
    \/ WritePid(p) \/ PidFails(p)
    \/ Look(p)
    \/ Probe(p)
    \/ RemoveStale(p) \/ RemoveFails(p)
    \/ TimeOut(p)
    \/ Poll(p)

Init ==
    /\ pc = [p \in Procs |-> "out"]
    /\ seen = [p \in Procs |-> Stranger]
    /\ polls = [p \in Procs |-> 0]
    /\ lockFile \in {NoLock, [by |-> Stranger, named |-> TRUE]}
    /\ deposed = FALSE /\ abandoned = FALSE

Next ==
    \E p \in Procs : Open(p) \/ AcquireStep(p) \/ Release(p) \/ ReleaseFails(p) \/ Die(p)

Spec == Init /\ [][Next]_vars

\* acquire never waits for anything but its own sleep.
FairSpec == Spec /\ \A p \in Procs : WF_vars(AcquireStep(p))

-----------------------------------------------------------------------------
(* Properties.                                                             *)

Owners == {p \in Procs : pc[p] = "own"}

\* One process at a time has the database open (the claim of the documentation).
MutualExclusion == \A p, q \in Owners : p = q

\* Two processes have it open only after a third, or one of them, has removed
\* the lock file of a process that held it: because it looked at the file
\* before that process had created it, at a blank one (the fallback), or could
\* not signal its owner (the fallback).
SoleOwner == ~deposed => MutualExclusion

\* While nobody has been deposed, the file on disk is the owner's and names it,
\* so that those who come later can tell whether it is stale.
OwnerNamed ==
    ~deposed => \A p \in Owners : lockFile = [by |-> p, named |-> TRUE]

\* No file is left behind that nobody will ever remove, unless its creator ended
\* or failed while it wrote its pid, or failed to remove it: its creator is
\* still between creation and release, or the file names a dead process.
NoOrphan ==
    lockFile # NoLock /\ ~abandoned =>
        Holds(lockFile.by) \/ (lockFile.named /\ ~Alive(lockFile.by))

\* The native acquire ends: it owns the lock, reports a timeout or another
\* error, or the process ends, although it tries again without looking at the
\* clock after each takeover.  The exception is a stale file that it fails to
\* remove over and over: then it never looks at the clock, and lockTimeout is
\* never reported.  (The fallback, which removes the new file of a live process
\* over and over if it always comes at the wrong moment, need not end either.)
AcquireEnds ==
    \A p \in Procs \ Fallback :
        \/ pc[p] \in Acquiring ~> pc[p] \notin Acquiring
        \/ []<><<RemoveFails(p)>>_vars
=============================================================================
