----------------------------- MODULE WalLogInv -----------------------------
(***************************************************************************)
(* The inductive invariant of WalLog, in a module of its own so that TLC   *)
(* checks what WalLog_proofs proves.                                       *)
(*                                                                         *)
(* The argument: since a flush last succeeded, whatever was written twice  *)
(* or in part, each key of the log has the value it had after some prefix  *)
(* of wal_buf, and no prefix is longer than the farthest failed flush has  *)
(* got.  A flush that gets as far as that puts every key where its prefix  *)
(* ends, since a key it does not touch was touched by none before it.      *)
(***************************************************************************)
EXTENDS WalLog

\* The map s with the frames of w laid over it, but for those cut short.
Arrived(w) == {i \in DOMAIN w : w[i].end # "cut"}
Laid(s, w) == Overlay(s, [i \in DOMAIN w |-> w[i].patch], Arrived(w))

Reaches(w, k) == \E i \in Arrived(w) : w[i].patch[k] # Keep

\* The map g with the first n frames of the buffer.
Part(g, n) == Laid(g, SubSeq(walBuf, 1, n))

\* The log ends in a line without its newline, one more than sent counts.
EndsInLine == log # <<>> /\ log[Len(log)].end = "eol"

PhaseOK ==
    /\ \A i \in DOMAIN walBuf : walBuf[i].end = "whole"
    /\ sent <= Len(walBuf)
    /\ pc \in {"down", "reset"} => walBuf = <<>>
    /\ pc = "reset" => snap = store
    /\ pc # "down" /\ walOps = 0 => walBuf = <<>> /\ Read = {} /\ snap = store

\* Where the store and the frames given to the log disagree, a batch has failed
\* and a frame since the last reset says so.
StoreOK ==
    pc # "down" =>
        /\ store = logical \/ batchFailed
        /\ \A k \in Keys : store[k] # logical[k] => Reaches(log, k) \/ Reaches(walBuf, k)

\* g is the map the log stood for when a flush last succeeded.
LineFrom(g) ==
    /\ logical = Laid(g, walBuf)
    /\ \A n \in 0..Len(walBuf) : Part(g, n) \in promised
    /\ ~Shadowed =>
          \A k \in Keys : \E n \in 0..Len(walBuf) :
              Recovered[k] = Part(g, n)[k] /\ (EndsInLine \/ n <= sent)
    /\ ~Shadowed /\ (~rewound \/ sent = 0) =>
          \E n \in 0..Len(walBuf) :
              Recovered = Part(g, n) /\ (EndsInLine \/ n = sent)

LineOK == pc # "down" => \E g \in Stores : LineFrom(g)

Frames == {log[i] : i \in ReadableFrames} \cup {walBuf[i] : i \in DOMAIN walBuf}

LsnOK ==
    mode = "v2" =>
        /\ \A p, q \in Frames : p.lsn = q.lsn => p = q
        /\ pc # "down" => \A p \in Frames : p.lsn <= lastLsn

\* What the proofs of WalLog rest on: buffer, store, log and the maps a
\* recovery may return agree at every step of every call, failed or not
\* (wal_append, wal_flush, open_wal, reset_wal).
LogInv ==
    /\ TypeOK
    /\ PhaseOK
    /\ StoreOK
    /\ LineOK
    /\ LsnOK
    /\ AckedKeys
    /\ AckedMaps
=============================================================================
