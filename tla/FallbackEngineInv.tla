------------------------- MODULE FallbackEngineInv -------------------------
(***************************************************************************)
(* The inductive invariant of FallbackEngine, in a module of its own so    *)
(* that TLC checks what FallbackEngine_proofs proves.                      *)
(*                                                                         *)
(* The argument: the lines of the log and the queued appends, read one     *)
(* after the other, stand for the store wherever they touch a key; what    *)
(* they do not touch is in the snapshot, or in the one being written.      *)
(***************************************************************************)
EXTENDS FallbackEngine

RestOK ==
    phase = "down" =>
        /\ calls = <<>> /\ queue = <<>> /\ cache = <<>> /\ step = "start"
        /\ awaited = 0 /\ loose = {} /\ ~rotated

\* A step of a job is one of the job at the head of the queue.
HeadOK ==
    /\ step \in {"rotated", "renamed"} => Running = "compact"
    /\ step \in {"open", "stuck"} => Running = "tx"

Logged(k) == Hit(Lines, k) \/ Hit(Waiting, k)

SettledOK ==
    /\ phase # "down" =>
          \A k \in Keys \ loose : ~rotated \/ Logged(k) => Settled[k] = store[k]
    /\ step = "rotated" =>
          \A k \in Keys : Hit(Waiting, k) \/ content[k] = store[k]
    /\ step = "renamed" =>
          snap \in Stores /\ \A k \in Keys : Hit(Waiting, k) \/ snap[k] = store[k]

\* The queue is what close waits for, and behind it what came since.
CloseOK ==
    /\ phase \in {"open", "down"} => late = 0
    /\ phase = "closing" => Len(queue) = awaited + late
    /\ phase = "closed" => Len(queue) = late

\* What the proofs of FallbackEngine rest on: at every step of every job, with
\* calls in between, the files and the queue account for the store, and close
\* for what is in the queue (WriteQueue.push, Engine._compact, close).
FallbackInv ==
    /\ TypeOK
    /\ RestOK
    /\ HeadOK
    /\ SettledOK
    /\ CloseOK
    /\ CacheCoherent
=============================================================================
