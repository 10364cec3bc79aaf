----------------------------- MODULE MCFormats -----------------------------
(* EngineFormats on small instances.                                       *)
EXTENDS EngineFormatsInv, TLC

\* A plain database, and one with encryptBackups and compress.
TheOptions ==
    {[encrypt |-> FALSE, compress |-> FALSE], [encrypt |-> TRUE, compress |-> TRUE]}

Symmetry == Permutations(Values)
=============================================================================
