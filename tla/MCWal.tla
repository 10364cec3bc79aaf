-------------------------------- MODULE MCWal -------------------------------
(* WalLog on small instances: two keys are interchangeable.                *)
EXTENDS WalLogInv, TLC

\* The batches touch both keys, and set at least one.
MCBatches == {p \in Patches : Touched(p) = Keys /\ p # EmptyStore}

Symmetry == Permutations(Keys)
=============================================================================
