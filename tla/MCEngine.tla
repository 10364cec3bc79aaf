------------------------------ MODULE MCEngine ------------------------------
(* SpectreEngine on small instances: two keys are interchangeable.         *)
EXTENDS DurableEngine, TLC

Symmetry == Permutations(Keys)
=============================================================================
