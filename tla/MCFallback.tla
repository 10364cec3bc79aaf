---------------------------- MODULE MCFallback -----------------------------
(* FallbackEngine on small instances: a key and a key below it.            *)
EXTENDS FallbackEngineInv

TheKeys == {<<"a">>, <<"a", "b">>}
=============================================================================
