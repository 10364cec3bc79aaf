------------------------------- MODULE MCLock -------------------------------
(* FileLock on small instances: two native processes and one of the        *)
(* fallback.                                                               *)
EXTENDS FileLock
=============================================================================
