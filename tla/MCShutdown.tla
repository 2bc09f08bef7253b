----------------------------- MODULE MCShutdown -----------------------------
(* Shutdown with up to two updates, enough for a timer with two samples,     *)
(* which is what prints under the lock, and one signal, after which the      *)
(* process has to end.                                                       *)
EXTENDS Shutdown

==============================================================================
