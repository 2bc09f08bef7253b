---------------------------- MODULE MCMgmtServer ----------------------------
(* MgmtServer with two clients and two counters, and an array that moves     *)
(* twice.                                                                    *)
EXTENDS MgmtServer
==============================================================================
