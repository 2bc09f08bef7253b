--------------------------- MODULE MCPersistence ---------------------------
(* Persistence with two daemons, either of which may be started again while  *)
(* the other one runs or ends.                                               *)
EXTENDS Persistence, TLC

MCDaemons == Permutations(Daemon)
==============================================================================
