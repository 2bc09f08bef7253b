--------------------------- MODULE MCCounterTable ---------------------------
(* CounterTable with three names and four updates: a counter can be added,   *)
(* updated and cleared while the flush is at any point of its pass, and the  *)
(* list can grow behind and ahead of HASH_ITER.                              *)
EXTENDS CounterTable

==============================================================================
