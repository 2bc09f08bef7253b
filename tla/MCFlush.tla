------------------------------ MODULE MCFlush ------------------------------
(* Flush with two gauges, the longer name too long for a message with the    *)
(* prefix, both backends on and each of them failing at every point.         *)
EXTENDS Flush

MCNameLength == [k \in Key |-> IF k = "a" THEN 10 ELSE 300]
==============================================================================
