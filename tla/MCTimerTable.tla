---------------------------- MODULE MCTimerTable ----------------------------
(* TimerTable with two names and four samples: timers are added, filled and  *)
(* emptied while the flush is at any point of its pass.                      *)
EXTENDS TimerTable

==============================================================================
