----------------------------- MODULE TimerTable -----------------------------
(***************************************************************************)
(* The timers of statsd: update_timer, called by the thread that processes *)
(* packets, and the pass of p_thread_flush over the timers                 *)
(* (src/src/statsd.c), in the build that takes the locks.                  *)
(*                                                                         *)
(* A timer keeps its samples in an array and their number once more in a   *)
(* field of its own.  The flush tests that field without the lock, takes   *)
(* the lock to sort, summarise and clear the timer, and reports after it   *)
(* has released the lock.  A sample is the number of the call that added   *)
(* it; what the summary makes of the samples is the module TimerSummary's  *)
(* subject.                                                                *)
(***************************************************************************)
EXTENDS Integers, Sequences, FiniteSets

CONSTANTS
  Key,             \* the names of timers
  MaxUpdates,      \* bound: how many calls to update_timer
  EnableGraphite,  \* enable_graphite as the options set it
  EnableGmetric    \* enable_gmetric, after this flush opened it or failed to

ASSUME TimerAssumption ==
  /\ MaxUpdates \in Nat
  /\ EnableGraphite \in BOOLEAN
  /\ EnableGmetric \in BOOLEAN

VARIABLES
  timers,       \* the keys of the table in list order
  values,       \* values[k]: the array of samples of k's timer
  count,        \* count[k]: the field of that name
  timers_lock,  \* the semaphore: 1 free, 0 taken
  upd,          \* where update_timer is
  key,          \* its argument
  calls,        \* how many calls of update_timer began
  fl,           \* where p_thread_flush is
  el, tmp,      \* HASH_ITER's two cursors, positions in timers or 0
  summary,      \* the samples min, max, mean and percentile were taken from
  shown,        \* the number last reported as the timer's count
  applied,      \* history: the samples added to a timer
  reported      \* history: reported[b][u], how often b was sent u

tableVars == <<timers, values, count>>
updVars == <<upd, key, calls, applied>>
flVars == <<fl, el, tmp, summary, shown, reported>>
vars == <<timers, values, count, timers_lock, upd, key, calls, fl, el, tmp,
          summary, shown, applied, reported>>

Update == 1 .. MaxUpdates
Backend == {"graphite", "gmetric"}
InTable == {timers[i] : i \in DOMAIN timers}
SamplesOf(k) == {values[k][i] : i \in DOMAIN values[k]}

Init ==
  /\ timers = <<>>
  /\ values = [k \in Key |-> <<>>]
  /\ count = [k \in Key |-> 0]
  /\ timers_lock = 1
  /\ upd = "idle" /\ key \in Key /\ calls = 0
  /\ fl = "sleep" /\ el = 0 /\ tmp = 0
  /\ summary = {} /\ shown = 0
  /\ applied = {}
  /\ reported = [b \in Backend |-> [u \in Update |-> 0]]

------------------------------------------------------------------------------
(* update_timer *)

FindTimer(k) ==
  /\ upd = "idle"
  /\ calls < MaxUpdates
  /\ calls' = calls + 1
  /\ key' = k
  /\ upd' = IF k \in InTable THEN "wait" ELSE "add_wait"
  /\ UNCHANGED <<tableVars, timers_lock, applied, flVars>>

WaitTimersLock ==
  /\ upd \in {"wait", "add_wait"}
  /\ timers_lock = 1
  /\ timers_lock' = 0
  /\ upd' = IF upd = "wait" THEN "push" ELSE "link"
  /\ UNCHANGED <<tableVars, key, calls, applied, flVars>>

PushSample ==
  /\ upd = "push"
  /\ values' = [values EXCEPT ![key] = Append(@, calls)]
  /\ applied' = applied \union {calls}
  /\ upd' = "count"
  /\ UNCHANGED <<timers, count, timers_lock, key, calls, flVars>>

CountSample ==
  /\ upd = "count"
  /\ count' = [count EXCEPT ![key] = @ + 1]
  /\ upd' = "post"
  /\ UNCHANGED <<timers, values, timers_lock, key, calls, applied, flVars>>

(* A new timer has its first sample before HASH_ADD_STR links it. *)
LinkTimer ==
  /\ upd = "link"
  /\ timers' = Append(timers, key)
  /\ values' = [values EXCEPT ![key] = <<calls>>]
  /\ count' = [count EXCEPT ![key] = 1]
  /\ applied' = applied \union {calls}
  /\ upd' = "post"
  /\ UNCHANGED <<timers_lock, key, calls, flVars>>

(* For the sensitivity check: the lock is not released. *)
KeepTimersLock ==
  /\ upd = "post"
  /\ upd' = "idle"
  /\ UNCHANGED <<tableVars, timers_lock, key, calls, applied, flVars>>

RemoveTimersLock ==
  /\ upd = "post"
  /\ timers_lock' = timers_lock + 1
  /\ upd' = "idle"
  /\ UNCHANGED <<tableVars, key, calls, applied, flVars>>

------------------------------------------------------------------------------
(* p_thread_flush *)

NextOf(i) == IF i < Len(timers) THEN i + 1 ELSE 0

StartPass ==
  /\ fl = "sleep"
  /\ el' = NextOf(0)
  /\ tmp' = IF timers = <<>> THEN 0 ELSE NextOf(1)
  /\ fl' = "test"
  /\ UNCHANGED <<tableVars, timers_lock, updVars, summary, shown, reported>>

(* The count is tested without the lock. *)
TestCount ==
  /\ fl = "test"
  /\ el # 0
  /\ fl' = IF count[timers[el]] > 0 THEN "wait" ELSE "next"
  /\ UNCHANGED <<tableVars, timers_lock, updVars, el, tmp, summary, shown,
                 reported>>

(* For the sensitivity check: the timer is summarised without the lock. *)
SkipWait ==
  /\ fl = "wait"
  /\ timers_lock' = timers_lock
  /\ fl' = "summarise"
  /\ UNCHANGED <<tableVars, updVars, el, tmp, summary, shown, reported>>

WaitToSummarise ==
  /\ fl = "wait"
  /\ timers_lock = 1
  /\ timers_lock' = 0
  /\ fl' = "summarise"
  /\ UNCHANGED <<tableVars, updVars, el, tmp, summary, shown, reported>>

(* Sort the values and take min, max, mean and percentile of them. *)
Summarise ==
  /\ fl = "summarise"
  /\ summary' = SamplesOf(timers[el])
  /\ fl' = "clear_values"
  /\ UNCHANGED <<tableVars, timers_lock, updVars, el, tmp, shown, reported>>

ClearValues ==
  /\ fl = "clear_values"
  /\ values' = [values EXCEPT ![timers[el]] = <<>>]
  /\ fl' = "clear_count"
  /\ UNCHANGED <<timers, count, timers_lock, updVars, el, tmp, summary, shown,
                 reported>>

(* For the sensitivity check: the count is not reset. *)
KeepCount ==
  /\ fl = "clear_count"
  /\ fl' = "post"
  /\ UNCHANGED <<tableVars, timers_lock, updVars, el, tmp, summary, shown,
                 reported>>

ClearCount ==
  /\ fl = "clear_count"
  /\ count' = [count EXCEPT ![timers[el]] = 0]
  /\ fl' = "post"
  /\ UNCHANGED <<timers, values, timers_lock, updVars, el, tmp, summary, shown,
                 reported>>

PostTimersLock ==
  /\ fl = "post"
  /\ timers_lock' = timers_lock + 1
  /\ fl' = "graphite"
  /\ UNCHANGED <<tableVars, updVars, el, tmp, summary, shown, reported>>

(* The summary goes to b with what the count field holds by now. *)
Report(b) ==
  /\ shown' = count[timers[el]]
  /\ reported' = [reported EXCEPT ![b] =
                    [u \in Update |-> IF u \in summary THEN reported[b][u] + 1
                                                       ELSE reported[b][u]]]

ReportGraphite ==
  /\ fl = "graphite"
  /\ IF EnableGraphite THEN Report("graphite") ELSE UNCHANGED <<shown, reported>>
  /\ fl' = "gmetric"
  /\ UNCHANGED <<tableVars, timers_lock, updVars, el, tmp, summary>>

ReportGmetric ==
  /\ fl = "gmetric"
  /\ IF EnableGmetric THEN Report("gmetric") ELSE UNCHANGED <<shown, reported>>
  /\ fl' = "next"
  /\ UNCHANGED <<tableVars, timers_lock, updVars, el, tmp, summary>>

(* The variables of the loop body end with it. *)
NextTimer ==
  /\ fl = "next"
  /\ summary' = {}
  /\ el' = tmp
  /\ tmp' = IF tmp = 0 THEN 0 ELSE NextOf(tmp)
  /\ fl' = "test"
  /\ UNCHANGED <<tableVars, timers_lock, updVars, shown, reported>>

EndPass ==
  /\ fl = "test"
  /\ el = 0
  /\ fl' = "sleep"
  /\ UNCHANGED <<tableVars, timers_lock, updVars, el, tmp, summary, shown,
                 reported>>

------------------------------------------------------------------------------
Updating ==
  \/ WaitTimersLock \/ PushSample \/ CountSample \/ LinkTimer
  \/ RemoveTimersLock

Flushing ==
  \/ StartPass \/ TestCount \/ WaitToSummarise \/ Summarise \/ ClearValues
  \/ ClearCount \/ PostTimersLock \/ ReportGraphite \/ ReportGmetric
  \/ NextTimer \/ EndPass

Next == (\E k \in Key : FindTimer(k)) \/ Updating \/ Flushing

Spec == Init /\ [][Next]_vars

(* Both threads are scheduled; the semaphore is contended at most MaxUpdates *)
(* times, so weak fairness is enough for the flush to get it.                *)
Fairness == WF_vars(Updating) /\ WF_vars(Flushing)

FairSpec == Spec /\ Fairness

------------------------------------------------------------------------------
(* Properties. *)

TypeOK ==
  /\ timers \in Seq(Key)
  /\ values \in [Key -> Seq(Update)]
  /\ count \in [Key -> Nat]
  /\ timers_lock \in {0, 1}
  /\ upd \in {"idle", "wait", "add_wait", "push", "count", "link", "post"}
  /\ key \in Key
  /\ calls \in 0 .. MaxUpdates
  /\ fl \in {"sleep", "test", "wait", "summarise", "clear_values",
             "clear_count", "post", "graphite", "gmetric", "next"}
  /\ el \in 0 .. Len(timers)
  /\ tmp \in 0 .. Len(timers)
  /\ summary \in SUBSET Update
  /\ shown \in Nat
  /\ applied \in SUBSET Update
  /\ reported \in [Backend -> [Update -> Nat]]

(* The count field agrees with the array whenever nobody holds the lock,     *)
(* although the two are changed one after the other.                         *)
CountMatchesValues ==
  timers_lock = 1 => \A k \in Key : count[k] = Len(values[k])

(* Where a sample stands between being added and having been reported to b.  *)
BeingReported(b, u) ==
  /\ u \in summary
  /\ fl \in IF b = "graphite"
            THEN {"clear_values", "clear_count", "post", "graphite"}
            ELSE {"clear_values", "clear_count", "post", "graphite", "gmetric"}

(* Every sample is in its timer, on its way to the back end, or was reported *)
(* to it exactly once: unlike a counter's, a timer's values are read and     *)
(* cleared under one lock, so no sample falls between.                       *)
EverySampleReported ==
  \A b \in Backend :
    (b = "graphite" /\ EnableGraphite) \/ (b = "gmetric" /\ EnableGmetric) =>
      \A u \in applied :
        \/ reported[b][u] = 1
        \/ reported[b][u] = 0 /\ BeingReported(b, u)
        \/ reported[b][u] = 0 /\ \E k \in Key : u \in SamplesOf(k)

(* The count is tested before the lock is taken; the timer that is then      *)
(* summarised still has a sample, so min and max are samples and the         *)
(* percentile is not read from an empty array.                               *)
SummaryNotEmpty ==
  [][Summarise => values[timers[el]] # <<>>]_vars

(* Every sample leaves its timer for a summary. *)
EverySampleSummarised ==
  \A u \in Update :
    u \in applied ~> \A k \in Key : u \notin SamplesOf(k)

==============================================================================
