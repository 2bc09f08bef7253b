---------------------------- MODULE CounterTable ----------------------------
(***************************************************************************)
(* The counters of statsd: the table that update_counter changes for the   *)
(* thread that processes packets, and the pass that p_thread_flush makes   *)
(* over it in every flush interval (src/src/statsd.c).                     *)
(*                                                                         *)
(* A counter's value is the sum of the updates that were added to it since *)
(* it was cleared.  What matters is which ones these are and not what they *)
(* add up to, so a value is the set of its updates.  An update is the      *)
(* number of the call to update_counter that made it.                      *)
(*                                                                         *)
(* The table is the list of its keys in the order of HASH_ADD_STR, the one *)
(* that HASH_ITER follows.  counters_lock is the semaphore of that name.   *)
(* c->value = c->value + value is a load and a store, and with             *)
(* LOCK_OPTIMIZE no lock is taken around them.  The flush reads the value  *)
(* without the lock once for each back end (and once more for the rate,    *)
(* which this module leaves out) and takes the lock only to clear it.      *)
(***************************************************************************)
EXTENDS Integers, Sequences

CONSTANTS
  Key,             \* the names of counters
  MaxUpdates,      \* bound: how many calls to update_counter
  LOCK_OPTIMIZE,   \* the build option
  EnableGraphite,  \* enable_graphite as the options set it
  EnableGmetric    \* enable_gmetric as the options set it

ASSUME CounterAssumption ==
  /\ MaxUpdates \in Nat
  /\ LOCK_OPTIMIZE \in BOOLEAN
  /\ EnableGraphite \in BOOLEAN
  /\ EnableGmetric \in BOOLEAN

VARIABLES
  counters,        \* the keys of the table in list order
  value,           \* value[k]: the updates summed up in k's counter
  counters_lock,   \* the semaphore: 1 free, 0 taken
  upd,             \* where update_counter is
  key, sum,        \* update_counter's argument and the value it loaded
  calls,           \* how many calls of update_counter began
  fl,              \* where p_thread_flush is
  el, tmp,         \* HASH_ITER's two cursors, positions in counters or 0
  enable_gmetric,  \* cleared for good by a gmetric_open that fails
  applied,         \* history: the updates added to a counter
  cleared,         \* history: the updates a flush has cleared
  reported,        \* history: reported[b][u], how often b was sent u
  atStart, visited \* history: the keys at the start of the pass, those visited

tableVars == <<counters, value>>
updVars == <<upd, key, sum, calls, applied>>
flVars == <<fl, el, tmp, enable_gmetric, cleared, reported, atStart, visited>>
vars == <<counters, value, counters_lock, upd, key, sum, calls, fl, el, tmp,
          enable_gmetric, applied, cleared, reported, atStart, visited>>

Update == 1 .. MaxUpdates
Backend == {"graphite", "gmetric"}
InTable == {counters[i] : i \in DOMAIN counters}

Init ==
  /\ counters = <<>>
  /\ value = [k \in Key |-> {}]
  /\ counters_lock = 1
  /\ upd = "idle" /\ key \in Key /\ sum = {} /\ calls = 0
  /\ fl = "sleep" /\ el = 0 /\ tmp = 0
  /\ enable_gmetric = EnableGmetric
  /\ applied = {} /\ cleared = {}
  /\ reported = [b \in Backend |-> [u \in Update |-> 0]]
  /\ atStart = {} /\ visited = <<>>

------------------------------------------------------------------------------
(* update_counter, called by the thread that processes packets. *)

(* For the sensitivity check: a lookup that misses a counter that exists. *)
FindCounterMisses(k) ==
  /\ upd = "idle"
  /\ calls < MaxUpdates
  /\ calls' = calls + 1
  /\ key' = k
  /\ upd' = "add_wait"
  /\ UNCHANGED <<tableVars, counters_lock, sum, applied, flVars>>

(* HASH_FIND_STR looks the key up, without the lock. *)
FindCounter(k) ==
  /\ upd = "idle"
  /\ calls < MaxUpdates
  /\ calls' = calls + 1
  /\ key' = k
  /\ upd' = IF k \notin InTable THEN "add_wait"
            ELSE IF LOCK_OPTIMIZE THEN "load" ELSE "wait"
  /\ UNCHANGED <<tableVars, counters_lock, sum, applied, flVars>>

WaitCountersLock ==
  /\ upd \in {"wait", "add_wait"}
  /\ counters_lock = 1
  /\ counters_lock' = 0
  /\ upd' = IF upd = "wait" THEN "load" ELSE "link"
  /\ UNCHANGED <<tableVars, key, sum, calls, applied, flVars>>

LoadValue ==
  /\ upd = "load"
  /\ sum' = value[key]
  /\ upd' = "store"
  /\ UNCHANGED <<tableVars, counters_lock, key, calls, applied, flVars>>

(* For the sensitivity check: the update replaces the value. *)
StoreReplaces ==
  /\ upd = "store"
  /\ value' = [value EXCEPT ![key] = {calls}]
  /\ applied' = applied \union {calls}
  /\ upd' = IF LOCK_OPTIMIZE THEN "idle" ELSE "post"
  /\ UNCHANGED <<counters, counters_lock, key, sum, calls, flVars>>

StoreValue ==
  /\ upd = "store"
  /\ value' = [value EXCEPT ![key] = sum \union {calls}]
  /\ applied' = applied \union {calls}
  /\ upd' = IF LOCK_OPTIMIZE THEN "idle" ELSE "post"
  /\ UNCHANGED <<counters, counters_lock, key, sum, calls, flVars>>

(* A new counter has its value before HASH_ADD_STR links it to the list. *)
LinkCounter ==
  /\ upd = "link"
  /\ counters' = Append(counters, key)
  /\ value' = [value EXCEPT ![key] = {calls}]
  /\ applied' = applied \union {calls}
  /\ upd' = "post"
  /\ UNCHANGED <<counters_lock, key, sum, calls, flVars>>

(* For the sensitivity check: the lock is kept. *)
KeepCountersLock ==
  /\ upd = "post"
  /\ upd' = "idle"
  /\ UNCHANGED <<tableVars, counters_lock, key, sum, calls, applied, flVars>>

RemoveCountersLock ==
  /\ upd = "post"
  /\ counters_lock' = counters_lock + 1
  /\ upd' = "idle"
  /\ UNCHANGED <<tableVars, key, sum, calls, applied, flVars>>

------------------------------------------------------------------------------
(* p_thread_flush. *)

(* For the sensitivity check: the list ends one element early. *)
NextOfStopsEarly(i) == IF i + 1 < Len(counters) THEN i + 1 ELSE 0

(* The position after i in the list, 0 at its end. *)
NextOf(i) == IF i < Len(counters) THEN i + 1 ELSE 0

(* The interval is over: open gmetric, which may fail, and begin the pass. *)
StartPass ==
  /\ fl = "sleep"
  /\ \/ UNCHANGED enable_gmetric
     \/ enable_gmetric /\ enable_gmetric' = FALSE
  /\ el' = NextOf(0)
  /\ tmp' = IF counters = <<>> THEN 0 ELSE NextOf(1)
  /\ fl' = "graphite"
  /\ atStart' = InTable
  /\ visited' = <<>>
  /\ UNCHANGED <<tableVars, counters_lock, updVars, cleared, reported>>

Report(b) ==
  reported' = [reported EXCEPT ![b] =
                 [u \in Update |-> IF u \in value[counters[el]]
                                   THEN reported[b][u] + 1
                                   ELSE reported[b][u]]]

(* stats_counts_<key> is printed to the text for graphite. *)
ReportGraphite ==
  /\ fl = "graphite"
  /\ el # 0
  /\ IF EnableGraphite THEN Report("graphite") ELSE UNCHANGED reported
  /\ fl' = "gmetric"
  /\ UNCHANGED <<tableVars, counters_lock, updVars, el, tmp, enable_gmetric,
                 cleared, atStart, visited>>

(* SEND_GMETRIC_DOUBLE sends the value. *)
ReportGmetric ==
  /\ fl = "gmetric"
  /\ IF enable_gmetric THEN Report("gmetric") ELSE UNCHANGED reported
  /\ fl' = "wait"
  /\ UNCHANGED <<tableVars, counters_lock, updVars, el, tmp, enable_gmetric,
                 cleared, atStart, visited>>

WaitToClear ==
  /\ fl = "wait"
  /\ counters_lock = 1
  /\ counters_lock' = 0
  /\ fl' = "clear"
  /\ UNCHANGED <<tableVars, updVars, el, tmp, enable_gmetric, cleared, reported,
                 atStart, visited>>

(* For the sensitivity check: the value is not reset. *)
ClearForgetsReset ==
  /\ fl = "clear"
  /\ cleared' = cleared \union value[counters[el]]
  /\ fl' = "post"
  /\ UNCHANGED <<tableVars, counters_lock, updVars, el, tmp, enable_gmetric,
                 reported, atStart, visited>>

(* "Clear counter after we're done with it". *)
ClearCounter ==
  /\ fl = "clear"
  /\ value' = [value EXCEPT ![counters[el]] = {}]
  /\ cleared' = cleared \union value[counters[el]]
  /\ fl' = "post"
  /\ UNCHANGED <<counters, counters_lock, updVars, el, tmp, enable_gmetric,
                 reported, atStart, visited>>

(* Release the lock, count the statistic and go on to the next element. *)
NextCounter ==
  /\ fl = "post"
  /\ counters_lock' = counters_lock + 1
  /\ visited' = Append(visited, counters[el])
  /\ el' = tmp
  /\ tmp' = IF tmp = 0 THEN 0 ELSE NextOf(tmp)
  /\ fl' = "graphite"
  /\ UNCHANGED <<tableVars, updVars, enable_gmetric, cleared, reported, atStart>>

(* The pass is over; the flush goes on with the other tables and sleeps. *)
EndPass ==
  /\ fl = "graphite"
  /\ el = 0
  /\ fl' = "sleep"
  /\ UNCHANGED <<tableVars, counters_lock, updVars, el, tmp, enable_gmetric,
                 cleared, reported, atStart, visited>>

------------------------------------------------------------------------------
Updating ==
  \/ WaitCountersLock \/ LoadValue \/ StoreValue \/ LinkCounter
  \/ RemoveCountersLock

Flushing ==
  \/ StartPass \/ ReportGraphite \/ ReportGmetric \/ WaitToClear
  \/ ClearCounter \/ NextCounter \/ EndPass

Next == (\E k \in Key : FindCounter(k)) \/ Updating \/ Flushing

Spec == Init /\ [][Next]_vars

(* Both threads are scheduled.  Weak fairness is enough for the semaphore:   *)
(* a holder always releases it, and the flush competes with at most          *)
(* MaxUpdates updates.                                                       *)
Fairness == WF_vars(Updating) /\ WF_vars(Flushing)

FairSpec == Spec /\ Fairness

------------------------------------------------------------------------------
(* Properties. *)

TypeOK ==
  /\ counters \in Seq(Key)
  /\ value \in [Key -> SUBSET Update]
  /\ counters_lock \in {0, 1}
  /\ upd \in {"idle", "wait", "add_wait", "load", "store", "link", "post"}
  /\ key \in Key
  /\ sum \in SUBSET Update
  /\ calls \in 0 .. MaxUpdates
  /\ fl \in {"sleep", "graphite", "gmetric", "wait", "clear", "post"}
  /\ el \in 0 .. Len(counters)
  /\ tmp \in 0 .. Len(counters)
  /\ enable_gmetric \in BOOLEAN
  /\ applied \in SUBSET Update
  /\ cleared \in SUBSET Update
  /\ reported \in [Backend -> [Update -> Nat]]
  /\ atStart \in SUBSET Key
  /\ visited \in Seq(Key)

(* No update disappears: the ones update_counter has added are in the value  *)
(* of a counter or were in one when a flush cleared it.  It is true of both  *)
(* builds: the load and the store of the one thread that updates may have a  *)
(* clearing between them, which forgets nothing.                             *)
NoUpdateLost ==
  \A u \in applied : u \in cleared \/ \E k \in Key : u \in value[k]

(* With the locks, no back end is sent an update in two flushes.  Without    *)
(* them (LOCK_OPTIMIZE) a clearing between the load and the store is undone  *)
(* by the store, and what was reported is reported again.                    *)
ReportedOnce ==
  ~LOCK_OPTIMIZE => \A b \in Backend, u \in Update : reported[b][u] <= 1

(* A key is linked once: two counters of one name would split its count.     *)
(* HASH_FIND_STR is made before the lock is taken, so this depends on there  *)
(* being one thread that adds.                                               *)
KeysUnique ==
  \A i, j \in DOMAIN counters : counters[i] = counters[j] => i = j

(* A pass that ends has visited every key that was in the table at its       *)
(* start, none twice, although update_counter appends to the list meanwhile  *)
(* and HASH_ITER reads the list without the lock.                            *)
PassCoversTable ==
  [][fl = "graphite" /\ fl' = "sleep" =>
       /\ atStart \subseteq {visited[i] : i \in DOMAIN visited}
       /\ \A i, j \in DOMAIN visited : visited[i] = visited[j] => i = j]_vars

(* An update that was added is cleared by a flush in the end. *)
EveryUpdateCleared ==
  \A u \in Update : u \in applied ~> u \in cleared

(* "Clear counter after we're done with it" (src/src/statsd.c:1187): what    *)
(* the clearing removes has been sent to every back end that is enabled.     *)
ClearedWhenDone ==
  [][\A u \in cleared' \ cleared :
       /\ EnableGraphite => reported["graphite"][u] > 0
       /\ enable_gmetric => reported["gmetric"][u] > 0]_vars

==============================================================================
