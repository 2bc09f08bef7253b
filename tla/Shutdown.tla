------------------------------ MODULE Shutdown ------------------------------
(***************************************************************************)
(* The end of statsd (src/src/statsd.c): main creates four threads and     *)
(* joins them; a signal makes main run cleanup, which cancels the threads, *)
(* saves the tables (statsd_serialize, src/src/serialize.c) and calls      *)
(* exit; the UDP thread runs cleanup itself when it cannot bind its        *)
(* socket.  The state file is given (-s) and the locks are built in.       *)
(*                                                                         *)
(* Cancellation is deferred: a cancelled thread goes on to its next        *)
(* cancellation point and ends there, whatever it holds.  sem_wait looks   *)
(* for a cancellation when it is called and while it blocks, not when the  *)
(* semaphore is free; syslog, printf to a terminal, send, select and sleep *)
(* are cancellation points.  The kernel hands a signal to main as long as  *)
(* main does not block it, and a handler blocks its own signal only.       *)
(*                                                                         *)
(* The module starts after init_stats, which has posted stats_lock without *)
(* having waited for it.  A table's content is the set of the updates in   *)
(* it; what the stats and gauges hold is not followed.  The timers are one *)
(* timer, and there is a counter, so that every flush takes counters_lock. *)
(*                                                                         *)
(* The file is written through a FILE: fputs leaves the text in its buffer *)
(* or writes a part of it, fclose writes the rest, and exit does so for a  *)
(* FILE that an interrupted handler has not closed.                        *)
(***************************************************************************)
EXTENDS Integers, Sequences, FiniteSets

CONSTANTS
  Daemonize,    \* daemonize as the options set it
  MaxSignals,   \* bound: how many signals arrive
  MaxUpdates    \* bound: how many updates the packets make

ASSUME ShutdownAssumption ==
  /\ Daemonize \in BOOLEAN
  /\ MaxSignals \in Nat
  /\ MaxUpdates \in Nat

Thread == {"udp", "mgmt", "flush", "queue"}
CreateOrder == <<"udp", "mgmt", "flush", "queue">>
SaveOrder == <<"stats", "timers", "counters", "gauges">>
Table == {SaveOrder[i] : i \in DOMAIN SaveOrder}
Kept == {"timers", "counters"}      \* the tables whose content is followed
Runner == {"main", "udp"}           \* the threads that can run cleanup
Update == 1 .. MaxUpdates

VARIABLES
  created,    \* how many threads main has created
  pc,         \* pc[t]: where thread t is
  cancelled,  \* the threads pthread_cancel was called for
  cleanups,   \* cleanups[r]: r's calls of cleanup, the innermost last
  sem,        \* sem[t]: the count of t's semaphore
  left,       \* the tables whose lock a thread held when it ended
  content,    \* content[t]: the updates in table t
  tab,        \* the table the queue thread is updating
  calls,      \* how many updates began
  file,       \* the state file: what it is, and the tables it is a copy of
  signals,    \* how many signals arrived
  how         \* how the process ended, "running" until then

dataVars == <<content, tab, calls>>
vars == <<created, pc, cancelled, cleanups, sem, left, content, tab, calls,
          file, signals, how>>

Nothing == [t \in Kept |-> {}]
Entry == [at |-> "cancel", next |-> 1, copy |-> Nothing]

Init ==
  /\ created = 0
  /\ pc = [t \in Thread |-> "none"]
  /\ cancelled = {}
  /\ cleanups = [r \in Runner |-> <<>>]
  /\ sem = [t \in Table |-> IF t = "stats" THEN 2 ELSE 1]
  /\ left = {}
  /\ content = Nothing
  /\ tab = "stats" /\ calls = 0
  /\ file = [is |-> "whole", copy |-> Nothing]
  /\ signals = 0
  /\ how = "running"

Goto(t, from, to) ==
  /\ how = "running"
  /\ pc[t] = from
  /\ pc' = [pc EXCEPT ![t] = to]

Lower(t) == sem[t] > 0 /\ sem' = [sem EXCEPT ![t] = @ - 1]
Raise(t) == sem' = [sem EXCEPT ![t] = @ + 1]

(* The call of sem_wait: a cancellation point, then the semaphore itself. *)
CallWait(t, from, to) ==
  /\ t \notin cancelled
  /\ Goto(t, from, to)
  /\ UNCHANGED <<created, cancelled, cleanups, sem, left, dataVars, file,
                 signals, how>>

------------------------------------------------------------------------------
(* main, and what ends the process without cleanup *)

CreateThread ==
  /\ how = "running"
  /\ cleanups["main"] = <<>>
  /\ created < Len(CreateOrder)
  /\ created' = created + 1
  /\ pc' = [pc EXCEPT ![CreateOrder[created + 1]] = "start"]
  /\ UNCHANGED <<cancelled, cleanups, sem, left, dataVars, file, signals, how>>

(* Every thread is joined and main returns; a daemon does not join. *)
MainReturns ==
  /\ how = "running"
  /\ ~Daemonize
  /\ cleanups["main"] = <<>>
  /\ \A t \in Thread : pc[t] = "ended"
  /\ how' = "returned"
  /\ UNCHANGED <<created, pc, cancelled, cleanups, sem, left, dataVars, file,
                 signals>>

(* SIGINT or SIGQUIT, or another one while the first one's handler runs. *)
Signal ==
  /\ how = "running"
  /\ signals < MaxSignals
  /\ signals' = signals + 1
  /\ cleanups' = [cleanups EXCEPT !["main"] = Append(@, Entry)]
  /\ UNCHANGED <<created, pc, cancelled, sem, left, dataVars, file, how>>

(* The management thread cannot listen and calls exit without cleanup. *)
MgmtFails ==
  /\ Goto("mgmt", "start", "start")
  /\ "mgmt" \notin cancelled
  /\ how' = "exit_without_cleanup"
  /\ UNCHANGED <<created, cancelled, cleanups, sem, left, dataVars, file,
                 signals>>

(* The other threads reach their loops. *)
ThreadStarts(t) ==
  /\ Goto(t, "start", CASE t = "flush" -> "sleep" [] t = "queue" -> "idle"
                        [] OTHER -> "run")
  /\ UNCHANGED <<created, cancelled, cleanups, sem, left, dataVars, file,
                 signals, how>>

(* bind fails: die_with_error calls cleanup in the UDP thread. *)
UdpDies ==
  /\ Goto("udp", "start", "cleanup")
  /\ cleanups' = [cleanups EXCEPT !["udp"] = <<Entry>>]
  /\ UNCHANGED <<created, cancelled, sem, left, dataVars, file, signals, how>>

(* A read that returns nothing ends the receive loop and the thread. *)
UdpEnds ==
  /\ Goto("udp", "run", "ended")
  /\ UNCHANGED <<created, cancelled, cleanups, sem, left, dataVars, file,
                 signals, how>>

------------------------------------------------------------------------------
(* cleanup; r is the thread that runs it *)

Top(r) == cleanups[r][Len(cleanups[r])]

Cleaning(r, step) ==
  /\ how = "running"
  /\ cleanups[r] # <<>>
  /\ Top(r).at = step

GoOn(r, frame) ==
  cleanups' = [cleanups EXCEPT ![r] = [@ EXCEPT ![Len(@)] = frame]]

(* For the sensitivity check: the queue thread is not cancelled. *)
CancelForgetsQueue(r) ==
  /\ Cleaning(r, "cancel")
  /\ IF created = Len(CreateOrder)
     THEN /\ cancelled' = Thread \ {"queue"}
          /\ GoOn(r, [Top(r) EXCEPT !.at = "close"])
          /\ UNCHANGED how
     ELSE how' = "crash" /\ UNCHANGED <<cancelled, cleanups>>
  /\ UNCHANGED <<created, pc, sem, left, dataVars, file, signals>>

(* pthread_cancel for each thread; for one that is not created yet its       *)
(* argument is zero, which libc dereferences.                                *)
CancelThreads(r) ==
  /\ Cleaning(r, "cancel")
  /\ IF created = Len(CreateOrder)
     THEN /\ cancelled' = Thread
          /\ GoOn(r, [Top(r) EXCEPT !.at = "close"])
          /\ UNCHANGED how
     ELSE how' = "crash" /\ UNCHANGED <<cancelled, cleanups>>
  /\ UNCHANGED <<created, pc, sem, left, dataVars, file, signals>>

(* syslog and close are cancellation points, also for the caller. *)
CloseSocket(r) ==
  /\ Cleaning(r, "close")
  /\ r \notin cancelled
  /\ GoOn(r, [Top(r) EXCEPT !.at = "wait"])
  /\ UNCHANGED <<created, pc, cancelled, sem, left, dataVars, file, signals,
                 how>>

WaitToSave(r) ==
  /\ Cleaning(r, "wait")
  /\ Lower(SaveOrder[Top(r).next])
  /\ GoOn(r, [Top(r) EXCEPT !.at = "save"])
  /\ UNCHANGED <<created, pc, cancelled, left, dataVars, file, signals, how>>

SaveTable(r) ==
  /\ Cleaning(r, "save")
  /\ LET f == Top(r)
         t == SaveOrder[f.next]
     IN  /\ Raise(t)
         /\ GoOn(r, [at   |-> IF f.next = Len(SaveOrder) THEN "open" ELSE "wait",
                     next |-> f.next + 1,
                     copy |-> IF t \in Kept
                              THEN [f.copy EXCEPT ![t] = content[t]]
                              ELSE f.copy])
  /\ UNCHANGED <<created, pc, cancelled, left, dataVars, file, signals, how>>

(* fopen truncates the file. *)
OpenFile(r) ==
  /\ Cleaning(r, "open")
  /\ file' = [is |-> "empty", copy |-> Nothing]
  /\ GoOn(r, [Top(r) EXCEPT !.at = "write"])
  /\ UNCHANGED <<created, pc, cancelled, sem, left, dataVars, signals, how>>

(* It cannot be opened: the failure is logged and cleanup goes on. *)
OpenFails(r) ==
  /\ Cleaning(r, "open")
  /\ GoOn(r, [Top(r) EXCEPT !.at = "unsaved"])
  /\ UNCHANGED <<created, pc, cancelled, sem, left, dataVars, file, signals,
                 how>>

(* fputs: the text fits the FILE's buffer, or a part of it is written.       *)
PutText(r) ==
  /\ Cleaning(r, "write")
  /\ \/ GoOn(r, [Top(r) EXCEPT !.at = "buffered"]) /\ UNCHANGED file
     \/ /\ GoOn(r, [Top(r) EXCEPT !.at = "begun"])
        /\ file' = [is |-> "begun", copy |-> Nothing]
  /\ UNCHANGED <<created, pc, cancelled, sem, left, dataVars, signals, how>>

(* fclose: the file has the text, or what a failing write has left of it;    *)
(* the results of fputs and fclose are not looked at.                        *)
CloseFile(r) ==
  /\ Cleaning(r, "buffered") \/ Cleaning(r, "begun")
  /\ file' \in {[is |-> "whole", copy |-> Top(r).copy],
                [is |-> "cut", copy |-> Nothing]}
  /\ GoOn(r, [Top(r) EXCEPT !.at = "exit"])
  /\ UNCHANGED <<created, pc, cancelled, sem, left, dataVars, signals, how>>

(* The handlers that r's last one has interrupted in their FILE.             *)
Interrupted(r) ==
  {f \in {cleanups[r][i] : i \in 1 .. Len(cleanups[r]) - 1} :
     f.at \in {"buffered", "begun"}}

(* exit writes the buffer of an interrupted FILE at its place: over the text *)
(* that is in the file, which is then followed by what is left of that, or,  *)
(* where a part was written before, behind it.                               *)
FlushFiles(r) ==
  file' \in {file}
     \union {[is |-> "whole", copy |-> f.copy] :
               f \in {g \in Interrupted(r) :
                      g.at = "buffered" \/ file.is = "begun"}}
     \union {[is |-> "mixed", copy |-> Nothing] : f \in Interrupted(r)}

(* The semaphores and the lock file go; the handler calls exit. *)
ExitProcess(r) ==
  /\ \/ Cleaning(r, "exit") /\ how' = "exit"
     \/ Cleaning(r, "unsaved") /\ how' = "exit_unsaved"
  /\ FlushFiles(r)
  /\ UNCHANGED <<created, pc, cancelled, cleanups, sem, left, dataVars,
                 signals>>

------------------------------------------------------------------------------
(* the queue thread: one update of one table after the other *)

QueueTakes(t) ==
  /\ calls < MaxUpdates
  /\ "queue" \notin cancelled
  /\ Goto("queue", "idle", "call")
  /\ calls' = calls + 1
  /\ tab' = t
  /\ UNCHANGED <<created, cancelled, cleanups, sem, left, content, file, signals,
                 how>>

QueueCallsWait == CallWait("queue", "call", "take")

QueueLocks ==
  /\ Goto("queue", "take", "update")
  /\ Lower(tab)
  /\ UNCHANGED <<created, cancelled, cleanups, left, dataVars, file, signals,
                 how>>

(* For the sensitivity check: the lock is not given back. *)
QueueKeepsLock ==
  /\ Goto("queue", "update", "idle")
  /\ IF tab \in Kept
     THEN content' = [content EXCEPT ![tab] = @ \union {calls}]
     ELSE UNCHANGED content
  /\ UNCHANGED <<created, cancelled, cleanups, sem, left, tab, calls, file,
                 signals, how>>

QueueUpdates ==
  /\ Goto("queue", "update", "idle")
  /\ Raise(tab)
  /\ IF tab \in Kept
     THEN content' = [content EXCEPT ![tab] = @ \union {calls}]
     ELSE UNCHANGED content
  /\ UNCHANGED <<created, cancelled, cleanups, left, tab, calls, file, signals,
                 how>>

------------------------------------------------------------------------------
(* the flush thread: counters, then timers, then the connection to graphite *)

(* Where it is with the lock of a table: before the call, in it, after it.  *)
Call == [counters |-> "call_counters", timers |-> "call_timers",
         stats |-> "call_stats"]
Take == [counters |-> "take_counters", timers |-> "take_timers",
         stats |-> "take_stats"]
Hold == [counters |-> "hold_counters", timers |-> "hold_timers",
         stats |-> "hold_stats"]
FlushTable == DOMAIN Take

FlushReportsCounters ==
  /\ Goto("flush", "sleep", "call_counters")
  /\ "flush" \notin cancelled
  /\ UNCHANGED <<created, cancelled, cleanups, sem, left, dataVars, file,
                 signals, how>>

FlushCallsWait(t) ==
  /\ t = "timers" => content["timers"] # {}
  /\ CallWait("flush", Call[t], Take[t])

(* The timers' count is tested without the lock. *)
FlushSkipsTimers ==
  /\ content["timers"] = {}
  /\ Goto("flush", "call_timers", "send")
  /\ UNCHANGED <<created, cancelled, cleanups, sem, left, dataVars, file,
                 signals, how>>

FlushLocks(t) ==
  /\ Goto("flush", Take[t],
          IF t = "timers" /\ Cardinality(content["timers"]) > 1 THEN "print"
          ELSE Hold[t])
  /\ Lower(t)
  /\ UNCHANGED <<created, cancelled, cleanups, left, dataVars, file, signals,
                 how>>

(* printf("Count = %d ...") while timers_lock is held *)
FlushPrints ==
  /\ Goto("flush", "print", "hold_timers")
  /\ "flush" \notin cancelled
  /\ UNCHANGED <<created, cancelled, cleanups, sem, left, dataVars, file,
                 signals, how>>

FlushClears(t, to) ==
  /\ Goto("flush", Hold[t], to)
  /\ Raise(t)
  /\ content' = IF t \in Kept THEN [content EXCEPT ![t] = {}] ELSE content
  /\ UNCHANGED <<created, cancelled, cleanups, left, tab, calls, file, signals,
                 how>>

(* connect and send, then update_stat("graphite", "last_flush", ...) *)
FlushSends ==
  /\ "flush" \notin cancelled
  /\ Goto("flush", "send", "call_stats")
  /\ UNCHANGED <<created, cancelled, cleanups, sem, left, dataVars, file,
                 signals, how>>

------------------------------------------------------------------------------
(* Cancellation takes effect. *)

CanEnd(t) ==
  CASE t = "udp"   -> \/ pc[t] \in {"start", "run"}
                      \/ pc[t] = "cleanup" /\ Top("udp").at # "cancel"
    [] t = "mgmt"  -> pc[t] \in {"start", "run"}
    [] t = "queue" -> \/ pc[t] \in {"start", "idle", "call"}
                      \/ pc[t] = "take" /\ sem[tab] = 0
    [] t = "flush" -> \/ pc[t] \in {"start", "sleep", "call_counters",
                                    "call_timers", "call_stats", "print",
                                    "send"}
                      \/ \E s \in FlushTable : pc[t] = Take[s] /\ sem[s] = 0

EndCancelled(t) ==
  /\ how = "running"
  /\ t \in cancelled
  /\ CanEnd(t)
  /\ left' = IF pc[t] = "print" THEN left \union {"timers"} ELSE left
  /\ cleanups' = IF t = "udp" THEN [cleanups EXCEPT !["udp"] = <<>>]
                              ELSE cleanups
  /\ pc' = [pc EXCEPT ![t] = "ended"]
  /\ UNCHANGED <<created, cancelled, sem, dataVars, file, signals, how>>

------------------------------------------------------------------------------
Cleanup(r) ==
  \/ CancelThreads(r) \/ CloseSocket(r) \/ WaitToSave(r) \/ SaveTable(r)
  \/ OpenFile(r) \/ OpenFails(r) \/ PutText(r) \/ CloseFile(r)
  \/ ExitProcess(r)

Main == CreateThread \/ MainReturns \/ Cleanup("main")

Udp == ThreadStarts("udp") \/ UdpDies \/ Cleanup("udp")

Queue ==
  \/ ThreadStarts("queue") \/ QueueCallsWait \/ QueueLocks \/ QueueUpdates

Flush ==
  \/ ThreadStarts("flush") \/ FlushReportsCounters
  \/ \E t \in FlushTable :
       FlushCallsWait(t) \/ FlushLocks(t)
  \/ FlushSkipsTimers \/ FlushPrints
  \/ FlushClears("counters", "call_timers") \/ FlushClears("timers", "send")
  \/ FlushClears("stats", "sleep")
  \/ FlushSends

Next ==
  \/ Main \/ Udp \/ Queue \/ Flush
  \/ Signal \/ UdpEnds \/ MgmtFails \/ ThreadStarts("mgmt")
  \/ \E t \in Table : QueueTakes(t)
  \/ \E t \in Thread : EndCancelled(t)

Spec == Init /\ [][Next]_vars

(* Every thread is scheduled and a pending cancellation takes effect at the  *)
(* thread's next cancellation point.  Packets, signals and failures need not *)
(* come.                                                                     *)
Fairness ==
  /\ WF_vars(Main) /\ WF_vars(Udp) /\ WF_vars(Queue) /\ WF_vars(Flush)
  /\ \A t \in Thread : WF_vars(EndCancelled(t))

FairSpec == Spec /\ Fairness

------------------------------------------------------------------------------
(* Properties. *)

Place ==
  {"none", "start", "run", "cleanup", "ended", "idle", "call", "take",
   "update", "sleep", "print", "send"}
  \union {Call[t] : t \in FlushTable} \union {Take[t] : t \in FlushTable}
  \union {Hold[t] : t \in FlushTable}
Stage ==
  {"cancel", "close", "wait", "save", "open", "unsaved", "write", "buffered",
   "begun", "exit"}
FileIs == {"whole", "empty", "begun", "cut", "mixed"}
Frame == [at : Stage, next : 1 .. 5, copy : [Kept -> SUBSET Nat]]

TypeOK ==
  /\ created \in 0 .. Len(CreateOrder)
  /\ pc \in [Thread -> Place]
  /\ cancelled \in SUBSET Thread
  /\ cleanups \in [Runner -> Seq(Frame)]
  /\ sem \in [Table -> Nat] /\ left \in SUBSET Table
  /\ content \in [Kept -> SUBSET Nat]
  /\ tab \in Table /\ calls \in 0 .. MaxUpdates
  /\ file.is \in FileIs
  /\ file.copy \in [Kept -> SUBSET Nat]
  /\ signals \in 0 .. MaxSignals
  /\ how \in {"running", "returned", "exit", "exit_unsaved",
              "exit_without_cleanup", "crash"}

(* When cleanup has saved and ended the process, at most one update that is  *)
(* in the tables is missing from the file: the threads are not waited for,   *)
(* but a cancelled queue thread meets a cancellation point before it can     *)
(* begin a second update.  The file is not whole only where a write failed   *)
(* or a second signal interrupted the first one's handler in its FILE.       *)
AtMostOneUpdateMissed ==
  how = "exit" =>
    \/ file.is = "cut"
    \/ file.is = "mixed" /\ signals > 1
    \/ /\ file.is = "whole"
       /\ Cardinality(UNION {content[t] \ file.copy[t] : t \in Kept}) <= 1

(* Only a thread that ended in printf takes timers_lock with it: cleanup     *)
(* otherwise saves and exits, after the first signal.                        *)
EndsUnlessLockLeft ==
  signals > 0 ~> how # "running" \/ left # {}

(* A UDP thread that dies of an error ends the process, in a server that is  *)
(* not a daemon: it is cancelled inside its own cleanup and never calls      *)
(* exit, but main joins all four threads.                                    *)
DeathEndsProcess ==
  pc["udp"] = "cleanup" ~> how # "running" \/ left # {}

==============================================================================
