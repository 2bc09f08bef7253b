---------------------------- MODULE Persistence ----------------------------
(***************************************************************************)
(* What survives the end of a daemon: main's start and daemonize_server,   *)
(* cleanup (src/src/statsd.c) and the state file that statsd_deserialize   *)
(* reads and statsd_serialize writes (src/src/serialize.c), with -s and -D *)
(* given.  An init script may start a second daemon before the first has   *)
(* ended; a daemon may be killed at any point.                             *)
(*                                                                         *)
(* The counters and timers of a daemon are the set of the updates in them; *)
(* an entry is any of them that a flush finds together.  The threads'      *)
(* interleavings inside one daemon are those of the modules CounterTable,  *)
(* TimerTable, Flush and Shutdown: updates that come while a flush is on,  *)
(* and signals that interrupt a handler, are their subject, and none come  *)
(* here; a signal finds the flush between any two of its steps.            *)
(*                                                                         *)
(* A daemon writes its file through a FILE.  What fputs writes of a text   *)
(* that is longer than the FILE's buffer is the head of the file; fclose   *)
(* writes what is in the buffer, behind the head or, for a short text, in  *)
(* its place.  Module JsonTokener says when a file can be read.            *)
(***************************************************************************)
EXTENDS Integers, FiniteSets

CONSTANTS
  Daemon,      \* the processes
  NULL,
  MaxUpdates,  \* bound: how many updates the packets bring
  MaxStarts,   \* bound: how often a daemon is started
  MaxFaults    \* bound: how often a daemon is killed, or a write or
               \* the connection to a back end fails

Update == 1 .. MaxUpdates
FilePiece == [by : Daemon, long : BOOLEAN, updates : SUBSET Update]

ASSUME PersistenceAssumption ==
  /\ NULL \notin Daemon \union FilePiece
  /\ MaxUpdates \in Nat /\ MaxStarts \in Nat /\ MaxFaults \in Nat

VARIABLES
  pc,        \* pc[d]: where daemon d is
  mem,       \* mem[d]: the updates in its tables
  entry,     \* entry[d]: those of the counter or timer that its flush is at
  text,      \* text[d]: those in the text for graphite
  sample,    \* the updates that are samples of timers
  backend,   \* "graphite" gets a flush at its end, "gmetric" at once
  deaf,      \* the daemons that have switched gmetric off
  file,      \* the two pieces of the state file
  lock,      \* the process that has locked the lock file, or NULL
  bound,     \* the processes that have bound the UDP port
  listener,  \* the process that listens on the management port, or NULL
  accepted,  \* the updates that came
  reported,  \* reported[u]: how often a backend got u
  lost,      \* the updates that may be lost
  again,     \* the updates that may be reported again
  stale,     \* the daemons that loaded before another one saved
  starts, faults

tableVars == <<mem, entry, text>>
portVars == <<lock, bound, listener>>
ghostVars == <<accepted, lost, again, stale>>
vars == <<pc, tableVars, sample, backend, deaf, file, portVars, ghostVars,
          reported, starts, faults>>

NoFile == [head |-> NULL, tail |-> NULL]

Init ==
  /\ pc = [d \in Daemon |-> "off"]
  /\ mem = [d \in Daemon |-> {}] /\ entry = mem /\ text = mem
  /\ sample = {}
  /\ backend \in {"graphite", "gmetric"} /\ deaf = {}
  /\ file = NoFile /\ lock = NULL /\ bound = {} /\ listener = NULL
  /\ accepted = {} /\ reported = [u \in Update |-> 0]
  /\ lost = {} /\ again = {} /\ stale = {}
  /\ starts = 0 /\ faults = 0

Goto(d, from, to) == pc[d] = from /\ pc' = [pc EXCEPT ![d] = to]
Others(d) == {e \in Daemon \ {d} : pc[e] # "off"}
Fault == faults < MaxFaults /\ faults' = faults + 1

(* Everything that a process has goes with it. *)
Gone(d) ==
  /\ pc' = [pc EXCEPT ![d] = "off"]
  /\ mem' = [mem EXCEPT ![d] = {}] /\ entry' = [entry EXCEPT ![d] = {}]
  /\ text' = [text EXCEPT ![d] = {}]
  /\ deaf' = deaf \ {d} /\ bound' = bound \ {d}
  /\ listener' = IF listener = d THEN NULL ELSE listener
Exit(d) == Gone(d) /\ lock' = IF lock = d THEN NULL ELSE lock

Reported == {u \in Update : reported[u] > 0}
HeldBy(d) == mem[d] \union entry[d] \union text[d]

------------------------------------------------------------------------------
(* What a start makes of the file *)

Pieces(f) == {f.head, f.tail} \ {NULL}
Contents(f) == UNION {p.updates : p \in Pieces(f)}

(* A short text is whole, whatever follows it, and a long one with its own   *)
(* tail.  Of another file nothing is sure to be read.                        *)
Whole(f) == f.head # NULL /\ (f.head.long => f.tail = f.head)
Says(f) == IF Whole(f) THEN f.head.updates ELSE {}

(* The head of one text with the tail of another may still be an object,     *)
(* with some fields of the one and some of the other.                        *)
Mixed(f) == f.head # NULL /\ f.tail # NULL /\ ~Whole(f)
CanRead(f) ==
  IF f = NoFile THEN {{}} ELSE IF Whole(f) THEN {Says(f)}
  ELSE IF Mixed(f) THEN SUBSET Contents(f) ELSE {}

------------------------------------------------------------------------------
(* Start *)

Start(d) ==
  /\ starts < MaxStarts /\ starts' = starts + 1
  /\ Goto(d, "off", "load")
  /\ UNCHANGED <<tableVars, sample, backend, deaf, file, portVars, ghostVars,
                 reported, faults>>

(* For the sensitivity check: an empty state is loaded. *)
LoadNothing(d) ==
  /\ Goto(d, "load", "lock")
  /\ UNCHANGED <<tableVars, sample, backend, deaf, file, portVars, ghostVars,
                 reported, starts, faults>>

(* statsd_deserialize: no file, or one of less than ten bytes, is no state; *)
(* of a file that is not JSON json_tokener_parse returns an error pointer,  *)
(* which the next line follows.                                             *)
Load(d) ==
  /\ \/ \E us \in CanRead(file) :
          /\ Goto(d, "load", "lock")
          /\ mem' = [mem EXCEPT ![d] = us]
          /\ again' = IF Others(d) = {} THEN again ELSE again \union us
          /\ stale' = stale \ {d}
          /\ UNCHANGED <<entry, text, deaf, portVars>>
     \/ /\ pc[d] = "load" /\ file # NoFile /\ ~Whole(file)
        /\ Exit(d) /\ UNCHANGED <<again, stale>>
  /\ UNCHANGED <<sample, backend, file, accepted, lost, reported, starts,
                 faults>>

(* daemonize_server: who finds the lock file locked bails out, without      *)
(* cleanup; whoever gets it writes its PID and closes the file, which       *)
(* releases the lock.                                                       *)
TakeLock(d) ==
  /\ \/ lock = NULL /\ Goto(d, "lock", "locked") /\ lock' = d
        /\ UNCHANGED <<tableVars, deaf, bound, listener>>
     \/ lock # NULL /\ pc[d] = "lock" /\ Exit(d)
  /\ UNCHANGED <<sample, backend, file, ghostVars, reported, starts, faults>>

CloseLockFile(d) ==
  /\ Goto(d, "locked", "bind")
  /\ lock' = IF lock = d THEN NULL ELSE lock
  /\ UNCHANGED <<tableVars, sample, backend, deaf, file, bound, listener,
                 ghostVars, reported, starts, faults>>

(* The UDP thread binds its port, which SO_REUSEADDR may let it share.  If   *)
(* it cannot, die_with_error cancels all the threads, its own as well, which *)
(* ends before it has saved; main goes round in its loop.                    *)
Bind(d) ==
  /\ \/ Goto(d, "bind", "run") /\ bound' = bound \union {d}
     \/ bound # {} /\ Goto(d, "bind", "stuck") /\ UNCHANGED bound
  /\ UNCHANGED <<tableVars, sample, backend, deaf, file, lock, listener,
                 ghostVars, reported, starts, faults>>

Flushing == {"counters", "clear", "timer"}
Running == {"bind", "run"} \union Flushing

(* The management thread, at any time after its start.  Where another        *)
(* process listens on its port it calls exit without cleanup.                *)
Listen(d) ==
  /\ pc[d] \in Running \union {"stuck"}
  /\ \/ /\ listener = NULL /\ listener' = d
        /\ UNCHANGED <<pc, tableVars, deaf, lock, bound, lost, again>>
     \/ /\ listener \notin {NULL, d} /\ Exit(d)
        /\ lost' = lost \union (HeldBy(d) \ Says(file))
        /\ again' = again \union (Contents(file) \intersect Reported)
  /\ UNCHANGED <<sample, backend, file, accepted, stale, reported, starts,
                 faults>>

------------------------------------------------------------------------------
(* Run *)

Accept(d) ==
  /\ pc[d] = "run" /\ Cardinality(accepted) < MaxUpdates
  /\ LET u == Cardinality(accepted) + 1
     IN /\ accepted' = accepted \union {u}
        /\ mem' = [mem EXCEPT ![d] = @ \union {u}]
        /\ sample' \in {sample, sample \union {u}}
  /\ UNCHANGED <<pc, entry, text, backend, deaf, file, portVars, lost, again,
                 stale, reported, starts, faults>>

Count(us) ==
  reported' = [u \in Update |-> reported[u] + IF u \in us THEN 1 ELSE 0]

(* The flush begins.  When gmetric_open fails, gmetric is off from then on.  *)
Wake(d) ==
  /\ Goto(d, "run", "counters") /\ mem[d] # {}
  /\ \/ UNCHANGED <<deaf, faults>>
     \/ backend = "gmetric" /\ deaf' = deaf \union {d} /\ Fault
  /\ UNCHANGED <<tableVars, sample, backend, file, portVars, ghostVars,
                 reported, starts>>

(* An entry goes to gmond, or to the text. *)
Report(d, us) ==
  CASE backend = "graphite" ->
         text' = [text EXCEPT ![d] = @ \union us] /\ UNCHANGED reported
    [] backend = "gmetric" /\ d \notin deaf -> Count(us) /\ UNCHANGED text
    [] OTHER -> UNCHANGED <<text, reported>>

(* What no backend gets when it is cleared. *)
Unheard(d) == IF d \in deaf THEN entry[d] ELSE {}

(* A counter is cleared after it was reported ... *)
ReportCounter(d) ==
  /\ Goto(d, "counters", "clear")
  /\ \E us \in SUBSET (mem[d] \ sample) \ {{}} :
       Report(d, us) /\ entry' = [entry EXCEPT ![d] = us]
  /\ UNCHANGED <<mem, sample, backend, deaf, file, portVars, ghostVars, starts,
                 faults>>

(* For the sensitivity check: the flush ends without clearing the counter. *)
KeepCounter(d) ==
  /\ Goto(d, "clear", "run") /\ entry' = [entry EXCEPT ![d] = {}]
  /\ UNCHANGED <<mem, text, sample, backend, deaf, file, portVars, ghostVars,
                 reported, starts, faults>>

ClearCounter(d) ==
  /\ Goto(d, "clear", "counters")
  /\ mem' = [mem EXCEPT ![d] = @ \ entry[d]]
  /\ entry' = [entry EXCEPT ![d] = {}]
  /\ lost' = lost \union Unheard(d)
  /\ UNCHANGED <<text, sample, backend, deaf, file, portVars, accepted, again,
                 stale, reported, starts, faults>>

(* ... and a timer before: its summary is what is left of the samples. *)
ClearTimer(d) ==
  /\ Goto(d, "counters", "timer") /\ mem[d] \subseteq sample
  /\ \E us \in SUBSET mem[d] \ {{}} :
       /\ mem' = [mem EXCEPT ![d] = @ \ us]
       /\ entry' = [entry EXCEPT ![d] = us]
  /\ UNCHANGED <<text, sample, backend, deaf, file, portVars, ghostVars,
                 reported, starts, faults>>

ReportTimer(d) ==
  /\ Goto(d, "timer", "counters")
  /\ Report(d, entry[d])
  /\ entry' = [entry EXCEPT ![d] = {}]
  /\ lost' = lost \union Unheard(d)
  /\ UNCHANGED <<mem, sample, backend, deaf, file, portVars, accepted, again,
                 stale, starts, faults>>

(* When the text cannot be sent it is dropped. *)
SendText(d) ==
  /\ Goto(d, "counters", "run") /\ mem[d] = {}
  /\ text' = [text EXCEPT ![d] = {}]
  /\ \/ Count(text[d]) /\ UNCHANGED <<lost, faults>>
     \/ /\ text[d] # {} /\ Fault
        /\ lost' = lost \union text[d] /\ UNCHANGED reported
  /\ UNCHANGED <<mem, entry, sample, backend, deaf, file, portVars, accepted,
                 again, stale, starts>>

------------------------------------------------------------------------------
(* End *)

(* A signal, once the threads are there: cleanup cancels them, wherever the  *)
(* flush is, and closes the UDP socket before it saves.                      *)
Stop(d) ==
  /\ pc[d] \in Running \union {"stuck"}
  /\ pc' = [pc EXCEPT ![d] = "save"] /\ bound' = bound \ {d}
  /\ lost' = lost \union ((text[d] \union entry[d]) \ mem[d])
  /\ again' = again \union (mem[d] \intersect Reported)
  /\ text' = [text EXCEPT ![d] = {}] /\ entry' = [entry EXCEPT ![d] = {}]
  /\ UNCHANGED <<mem, sample, backend, deaf, file, lock, listener, accepted,
                 stale, reported, starts, faults>>

(* What is written over is lost when another daemon has saved it since this  *)
(* one loaded the file.                                                      *)
Overwritten(d) == IF d \in stale THEN Says(file) \ mem[d] ELSE {}

(* fopen truncates the file; when it fails the file stays as it is. *)
OpenFile(d) ==
  /\ \/ /\ Goto(d, "save", "write")
        /\ file' = NoFile /\ lost' = lost \union Overwritten(d)
        /\ UNCHANGED <<again, faults>>
     \/ /\ Goto(d, "save", "unlink") /\ Fault
        /\ lost' = lost \union mem[d]
        /\ again' = again \union (Contents(file) \intersect Reported)
        /\ UNCHANGED file
  /\ UNCHANGED <<tableVars, sample, backend, deaf, portVars, accepted, stale,
                 reported, starts>>

Piece(d, long) == [by |-> d, long |-> long, updates |-> mem[d]]

(* fputs of a long text. *)
WriteHead(d) ==
  /\ Goto(d, "write", "rest")
  /\ file' = [file EXCEPT !.head = Piece(d, TRUE)]
  /\ lost' = lost \union Overwritten(d)
  /\ UNCHANGED <<tableVars, sample, backend, deaf, portVars, accepted, again,
                 stale, reported, starts, faults>>

(* For the sensitivity check: what is in the buffer is not written. *)
WriteNoRest(d) ==
  /\ \E at \in {"write", "rest"} : Goto(d, at, "unlink")
  /\ UNCHANGED <<tableVars, sample, backend, deaf, file, portVars, ghostVars,
                 reported, starts, faults>>

(* fclose: the tail of a long text or a short one goes to its place, whoever *)
(* has written to the file or truncated it meanwhile.                        *)
WriteRest(d) ==
  /\ \/ Goto(d, "rest", "unlink")
        /\ file' = [file EXCEPT !.tail = Piece(d, TRUE)]
     \/ Goto(d, "write", "unlink")
        /\ file' = [file EXCEPT !.head = Piece(d, FALSE)]
  /\ lost' = lost \union Overwritten(d) \union (mem[d] \ Says(file'))
  /\ stale' = stale \union Others(d)
  /\ UNCHANGED <<tableVars, sample, backend, deaf, portVars, accepted, again,
                 reported, starts, faults>>

(* Neither result is used, so a full disk goes unnoticed. *)
WriteFails(d) ==
  /\ \E at \in {"write", "rest"} : Goto(d, at, "unlink")
  /\ Fault /\ lost' = lost \union mem[d]
  /\ UNCHANGED <<tableVars, sample, backend, deaf, file, portVars, accepted,
                 again, stale, reported, starts>>

(* The lock file is removed whoever made it; then the process exits. *)
Unlink(d) ==
  /\ pc[d] = "unlink" /\ Gone(d) /\ lock' = NULL
  /\ UNCHANGED <<sample, backend, file, ghostVars, reported, starts, faults>>

(* SIGKILL, SIGPIPE, the loss of power, or a signal before there are threads *)
(* to cancel.                                                                *)
Kill(d) ==
  /\ pc[d] # "off" /\ Fault /\ Exit(d)
  /\ lost' = lost \union (HeldBy(d) \ Says(file))
  /\ again' = again \union (Contents(file) \intersect Reported)
  /\ UNCHANGED <<sample, backend, file, accepted, stale, reported, starts>>

Begin(d) ==
  Start(d) \/ Load(d) \/ TakeLock(d) \/ CloseLockFile(d) \/ Bind(d) \/ Listen(d)
Run(d) ==
  \/ Accept(d) \/ Wake(d) \/ ReportCounter(d) \/ ClearCounter(d)
  \/ ClearTimer(d) \/ ReportTimer(d) \/ SendText(d)
End(d) ==
  \/ Stop(d) \/ OpenFile(d) \/ WriteHead(d) \/ WriteRest(d) \/ WriteFails(d)
  \/ Unlink(d)

Next == \E d \in Daemon : Begin(d) \/ Run(d) \/ End(d) \/ Kill(d)

Spec == Init /\ [][Next]_vars

------------------------------------------------------------------------------
(* Properties. *)

Held == UNION {HeldBy(d) : d \in Daemon}

(* No update disappears over any sequence of starts and ends, also of two    *)
(* daemons at once, but for these: the timer or text that a flush had in its *)
(* hands when a signal came or graphite did not take it, what is cleared     *)
(* after a failed gmetric_open, the tables of a daemon that is killed, that  *)
(* finds the management port taken or whose save fails, and what of two      *)
(* saves one wrote over the other or the two have mixed.                     *)
EveryUpdateKept ==
  accepted \subseteq Held \union Says(file) \union Reported \union lost

(* A backend gets an update twice only after a kill, a failed save or an     *)
(* exit without one, when a signal cut a flush between a counter's report    *)
(* and its clearing, or when a daemon loaded it while another one was there. *)
TwiceNeedsFault == \A u \in Update : reported[u] > 1 => u \in again

(* When no daemon writes and none was killed and no write failed, the next   *)
(* start can read the file or it has the head of one daemon's text with the  *)
(* tail of another's, who saved at once: it is never cut short and has never *)
(* a hole, although each of them truncates what the other writes.            *)
PartialNeedsFault ==
  file = NoFile \/ Whole(file) \/ faults > 0
    \/ (\E d \in Daemon : pc[d] \in {"write", "rest"})
    \/ (Mixed(file) /\ file.head.by # file.tail.by)

(* "Could not create lock, bailing out": the lock keeps a second daemon from *)
(* running (src/src/statsd.c:226).                                           *)
LockKeepsOneDaemon ==
  Cardinality({d \in Daemon : pc[d] \in Running}) <= 1
==============================================================================
