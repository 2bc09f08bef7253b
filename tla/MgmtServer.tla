----------------------------- MODULE MgmtServer -----------------------------
(***************************************************************************)
(* The management thread (src/src/statsd.c, p_thread_mgmt): one thread     *)
(* that serves all clients from one buffer, and lists tables, without      *)
(* their locks, to which other threads add.                                *)
(*                                                                         *)
(* A command is two halves, so that the network can deliver it in parts.   *)
(* It is compared by prefix with what is in the buffer, of which a recv    *)
(* overwrites no more than it received.  The counters and the stats are    *)
(* listed alike; the line of a timer is a loop over the array of its       *)
(* samples (src/src/uthash/utarray.h), which grows by moving to a larger   *)
(* one and which the flush empties.  The prompt of the friendly mode is    *)
(* left out.                                                               *)
(***************************************************************************)
EXTENDS Integers, Sequences, FiniteSets

CONSTANTS
  Client,
  NULL,
  InitialSlots, \* the slots of an array's first allocation (8)
  Asked,        \* the commands that clients ask
  MaxCommands,  \* bound: the commands of all clients
  MaxCounters,  \* bound: the counters
  MaxSamples    \* bound: the samples of a timer

Command == {"help", "counters", "timers", "quit"}

ASSUME MgmtAssumption ==
  /\ NULL \notin Client \union Command /\ "listener" \notin Client
  /\ Asked \subseteq Command
  /\ InitialSlots \in Nat \ {0}
  /\ MaxCommands \in Nat /\ MaxCounters \in Nat /\ MaxSamples \in Nat

Half == Command \X {1, 2}

VARIABLES
  conn,      \* conn[c]: "new", "waiting" (for accept), "open" or "closed"
  stream,    \* stream[c]: the halves that were sent and not received
  asked,     \* asked[c]: the command that c waits to be answered, or NULL
  left,      \* how many commands the clients still send
  gone,      \* the clients that have closed their end
  reset,     \* those whose system has answered data with a reset
  buf,       \* the first two cells of buf
  split,     \* the clients from which a recv returned half a command
  ready,     \* read_fds: what of it is still to be looked at
  pc,        \* "select", "loop", what is answered, or "killed"
  cur,       \* the client that is being answered
  el, tmp,   \* the cursor of HASH_ITER and its successor
  listed,    \* the counters listed so far
  due,       \* how many counters there were when the listing began
  counters,  \* how many counters there are, each its place in their list
  arr,       \* the array of a timer: its place, length and slots
  j, at      \* the sample that is read: its index, and the array's place

clientVars == <<asked, left, gone>>
listVars == <<el, tmp, listed, due, j, at>>
tableVars == <<counters, arr>>
vars == <<conn, stream, clientVars, reset, buf, split, ready, pc, cur,
          listVars, tableVars>>

Init ==
  /\ conn = [c \in Client |-> "new"] /\ stream = [c \in Client |-> <<>>]
  /\ asked = [c \in Client |-> NULL]
  /\ left = MaxCommands
  /\ gone = {} /\ reset = {}
  /\ buf = <<NULL, NULL>> /\ split = {}
  /\ ready = {} /\ pc = "select" /\ cur = NULL
  /\ el = 0 /\ tmp = 0 /\ listed = <<>> /\ due = 0
  /\ j = 0 /\ at = 0
  /\ counters = 0 /\ arr = [place |-> 0, i |-> 0, n |-> 0]

Alive == pc # "killed"

------------------------------------------------------------------------------
(* The clients, each of which waits for an answer before it asks again, and *)
(* may go at any time.                                                      *)

Connect(c) ==
  /\ Alive /\ conn[c] = "new"
  /\ conn' = [conn EXCEPT ![c] = "waiting"]
  /\ UNCHANGED <<stream, clientVars, reset, buf, split, ready, pc, cur,
                 listVars, tableVars>>

Ask(c, cmd) ==
  /\ Alive /\ conn[c] \in {"waiting", "open"} /\ c \notin gone
  /\ asked[c] = NULL /\ left > 0
  /\ asked' = [asked EXCEPT ![c] = cmd]
  /\ left' = left - 1
  /\ stream' = [stream EXCEPT ![c] = @ \o << <<cmd, 1>>, <<cmd, 2>> >>]
  /\ UNCHANGED <<conn, gone, reset, buf, split, ready, pc, cur, listVars,
                 tableVars>>

Leave(c) ==
  /\ Alive /\ conn[c] \in {"waiting", "open"} /\ c \notin gone
  /\ gone' = gone \union {c}
  /\ UNCHANGED <<conn, stream, asked, left, reset, buf, split, ready, pc, cur,
                 listVars, tableVars>>

------------------------------------------------------------------------------
(* The other threads: update_counter, update_timer and the flush. *)

AddCounter ==
  /\ Alive /\ counters < MaxCounters
  /\ counters' = counters + 1
  /\ UNCHANGED <<conn, stream, clientVars, reset, buf, split, ready, pc, cur,
                 listVars, arr>>

(* utarray_push_back.  realloc moves the array or extends it in place. *)
PushSample ==
  /\ Alive /\ arr.i < MaxSamples
  /\ IF arr.i < arr.n THEN arr' = [arr EXCEPT !.i = @ + 1]
     ELSE \E place \in {arr.place, 1 - arr.place} :
            arr' = [place |-> place, i |-> arr.i + 1,
                    n |-> IF arr.n = 0 THEN InitialSlots ELSE 2 * arr.n]
  /\ UNCHANGED <<conn, stream, clientVars, reset, buf, split, ready, pc, cur,
                 listVars, counters>>

(* utarray_clear, after the summary. *)
ClearTimer ==
  /\ Alive /\ arr.i > 0
  /\ arr' = [arr EXCEPT !.i = 0]
  /\ UNCHANGED <<conn, stream, clientVars, reset, buf, split, ready, pc, cur,
                 listVars, counters>>

------------------------------------------------------------------------------
(* The loop over the sockets that select has found ready. *)

Readable ==
  {c \in Client : conn[c] = "open" /\ (stream[c] # <<>> \/ c \in gone)}
Waiting == {c \in Client : conn[c] = "waiting"}

Select ==
  /\ pc = "select" /\ (Readable \union Waiting) # {}
  /\ ready' = Readable \union (IF Waiting = {} THEN {} ELSE {"listener"})
  /\ pc' = "loop"
  /\ UNCHANGED <<conn, stream, clientVars, reset, buf, split, cur, listVars,
                 tableVars>>

(* For the sensitivity check: fdmax is not raised for a second client, so   *)
(* that select does not look at it.                                         *)
AcceptUnwatched ==
  /\ pc = "loop" /\ "listener" \in ready
  /\ ready' = ready \ {"listener"}
  /\ \E c \in Waiting :
       conn' = [conn EXCEPT ![c] =
                  IF \E d \in Client : conn[d] = "open" THEN "unwatched"
                  ELSE "open"]
  /\ UNCHANGED <<stream, clientVars, reset, buf, split, pc, cur, listVars,
                 tableVars>>

Accept ==
  /\ pc = "loop" /\ "listener" \in ready
  /\ ready' = ready \ {"listener"}
  /\ \E c \in Waiting : conn' = [conn EXCEPT ![c] = "open"]
  /\ UNCHANGED <<stream, clientVars, reset, buf, split, pc, cur, listVars,
                 tableVars>>

Closing(c) ==
  /\ conn' = [conn EXCEPT ![c] = "closed"]
  /\ asked' = [asked EXCEPT ![c] = NULL]
  /\ ready' = ready \ {c}

(* recv returns 0, or -1 after a reset. *)
HangUp(c) ==
  /\ pc = "loop" /\ c \in ready
  /\ c \in reset \/ stream[c] = <<>>
  /\ Closing(c)
  /\ UNCHANGED <<stream, left, gone, reset, buf, split, pc, cur, listVars,
                 tableVars>>

(* For the sensitivity check: the rest of the buffer is that of before. *)
KeepBuffer(cells) == <<buf[1], cells[Len(cells)]>>

Overwrite(cells) ==
  <<cells[1], IF Len(cells) > 1 THEN cells[2] ELSE buf[2]>>

(* The command in the buffer. *)
Dispatch(b) ==
  IF \E cmd \in Command : b = << <<cmd, 1>>, <<cmd, 2>> >>
  THEN b[1][1] ELSE "error"

(* A recv that returns n halves; what does not follow is not waited for. *)
Receive(c) ==
  /\ pc = "loop" /\ c \in ready \ reset
  /\ \E n \in 1 .. Len(stream[c]) :
       /\ buf' = Overwrite(SubSeq(stream[c], 1, n))
       /\ stream' = [stream EXCEPT ![c] = SubSeq(@, n + 1, Len(@))]
       /\ split' = IF n = 1 THEN split \union {c} ELSE split
  /\ cur' = c
  /\ pc' = Dispatch(buf')
  /\ UNCHANGED <<conn, clientVars, reset, ready, listVars, tableVars>>

------------------------------------------------------------------------------
(* The answers.  Sending to a client that is gone makes its system send a    *)
(* reset; sending after that raises SIGPIPE, which ends the process.         *)

Send(next) ==
  \/ cur \in reset /\ pc' = "killed" /\ UNCHANGED reset
  \/ cur \notin reset /\ pc' = next /\ UNCHANGED reset
  \/ cur \in gone \ reset /\ pc' = next /\ reset' = reset \union {cur}

Done ==
  /\ asked' = [asked EXCEPT ![cur] = NULL]
  /\ ready' = ready \ {cur} /\ cur' = NULL
  /\ el' = 0 /\ tmp' = 0 /\ listed' = <<>> /\ due' = 0
  /\ j' = 0 /\ at' = 0

(* MGMT_HELP or MGMT_BADCOMMAND. *)
Answer ==
  /\ pc \in {"help", "error"}
  /\ Send("loop") /\ Done
  /\ UNCHANGED <<conn, stream, left, gone, buf, split, tableVars>>

Quit ==
  /\ pc = "quit" /\ pc' = "loop"
  /\ Closing(cur) /\ cur' = NULL
  /\ UNCHANGED <<stream, left, gone, reset, buf, split, listVars, tableVars>>

(* For the sensitivity check: the successor is read before it is there. *)
NextOfFirst(i) == IF i > 0 /\ i + 1 < counters THEN i + 1 ELSE 0

NextOf(i) == IF i > 0 /\ i < counters THEN i + 1 ELSE 0

GoCounter(i) ==
  /\ el' = i /\ tmp' = NextOf(i)
  /\ UNCHANGED <<conn, stream, clientVars, buf, split, ready, cur, j, at,
                 tableVars>>

BeginCounters ==
  /\ pc = "counters"
  /\ pc' = "counter" /\ due' = counters /\ UNCHANGED <<reset, listed>>
  /\ GoCounter(IF counters = 0 THEN 0 ELSE 1)

ListCounter ==
  /\ pc = "counter" /\ el > 0
  /\ Send("counter")
  /\ listed' = Append(listed, el) /\ UNCHANGED due
  /\ GoCounter(tmp)

(* The key and the count of the timer; a count of 0 has no samples. *)
BeginTimer ==
  /\ pc = "timers"
  /\ \/ arr.i > 0 /\ Send("timer")
     \/ arr.i = 0 /\ Send("end")
  /\ UNCHANGED <<conn, stream, clientVars, buf, split, ready, cur, listVars,
                 tableVars>>

HasNext(i) == arr.i > i

(* utarray_next, with pointer j into the array that was at "at".  The index  *)
(* of a pointer is its distance from where the array is now, and -1 when it  *)
(* is below: an array that has moved up is listed from its start again, and  *)
(* the listing of one that has moved down ends.                              *)
NextSample ==
  /\ pc = "timer"
  /\ LET i == IF j = 0 \/ at < arr.place THEN 0 ELSE j
         more == IF j > 0 /\ at > arr.place THEN FALSE ELSE HasNext(i)
     IN IF more THEN j' = i + 1 /\ at' = arr.place /\ pc' = "sample"
        ELSE pc' = "end" /\ UNCHANGED <<j, at>>
  /\ UNCHANGED <<conn, stream, clientVars, reset, buf, split, ready, cur, el,
                 tmp, listed, due, tableVars>>

(* *j, which may fault when the array has moved. *)
SendSample ==
  /\ pc = "sample"
  /\ \/ Send("timer")
     \/ at # arr.place /\ pc' = "killed" /\ UNCHANGED reset
  /\ UNCHANGED <<conn, stream, clientVars, buf, split, ready, cur, listVars,
                 tableVars>>

(* MGMT_END. *)
End ==
  /\ pc = "end" \/ (pc = "counter" /\ el = 0)
  /\ Send("loop") /\ Done
  /\ UNCHANGED <<conn, stream, left, gone, buf, split, tableVars>>

NextRound ==
  /\ pc = "loop" /\ ready = {} /\ pc' = "select"
  /\ UNCHANGED <<conn, stream, clientVars, reset, buf, split, ready, cur,
                 listVars, tableVars>>

Server ==
  \/ Select \/ Accept \/ NextRound
  \/ \E c \in Client : HangUp(c) \/ Receive(c)
  \/ Answer \/ Quit \/ BeginCounters \/ ListCounter \/ BeginTimer
  \/ NextSample \/ SendSample \/ End
Outside ==
  \/ \E c \in Client : \/ Connect(c) \/ Leave(c)
                       \/ \E cmd \in Asked : Ask(c, cmd)
  \/ AddCounter \/ PushSample \/ ClearTimer

Next == Server \/ Outside

Spec == Init /\ [][Next]_vars

(* The thread is one loop, and select and recv return when there is data.  *)
(* A client that is connected and never reads, which would stop the thread *)
(* in send, is not modelled; nothing is assumed of the clients otherwise.  *)
FairSpec == Spec /\ WF_vars(Server)

------------------------------------------------------------------------------
TypeOK ==
  /\ conn \in [Client -> {"new", "waiting", "open", "closed"}]
  /\ stream \in [Client -> Seq(Half)]
  /\ asked \in [Client -> Command \union {NULL}]
  /\ left \in 0 .. MaxCommands
  /\ gone \in SUBSET Client /\ reset \in SUBSET gone
  /\ buf \in Seq(Half \union {NULL}) /\ Len(buf) = 2
  /\ split \in SUBSET Client
  /\ ready \in SUBSET (Client \union {"listener"})
  /\ pc \in Command \union {"error", "select", "loop", "counter", "timer",
                           "sample", "end", "killed"}
  /\ cur \in Client \union {NULL}
  /\ counters \in 0 .. MaxCounters /\ listed \in Seq(1 .. counters)
  /\ {el, tmp, due} \subseteq 0 .. counters
  /\ arr \in [place : {0, 1}, i : Nat, n : Nat] /\ arr.i <= arr.n
  /\ j \in Nat /\ at \in {0, 1}

(* The buffer is one for all clients and is never cleared (line 1042), yet  *)
(* no client gets another answer than that to the command it waits for,     *)
(* unless a recv has returned a part of one of its own commands.            *)
AnsweredAsAsked ==
  pc \in Command \union {"error"} => pc = asked[cur] \/ cur \in split

(* The counters are listed without their lock (line 1061) while others add  *)
(* to them: the listing holds each counter at most once, in the order of    *)
(* the table, and at its END every counter that was there when it began.    *)
ListingCoversTable ==
  pc = "counter" =>
    /\ \A i \in DOMAIN listed : listed[i] = i
    /\ el = 0 => Len(listed) >= due

(* The samples of a timer are listed while the flush clears their array and *)
(* updates push to it (line 1083): while the array has not moved, the       *)
(* listing reads none of what lies behind its slots.                        *)
InsideTheArray == pc = "sample" /\ at = arr.place => j <= arr.n

(* Whatever the other clients do, a command is answered, or its client is   *)
(* hung up, unless a signal has ended the process (line 1019).              *)
EveryCommandAnswered ==
  \A c \in Client :
    (asked[c] # NULL) ~> (asked[c] = NULL \/ pc = "killed")

==============================================================================
