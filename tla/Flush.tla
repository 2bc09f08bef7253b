------------------------------- MODULE Flush -------------------------------
(***************************************************************************)
(* The flush thread outside its counters and timers (src/src/statsd.c,     *)
(* p_thread_flush): the gmetric socket it opens for every flush, the       *)
(* gauges, the totals, the connection to graphite and the stats that it    *)
(* shares with the thread that processes packets.                          *)
(*                                                                         *)
(* The threads interleave at every access to what they share.  A gauge is  *)
(* a long double: it is read in two parts, and another thread's store can  *)
(* come between them.  Stores to a gauge and to the table come from one    *)
(* thread, which alone waits for gauges_lock, and are one step.            *)
(***************************************************************************)
EXTENDS GmetricMessage, Sequences, FiniteSets

CONSTANTS
  Key,             \* names of gauges
  NameLength,      \* how long they are
  PrefixLength,    \* of ganglia_metric_prefix
  LOCK_OPTIMIZE,   \* the build option
  EnableGmetric, EnableGraphite,   \* the options -G and -R
  GraphiteNumeric, \* the graphite host is an address that inet_pton takes
  NULL,
  MaxValue         \* bound: the size of a gauge's value

ASSUME FlushAssumption ==
  /\ NameLength \in [Key -> Nat] /\ PrefixLength \in Nat /\ MaxValue \in Nat
  /\ {LOCK_OPTIMIZE, EnableGmetric, EnableGraphite, GraphiteNumeric}
       \subseteq BOOLEAN

Thread == {"main", "queue", "flush"}
Stat == {"last_flush", "last_msg_seen", "bad_lines_seen"}
InitOrder == <<"last_flush", "last_msg_seen", "bad_lines_seen">>

VARIABLES
  stats,        \* the names in the stats table
  stats_lock,   \* the semaphore
  in,           \* in[t]: where t is in update_stat, and for which stat
  inits,        \* how many of the calls of init_stats have begun
  gauges,       \* the gauges, in the order of their list
  value,        \* value[k]: the value of gauge k
  fl,           \* where the flush thread is
  el, tmp,      \* the gauges of HASH_ITER: this one and the next, or 0
  part,         \* the part of a value that is read, NULL between two reads
  read,         \* the value that was read last of this gauge
  due,          \* how many gauges the list had when this flush began
  seen,         \* the gauges that this flush is done with
  enable_gmetric,
  sockets,      \* the open sockets: "gm" and "graphite"
  connected,    \* the one to graphite is
  wire          \* the last datagram that sendto took

statVars == <<stats, stats_lock, in, inits>>
gaugeVars == <<gauges, value>>
readVars == <<el, tmp, part, read, due, seen>>
netVars == <<enable_gmetric, sockets, connected, wire>>
vars == <<statVars, gaugeVars, fl, readVars, netVars>>

Out == [at |-> "out", stat |-> NULL]

(* sem_init has made the semaphore 1.  The state file may have brought any  *)
(* of the stats.                                                            *)
Init ==
  /\ stats \in SUBSET Stat /\ stats_lock = 1
  /\ in = [t \in Thread |-> Out] /\ inits = 0
  /\ gauges = <<>> /\ value = [k \in Key |-> 0]
  /\ fl = "sleep" /\ el = 0 /\ tmp = 0 /\ part = NULL /\ read = NULL
  /\ due = 0 /\ seen = <<>>
  /\ enable_gmetric = EnableGmetric /\ sockets = {} /\ connected = FALSE
  /\ wire = NULL

Alive == fl # "killed"

------------------------------------------------------------------------------
(* update_stat *)

CallUpdateStat(t, s) ==
  /\ in[t] = Out
  /\ in' = [in EXCEPT ![t] =
       [at |-> IF s \notin stats THEN "wait_to_link"
               ELSE IF LOCK_OPTIMIZE THEN "store" ELSE "wait", stat |-> s]]

Inside(t, from, to) ==
  /\ Alive /\ in[t].at = from
  /\ in' = [in EXCEPT ![t].at = to]
  /\ UNCHANGED <<inits, gaugeVars, fl, readVars, netVars>>

WaitStatsLock(t) ==
  /\ Inside(t, "wait", "store") \/ Inside(t, "wait_to_link", "link")
  /\ stats_lock > 0 /\ stats_lock' = stats_lock - 1
  /\ UNCHANGED stats

LinkStat(t) ==
  /\ Inside(t, "link", "post")
  /\ stats' = stats \union {in[t].stat}
  /\ UNCHANGED stats_lock

Return(t) == Alive /\ in' = [in EXCEPT ![t] = Out]
             /\ UNCHANGED <<stats, inits, gaugeVars, fl, readVars, netVars>>

(* The value of a stat is stored; it is read by the management thread only. *)
StoreStat(t) ==
  /\ in[t].at = "store"
  /\ IF LOCK_OPTIMIZE THEN Return(t)
     ELSE Inside(t, "store", "post") /\ UNCHANGED stats
  /\ UNCHANGED stats_lock

RemoveStatsLock(t) ==
  /\ in[t].at = "post" /\ Return(t)
  /\ stats_lock' = stats_lock + 1

UpdateStat(t) ==
  WaitStatsLock(t) \/ LinkStat(t) \/ StoreStat(t) \/ RemoveStatsLock(t)

(* For the sensitivity check: last_msg_seen is left to the first packet. *)
InitOneStatLess ==
  /\ inits < Len(InitOrder) /\ inits' = IF inits = 0 THEN 2 ELSE 3
  /\ stats_lock' = IF inits = 0 THEN stats_lock + 1 ELSE stats_lock
  /\ CallUpdateStat("main", InitOrder[inits + 1])
  /\ UNCHANGED <<stats, gaugeVars, fl, readVars, netVars>>

(* init_stats posts the lock, for which it has not waited, and makes the    *)
(* three stats.  Then main starts the threads.                              *)
InitStats ==
  /\ inits < Len(InitOrder) /\ inits' = inits + 1
  /\ stats_lock' = IF inits = 0 THEN stats_lock + 1 ELSE stats_lock
  /\ CallUpdateStat("main", InitOrder[inits + 1])
  /\ UNCHANGED <<stats, gaugeVars, fl, readVars, netVars>>

Started == inits = Len(InitOrder) /\ in["main"] = Out /\ Alive

(* UPDATE_LAST_MSG_SEEN, for every packet. *)
SeeMessage ==
  /\ Started
  /\ CallUpdateStat("queue", "last_msg_seen")
  /\ UNCHANGED <<stats, stats_lock, inits, gaugeVars, fl, readVars, netVars>>

------------------------------------------------------------------------------
(* update_gauge_plusminus: 0 sets, 1 subtracts, 2 adds.  A new gauge has    *)
(* its value before it is linked to the list.                               *)
NewValue(old, v, plusminus) ==
  CASE plusminus = 0 -> v [] plusminus = 1 -> old - v [] plusminus = 2 -> old + v

Linked(k) == \E i \in DOMAIN gauges : gauges[i] = k

UpdateGauge(k, v, plusminus) ==
  /\ Started /\ in["queue"] = Out
  /\ value' = [value EXCEPT ![k] =
       NewValue(IF Linked(k) THEN @ ELSE 0, v, plusminus)]
  /\ value'[k] \in -MaxValue .. MaxValue
  /\ gauges' = IF Linked(k) THEN gauges ELSE Append(gauges, k)
  /\ UNCHANGED <<statVars, fl, readVars, netVars>>

------------------------------------------------------------------------------
(* The flush: opening, gauges and totals. *)

Goto(from, to) == Started /\ fl = from /\ fl' = to

(* For the sensitivity check: the last gauge but one has no successor. *)
NextBut(i) == IF i > 0 /\ i + 1 < Len(gauges) THEN i + 1 ELSE 0

NextOf(i) == IF i > 0 /\ i < Len(gauges) THEN i + 1 ELSE 0

(* The gauge i is next; HASH_ITER reads its successor before the body. *)
GoGauge(i, from) ==
  /\ Goto(from, IF i = 0 THEN "totals" ELSE "value")
  /\ el' = i /\ tmp' = NextOf(i) /\ read' = NULL

First == IF gauges = <<>> THEN 0 ELSE 1

(* gmetric_create and gmetric_open.  A host that is not found, or no        *)
(* socket, ends gmetric for good.                                           *)
gmetric_open ==
  \/ enable_gmetric /\ sockets' = sockets \union {"gm"}
     /\ UNCHANGED enable_gmetric
  \/ enable_gmetric' = FALSE /\ UNCHANGED sockets

Wake ==
  /\ GoGauge(First, "sleep")
  /\ gmetric_open
  /\ due' = Len(gauges) /\ seen' = <<>>
  /\ UNCHANGED <<statVars, gauges, value, part, connected, wire>>

(* A read of the gauge's value, first one part and then the other. *)
ReadPart ==
  /\ part = NULL
  /\ part' = value[gauges[el]]
  /\ UNCHANGED <<fl, read>>

ReadRest(next) ==
  /\ part # NULL
  /\ part' = NULL
  /\ read' = <<part, value[gauges[el]]>>
  /\ fl' = next

AfterLine == IF enable_gmetric THEN "prefixed_metadata" ELSE "next"

(* long double value = s_gauge->value, and a second read for the lines of   *)
(* graphite, a third one for the message without the prefix.                *)
ReadGauge ==
  /\ Started /\ fl \in {"value", "graphite_line", "gmetric_value"}
  /\ \/ ReadPart
     \/ ReadRest(CASE fl = "value" /\ EnableGraphite -> "graphite_line"
                   [] fl = "gmetric_value" -> "bare_metadata"
                   [] OTHER -> AfterLine)
  /\ UNCHANGED <<statVars, gaugeVars, el, tmp, due, seen, netVars>>

(* SEND_GMETRIC_DOUBLE and SEND_GMETRIC_INT, with the lengths of strings. *)
Message(name, length, group) ==
  [of |-> name, name |-> length, group |-> group, hostname |-> 13,
   value |-> 8, units |-> 5, type |-> 6]
Prefixed == fl \in {"prefixed_metadata", "prefixed_value"}
GaugeMessage ==
  LET k == gauges[el]
      n == NameLength[k] + (IF Prefixed THEN PrefixLength ELSE 0)
  IN Message(<<Prefixed, k>>, n, n)
StatMessage == Message("statsd_numstats_collected", 25, 6)

(* For the sensitivity check: the result of the first send is not used. *)
SendAnyway(msg, next, failed) ==
  \/ /\ Fits(gmetadata_message_create_xdr(msg))
     /\ fl' = next /\ wire' = <<"metadata", msg>>
  \/ fl' = next /\ UNCHANGED wire

(* gmetric_send: the metadata, and the value if sendto took them.  After an *)
(* error the caller goes on.                                                *)
SendMetadata(msg, next, failed) ==
  \/ /\ Fits(gmetadata_message_create_xdr(msg))
     /\ fl' = next /\ wire' = <<"metadata", msg>>
  \/ fl' = failed /\ UNCHANGED wire

SendValue(msg, next) ==
  /\ fl' = next
  /\ \/ Fits(gmetric31_message_create_xdr(msg)) /\ wire' = <<"value", msg>>
     \/ UNCHANGED wire

(* For the sensitivity check: a metadata message that fails ends the loop. *)
SendGaugeOrStop ==
  /\ Started
  /\ \/ /\ fl = "prefixed_metadata"
        /\ SendMetadata(GaugeMessage, "prefixed_value", "gmetric_value")
     \/ fl = "prefixed_value" /\ SendValue(GaugeMessage, "gmetric_value")
     \/ /\ fl = "bare_metadata"
        /\ SendMetadata(GaugeMessage, "bare_value", "totals")
     \/ fl = "bare_value" /\ SendValue(GaugeMessage, "next")
  /\ UNCHANGED <<statVars, gaugeVars, readVars, enable_gmetric, sockets,
                 connected>>

(* For the sensitivity check: a message that fails is tried again. *)
SendGaugeAgain ==
  /\ Started
  /\ \/ /\ fl = "prefixed_metadata"
        /\ SendMetadata(GaugeMessage, "prefixed_value", "prefixed_metadata")
     \/ fl = "prefixed_value" /\ SendValue(GaugeMessage, "gmetric_value")
     \/ /\ fl = "bare_metadata"
        /\ SendMetadata(GaugeMessage, "bare_value", "bare_metadata")
     \/ fl = "bare_value" /\ SendValue(GaugeMessage, "next")
  /\ UNCHANGED <<statVars, gaugeVars, readVars, enable_gmetric, sockets,
                 connected>>

SendGauge ==
  /\ Started
  /\ \/ /\ fl = "prefixed_metadata"
        /\ SendMetadata(GaugeMessage, "prefixed_value", "gmetric_value")
     \/ fl = "prefixed_value" /\ SendValue(GaugeMessage, "gmetric_value")
     \/ /\ fl = "bare_metadata"
        /\ SendMetadata(GaugeMessage, "bare_value", "next")
     \/ fl = "bare_value" /\ SendValue(GaugeMessage, "next")
  /\ UNCHANGED <<statVars, gaugeVars, readVars, enable_gmetric, sockets,
                 connected>>

NextGauge ==
  /\ GoGauge(tmp, "next")
  /\ seen' = Append(seen, gauges[el])
  /\ UNCHANGED <<statVars, gaugeVars, part, due, netVars>>

(* statsd.numStats, how many values there were. *)
Totals ==
  /\ Started
  /\ \/ /\ fl = "totals" /\ ~enable_gmetric
        /\ fl' = "graphite" /\ UNCHANGED wire
     \/ /\ fl = "totals" /\ enable_gmetric
        /\ SendMetadata(StatMessage, "total_value", "graphite")
     \/ fl = "total_value" /\ SendValue(StatMessage, "graphite")
  /\ UNCHANGED <<statVars, gaugeVars, readVars, enable_gmetric, sockets,
                 connected>>

------------------------------------------------------------------------------
(* The flush: graphite and the end. *)

UnchangedButGraphite ==
  UNCHANGED <<statVars, gaugeVars, readVars, enable_gmetric, wire>>

(* inet_pton and socket, both of which can end it; nova. *)
OpenGraphite ==
  /\ \/ EnableGraphite /\ GraphiteNumeric /\ Goto("graphite", "connect")
        /\ sockets' = sockets \union {"graphite"}
     \/ Goto("graphite", "close_gmetric") /\ UNCHANGED sockets
  /\ UnchangedButGraphite /\ UNCHANGED connected

(* The result of connect is not used. *)
Connect ==
  /\ Goto("connect", "send")
  /\ connected' \in BOOLEAN
  /\ UnchangedButGraphite /\ UNCHANGED sockets

(* For the sensitivity check: a send that fails ends the flush. *)
SendOrGiveUp ==
  /\ \/ Goto("send", "close_gmetric")
     \/ connected /\ Goto("send", "close_graphite")
  /\ UnchangedButGraphite /\ UNCHANGED <<sockets, connected>>

(* On a socket that is not connected, send raises SIGPIPE, which ends the   *)
(* process; when the peer has reset the connection it may or may not.       *)
SendText ==
  /\ \/ connected /\ Goto("send", "close_graphite")
     \/ Goto("send", "killed")
  /\ UnchangedButGraphite /\ UNCHANGED <<sockets, connected>>

CloseGraphite ==
  /\ Goto("close_graphite", "last_flush")
  /\ sockets' = sockets \ {"graphite"} /\ connected' = FALSE
  /\ UnchangedButGraphite

LastFlush ==
  /\ Goto("last_flush", "close_gmetric")
  /\ CallUpdateStat("flush", "last_flush")
  /\ UNCHANGED <<stats, stats_lock, inits, gaugeVars, readVars, netVars>>

gmetric_close ==
  sockets' = IF enable_gmetric THEN sockets \ {"gm"} ELSE sockets

(* The loop goes back to sleep. *)
Sleep ==
  /\ Goto("close_gmetric", "sleep") /\ in["flush"] = Out
  /\ gmetric_close
  /\ el' = 0 /\ tmp' = 0 /\ read' = NULL /\ wire' = NULL
  /\ due' = 0 /\ seen' = <<>>
  /\ UNCHANGED <<statVars, gauges, value, part, enable_gmetric, connected>>

FlushStep ==
  \/ ReadGauge \/ SendGauge \/ NextGauge \/ Totals
  \/ OpenGraphite \/ Connect \/ SendText \/ CloseGraphite
  \/ LastFlush \/ Sleep
Packet == \/ SeeMessage
          \/ \E k \in Key, v \in {1}, plusminus \in 0 .. 2 :
               UpdateGauge(k, v, plusminus)
Killed == ~Alive /\ UNCHANGED vars

Next ==
  \/ InitStats \/ \E t \in Thread : UpdateStat(t)
  \/ Packet \/ Wake \/ FlushStep \/ Killed

Spec == Init /\ [][Next]_vars

(* Every thread runs, a sleep ends, and so does every system call: connect  *)
(* has a time limit.                                                        *)
FairSpec ==
  /\ Spec
  /\ WF_vars(InitStats) /\ \A t \in Thread : WF_vars(UpdateStat(t))
  /\ WF_vars(Wake) /\ WF_vars(FlushStep)

------------------------------------------------------------------------------
(* Properties. *)

InLock == {t \in Thread : in[t].at \in {"link", "store", "post"}}

(* init_stats leaves stats_lock one too high, so two threads can be inside   *)
(* it.  The table survives: whoever adds a name to it is alone, and two      *)
(* that store a value have different names.                                  *)
StatsLockEnough ==
  /\ stats \subseteq Stat /\ stats_lock \in 0 .. 2
  /\ \A t \in InLock : in[t].at = "link" => InLock = {t}
  /\ \A t, u \in InLock : in[t].stat = in[u].stat => t = u

(* The flush walks the list of the gauges without the lock, one gauge ahead, *)
(* while another thread appends to it: when it comes to the totals it is     *)
(* done with every gauge that the list had when it began, in their order and *)
(* with none between them or twice, whatever could not be sent.              *)
EveryGaugeReported ==
  fl = "totals" => /\ Len(seen) \in due .. Len(gauges)
                   /\ \A i \in DOMAIN seen : seen[i] = gauges[i]

(* A value that a gauge keeps is reported in one piece in flush after flush, *)
(* though a flush may have seen it in two halves while it changed, unless    *)
(* graphite kills the process.                                               *)
LastValueReported ==
  \A k \in Key, v \in -MaxValue .. MaxValue :
    <>[](Alive /\ Linked(k) /\ value[k] = v) =>
      []<>(el > 0 /\ gauges[el] = k /\ read = <<v, v>>)

(* gmond sees every value after its description: no failed send and no name  *)
(* that is too long for the buffer lets a value go alone.                    *)
EveryValueAnnounced ==
  [][wire' # wire /\ wire' # NULL /\ wire'[1] = "value" =>
       wire = <<"metadata", wire'[2]>>]_vars

(* No flush leaves a socket open, whichever of the backends fails where.     *)
SocketsClosed == fl = "sleep" => sockets = {}

(* Flushes go on, unless graphite kills the process. *)
FlushesGoOn == []<>(fl = "sleep" \/ fl = "killed")
==============================================================================
