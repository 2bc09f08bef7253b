----------------------------- MODULE PacketQueue -----------------------------
(***************************************************************************)
(* The ring buffer of src/src/queue.c between the thread that reads UDP    *)
(* datagrams (p_thread_udp) and the one that processes them                *)
(* (p_thread_queue).                                                       *)
(*                                                                         *)
(* The buffer has no lock (the mutex calls are commented out), so an       *)
(* operation is split at its accesses to queue[], the only memory the two  *)
(* threads share: queue_store makes one (the write of the slot),           *)
(* queue_pop_first makes three (the NULL test, the read, the clearing).    *)
(* queue_store_pos belongs to the UDP thread and queue_retrieve_pos to the *)
(* queue thread, so their updates are part of the neighbouring access.     *)
(*                                                                         *)
(* A packet is the number of the datagram it holds, in the order of the    *)
(* reads; each one is a fresh strdup() that is never freed, so two packets *)
(* are never the same pointer.                                             *)
(***************************************************************************)
EXTENDS Integers, Sequences

CONSTANTS
  MAX_QUEUE_SIZE,    \* the number of slots
  MaxPackets         \* bound: how many datagrams the UDP thread reads

ASSUME QueueAssumption ==
  /\ MAX_QUEUE_SIZE \in Nat \ {0}
  /\ MaxPackets \in Nat

VARIABLES
  queue,               \* queue[], NULL or a packet in each slot
  queue_store_pos,     \* next slot to fill, MAX_QUEUE_SIZE before a wrap
  queue_retrieve_pos,  \* next slot to empty
  udp,                 \* where the UDP thread is in its loop
  received,            \* how many datagrams the UDP thread has read
  consumer,            \* where the queue thread is in its loop
  packet,              \* p_thread_queue's (queue_pop_first's tmpptr) packet
  processed,           \* history: the packets processed, in order
  overrun              \* history: a store overwrote a packet in its slot

udpVars == <<udp, received>>
consumerVars == <<consumer, packet, processed>>
vars == <<queue, queue_store_pos, queue_retrieve_pos, udp, received,
          consumer, packet, processed, overrun>>

NULL == 0
Packet == 1 .. MaxPackets
Slot == 0 .. MAX_QUEUE_SIZE - 1

Init ==
  /\ queue = [s \in Slot |-> NULL]
  /\ queue_store_pos = 0
  /\ queue_retrieve_pos = 0
  /\ udp = "select"
  /\ received = 0
  /\ consumer = "test"
  /\ packet = NULL
  /\ processed = <<>>
  /\ overrun = FALSE

------------------------------------------------------------------------------
(* The UDP thread. *)

(* select() reports the socket readable and read() returns a datagram. *)
UdpRead ==
  /\ udp = "select"
  /\ received < MaxPackets
  /\ received' = received + 1
  /\ udp' = "store"
  /\ UNCHANGED <<queue, queue_store_pos, queue_retrieve_pos, consumerVars,
                 overrun>>

(* read() returns 0 or less (an empty datagram, or a datagram dropped      *)
(* between select() and read()): the thread closes its socket and ends.    *)
UdpReadFails ==
  /\ udp = "select"
  /\ udp' = "ended"
  /\ UNCHANGED <<queue, queue_store_pos, queue_retrieve_pos, received,
                 consumerVars, overrun>>

(* The slot queue_store is about to fill: the position wraps here. *)
StoreSlot == IF queue_store_pos = MAX_QUEUE_SIZE THEN 0 ELSE queue_store_pos

(* A queue_store with the wrap one slot late, for the sensitivity check: it  *)
(* leaves slot 0 unused after every lap but the first.                       *)
QueueStoreSkipsSlot ==
  /\ udp = "store"
  /\ LET s == IF queue_store_pos = MAX_QUEUE_SIZE THEN 1 % MAX_QUEUE_SIZE
             ELSE queue_store_pos
     IN /\ queue' = [queue EXCEPT ![s] = received]
        /\ queue_store_pos' = s + 1
        /\ overrun' = (overrun \/ queue[s] # NULL)
  /\ udp' = "select"
  /\ UNCHANGED <<queue_retrieve_pos, received, consumerVars>>

(* queue_store(packet): the slot is written whatever it holds. *)
QueueStore ==
  /\ udp = "store"
  /\ queue' = [queue EXCEPT ![StoreSlot] = received]
  /\ queue_store_pos' = StoreSlot + 1
  /\ overrun' = (overrun \/ queue[StoreSlot] # NULL)
  /\ udp' = "select"
  /\ UNCHANGED <<queue_retrieve_pos, received, consumerVars>>

------------------------------------------------------------------------------
(* The queue thread. *)

(* queue_pop_first finds its slot empty and returns NULL: the thread       *)
(* leaves its inner loop and sleeps for a second.                          *)
PopNothing ==
  /\ consumer = "test"
  /\ queue[queue_retrieve_pos] = NULL
  /\ consumer' = "sleep"
  /\ UNCHANGED <<queue, queue_store_pos, queue_retrieve_pos, udpVars, packet,
                 processed, overrun>>

(* queue_pop_first finds its slot filled ... *)
PopTest ==
  /\ consumer = "test"
  /\ queue[queue_retrieve_pos] # NULL
  /\ consumer' = "read"
  /\ UNCHANGED <<queue, queue_store_pos, queue_retrieve_pos, udpVars, packet,
                 processed, overrun>>

(* ... reads it ... *)
PopRead ==
  /\ consumer = "read"
  /\ packet' = queue[queue_retrieve_pos]
  /\ consumer' = "clear"
  /\ UNCHANGED <<queue, queue_store_pos, queue_retrieve_pos, udpVars,
                 processed, overrun>>

(* Two forms of PopClear for the sensitivity check: it does not clear the    *)
(* slot, or wraps one slot early.                                            *)
PopClearKeepsSlot ==
  /\ consumer = "clear"
  /\ queue_retrieve_pos' = IF queue_retrieve_pos + 1 = MAX_QUEUE_SIZE
                           THEN 0
                           ELSE queue_retrieve_pos + 1
  /\ consumer' = "process"
  /\ UNCHANGED <<queue, queue_store_pos, udpVars, packet, processed, overrun>>

PopClearWrapsEarly ==
  /\ consumer = "clear"
  /\ queue' = [queue EXCEPT ![queue_retrieve_pos] = NULL]
  /\ queue_retrieve_pos' = IF queue_retrieve_pos + 2 >= MAX_QUEUE_SIZE
                           THEN 0
                           ELSE queue_retrieve_pos + 1
  /\ consumer' = "process"
  /\ UNCHANGED <<queue_store_pos, udpVars, packet, processed, overrun>>

(* ... and clears it and moves on, wrapping at the end of the array. *)
PopClear ==
  /\ consumer = "clear"
  /\ queue' = [queue EXCEPT ![queue_retrieve_pos] = NULL]
  /\ queue_retrieve_pos' = IF queue_retrieve_pos + 1 = MAX_QUEUE_SIZE
                           THEN 0
                           ELSE queue_retrieve_pos + 1
  /\ consumer' = "process"
  /\ UNCHANGED <<queue_store_pos, udpVars, packet, processed, overrun>>

(* The packet is copied and handed to process_stats_packet or              *)
(* process_json_stats_packet; then the next one is popped.                 *)
ProcessPacket ==
  /\ consumer = "process"
  /\ processed' = Append(processed, packet)
  /\ packet' = NULL
  /\ consumer' = "test"
  /\ UNCHANGED <<queue, queue_store_pos, queue_retrieve_pos, udpVars, overrun>>

(* sleep(1) ends. *)
WakeUp ==
  /\ consumer = "sleep"
  /\ consumer' = "test"
  /\ UNCHANGED <<queue, queue_store_pos, queue_retrieve_pos, udpVars, packet,
                 processed, overrun>>

------------------------------------------------------------------------------
UdpThread == UdpRead \/ UdpReadFails \/ QueueStore

QueueThread ==
  PopNothing \/ PopTest \/ PopRead \/ PopClear \/ ProcessPacket \/ WakeUp

Next == UdpThread \/ QueueThread

Spec == Init /\ [][Next]_vars

(* The queue thread always has a step to take and nothing blocks it; the   *)
(* UDP thread, once it holds a datagram, stores it.  No datagram ever has  *)
(* to arrive.                                                              *)
Fairness == WF_vars(QueueThread) /\ WF_vars(QueueStore)

FairSpec == Spec /\ Fairness

------------------------------------------------------------------------------
(* Properties. *)

(* The packets queue_store has been called for are 1 .. Stored. *)
Stored == IF udp = "store" THEN received - 1 ELSE received

Queued == {queue[s] : s \in Slot} \ {NULL}

(* The packet queue_pop_first has read and process_stats_packet has not. *)
InHand == {packet} \ {NULL}

TypeOK ==
  /\ queue \in [Slot -> Packet \union {NULL}]
  /\ queue_store_pos \in 0 .. MAX_QUEUE_SIZE
  /\ queue_retrieve_pos \in Slot
  /\ udp \in {"select", "store", "ended"}
  /\ received \in 0 .. MaxPackets
  /\ udp = "store" => received > 0
  /\ consumer \in {"test", "read", "clear", "process", "sleep"}
  /\ packet \in Packet \union {NULL}
  /\ processed \in Seq(Packet)
  /\ overrun \in BOOLEAN

(* No datagram is processed twice, whatever the two threads do and however   *)
(* often the writer laps the reader: queue_pop_first clears the slot it has  *)
(* read, although not atomically with reading it.                            *)
AtMostOnce ==
  \A i, j \in DOMAIN processed : processed[i] = processed[j] => i = j

(* Until a store overwrites a packet, the unlocked buffer is a lossless      *)
(* FIFO: the packets processed are the first ones stored, in order, and each *)
(* later one is in a slot or in the hands of the queue thread.               *)
LosslessFifo ==
  ~overrun =>
    /\ \A i \in DOMAIN processed : processed[i] = i
    /\ Queued \union InHand = (Len(processed) + 1) .. Stored

(* A packet is overwritten only when every slot holds one: the two positions *)
(* wrap at different moments (queue_store before a write, queue_pop_first    *)
(* after a read) and never drift apart so as to collide earlier.             *)
OverrunNeedsFullQueue ==
  [][~overrun /\ overrun' => \A s \in Slot : queue[s] # NULL]_vars

(* The queue thread goes to sleep for a second only when no packet waits in  *)
(* any slot, unless an overrun has happened; after one it can park on an     *)
(* empty slot while packets wait in others.                                  *)
SleepOnlyWhenEmpty ==
  [][consumer # "sleep" /\ consumer' = "sleep" /\ ~overrun => Queued = {}]_vars

(* A stored datagram is eventually processed, or the buffer overruns; it     *)
(* does not matter whether the UDP thread goes on or has ended.              *)
EveryPacketProcessed ==
  \A k \in Packet :
    Stored >= k ~> (overrun \/ \E i \in DOMAIN processed : processed[i] = k)

(* The threads and their buffer are the channel that PacketChannel promises. *)
Channel == INSTANCE PacketChannel WITH
  Capacity <- MAX_QUEUE_SIZE,
  accepted <- Stored,
  backlog <- Queued \union InHand,
  delivered <- processed

RefinesChannel == Channel!Spec

==============================================================================
