-------------------------- MODULE PacketQueueProofs --------------------------
(***************************************************************************)
(* Proofs about PacketQueue, for every number of slots and of datagrams.   *)
(*                                                                         *)
(* The inductive invariant has two halves.  Ownership holds whatever       *)
(* happens: a packet is in one place only.  Layout describes the buffer    *)
(* until it overruns: the packets that wait fill the slots from            *)
(* queue_retrieve_pos on, in order.  It speaks of the distance of a slot   *)
(* from queue_retrieve_pos and of positions that differ by the number of   *)
(* waiting packets up to one lap, so that no step needs the modulus.       *)
(***************************************************************************)
EXTENDS PacketQueue, FiniteSetTheorems, TLAPS

(* Where the queue thread is tells whether it holds a packet. *)
HandMatchesPc ==
  /\ consumer \in {"clear", "process"} <=> packet # NULL
  /\ consumer \in {"read", "clear"} => queue[queue_retrieve_pos] # NULL

(* No packet is anywhere before queue_store is called for it. *)
NoneInvented ==
  /\ \A s \in Slot : queue[s] <= Stored
  /\ packet <= Stored
  /\ \A i \in DOMAIN processed : processed[i] <= Stored

(* A packet is in one slot, in hand or processed, and in only one of these,  *)
(* but for the slot that PopRead has read and PopClear is to clear.          *)
SlotsDiffer ==
  \A s, t \in Slot : queue[s] # NULL /\ queue[s] = queue[t] => s = t
SlotsNotProcessed ==
  \A s \in Slot : \A i \in DOMAIN processed : queue[s] # processed[i]
HandNotProcessed ==
  \A i \in DOMAIN processed : processed[i] # packet
HandLeavesSlot ==
  \A s \in Slot :
    packet # NULL /\ queue[s] = packet
      => consumer = "clear" /\ s = queue_retrieve_pos

Ownership ==
  /\ HandMatchesPc
  /\ NoneInvented
  /\ SlotsDiffer
  /\ SlotsNotProcessed
  /\ HandNotProcessed
  /\ HandLeavesSlot
  /\ AtMostOnce

(* How many packets have left the slots, and how many are in them. *)
Taken == IF consumer = "process" THEN Len(processed) + 1 ELSE Len(processed)
Waiting == Stored - Taken

(* How far the reader is from a slot. *)
Distance(s) == IF s >= queue_retrieve_pos
               THEN s - queue_retrieve_pos
               ELSE s + MAX_QUEUE_SIZE - queue_retrieve_pos

Layout ==
  /\ Waiting \in 0 .. MAX_QUEUE_SIZE
  /\ \/ queue_store_pos = queue_retrieve_pos + Waiting
     \/ queue_store_pos = queue_retrieve_pos + Waiting - MAX_QUEUE_SIZE
     \/ queue_store_pos = queue_retrieve_pos + Waiting + MAX_QUEUE_SIZE
  /\ \A s \in Slot :
        queue[s] = IF Distance(s) < Waiting THEN Taken + 1 + Distance(s) ELSE NULL
  /\ \A i \in DOMAIN processed : processed[i] = i
  /\ packet # NULL => packet = Len(processed) + 1

IInv == TypeOK /\ Ownership /\ (~overrun => Layout)

------------------------------------------------------------------------------
(* Every step keeps the variables in their types; that the packet handed to  *)
(* ProcessPacket is one needs the first lines of Ownership.                  *)
LEMMA TypeStep == ASSUME TypeOK, Ownership, [Next]_vars PROVE TypeOK'
<1> USE QueueAssumption DEF TypeOK, NULL, Packet, Slot, udpVars, consumerVars
<1>1. CASE UdpRead BY <1>1 DEF UdpRead
<1>2. CASE UdpReadFails BY <1>2 DEF UdpReadFails
<1>3. CASE QueueStore BY <1>3 DEF QueueStore, StoreSlot
<1>4. CASE PopNothing BY <1>4 DEF PopNothing
<1>5. CASE PopTest BY <1>5 DEF PopTest
<1>6. CASE PopRead BY <1>6 DEF PopRead
<1>7. CASE PopClear BY <1>7 DEF PopClear
<1>8. CASE ProcessPacket
  BY <1>8 DEF ProcessPacket, Ownership, HandMatchesPc
<1>9. CASE WakeUp BY <1>9 DEF WakeUp
<1>10. CASE UNCHANGED vars BY <1>10 DEF vars
<1> QED
  BY <1>1, <1>2, <1>3, <1>4, <1>5, <1>6, <1>7, <1>8, <1>9, <1>10
  DEF Next, UdpThread, QueueThread


(* Every step keeps each packet in one place: a slot, the hands of the queue *)
(* thread or the packets processed.                                          *)
LEMMA OwnershipStep ==
  ASSUME TypeOK, TypeOK', Ownership, [Next]_vars
  PROVE  Ownership'
<1>a. \A i \in DOMAIN processed : processed[i] \in Packet
  <2>1. processed \in Seq(Packet) BY DEF TypeOK
  <2> QED BY <2>1
<1> USE QueueAssumption
    DEF TypeOK, Ownership, HandMatchesPc, NoneInvented, SlotsDiffer,
        SlotsNotProcessed, HandNotProcessed, HandLeavesSlot, AtMostOnce, NULL,
        Packet, Slot, Stored, udpVars, consumerVars
<1>1. CASE UdpRead BY <1>1 DEF UdpRead
<1>2. CASE UdpReadFails BY <1>2 DEF UdpReadFails
<1>3. CASE QueueStore
  <2>1. StoreSlot \in Slot BY DEF StoreSlot
  <2>2. /\ queue' = [queue EXCEPT ![StoreSlot] = received]
        /\ udp = "store" /\ udp' = "select" /\ received' = received
        /\ UNCHANGED <<queue_retrieve_pos, consumer, packet, processed>>
    BY <1>3 DEF QueueStore
  <2>3. Stored = received - 1 /\ Stored' = received BY <2>2
  <2>4. \A s \in Slot : queue'[s] = IF s = StoreSlot THEN received ELSE queue[s]
    BY <2>1, <2>2
  <2>5. /\ received # NULL
        /\ \A s \in Slot : queue[s] # received
        /\ packet # received
        /\ \A i \in DOMAIN processed : processed[i] # received
    <3>1. received \in Nat /\ received # 0 /\ ~(received <= Stored)
      BY <2>2, <2>3
    <3> QED BY <3>1 DEF NoneInvented
  <2> HIDE DEF StoreSlot, TypeOK, Stored
  <2>6. HandMatchesPc' BY <2>1, <2>2, <2>4, <2>5 DEF TypeOK
  <2>7. NoneInvented'
    <3>a. /\ \A s \in Slot : queue[s] \in Packet \union {NULL}
          /\ packet \in Packet \union {NULL} /\ received \in 0 .. MaxPackets
      BY DEF TypeOK
    <3>1. /\ \A s \in Slot : queue[s] \in Nat
          /\ \A i \in DOMAIN processed : processed[i] \in Nat
          /\ packet \in Nat /\ received \in Nat
      BY <1>a, <3>a
    <3>2. \A x \in Nat : x <= Stored => x <= Stored' BY <3>1, <2>3
    <3>3. \A s \in Slot : queue'[s] <= Stored'
      BY <2>3, <2>4, <3>1, <3>2
    <3>4. \A i \in DOMAIN processed' : processed'[i] <= Stored'
      BY <2>2, <3>1, <3>2
    <3> QED BY <2>2, <3>1, <3>2, <3>3, <3>4
  <2>8. SlotsDiffer' BY <2>4, <2>5
  <2>9. SlotsNotProcessed' BY <2>2, <2>4, <2>5
  <2>10. HandNotProcessed' BY <2>2
  <2>11. HandLeavesSlot' BY <2>2, <2>4, <2>5
  <2>12. AtMostOnce' BY <2>2
  <2> QED BY <2>6, <2>7, <2>8, <2>9, <2>10, <2>11, <2>12
<1>4. CASE PopNothing BY <1>4 DEF PopNothing
<1>5. CASE PopTest BY <1>5 DEF PopTest
<1>6. CASE PopRead BY <1>6 DEF PopRead
<1>7. CASE PopClear
  <2>1. /\ queue' = [queue EXCEPT ![queue_retrieve_pos] = NULL]
        /\ consumer = "clear" /\ consumer' = "process"
        /\ UNCHANGED <<udp, received, packet, processed>>
    BY <1>7 DEF PopClear
  <2>2. \A s \in Slot : queue'[s] = NULL \/ queue'[s] = queue[s] BY <2>1
  <2>3. queue[queue_retrieve_pos] # NULL /\ packet # NULL BY <2>1
  <2>4. \A s \in Slot : queue'[s] # NULL => s # queue_retrieve_pos BY <2>1
  <2>5. Stored' = Stored /\ NULL <= Stored BY <2>1
  <2> HIDE DEF TypeOK, Stored
  <2>6. HandMatchesPc' BY <2>1, <2>3
  <2>7. NoneInvented' BY <2>1, <2>2, <2>5
  <2>8. SlotsDiffer' BY <2>2
  <2>9. SlotsNotProcessed'
    <3>1. \A i \in DOMAIN processed : processed[i] # NULL BY <1>a
    <3> QED BY <2>1, <2>2, <3>1
  <2>10. HandNotProcessed' BY <2>1
  <2>11. HandLeavesSlot'
    <3> SUFFICES ASSUME NEW s \in Slot, queue'[s] = packet PROVE FALSE
      BY <2>1
    <3>1. s # queue_retrieve_pos BY <2>3, <2>4
    <3>2. queue[s] = packet BY <2>2, <2>3
    <3> QED BY <2>3, <3>1, <3>2
  <2>12. AtMostOnce' BY <2>1
  <2> QED BY <2>6, <2>7, <2>8, <2>9, <2>10, <2>11, <2>12
<1>8. CASE ProcessPacket
  <2>1. /\ consumer = "process" /\ consumer' = "test" /\ packet' = NULL
        /\ UNCHANGED <<queue, queue_retrieve_pos, udp, received>>
    BY <1>8 DEF ProcessPacket
  <2>2. packet \in Packet /\ packet # NULL BY <2>1
  <2>p. processed \in Seq(Packet) OBVIOUS
  <2>3. /\ DOMAIN processed' = 1 .. Len(processed) + 1
        /\ DOMAIN processed = 1 .. Len(processed)
        /\ \A i \in 1 .. Len(processed) : processed'[i] = processed[i]
        /\ processed'[Len(processed) + 1] = packet
    <3> HIDE DEF TypeOK, Ownership, HandMatchesPc, NoneInvented, SlotsDiffer,
             SlotsNotProcessed, HandNotProcessed, HandLeavesSlot, AtMostOnce,
             Packet
    <3>1. processed' = Append(processed, packet) BY <1>8 DEF ProcessPacket
    <3> QED BY <3>1, <2>2, <2>p
  <2>4. /\ \A i \in DOMAIN processed' :
             \/ i \in DOMAIN processed /\ processed'[i] = processed[i]
             \/ i = Len(processed) + 1 /\ processed'[i] = packet
        /\ \A i \in DOMAIN processed : processed[i] \in Packet
    <3> HIDE DEF TypeOK, Ownership, HandMatchesPc, NoneInvented, SlotsDiffer,
             SlotsNotProcessed, HandNotProcessed, HandLeavesSlot, AtMostOnce,
             Packet
    <3>1. \A i \in DOMAIN processed : processed[i] \in Packet BY <2>p
    <3>2. \A i \in DOMAIN processed' :
             i \in DOMAIN processed \/ i = Len(processed) + 1
      <4>1. Len(processed) \in Nat BY <2>p
      <4> QED BY <2>3, <4>1
    <3> QED BY <2>3, <3>1, <3>2
  <2>5. Stored' = Stored BY <2>1
  <2> HIDE DEF TypeOK, Stored
  <2>6. HandMatchesPc' BY <2>1
  <2>7. NoneInvented'
    <3>1. \A i \in DOMAIN processed' : processed'[i] <= Stored
      BY <2>4
    <3>2. NULL <= Stored' BY <2>1 DEF TypeOK, Stored
    <3> QED BY <2>1, <2>5, <3>1, <3>2
  <2>8. SlotsDiffer' BY <2>1
  <2>9. SlotsNotProcessed' BY <2>1, <2>2, <2>4
  <2>10. HandNotProcessed' BY <2>1, <2>2, <2>4
  <2>11. HandLeavesSlot' BY <2>1
  <2>12. AtMostOnce' BY <2>4
  <2> QED BY <2>6, <2>7, <2>8, <2>9, <2>10, <2>11, <2>12
<1>9. CASE WakeUp BY <1>9 DEF WakeUp
<1>10. CASE UNCHANGED vars BY <1>10 DEF vars
<1> QED
  BY <1>1, <1>2, <1>3, <1>4, <1>5, <1>6, <1>7, <1>8, <1>9, <1>10
  DEF Next, UdpThread, QueueThread

(* Before an overrun, queue_store is about to fill the slot that follows the *)
(* waiting packets; when they fill the buffer that slot is not empty.        *)
LEMMA StoreDistance ==
  ASSUME TypeOK, Layout
  PROVE  /\ Waiting < MAX_QUEUE_SIZE => Distance(StoreSlot) = Waiting
         /\ Waiting = MAX_QUEUE_SIZE => \A s \in Slot : queue[s] # NULL
<1>1. Waiting < MAX_QUEUE_SIZE => Distance(StoreSlot) = Waiting
  <2>1. /\ MAX_QUEUE_SIZE \in Nat \ {0}
        /\ queue_retrieve_pos \in 0 .. MAX_QUEUE_SIZE - 1
        /\ queue_store_pos \in 0 .. MAX_QUEUE_SIZE
    BY QueueAssumption DEF TypeOK, Slot
  <2>2. /\ Waiting \in 0 .. MAX_QUEUE_SIZE
        /\ \/ queue_store_pos = queue_retrieve_pos + Waiting
           \/ queue_store_pos = queue_retrieve_pos + Waiting - MAX_QUEUE_SIZE
           \/ queue_store_pos = queue_retrieve_pos + Waiting + MAX_QUEUE_SIZE
    BY DEF Layout
  <2> QED BY <2>1, <2>2 DEF Distance, StoreSlot
<1> USE QueueAssumption DEF TypeOK, NULL, Packet, Slot
<1>2. Taken \in Nat BY DEF Taken
<1>3. \A s \in Slot : Distance(s) \in 0 .. MAX_QUEUE_SIZE - 1
  BY DEF Distance
<1>4. Waiting = MAX_QUEUE_SIZE => \A s \in Slot : queue[s] # NULL
  <2> SUFFICES ASSUME Waiting = MAX_QUEUE_SIZE, NEW s \in Slot
               PROVE  queue[s] # NULL
    OBVIOUS
  <2>1. queue[s] = IF Distance(s) < Waiting THEN Taken + 1 + Distance(s)
                                            ELSE NULL
    BY DEF Layout
  <2>2. Distance(s) \in 0 .. MAX_QUEUE_SIZE - 1 BY <1>3
  <2> HIDE DEF TypeOK, Slot
  <2>3. Distance(s) < Waiting BY <2>2
  <2>4. Taken + 1 + Distance(s) # 0 BY <1>2, <2>2
  <2> QED BY <2>1, <2>3, <2>4
<1> QED BY <1>1, <1>4

(* Until an overrun every step keeps the waiting packets contiguous and in   *)
(* order, and the two positions apart by their number.                       *)
LEMMA LayoutStep ==
  ASSUME TypeOK, TypeOK', Ownership, ~overrun => Layout, [Next]_vars
  PROVE  ~overrun' => Layout'
<1> SUFFICES ASSUME ~overrun' PROVE Layout'
  OBVIOUS
<1> USE QueueAssumption DEF TypeOK, NULL, Packet, Slot, udpVars, consumerVars
<1>a. Layout
  BY DEF Next, UdpThread, QueueThread, UdpRead, UdpReadFails, QueueStore,
         PopNothing, PopTest, PopRead, PopClear, ProcessPacket, WakeUp, vars
<1>b. Len(processed) \in Nat /\ Taken \in Nat /\ Stored \in Int
  BY DEF Taken, Stored
<1>1. ASSUME Waiting' = Waiting, Taken' = Taken,
             UNCHANGED <<queue, queue_store_pos, queue_retrieve_pos, processed>>,
             packet' # NULL => packet' = Len(processed) + 1
      PROVE  Layout'
  BY <1>1, <1>a DEF Layout, Distance
<1>2. CASE UdpRead \/ UdpReadFails
  <2>1. /\ Stored' = Stored
        /\ UNCHANGED <<queue, queue_store_pos, queue_retrieve_pos, consumer,
                       packet, processed>>
    <3>1. CASE UdpRead BY <3>1 DEF UdpRead, Stored
    <3>2. CASE UdpReadFails BY <3>2 DEF UdpReadFails, Stored
    <3> QED BY <1>2, <3>1, <3>2
  <2> QED BY <1>1, <2>1, <1>a DEF Taken, Waiting, Layout
<1>3. CASE PopNothing \/ PopTest \/ WakeUp \/ UNCHANGED vars
  BY <1>1, <1>3, <1>a
  DEF PopNothing, PopTest, WakeUp, vars, Stored, Taken, Waiting, Layout
<1>4. CASE PopRead
  <2>1. /\ consumer = "read" /\ consumer' = "clear"
        /\ packet' = queue[queue_retrieve_pos]
        /\ UNCHANGED <<queue, queue_store_pos, queue_retrieve_pos, udp, received,
                       processed>>
    BY <1>4 DEF PopRead
  <2>2. Taken = Len(processed) /\ Distance(queue_retrieve_pos) = 0
    BY <2>1 DEF Taken, Distance
  <2>3. packet' = Len(processed) + 1
    BY <2>1, <2>2, <1>a, <1>b DEF Ownership, HandMatchesPc, Layout
  <2> QED BY <1>1, <2>1, <2>3 DEF Stored, Taken, Waiting
<1>5. CASE PopClear
  <2>1. /\ consumer = "clear" /\ consumer' = "process"
        /\ queue' = [queue EXCEPT ![queue_retrieve_pos] = NULL]
        /\ queue_retrieve_pos' = IF queue_retrieve_pos + 1 = MAX_QUEUE_SIZE
                                 THEN 0 ELSE queue_retrieve_pos + 1
        /\ UNCHANGED <<queue_store_pos, udp, received, packet, processed>>
    BY <1>5 DEF PopClear
  <2>2. /\ Stored' = Stored /\ Taken = Len(processed)
        /\ Taken' = Taken + 1 /\ Waiting' = Waiting - 1
    BY <2>1, <1>b DEF Stored, Taken, Waiting
  <2>3. Distance(queue_retrieve_pos) = 0 BY DEF Distance
  <2>4. Waiting > 0 /\ Waiting \in Int
    BY <2>1, <2>3, <1>a, <1>b DEF Ownership, HandMatchesPc, Layout
  <2>5. \A s \in Slot : queue'[s] = IF Distance(s)' < Waiting'
                                    THEN Taken' + 1 + Distance(s)' ELSE NULL
    <3> SUFFICES ASSUME NEW s \in Slot
                 PROVE  queue'[s] = IF Distance(s)' < Waiting'
                                    THEN Taken' + 1 + Distance(s)' ELSE NULL
      OBVIOUS
    <3>1. CASE s = queue_retrieve_pos
      <4>1. Distance(s)' = MAX_QUEUE_SIZE - 1 BY <3>1, <2>1 DEF Distance
      <4>2. Waiting' <= MAX_QUEUE_SIZE - 1 BY <2>2, <2>4, <1>a DEF Layout
      <4> QED BY <3>1, <4>1, <4>2, <2>1, <2>2, <2>4
    <3>2. CASE s # queue_retrieve_pos
      <4>1. Distance(s)' = Distance(s) - 1 /\ Distance(s) \in Int
        BY <3>2, <2>1 DEF Distance
      <4>2. queue'[s] = queue[s] BY <3>2, <2>1
      <4>3. queue[s] = IF Distance(s) < Waiting THEN Taken + 1 + Distance(s)
                                                ELSE NULL
        BY <1>a DEF Layout
      <4>4. Distance(s)' < Waiting' <=> Distance(s) < Waiting
        <5> HIDE DEF TypeOK, Slot
        <5> QED BY <4>1, <2>2, <2>4
      <4>5. Taken' + 1 + Distance(s)' = Taken + 1 + Distance(s)
        <5> HIDE DEF TypeOK, Slot
        <5> QED BY <4>1, <2>2, <1>b
      <4> QED BY <4>2, <4>3, <4>4, <4>5
    <3> QED BY <3>1, <3>2
  <2>6. \/ queue_store_pos' = queue_retrieve_pos' + Waiting'
        \/ queue_store_pos' = queue_retrieve_pos' + Waiting' - MAX_QUEUE_SIZE
        \/ queue_store_pos' = queue_retrieve_pos' + Waiting' + MAX_QUEUE_SIZE
    BY <2>1, <2>2, <2>4, <1>a DEF Layout
  <2> QED BY <2>1, <2>2, <2>4, <2>5, <2>6, <1>a DEF Layout
<1>6. CASE ProcessPacket
  <2>1. /\ consumer = "process" /\ consumer' = "test" /\ packet' = NULL
        /\ processed' = Append(processed, packet)
        /\ UNCHANGED <<queue, queue_store_pos, queue_retrieve_pos, udp, received>>
    BY <1>6 DEF ProcessPacket
  <2>2. packet \in Packet /\ packet = Len(processed) + 1
    BY <2>1, <1>a DEF Ownership, HandMatchesPc, Layout
  <2>3. Len(processed') = Len(processed) + 1 BY <2>1, <2>2
  <2>4. Stored' = Stored /\ Taken' = Taken
    BY <2>1, <2>3 DEF Stored, Taken
  <2>5. \A i \in DOMAIN processed' : processed'[i] = i
    BY <2>1, <2>2, <1>a DEF Layout
  <2> QED BY <2>1, <2>4, <2>5, <1>a DEF Layout, Waiting, Distance
<1>7. CASE QueueStore
  <2>1. /\ udp = "store" /\ udp' = "select"
        /\ queue' = [queue EXCEPT ![StoreSlot] = received]
        /\ queue_store_pos' = StoreSlot + 1
        /\ queue[StoreSlot] = NULL
        /\ UNCHANGED <<queue_retrieve_pos, received, consumer, packet, processed>>
    BY <1>7 DEF QueueStore
  <2>2. /\ Stored = received - 1 /\ Stored' = received /\ Taken' = Taken
        /\ Waiting \in Int /\ Waiting' = Waiting + 1
        /\ received = Taken + 1 + Waiting
    BY <2>1, <1>b DEF Stored, Taken, Waiting
  <2>3. StoreSlot \in Slot BY DEF StoreSlot
  <2>4. Waiting < MAX_QUEUE_SIZE /\ Distance(StoreSlot) = Waiting
    <3>1. Waiting # MAX_QUEUE_SIZE BY <2>1, <2>3, <1>a, StoreDistance
    <3>2. Waiting \in 0 .. MAX_QUEUE_SIZE BY <1>a DEF Layout
    <3>3. Waiting < MAX_QUEUE_SIZE
      <4> HIDE DEF TypeOK, Slot, Waiting
      <4> QED BY <3>1, <3>2
    <3> QED BY <3>3, <1>a, StoreDistance
  <2>5. \A s \in Slot : /\ Distance(s)' = Distance(s)
                        /\ Distance(s) \in Int
                        /\ Distance(s) = Distance(StoreSlot) => s = StoreSlot
    BY <2>1, <2>3 DEF Distance
  <2>6. \A s \in Slot : queue'[s] = IF Distance(s)' < Waiting'
                                    THEN Taken' + 1 + Distance(s)' ELSE NULL
    <3> SUFFICES ASSUME NEW s \in Slot
                 PROVE  queue'[s] = IF Distance(s)' < Waiting'
                                    THEN Taken' + 1 + Distance(s)' ELSE NULL
      OBVIOUS
    <3>1. CASE s = StoreSlot BY <3>1, <2>1, <2>2, <2>4, <2>5
    <3>2. CASE s # StoreSlot
      <4>1. queue'[s] = queue[s] BY <3>2, <2>1
      <4>2. queue[s] = IF Distance(s) < Waiting
                       THEN Taken + 1 + Distance(s) ELSE NULL
        BY <1>a DEF Layout
      <4>3. Distance(s) \in Int /\ Distance(s) # Waiting
        BY <3>2, <2>4, <2>5
      <4>4. Distance(s)' < Waiting' <=> Distance(s) < Waiting
        <5> HIDE DEF Distance, Waiting, TypeOK, Slot
        <5>1. Distance(s)' = Distance(s) BY <2>5
        <5>2. Waiting' = Waiting + 1 /\ Waiting \in Int BY <2>2
        <5> QED BY <5>1, <5>2, <4>3
      <4>5. Taken' + 1 + Distance(s)' = Taken + 1 + Distance(s)
        <5> HIDE DEF Distance, Waiting, Taken
        <5>1. Taken' = Taken /\ Distance(s)' = Distance(s) BY <2>2, <2>5
        <5> QED BY <5>1
      <4> QED BY <4>1, <4>2, <4>4, <4>5
    <3> QED BY <3>1, <3>2
  <2>7. \/ queue_store_pos' = queue_retrieve_pos' + Waiting'
        \/ queue_store_pos' = queue_retrieve_pos' + Waiting' - MAX_QUEUE_SIZE
        \/ queue_store_pos' = queue_retrieve_pos' + Waiting' + MAX_QUEUE_SIZE
    BY <2>1, <2>2, <2>3, <2>4 DEF Distance
  <2> QED BY <2>1, <2>2, <2>4, <2>6, <2>7, <1>a DEF Layout
<1> QED
  BY <1>2, <1>3, <1>4, <1>5, <1>6, <1>7 DEF Next, UdpThread, QueueThread

(* The initial state satisfies the inductive invariant. *)
LEMMA InitIInv == Init => IInv
<1> SUFFICES ASSUME Init PROVE IInv
  OBVIOUS
<1> USE QueueAssumption DEF NULL, Packet, Slot
<1>i. /\ queue = [s \in Slot |-> NULL]
      /\ queue_store_pos = 0 /\ queue_retrieve_pos = 0
      /\ udp = "select" /\ received = 0
      /\ consumer = "test" /\ packet = NULL /\ processed = <<>>
      /\ overrun = FALSE
  BY DEF Init
<1>1. TypeOK
  <2>1. queue \in [Slot -> Packet \union {NULL}] BY <1>i
  <2>2. processed \in Seq(Packet) BY <1>i
  <2>3. overrun \in BOOLEAN BY <1>i
  <2>4. /\ queue_store_pos \in 0 .. MAX_QUEUE_SIZE
        /\ queue_retrieve_pos \in Slot
        /\ received \in 0 .. MaxPackets
        /\ packet \in Packet \union {NULL}
    BY <1>i
  <2> QED BY <1>i, <2>1, <2>2, <2>3, <2>4, Zenon DEF TypeOK
<1>2. Len(processed) = 0 /\ DOMAIN processed = {} /\ Stored = 0
  BY <1>i DEF Stored
<1>3. Ownership
  BY <1>i, <1>2
  DEF Ownership, HandMatchesPc, NoneInvented, SlotsDiffer, SlotsNotProcessed,
      HandNotProcessed, HandLeavesSlot, AtMostOnce
<1>4. Taken = 0 /\ Waiting = 0 BY <1>i, <1>2 DEF Taken, Waiting
<1>5. Layout BY <1>i, <1>2, <1>4 DEF Layout, Distance
<1> QED BY <1>1, <1>3, <1>5 DEF IInv

(* The inductive invariant holds in every state of PacketQueue. *)
THEOREM Invariance == Spec => []IInv
<1>1. IInv /\ [Next]_vars => IInv'
  BY TypeStep, OwnershipStep, LayoutStep DEF IInv
<1> QED BY InitIInv, <1>1, PTL DEF Spec

(* Every variable of the buffer and of the two threads keeps its type. *)
THEOREM TypeCorrect == Spec => []TypeOK
<1>1. IInv => TypeOK BY DEF IInv
<1> QED BY Invariance, <1>1, PTL

(* queue_pop_first never hands out the same packet twice, overrun or not,    *)
(* although neither it nor queue_store takes a lock.                         *)
THEOREM ProcessedAtMostOnce == Spec => []AtMostOnce
<1>1. IInv => AtMostOnce BY DEF IInv, Ownership
<1> QED BY Invariance, <1>1, PTL

(* In the layout of an unlapped buffer, the packets in the slots are the     *)
(* Waiting ones that follow the first Taken.                                 *)
LEMMA QueuedInterval ==
  ASSUME TypeOK, Layout
  PROVE  Queued = (Taken + 1) .. Stored
<1> USE QueueAssumption DEF NULL, Slot
<1>1. /\ Taken \in Nat /\ Stored \in Int /\ Stored = Taken + Waiting
      /\ queue_retrieve_pos \in 0 .. MAX_QUEUE_SIZE - 1
      /\ Waiting \in 0 .. MAX_QUEUE_SIZE
  BY DEF TypeOK, Taken, Stored, Waiting, Layout
<1>2. \A s \in Slot : /\ Distance(s) \in Nat
                      /\ queue[s] = IF Distance(s) < Waiting
                                    THEN Taken + 1 + Distance(s) ELSE NULL
  BY <1>1 DEF Distance, Layout
<1>3. ASSUME NEW k \in (Taken + 1) .. Stored PROVE \E s \in Slot : queue[s] = k
  <2> DEFINE at == queue_retrieve_pos + (k - Taken - 1)
             s == IF at < MAX_QUEUE_SIZE THEN at ELSE at - MAX_QUEUE_SIZE
  <2>1. s \in Slot /\ Distance(s) = k - Taken - 1 BY <1>1 DEF Distance
  <2>2. Distance(s) < Waiting /\ Taken + 1 + Distance(s) = k BY <1>1, <2>1
  <2> QED BY <1>2, <2>1, <2>2
<1>4. ASSUME NEW s \in Slot, queue[s] # NULL
      PROVE  queue[s] \in (Taken + 1) .. Stored
  BY <1>1, <1>2, <1>4
<1>5. NULL \notin (Taken + 1) .. Stored BY <1>1
<1> QED BY <1>3, <1>4, <1>5 DEF Queued

(* The inductive invariant is stronger than the FIFO property. *)
LEMMA IInvIsFifo == ASSUME IInv PROVE LosslessFifo
<1>1. SUFFICES ASSUME ~overrun
               PROVE  /\ \A i \in DOMAIN processed : processed[i] = i
                      /\ Queued \union InHand = (Len(processed) + 1) .. Stored
    BY DEF LosslessFifo
<1> QED
  <2>1. TypeOK /\ Layout /\ HandMatchesPc /\ NoneInvented
    BY <1>1 DEF IInv, Ownership
  <2>2. /\ Queued = (Taken + 1) .. Stored
        /\ Len(processed) \in Nat /\ Stored \in Int
        /\ Waiting \in Nat /\ Waiting = Stored - Taken
    BY <2>1, QueuedInterval DEF TypeOK, Stored, Layout, Waiting
  <2>3. CASE consumer = "process"
    <3>1. InHand = {Len(processed) + 1}
      BY <2>1, <2>3 DEF HandMatchesPc, Layout, InHand
    <3>2. Len(processed) + 1 <= Stored
      BY <2>1, <2>3 DEF HandMatchesPc, NoneInvented, Layout
    <3> QED BY <2>1, <2>2, <2>3, <3>1, <3>2 DEF Taken, Layout
  <2>4. CASE consumer # "process"
    <3>1. packet # NULL => packet = Len(processed) + 1 /\ packet <= Stored
      BY <2>1 DEF NoneInvented, Layout
    <3>2. InHand \subseteq (Len(processed) + 1) .. Stored
      BY <2>2, <3>1 DEF InHand
    <3> QED BY <2>1, <2>2, <2>4, <3>2 DEF Taken, Layout
  <2> QED BY <2>3, <2>4

(* Until queue_store overwrites a packet, packets come out in the order they *)
(* went in, and those that did not come out are still there.                 *)
THEOREM LosslessUntilOverrun == Spec => []LosslessFifo
<1> QED BY Invariance, IInvIsFifo, PTL

(* queue_store overwrites a packet for the first time only when every slot   *)
(* holds one.                                                                *)
THEOREM OverrunOnlyWhenFull == Spec => OverrunNeedsFullQueue
<1>1. ASSUME IInv, [Next]_vars, ~overrun, overrun'
      PROVE  \A s \in Slot : queue[s] # NULL
  <2>1. TypeOK /\ Layout BY <1>1 DEF IInv
  <2>2. queue[StoreSlot] # NULL
    BY <1>1 DEF Next, UdpThread, QueueThread, UdpRead, UdpReadFails, QueueStore,
                PopNothing, PopTest, PopRead, PopClear, ProcessPacket, WakeUp,
                vars
  <2>3. StoreSlot \in Slot
    BY <2>1, QueueAssumption DEF TypeOK, StoreSlot, Slot
  <2>4. Waiting = MAX_QUEUE_SIZE
    <3> SUFFICES ASSUME Waiting < MAX_QUEUE_SIZE PROVE FALSE
      BY <2>1, QueueAssumption DEF Layout
    <3>1. Distance(StoreSlot) = Waiting BY <2>1, StoreDistance
    <3>2. Waiting \in Int BY <2>1, QueueAssumption DEF Layout
    <3> QED BY <2>1, <2>2, <2>3, <3>1, <3>2 DEF Layout
  <2> QED BY <2>1, <2>4, StoreDistance
<1>2. IInv /\ [Next]_vars
        => [~overrun /\ overrun' => \A s \in Slot : queue[s] # NULL]_vars
  BY <1>1
<1> QED BY Invariance, <1>2, PTL DEF Spec, OverrunNeedsFullQueue

(* p_thread_queue goes to sleep only when no packet waits, until an overrun. *)
THEOREM NoSleepOverWork == Spec => SleepOnlyWhenEmpty
<1>1. ASSUME IInv, [Next]_vars, consumer # "sleep", consumer' = "sleep", ~overrun
      PROVE  Queued = {}
  <2>1. TypeOK /\ Layout BY <1>1 DEF IInv
  <2>2. queue[queue_retrieve_pos] = NULL
    BY <1>1 DEF Next, UdpThread, QueueThread, UdpRead, UdpReadFails, QueueStore,
                PopNothing, PopTest, PopRead, PopClear, ProcessPacket, WakeUp,
                udpVars, consumerVars, vars
  <2>3. queue_retrieve_pos \in Slot /\ Distance(queue_retrieve_pos) = 0
    BY <2>1 DEF TypeOK, Distance, Slot
  <2>4. Taken \in Nat /\ Stored \in Int BY <2>1 DEF TypeOK, Taken, Stored
  <2>5. Waiting = 0
    BY <2>1, <2>2, <2>3, <2>4, QueueAssumption DEF Layout, NULL
  <2> QED BY <2>1, <2>4, <2>5, QueuedInterval DEF Waiting
<1>2. IInv /\ [Next]_vars
        => [consumer # "sleep" /\ consumer' = "sleep" /\ ~overrun
              => Queued = {}]_vars
  BY <1>1
<1> QED BY Invariance, <1>2, PTL DEF Spec, SleepOnlyWhenEmpty

------------------------------------------------------------------------------
(* The buffer implements the channel. *)

Backlog == Queued \union InHand

(* A set with an element for each slot but one has fewer elements than there *)
(* are slots.                                                                *)
LEMMA FewerThanSlots ==
  ASSUME TypeOK, NEW e \in Slot, queue[e] = NULL
  PROVE  /\ IsFiniteSet(Backlog)
         /\ Cardinality(Backlog) <= MAX_QUEUE_SIZE
<1> DEFINE Others == Slot \ {e}
           f == [s \in Others |-> queue[s]]
           Image == {queue[s] : s \in Others}
<1>1. /\ IsFiniteSet(Slot) /\ Cardinality(Slot) = MAX_QUEUE_SIZE
  BY FS_Interval, QueueAssumption DEF Slot
<1>2. /\ IsFiniteSet(Others) /\ Cardinality(Others) = MAX_QUEUE_SIZE - 1
  BY <1>1, FS_RemoveElement
<1>3. f \in Surjection(Others, Image) BY DEF Surjection
<1>4. /\ IsFiniteSet(Image) /\ Cardinality(Image) <= Cardinality(Others)
  <2> HIDE DEF Others, f, Image
  <2> QED BY <1>2, <1>3, FS_Surjection
<1>5. /\ IsFiniteSet(Image \union {packet})
      /\ Cardinality(Image \union {packet}) <= Cardinality(Image) + 1
  <2> HIDE DEF Image
  <2>1. Cardinality(Image) \in Nat BY <1>4, FS_CardinalityType
  <2>2. IsFiniteSet(Image \union {packet}) BY <1>4, FS_AddElement
  <2>3. Cardinality(Image \union {packet}) =
          IF packet \in Image THEN Cardinality(Image) ELSE Cardinality(Image) + 1
    BY <1>4, FS_AddElement
  <2> QED BY <2>1, <2>2, <2>3
<1>6. Backlog \subseteq Image \union {packet}
  BY DEF Backlog, Queued, InHand
<1>7. /\ IsFiniteSet(Backlog)
      /\ Cardinality(Backlog) <= Cardinality(Image \union {packet})
  BY <1>5, <1>6, FS_Subset
<1>8. /\ Cardinality(Backlog) \in Nat /\ Cardinality(Image) \in Nat
      /\ Cardinality(Image \union {packet}) \in Nat
  BY <1>4, <1>5, <1>7, FS_CardinalityType
<1> HIDE DEF Others, f, Image
<1> QED BY <1>2, <1>4, <1>5, <1>7, <1>8, QueueAssumption

(* PacketChannel counts with the same Cardinality. *)
LEMMA ChannelCardinality ==
  ASSUME NEW S PROVE Channel!Cardinality(S) = Cardinality(S)
BY DEF Channel!Cardinality, Cardinality

(* queue_store is Accept when the slot is empty and AcceptReplacing else. *)
LEMMA StoreRefines ==
  ASSUME IInv, QueueStore
  PROVE  Channel!Accept \/ Channel!AcceptReplacing
<1> USE DEF NULL
<1>1. /\ TypeOK /\ NoneInvented /\ SlotsDiffer /\ LosslessFifo
      /\ ~overrun => Layout
  BY IInvIsFifo DEF IInv, Ownership
<1>2. /\ udp = "store" /\ udp' = "select"
      /\ queue' = [queue EXCEPT ![StoreSlot] = received]
      /\ UNCHANGED <<received, packet, processed>>
      /\ StoreSlot \in Slot
  BY <1>1, QueueAssumption
  DEF QueueStore, consumerVars, TypeOK, StoreSlot, Slot
<1>3. /\ Stored' = Stored + 1 /\ Stored' = received
      /\ received # NULL /\ InHand' = InHand
  BY <1>1, <1>2 DEF TypeOK, Stored, InHand
<1>4. \A s \in Slot : queue'[s] = IF s = StoreSlot THEN received ELSE queue[s]
  BY <1>1, <1>2 DEF TypeOK
<1>5. CASE queue[StoreSlot] = NULL
  <2>1. Cardinality(Backlog) <= MAX_QUEUE_SIZE
    BY <1>1, <1>2, <1>5, FewerThanSlots
  <2>2. Queued' = Queued \union {Stored'}
    BY <1>2, <1>3, <1>4, <1>5 DEF Queued
  <2>3. overrun' = overrun BY <1>1, <1>5, Zenon DEF QueueStore, TypeOK
  <2>4. Backlog' = Backlog \union {Stored'} BY <2>2, <1>3 DEF Backlog
  <2>5. UNCHANGED <<processed, overrun>> BY <2>3, <1>2
  <2>6. Channel!Cardinality(Backlog) <= MAX_QUEUE_SIZE
    BY <2>1, ChannelCardinality
  <2> QED BY <2>4, <2>5, <2>6, <1>3 DEF Channel!Accept, Backlog
<1>6. CASE queue[StoreSlot] # NULL
  <2> DEFINE old == queue[StoreSlot]
             gone == IF old \in InHand THEN {} ELSE {old}
  <2>1. Queued' = (Queued \ {old}) \union {Stored'}
    BY <1>1, <1>2, <1>3, <1>4, <1>6 DEF Queued, SlotsDiffer
  <2>2. gone \in SUBSET Backlog BY <1>2, <1>6 DEF Backlog, Queued
  <2>3. Cardinality(gone) <= 1
    <3>1. Cardinality(gone) = 0 \/ Cardinality(gone) = 1
      <4>1. gone = {} \/ gone = {old} OBVIOUS
      <4> HIDE DEF gone, old
      <4> QED BY <4>1, FS_EmptySet, FS_Singleton, Zenon
    <3> QED BY <3>1
  <2>4. Backlog' = (Backlog \ gone) \union {Stored'}
    BY <2>1, <1>3 DEF Backlog
  <2>5. overrun' = TRUE BY <1>6 DEF QueueStore
  <2>6. overrun \/ Cardinality(Backlog) >= MAX_QUEUE_SIZE
    <3> SUFFICES ASSUME ~overrun
                 PROVE  Cardinality(Backlog) >= MAX_QUEUE_SIZE
      OBVIOUS
    <3>1. Backlog = (Len(processed) + 1) .. Stored
      BY <1>1 DEF LosslessFifo, Backlog
    <3>2. Distance(StoreSlot) \in Int /\ Layout
      BY <1>1, <1>2, QueueAssumption DEF Distance, TypeOK, Slot
    <3>3. Waiting = MAX_QUEUE_SIZE
      <4> SUFFICES ASSUME Waiting < MAX_QUEUE_SIZE PROVE FALSE
        BY <3>2, QueueAssumption DEF Layout
      <4>1. Distance(StoreSlot) = Waiting BY <1>1, <3>2, StoreDistance
      <4> QED BY <1>2, <1>6, <3>2, <4>1 DEF Layout
    <3>4. /\ Stored \in Int /\ Len(processed) \in Nat
          /\ Stored - Len(processed) >= MAX_QUEUE_SIZE
      BY <1>1, <3>3, QueueAssumption DEF TypeOK, Stored, Waiting, Taken
    <3>5. Cardinality(Backlog) = Stored - Len(processed)
      BY <3>1, <3>4, FS_Interval, QueueAssumption
    <3> QED BY <3>4, <3>5
  <2> HIDE DEF gone
  <2>7. UNCHANGED processed BY <1>2
  <2>8. /\ overrun \/ Channel!Cardinality(Backlog) >= MAX_QUEUE_SIZE
        /\ Channel!Cardinality(gone) <= 1
    BY <2>3, <2>6, ChannelCardinality
  <2> QED BY <2>2, <2>4, <2>5, <2>7, <2>8, <1>3
          DEF Channel!AcceptReplacing, Backlog
<1> QED BY <1>5, <1>6

(* queue_pop_first clears the slot it read, which the channel does not see,  *)
(* or one that was overwritten meanwhile, whose packet is lost.              *)
LEMMA ClearRefines ==
  ASSUME IInv, PopClear
  PROVE  Channel!Lose \/ UNCHANGED Channel!channelVars
<1> USE DEF NULL
<1>1. TypeOK /\ HandMatchesPc /\ SlotsDiffer BY DEF IInv, Ownership
<1>2. /\ consumer = "clear"
      /\ queue' = [queue EXCEPT ![queue_retrieve_pos] = NULL]
      /\ UNCHANGED <<udp, received, packet, processed, overrun>>
  BY DEF PopClear, udpVars
<1>3. Stored' = Stored /\ InHand' = InHand BY <1>2 DEF Stored, InHand
<1> DEFINE old == queue[queue_retrieve_pos]
<1>4. /\ old # NULL /\ packet # NULL
      /\ queue_retrieve_pos \in Slot
      /\ queue \in [Slot -> Packet \union {NULL}]
  <2>1. old # NULL /\ packet # NULL BY <1>1, <1>2 DEF HandMatchesPc
  <2> QED BY <2>1, <1>1 DEF TypeOK
<1>5. \A s \in Slot : queue'[s] = IF s = queue_retrieve_pos THEN NULL ELSE queue[s]
  BY <1>2, <1>4
<1>6. Queued' = Queued \ {old} /\ old \in Queued
  BY <1>1, <1>4, <1>5 DEF Queued, SlotsDiffer
<1>7. CASE old = packet
  <2>1. Backlog' = Backlog BY <1>3, <1>4, <1>6, <1>7 DEF Backlog, InHand
  <2> QED BY <2>1, <1>2, <1>3 DEF Channel!channelVars, Backlog
<1>8. CASE old # packet
  <2>1. overrun
    <3> SUFFICES ASSUME ~overrun PROVE FALSE
      OBVIOUS
    <3> Layout BY DEF IInv
    <3>1. Distance(queue_retrieve_pos) = 0 /\ Taken = Len(processed)
      BY <1>2, <1>4, QueueAssumption DEF Distance, Taken, Slot
    <3>2. old = Taken + 1
      <4>1. old = IF 0 < Waiting THEN Taken + 1 + 0 ELSE NULL
        BY <1>1, <1>4, <3>1 DEF Layout
      <4>2. Taken \in Nat BY <1>1, <3>1 DEF TypeOK
      <4> QED BY <1>4, <4>1, <4>2
    <3> QED BY <1>1, <1>4, <1>8, <3>1, <3>2 DEF Layout
  <2>2. Backlog' = Backlog \ {old}
    BY <1>3, <1>6, <1>8 DEF Backlog, InHand
  <2> QED BY <2>1, <2>2, <1>2, <1>3, <1>6 DEF Channel!Lose, Backlog
<1> QED BY <1>7, <1>8

(* A packet that is processed leaves the channel, the oldest one first until *)
(* an overrun.                                                               *)
LEMMA ProcessRefines ==
  ASSUME IInv, ProcessPacket
  PROVE  Channel!Deliver
<1> USE DEF NULL
<1>1. /\ TypeOK /\ HandMatchesPc /\ HandLeavesSlot /\ LosslessFifo
      /\ ~overrun => Layout
  BY IInvIsFifo DEF IInv, Ownership
<1>2. /\ consumer = "process" /\ packet' = NULL
      /\ processed' = Append(processed, packet)
      /\ UNCHANGED <<queue, udp, received, overrun>>
  BY DEF ProcessPacket, udpVars
<1>3. packet # NULL BY <1>1, <1>2 DEF HandMatchesPc
<1>4. /\ Stored' = Stored /\ Queued' = Queued /\ InHand' = {}
      /\ InHand = {packet}
  BY <1>2, <1>3 DEF Stored, Queued, InHand
<1>5. packet \notin Queued
  BY <1>1, <1>2, <1>3 DEF HandLeavesSlot, Queued
<1>6. packet \in Backlog /\ Backlog' = Backlog \ {packet}
  BY <1>4, <1>5 DEF Backlog
<1>7. overrun \/ \A other \in Backlog : packet <= other
  <2> SUFFICES ASSUME ~overrun, NEW other \in Backlog PROVE packet <= other
    OBVIOUS
  <2>1. packet = Len(processed) + 1 BY <1>1, <1>3 DEF Layout
  <2>2. other \in (Len(processed) + 1) .. Stored
    BY <1>1 DEF LosslessFifo, Backlog
  <2> QED BY <1>1, <2>1, <2>2 DEF TypeOK, Stored
<1> QED BY <1>2, <1>4, <1>6, <1>7 DEF Channel!Deliver, Backlog

(* The two threads and the unlocked buffer implement PacketChannel: until an *)
(* overrun a lossless FIFO, and after one still no packet twice.             *)
THEOREM ImplementsChannel == Spec => RefinesChannel
<1>1. Init => Channel!Init
  <2> SUFFICES ASSUME Init PROVE Channel!Init
    OBVIOUS
  <2>1. Stored = 0 /\ Queued = {} /\ InHand = {}
    BY DEF Init, Stored, Queued, InHand, NULL
  <2> QED BY <2>1 DEF Init, Channel!Init
<1>2. IInv /\ [Next]_vars => [Channel!Next]_(Channel!channelVars)
  <2> SUFFICES ASSUME IInv, [Next]_vars
               PROVE  Channel!Next \/ UNCHANGED Channel!channelVars
    OBVIOUS
  <2>1. TypeOK /\ HandMatchesPc BY DEF IInv, Ownership
  <2>2. ASSUME Stored' = Stored, Backlog' = Backlog,
               UNCHANGED <<processed, overrun>>
        PROVE  UNCHANGED Channel!channelVars
    BY <2>2 DEF Channel!channelVars, Backlog
  <2>3. CASE UdpRead
    BY <2>1, <2>2, <2>3
    DEF UdpRead, TypeOK, Stored, Backlog, Queued, InHand, consumerVars
  <2>4. CASE UdpReadFails
    BY <2>1, <2>2, <2>4
    DEF UdpReadFails, TypeOK, Stored, Backlog, Queued, InHand, consumerVars
  <2>5. CASE QueueStore BY <2>5, StoreRefines DEF Channel!Next
  <2>6. CASE PopNothing \/ PopTest \/ WakeUp
    BY <2>2, <2>6 DEF PopNothing, PopTest, WakeUp, Stored, Backlog, Queued,
                      InHand, udpVars
  <2>7. CASE PopRead
    <3>1. /\ InHand = {} /\ InHand' = {queue[queue_retrieve_pos]} \ {NULL}
          /\ queue[queue_retrieve_pos] \in Queued
          /\ UNCHANGED <<queue, udp, received, processed, overrun>>
      BY <2>1, <2>7 DEF PopRead, HandMatchesPc, TypeOK, InHand, Queued, udpVars
    <3> QED BY <2>2, <3>1 DEF Backlog, Queued, Stored
  <2>8. CASE PopClear BY <2>8, ClearRefines DEF Channel!Next
  <2>9. CASE ProcessPacket BY <2>9, ProcessRefines DEF Channel!Next
  <2>10. CASE UNCHANGED vars
    BY <2>2, <2>10 DEF vars, Stored, Backlog, Queued, InHand
  <2> QED
    BY <2>3, <2>4, <2>5, <2>6, <2>7, <2>8, <2>9, <2>10
    DEF Next, UdpThread, QueueThread
<1> QED BY Invariance, <1>1, <1>2, PTL DEF Spec, RefinesChannel, Channel!Spec

==============================================================================
