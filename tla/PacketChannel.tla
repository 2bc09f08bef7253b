---------------------------- MODULE PacketChannel ----------------------------
(***************************************************************************)
(* What the packet queue of statsd promises to the threads at its two      *)
(* ends, without slots, positions or NULL tests.                           *)
(*                                                                         *)
(* Packets are numbered in the order in which the UDP thread reads them.   *)
(* `backlog` is the set of packets accepted and not yet processed, lost    *)
(* ones excluded.  Until an overrun happens the channel is a bounded,      *)
(* lossless FIFO.  An overrun is possible only when Capacity packets wait; *)
(* from then on the channel may lose a packet or deliver out of order, but *)
(* it still never delivers a packet twice and never invents one.           *)
(***************************************************************************)
EXTENDS Naturals, Sequences, FiniteSets

CONSTANT Capacity    \* the number of packets that fit without an overrun

VARIABLES
  accepted,          \* how many packets entered the channel
  backlog,           \* the accepted packets that may still come out
  delivered,         \* the packets that came out, in that order
  overrun            \* TRUE from the first overwritten packet on

channelVars == <<accepted, backlog, delivered, overrun>>

Init ==
  /\ accepted = 0
  /\ backlog = {}
  /\ delivered = <<>>
  /\ overrun = FALSE

(* A packet enters and every accepted packet is kept.  One more than         *)
(* Capacity fit when one of them is in the hands of the consumer.            *)
Accept ==
  /\ Cardinality(backlog) <= Capacity
  /\ accepted' = accepted + 1
  /\ backlog' = backlog \union {accepted + 1}
  /\ UNCHANGED <<delivered, overrun>>

(* A packet enters in the place of another one.  The first time, the channel *)
(* is full.  The packet that leaves the backlog may be none at all when the  *)
(* replaced one is already in the hands of the consumer.                     *)
AcceptReplacing ==
  /\ overrun \/ Cardinality(backlog) >= Capacity
  /\ accepted' = accepted + 1
  /\ \E gone \in SUBSET backlog :
        /\ Cardinality(gone) <= 1
        /\ backlog' = (backlog \ gone) \union {accepted + 1}
  /\ overrun' = TRUE
  /\ UNCHANGED delivered

(* Only an overrun channel loses a packet on the way out. *)
Lose ==
  /\ overrun
  /\ \E p \in backlog : backlog' = backlog \ {p}
  /\ UNCHANGED <<accepted, delivered, overrun>>

(* The oldest packet comes out, or any packet once the channel overran. *)
Deliver ==
  /\ \E p \in backlog :
        /\ overrun \/ \A other \in backlog : p <= other
        /\ backlog' = backlog \ {p}
        /\ delivered' = Append(delivered, p)
  /\ UNCHANGED <<accepted, overrun>>

Next == Accept \/ AcceptReplacing \/ Lose \/ Deliver

Spec == Init /\ [][Next]_channelVars

==============================================================================
