---------------------------- MODULE MCPacketQueue ----------------------------
(* PacketQueue with four slots and eleven datagrams: the writer can wrap     *)
(* twice and lap the reader at every position the reader can stand at.       *)
EXTENDS PacketQueue

==============================================================================
