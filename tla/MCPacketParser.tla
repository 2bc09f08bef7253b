--------------------------- MODULE MCPacketParser ---------------------------
(* PacketParser with packets of up to three tokens, which may leave any      *)
(* charvalue for the one after them.                                         *)
EXTENDS PacketParser, TLC

(* A packet's key is only copied and compared: the names can be exchanged.   *)
Alike == Permutations(Name)

==============================================================================
