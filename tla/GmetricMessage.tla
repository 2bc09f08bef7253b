--------------------------- MODULE GmetricMessage ---------------------------
(***************************************************************************)
(* The messages of src/src/embeddedgmetric/embeddedgmetric.c: how many     *)
(* bytes XDR makes of the fields.  The encoders write to a buffer of       *)
(* GMETRIC_MAX_MESSAGE_LEN bytes and return -1 as soon as a field does not *)
(* fit; -1 as a length makes sendto fail.                                  *)
(*                                                                         *)
(* A message is the lengths of its strings: name, group, hostname, value,  *)
(* units and type; the other fields take four bytes each.                  *)
(***************************************************************************)
EXTENDS Integers

GMETRIC_MAX_MESSAGE_LEN == 1024

(* Four bytes for the length, then the characters in fours. *)
xdr_string(n) == 4 + 4 * ((n + 3) \div 4)
xdr_u_int == 4

(* The encoders stop at the first field that does not fit, so they succeed  *)
(* when all fields do.                                                      *)
Fits(bytes) == bytes <= GMETRIC_MAX_MESSAGE_LEN

(* 128, hostname, name, spoof, type, name, units, slope, tmax, dmax, and    *)
(* the group with its key "GROUP" or not.                                   *)
gmetadata_message_create_xdr(msg) ==
  xdr_u_int + xdr_string(msg.hostname) + xdr_string(msg.name) + xdr_u_int
  + xdr_string(msg.type) + xdr_string(msg.name) + xdr_string(msg.units)
  + 3 * xdr_u_int + xdr_u_int
  + IF msg.group = 0 THEN 0 ELSE xdr_string(5) + xdr_string(msg.group)

(* 128 + type, hostname, name, spoof, "%s", value. *)
gmetric31_message_create_xdr(msg) ==
  xdr_u_int + xdr_string(msg.hostname) + xdr_string(msg.name) + xdr_u_int
  + xdr_string(2) + xdr_string(msg.value)
==============================================================================
