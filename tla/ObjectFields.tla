---------------------------- MODULE ObjectFields ----------------------------
(***************************************************************************)
(* What an object of json-c promises (src/src/json-c/json_object.h): its   *)
(* fields in the order in which their last values were added, one for each *)
(* name.  Module LinkHash implements it, JsonTokener and Persistence rely  *)
(* on it.                                                                  *)
(***************************************************************************)
EXTENDS Sequences, SequencesExt

CONSTANTS Key, Value

VARIABLE fields   \* <<name, value>> pairs

Init == fields = <<>>

(* A name that is there already gives up its value and its place. *)
Without(k) ==
  IF \E i \in DOMAIN fields : fields[i][1] = k
  THEN RemoveAt(fields, CHOOSE i \in DOMAIN fields : fields[i][1] = k)
  ELSE fields
Add(k, v) == fields' = Append(Without(k), <<k, v>>)

Next == \E k \in Key, v \in Value : Add(k, v)

Spec == Init /\ [][Next]_fields
==============================================================================
