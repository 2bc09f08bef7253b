---------------------------- MODULE JsonPrinter ----------------------------
(***************************************************************************)
(* json_object_to_json_string (src/src/json-c/json_object.c): the text of  *)
(* a value, as the atoms that JsonTokener reads.                           *)
(*                                                                         *)
(* A value is a pair of its type and its contents: the fields of an object *)
(* in the order of its table, the elements of an array, the atoms of a     *)
(* string, the word true or false, or a number in decimal notation: the    *)
(* digits of an int, and those of a double with any number of them after   *)
(* the point, or one of NotFinite.                                         *)
(***************************************************************************)
EXTENDS Integers, Sequences, SequencesExt

CONSTANTS
  UcsDigits,       \* how many hex digits follow \u (4)
  FractionDigits   \* how many digits %lf prints after the point (6)

null == <<"null", <<>>>>
Field(k, v) == [key |-> k, val |-> v]

(* json_escape_str: "ucs" is a character below the space. *)
EscapeChar(ch) ==
  CASE ch \in {"\"", "\\", "/"} -> <<"\\", ch>>
    [] ch = "\n" -> <<"\\", "n">>
    [] ch = "ucs" -> <<"\\", "u">> \o [i \in 1 .. UcsDigits |-> "1"]
    [] OTHER -> <<ch>>

(* For the sensitivity check: the slash and the quote are left as they are. *)
EscapeNothing(s) == s

json_escape_str(s) == FlattenSeq([i \in DOMAIN s |-> EscapeChar(s[i])])

Word(w) == CASE w = "null" -> <<"nu", "ll">> [] w = "true" -> <<"tr", "ue">>
             [] w = "false" -> <<"fa", "lse">>

(* "%lf": a fixed number of digits after the point, whatever the double has. *)
(* A digit stands for all of them, so the last one may have been rounded.    *)
BeforePoint(s) == SubSeq(s, 1, SelectInSeq(s, LAMBDA ch : ch = ".") - 1)
ToFraction(s) ==
  BeforePoint(s) \o <<".">> \o [i \in 1 .. FractionDigits |-> "1"]

(* Infinity and nan are printed as words; nan begins like null. *)
NotFinite == {<<"inf">>, <<"-", "inf">>, <<"nan">>}
double_to_json_string(s) ==
  CASE s = <<"nan">> -> <<"nu", "a">>
    [] s \in NotFinite \ {<<"nan">>} -> s
    [] OTHER -> ToFraction(s)

RECURSIVE json_object_to_json_string(_)

object_to_json_string(fields) ==
  LET Text(f) == <<" ", "\"">> \o json_escape_str(f.key) \o
                 <<"\"", ":", " ">> \o json_object_to_json_string(f.val)
  IN <<"{">> \o FlattenSeq([i \in DOMAIN fields |->
                  IF i = 1 THEN Text(fields[i]) ELSE <<",">> \o Text(fields[i])])
     \o <<" ", "}">>

array_to_json_string(elements) ==
  <<"[">> \o FlattenSeq([i \in DOMAIN elements |->
               (IF i = 1 THEN <<" ">> ELSE <<",", " ">>)
               \o json_object_to_json_string(elements[i])])
  \o <<" ", "]">>

string_to_json_string(s) == <<"\"">> \o json_escape_str(s) \o <<"\"">>

json_object_to_json_string(v) ==
  CASE v[1] = "object" -> object_to_json_string(v[2])
    [] v[1] = "array" -> array_to_json_string(v[2])
    [] v[1] = "string" -> string_to_json_string(v[2])
    [] v[1] = "boolean" -> Word(v[2])
    [] v[1] = "null" -> Word("null")
    [] v[1] = "double" -> double_to_json_string(v[2])
    [] v[1] = "int" -> v[2]
==============================================================================
