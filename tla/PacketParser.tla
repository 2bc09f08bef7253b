---------------------------- MODULE PacketParser ----------------------------
(***************************************************************************)
(* What the queue thread makes of a packet (src/src/statsd.c,              *)
(* process_stats_packet and process_json_stats_packet): which updates of   *)
(* the tables, with which values.                                          *)
(*                                                                         *)
(* A text packet is  key:token:token...,  a token is  field|field|...; a   *)
(* field is one of a few strings that the code tells apart.  strtok_r      *)
(* skips empty tokens and fields.  The value of a token goes through the   *)
(* pointer charvalue, which lives for the whole packet, is not initialised *)
(* and is freed by a gauge: what a token without a value of its own reads  *)
(* there is undefined, and so is what follows.                             *)
(*                                                                         *)
(* A JSON packet is a document that parses or does not; one object is      *)
(* handled as an array of one.  A member that is null is as one that is    *)
(* missing.  Names are what sanitize_key made of them.                     *)
(***************************************************************************)
EXTENDS Integers, Sequences

CONSTANTS
  Name,       \* keys of counters, timers and gauges
  NULL,
  MaxTokens   \* bound: tokens after the key, or elements of a JSON array

ASSUME ParserAssumption ==
  /\ NULL \notin Name
  /\ MaxTokens \in Nat \ {0}

Value == {"3", "5", "-3", "+3"}
Field == Value \union {"", "c", "g", "ms", "@0.5", "@"}
Token == Field \X Field \X Field \union Field \X Field
           \union {<<f>> : f \in Field \ {""}}

VARIABLES
  pc,         \* "idle", in a "text", "json" or "bad_json" packet, "crashed"
  key,        \* the packet's key, the element's in JSON
  token,      \* the token that was processed last, <<>> before the first
  element,    \* the JSON element that was processed last, NULL before it
  count,      \* tokens after the key, or elements, so far
  charvalue,  \* the text charvalue points to
  pointer,    \* charvalue itself: "unset", "live" or "freed"
  update,     \* the last update, NULL before the first of a packet
  made,       \* how many updates the packet made
  undefined,  \* a value was read through a charvalue that is not live
  seen        \* last_msg_seen was set for this packet

vars == <<pc, key, token, element, count, charvalue, pointer, update, made,
          undefined, seen>>

Init ==
  /\ pc = "idle"
  /\ key = NULL /\ token = <<>> /\ element = NULL /\ count = 0
  /\ charvalue = "" /\ pointer = "unset"
  /\ update = NULL /\ made = 0
  /\ undefined = FALSE
  /\ seen = TRUE

------------------------------------------------------------------------------
(* What the conversions keep of a field. *)

(* sanitize_gaugevalue: digits, point and signs. *)
GaugeText(f) ==
  CASE f \in Value -> f
    [] f = "@0.5"  -> "0.5"
    [] OTHER       -> ""

(* sanitize_value drops the plus; strtod of nothing is 0.  Numbers count     *)
(* halves.                                                                   *)
Number(text) ==
  CASE text \in {"3", "+3"} -> 6
    [] text = "5"           -> 10
    [] text = "-3"          -> -6
    [] text = "0.5"         -> 1
    [] OTHER                -> 0

NumberRead == {Number(GaugeText(f)) : f \in Field}

(* update_counter: value * (1 / sample_rate), or value for a rate of 0. *)
Amount(value, rate) == IF rate = 0 THEN value ELSE (2 * value) \div rate

(* strtok_r(token, "|") returns the fields that are not empty; a token of    *)
(* this module has three fields at most.                                     *)
Subtoken(t, i) == IF Len(t) < i \/ t[i] = "" THEN <<>> ELSE <<t[i]>>
Fields(t) == Subtoken(t, 1) \o Subtoken(t, 2) \o Subtoken(t, 3)

HasPipe(t) == Len(t) > 1
HasValue(t) == HasPipe(t) /\ Fields(t) # <<>>

IsTimer(t) == HasPipe(t) /\ Len(Fields(t)) > 1 /\ Fields(t)[2] = "ms"
IsGauge(t) == HasPipe(t) /\ Len(Fields(t)) > 1 /\ Fields(t)[2] = "g"

SampleRate(t) ==
  CASE HasPipe(t) /\ Len(Fields(t)) > 2 /\ Fields(t)[3] = "@0.5" -> Number("0.5")
    [] HasPipe(t) /\ Len(Fields(t)) > 2 /\ Fields(t)[3] = "@"    -> Number("")
    [] OTHER                                                     -> 2

(* What statsd_client's main makes of its options -t or -c, -v and -s:      *)
(* "%s:%ld||%d" for a timer, "%s:%ld|c" for a counter.  Without -v the      *)
(* value is not initialised.                                                *)
ClientToken(timer, value, sample_rate) ==
  IF timer THEN <<value, "", sample_rate>> ELSE <<value, "c">>

(* For the sensitivity check: a value is kept if there is one already. *)
ValueAfterKept(t) ==
  IF HasValue(t) /\ pointer = "unset"
  THEN [text |-> GaugeText(Fields(t)[1]), pointer |-> "live"]
  ELSE [text |-> charvalue, pointer |-> pointer]

(* charvalue once the fields of t have been read *)
ValueAfter(t) ==
  IF HasValue(t) THEN [text |-> GaugeText(Fields(t)[1]), pointer |-> "live"]
                 ELSE [text |-> charvalue, pointer |-> pointer]

------------------------------------------------------------------------------
Start(at) ==
  /\ pc = "idle"
  /\ pc' = at
  /\ token' = <<>> /\ element' = NULL /\ count' = 0
  /\ charvalue' = "" /\ pointer' = "unset"
  /\ update' = NULL /\ made' = 0
  /\ undefined' = FALSE

(* Fewer than two characters: nothing but the time is noted. *)
TakeShortPacket ==
  /\ Start("idle")
  /\ key' = NULL
  /\ seen' = TRUE

TakeTextPacket(k) ==
  /\ Start("text")
  /\ key' = k
  /\ seen' = FALSE

(* Nothing but colons: the key is NULL when it is looked up. *)
TakeEmptyPacket ==
  /\ Start("crashed")
  /\ key' = NULL
  /\ seen' = FALSE

Updated(u) == update' = u /\ made' = made + 1

(* One round of the loop over tokens, but for the update itself *)
NextToken(t) ==
  /\ pc = "text"
  /\ count < MaxTokens
  /\ count' = count + 1
  /\ token' = t
  /\ UNCHANGED <<pc, key, element, seen>>

TimerToken(t) ==
  /\ NextToken(t)
  /\ IsTimer(t)
  /\ LET v == ValueAfter(t)
     IN  /\ v.pointer = "live"
         /\ Updated([op |-> "timer", key |-> key, value |-> Number(v.text)])
         /\ charvalue' = v.text /\ pointer' = v.pointer
  /\ UNCHANGED undefined

(* A leading minus subtracts, a leading plus adds, and what follows is the   *)
(* value; charvalue is freed and keeps its address.                          *)
GaugeToken(t) ==
  /\ NextToken(t)
  /\ IsGauge(t)
  /\ LET v == ValueAfter(t)
     IN  /\ v.pointer = "live"
         /\ Updated([op    |-> CASE v.text = "-3" -> "minus_gauge"
                                  [] v.text = "+3" -> "plus_gauge"
                                  [] OTHER         -> "gauge",
                     key   |-> key,
                     value |-> Number(IF v.text = "-3" THEN "3" ELSE v.text)])
         /\ charvalue' = v.text /\ pointer' = "freed"
  /\ UNCHANGED undefined

CounterToken(t) ==
  /\ NextToken(t)
  /\ ~IsTimer(t) /\ ~IsGauge(t)
  /\ LET v == ValueAfter(t)
     IN  /\ v.pointer = "live"
         /\ Updated([op |-> "counter", key |-> key,
                     value |-> Amount(Number(v.text), SampleRate(t))])
         /\ charvalue' = v.text /\ pointer' = v.pointer
  /\ UNCHANGED undefined

(* The same with a charvalue that was never set or is freed: any number. *)
StaleToken(t) ==
  /\ NextToken(t)
  /\ ValueAfter(t).pointer # "live"
  /\ \E n \in NumberRead :
       Updated([op |-> "counter", key |-> key,
                value |-> Amount(n, SampleRate(t))])
  /\ undefined' = TRUE
  /\ UNCHANGED <<charvalue, pointer>>

(* ... or the end of the process. *)
StaleTokenCrashes(t) ==
  /\ pc = "text"
  /\ count < MaxTokens
  /\ ValueAfter(t).pointer # "live"
  /\ pc' = "crashed"
  /\ count' = count + 1
  /\ token' = t
  /\ undefined' = TRUE
  /\ UNCHANGED <<key, element, charvalue, pointer, update, made, seen>>

(* The end of the packet; a key without a token counts once. *)
EndTextPacket ==
  /\ pc = "text"
  /\ pc' = "idle"
  /\ IF count = 0 THEN Updated([op |-> "counter", key |-> key, value |-> 2])
                  ELSE UNCHANGED <<update, made>>
  /\ seen' = TRUE
  /\ UNCHANGED <<key, token, element, count, charvalue, pointer, undefined>>

------------------------------------------------------------------------------
(* JSON *)

JsonRate ==
  {<<"int", "0">>, <<"double", "0.5">>, <<"string", "0.5">>, <<"boolean", "true">>}
JsonValue ==
  {<<"int", "3">>, <<"double", "5">>, <<"string", "5">>, <<"string", "c">>,
   <<"boolean", "true">>, <<"array", "">>}
JsonObject ==
  [timer : BOOLEAN, counter : BOOLEAN, value : JsonValue \union {NULL},
   sample_rate : JsonRate \union {NULL}]

ASSUME JsonAssumption ==
  NULL \notin JsonRate \union ({"int", "double", "string"} \X Value)

(* A string that is not a number, an object and an array are 0. *)
json_object_get_double(v) ==
  CASE v = NULL -> 0
    [] v = <<"boolean", "true">> -> 2
    [] OTHER -> Number(v[2])

TakeJsonPacket ==
  /\ Start("json")
  /\ key' = NULL
  /\ seen' = FALSE

TakeBadJson ==
  /\ Start("bad_json")
  /\ key' = NULL
  /\ seen' = FALSE

(* json_tokener_parse returns an error code made into a pointer, not NULL;   *)
(* the test for NULL lets it through and its type is read.                   *)
UseBadJson ==
  /\ pc = "bad_json"
  /\ pc' = "crashed"
  /\ UNCHANGED <<key, token, element, count, charvalue, pointer, update, made,
                 undefined, seen>>

NextElement(o, k) ==
  /\ pc = "json"
  /\ count < MaxTokens
  /\ count' = count + 1
  /\ element' = o /\ key' = k
  /\ UNCHANGED <<token, charvalue, pointer, undefined, seen>>

(* For the sensitivity check: the sample rate is not used. *)
JsonForgetsRate(o, k) ==
  /\ NextElement(o, k)
  /\ IF o.value = NULL \/ o.timer = o.counter THEN UNCHANGED <<update, made>>
     ELSE Updated([op |-> IF o.timer THEN "timer" ELSE "counter", key |-> k,
                   value |-> json_object_get_double(o.value)])
  /\ UNCHANGED pc

(* A timer or a counter, not both, with a value; no sample rate is a 0. *)
JsonElement(o, k) ==
  /\ NextElement(o, k)
  /\ IF o.value = NULL \/ o.timer = o.counter THEN UNCHANGED <<update, made>>
     ELSE LET v == json_object_get_double(o.value)
          IN Updated(IF o.timer
                     THEN [op |-> "timer", key |-> k, value |-> v]
                     ELSE [op |-> "counter", key |-> k,
                           value |-> Amount(v, json_object_get_double(
                                                 o.sample_rate))])
  /\ UNCHANGED pc

(* An element that is not an object is used as one. *)
JsonOther ==
  /\ NextElement(NULL, NULL)
  /\ pc' = "crashed"
  /\ UNCHANGED <<update, made>>

(* The time of the last message is not noted. *)
EndJsonPacket ==
  /\ pc = "json"
  /\ pc' = "idle"
  /\ UNCHANGED <<key, token, element, count, charvalue, pointer, update, made,
                 undefined, seen>>

Next ==
  \/ TakeShortPacket \/ TakeEmptyPacket \/ EndTextPacket
  \/ \E k \in Name : TakeTextPacket(k)
  \/ \E t \in Token :
       \/ TimerToken(t) \/ GaugeToken(t) \/ CounterToken(t)
       \/ StaleToken(t) \/ StaleTokenCrashes(t)
  \/ TakeJsonPacket \/ TakeBadJson \/ UseBadJson \/ JsonOther \/ EndJsonPacket
  \/ \E o \in JsonObject, k \in Name : JsonElement(o, k)

Spec == Init /\ [][Next]_vars

------------------------------------------------------------------------------
(* Properties. *)

Text == {GaugeText(f) : f \in Field}
Update == [op : {"timer", "counter", "gauge", "plus_gauge", "minus_gauge"},
           key : Name, value : Int]

(* A packet makes an update for each of its tokens at most, or one when it   *)
(* has none.  (The other variables are of type BOOLEAN.)                     *)
TypeOK ==
  /\ pc \in {"idle", "text", "json", "bad_json", "crashed"}
  /\ key \in Name \union {NULL}
  /\ token \in Token \union {<<>>}
  /\ element \in JsonObject \union {NULL}
  /\ count \in 0 .. MaxTokens
  /\ charvalue \in Text
  /\ pointer \in {"unset", "live", "freed"}
  /\ made \in 0 .. MaxTokens
  /\ \/ made = 0 /\ update = NULL
     \/ made > 0 /\ update \in Update

(* What the statsd format says of value|type and value|type|@rate. *)
WellFormed ==
  (Value \X {"c", "ms", "g"}) \union (Value \X {"c"} \X {"@0.5"})

Meaning(t) ==
  CASE t[2] = "ms" -> [op |-> "timer", value |-> Number(t[1])]
    [] t = <<"+3", "g">> -> [op |-> "plus_gauge", value |-> Number("3")]
    [] t = <<"-3", "g">> -> [op |-> "minus_gauge", value |-> Number("3")]
    [] t[2] = "g" /\ t[1] \in {"3", "5"} ->
         [op |-> "gauge", value |-> Number(t[1])]
    [] t[2] = "c" -> [op |-> "counter",
                      value |-> Number(t[1]) * (IF Len(t) = 3 THEN 2 ELSE 1)]

Means(u, t) ==
  u.op = Meaning(t).op /\ u.value = Meaning(t).value /\ u.key = key

(* A token of the statsd format makes the update that the format gives it,   *)
(* whatever tokens come before it in the packet and whatever they left in    *)
(* charvalue; the timer of statsd_client, whose empty type strtok_r skips,   *)
(* always makes one of a counter.                                            *)
TokenMeansUpdate ==
  pc = "text" =>
    /\ token \in WellFormed => Means(update, token)
    /\ \A v, r \in Value :
         /\ token = ClientToken(TRUE, v, r) => update.op = "counter"
         /\ token = ClientToken(FALSE, v, r) => Means(update, token)

(* An element of a JSON packet and the token that says the same make the     *)
(* same update, whether the element gives its numbers as numbers or strings: *)
(* no sample rate is 0 in one format and 1 in the other, and true is 1.      *)
JsonMeansText ==
  pc = "json" /\ element # NULL =>
    \A v \in Value, type \in {"int", "double", "string"} :
      element.value = <<type, v>> =>
        /\ element.timer /\ ~element.counter => Means(update, <<v, "ms">>)
        /\ element.counter /\ ~element.timer =>
             Means(update,
                   IF element.sample_rate # NULL /\ element.sample_rate[2] = "0.5"
                   THEN <<v, "c", "@0.5">> ELSE <<v, "c">>)

(* charvalue is read while it is not set, or freed by a gauge of the same    *)
(* packet, only for a token that has no value among pipes.                   *)
UndefinedNeedsBareToken ==
  [][undefined' /\ ~undefined => ~HasValue(token')]_vars

==============================================================================
