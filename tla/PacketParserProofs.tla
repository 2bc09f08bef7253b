------------------------- MODULE PacketParserProofs -------------------------
(***************************************************************************)
(* Proofs about PacketParser, for every set of names and packets of any    *)
(* number of tokens or elements.                                           *)
(***************************************************************************)
EXTENDS PacketParser, SequenceTheorems, TLAPS

(* A packet that is not finished has made an update for each token at most. *)
MadeOK == pc \in {"text", "json", "bad_json"} => made <= count

(* A packet that names a key, and so makes an update, has one. *)
KeyOK == pc = "text" => key \in Name

Inv == TypeOK /\ MadeOK /\ KeyOK

------------------------------------------------------------------------------
(* What the conversions return, whatever the text. *)

LEMMA NumberType == \A text : Number(text) \in Int
BY DEF Number

LEMMA TextType == \A f : GaugeText(f) \in Text
BY DEF GaugeText, Text, Field, Value

LEMMA RateType == \A t : SampleRate(t) \in 0 .. 2
BY DEF SampleRate, Number

LEMMA AmountType ==
  ASSUME NEW v \in Int, NEW rate \in Nat PROVE Amount(v, rate) \in Int
<1>1. CASE rate = 0 BY <1>1 DEF Amount
<1>2. CASE rate > 0
  <2>1. (2 * v) \div rate \in Int BY <1>2
  <2> QED BY <1>2, <2>1 DEF Amount
<1> QED BY <1>1, <1>2

LEMMA AfterType ==
  ASSUME TypeOK, NEW t
  PROVE  /\ ValueAfter(t).text \in Text
         /\ ValueAfter(t).pointer \in {"unset", "live", "freed"}
<1>1. GaugeText(Fields(t)[1]) \in Text BY TextType
<1> QED BY <1>1 DEF ValueAfter, TypeOK

LEMMA JsonNumberType ==
  ASSUME NEW v PROVE json_object_get_double(v) \in Int
BY NumberType DEF json_object_get_double

LEMMA JsonRateType ==
  ASSUME NEW r \in JsonRate \union {NULL}
  PROVE  json_object_get_double(r) \in Nat
BY DEF json_object_get_double, JsonRate, Number

------------------------------------------------------------------------------
(* The invariant. *)

LEMMA InvInit == Init => Inv
<1> SUFFICES ASSUME Init PROVE Inv OBVIOUS
<1>1. "" \in Text BY DEF Text, GaugeText, Field, Value
<1>2. token \in Token \union {<<>>} BY DEF Init
<1>3. /\ pc = "idle" /\ key = NULL /\ element = NULL /\ count = 0
      /\ charvalue \in Text /\ pointer = "unset" /\ update = NULL /\ made = 0
  BY <1>1 DEF Init
<1> QED BY <1>2, <1>3, ParserAssumption DEF Inv, TypeOK, MadeOK, KeyOK

LEMMA StartStep ==
  ASSUME Inv, NEW at \in {"idle", "text", "json", "bad_json", "crashed"},
         Start(at), key' \in Name \union {NULL}, at = "text" => key' \in Name
  PROVE  Inv'
<1>1. "" \in Text BY DEF Text, GaugeText, Field, Value
<1>2. token' \in Token \union {<<>>} BY DEF Start
<1>3. /\ pc' = at /\ element' = NULL /\ count' = 0 /\ charvalue' \in Text
      /\ pointer' = "unset" /\ update' = NULL /\ made' = 0
  BY <1>1 DEF Start
<1> QED BY <1>2, <1>3, ParserAssumption DEF Inv, TypeOK, MadeOK, KeyOK

(* One more token with its update. *)
LEMMA TokenStep ==
  ASSUME Inv, NEW t \in Token, NextToken(t), NEW u, Updated(u),
         key \in Name => u \in Update,
         charvalue' \in Text, pointer' \in {"unset", "live", "freed"}
  PROVE  Inv'
<1>1. made <= count /\ key \in Name BY DEF NextToken, Inv, MadeOK, KeyOK
<1>2. made' \in 0 .. MaxTokens /\ made' > 0 /\ made' <= count'
  BY <1>1, ParserAssumption DEF NextToken, Updated, Inv, TypeOK
<1> QED
  BY <1>1, <1>2, ParserAssumption
     DEF NextToken, Updated, Inv, TypeOK, MadeOK, KeyOK

LEMMA TextStep ==
  ASSUME Inv, NEW t \in Token,
         TimerToken(t) \/ GaugeToken(t) \/ CounterToken(t) \/ StaleToken(t)
         \/ StaleTokenCrashes(t)
  PROVE  Inv'
<1> DEFINE v == ValueAfter(t)
<1>v. TypeOK /\ v.text \in Text BY AfterType DEF Inv
<1>a. \A n \in Int : Amount(n, SampleRate(t)) \in Int
  BY RateType, AmountType
<1> HIDE DEF v
<1>1. CASE TimerToken(t)
  <2>1. [op |-> "timer", key |-> key, value |-> Number(v.text)] \in Update
        \/ key \notin Name
    BY NumberType DEF Update
  <2> QED BY <1>1, <1>v, <2>1, TokenStep DEF TimerToken, v
<1>2. CASE GaugeToken(t)
  <2> DEFINE u == [op    |-> CASE v.text = "-3" -> "minus_gauge"
                               [] v.text = "+3" -> "plus_gauge"
                               [] OTHER         -> "gauge",
                   key   |-> key,
                   value |-> Number(IF v.text = "-3" THEN "3" ELSE v.text)]
  <2>1. u \in Update \/ key \notin Name BY NumberType DEF Update
  <2>2. NextToken(t) /\ Updated(u) /\ charvalue' = v.text /\ pointer' = "freed"
    BY <1>2 DEF GaugeToken, v
  <2> HIDE DEF u
  <2> QED BY <1>v, <2>1, <2>2, TokenStep
<1>3. CASE CounterToken(t)
  <2> DEFINE u == [op |-> "counter", key |-> key,
                   value |-> Amount(Number(v.text), SampleRate(t))]
  <2>1. u \in Update \/ key \notin Name BY <1>a, NumberType DEF Update
  <2>2. NextToken(t) /\ Updated(u) /\ charvalue' = v.text /\ pointer' = "live"
    BY <1>3 DEF CounterToken, v
  <2> HIDE DEF u
  <2> QED BY <1>v, <2>1, <2>2, TokenStep
<1>4. CASE StaleToken(t)
  <2>1. PICK n \in NumberRead :
          Updated([op |-> "counter", key |-> key,
                   value |-> Amount(n, SampleRate(t))])
    BY <1>4 DEF StaleToken
  <2>2. n \in Int BY NumberType DEF NumberRead
  <2> DEFINE u == [op |-> "counter", key |-> key,
                   value |-> Amount(n, SampleRate(t))]
  <2>3. u \in Update \/ key \notin Name BY <1>a, <2>2 DEF Update
  <2>4. NextToken(t) /\ Updated(u) /\ UNCHANGED <<charvalue, pointer>>
    BY <1>4, <2>1 DEF StaleToken
  <2>5. charvalue' \in Text /\ pointer' \in {"unset", "live", "freed"}
    BY <2>4 DEF Inv, TypeOK
  <2> HIDE DEF u
  <2> QED BY <2>3, <2>4, <2>5, TokenStep
<1>5. CASE StaleTokenCrashes(t)
  BY <1>5, ParserAssumption
     DEF StaleTokenCrashes, Inv, TypeOK, MadeOK, KeyOK
<1> QED BY <1>1, <1>2, <1>3, <1>4, <1>5

(* One more element of an array, with its update or without. *)
LEMMA ElementStep ==
  ASSUME Inv, NEW o \in JsonObject, NEW k \in Name, JsonElement(o, k)
  PROVE  Inv'
<1>1. made <= count /\ NextElement(o, k) /\ pc = "json" /\ pc' = pc
  BY DEF JsonElement, NextElement, Inv, MadeOK
<1>2. \/ UNCHANGED <<update, made>>
      \/ \E u \in Update : Updated(u)
  <2>1. SUFFICES ASSUME ~(o.value = NULL \/ o.timer = o.counter)
                 PROVE  \E u \in Update : Updated(u)
    BY DEF JsonElement
  <2> DEFINE d == json_object_get_double(o.value)
             r == json_object_get_double(o.sample_rate)
             timer == [op |-> "timer", key |-> k, value |-> d]
             counter == [op |-> "counter", key |-> k, value |-> Amount(d, r)]
  <2>2. d \in Int BY JsonNumberType
  <2>3. r \in Nat
    <3>1. o.sample_rate \in JsonRate \union {NULL} BY DEF JsonObject
    <3> QED BY <3>1, JsonRateType
  <2>4. Amount(d, r) \in Int BY <2>2, <2>3, AmountType
  <2>5. Updated(IF o.timer THEN timer ELSE counter)
    BY <2>1 DEF JsonElement
  <2> HIDE DEF d, r
  <2>6. timer \in Update /\ counter \in Update BY <2>2, <2>4 DEF Update
  <2> HIDE DEF timer, counter
  <2> QED BY <2>5, <2>6
<1>3. made' \in 0 .. MaxTokens /\ made' <= count' /\ count' \in 0 .. MaxTokens
  BY <1>1, <1>2, ParserAssumption DEF NextElement, Updated, Inv, TypeOK
<1>4. \/ made' = 0 /\ update' = NULL
      \/ made' > 0 /\ update' \in Update
  BY <1>2, ParserAssumption DEF Updated, Inv, TypeOK
<1> QED
  BY <1>1, <1>3, <1>4 DEF NextElement, Inv, TypeOK, MadeOK, KeyOK

LEMMA EndTextStep == ASSUME Inv, EndTextPacket PROVE Inv'
<1>1. key \in Name /\ made <= count BY DEF EndTextPacket, Inv, MadeOK, KeyOK
<1>2. CASE count = 0
  <2> DEFINE u == [op |-> "counter", key |-> key, value |-> 2]
  <2>1. u \in Update BY <1>1 DEF Update
  <2>2. made = 0 BY <1>1, <1>2 DEF Inv, TypeOK
  <2>3. update' = u /\ made' = 1 BY <1>2, <2>2 DEF EndTextPacket, Updated
  <2> HIDE DEF u
  <2> QED BY <2>1, <2>3, ParserAssumption
          DEF EndTextPacket, Inv, TypeOK, MadeOK, KeyOK
<1>3. CASE count # 0
  BY <1>3 DEF EndTextPacket, Inv, TypeOK, MadeOK, KeyOK
<1> QED BY <1>2, <1>3

LEMMA InvStep == Inv /\ [Next]_vars => Inv'
<1> SUFFICES ASSUME Inv, [Next]_vars PROVE Inv' OBVIOUS
<1>1. CASE TakeShortPacket BY <1>1, StartStep DEF TakeShortPacket
<1>2. CASE TakeEmptyPacket BY <1>2, StartStep DEF TakeEmptyPacket
<1>3. CASE EndTextPacket BY <1>3, EndTextStep
<1>4. CASE \E k \in Name : TakeTextPacket(k)
  BY <1>4, StartStep DEF TakeTextPacket
<1>5. CASE \E t \in Token : \/ TimerToken(t) \/ GaugeToken(t)
                            \/ CounterToken(t) \/ StaleToken(t)
                            \/ StaleTokenCrashes(t)
  BY <1>5, TextStep
<1>6. CASE TakeJsonPacket BY <1>6, StartStep DEF TakeJsonPacket
<1>7. CASE TakeBadJson BY <1>7, StartStep DEF TakeBadJson
<1>8. CASE UseBadJson BY <1>8 DEF UseBadJson, Inv, TypeOK, MadeOK, KeyOK
<1>9. CASE JsonOther
  BY <1>9, ParserAssumption
     DEF JsonOther, NextElement, Inv, TypeOK, MadeOK, KeyOK
<1>10. CASE EndJsonPacket
  BY <1>10 DEF EndJsonPacket, Inv, TypeOK, MadeOK, KeyOK
<1>11. CASE \E o \in JsonObject, k \in Name : JsonElement(o, k)
  BY <1>11, ElementStep
<1>12. CASE UNCHANGED vars
  BY <1>12 DEF vars, Inv, TypeOK, MadeOK, KeyOK
<1> QED
  BY <1>1, <1>2, <1>3, <1>4, <1>5, <1>6, <1>7, <1>8, <1>9, <1>10, <1>11,
     <1>12 DEF Next
------------------------------------------------------------------------------
(* JSON: what the element that was processed last has made. *)

(* An update that the element itself asks for means the same as the token. *)
LEMMA TimerMeaning ==
  ASSUME NEW v \in Value
  PROVE  Meaning(<<v, "ms">>) = [op |-> "timer", value |-> Number(v)]
BY DEF Meaning

LEMMA CounterMeaning ==
  ASSUME NEW v \in Value
  PROVE  /\ Meaning(<<v, "c">>) = [op |-> "counter", value |-> Number(v)]
         /\ Meaning(<<v, "c", "@0.5">>) =
              [op |-> "counter", value |-> 2 * Number(v)]
<1>1. Number(v) \in Int BY NumberType
<1>2. ASSUME NEW t, t[2] = "c" PROVE
        Meaning(t) = [op |-> "counter",
                      value |-> Number(t[1]) * (IF Len(t) = 3 THEN 2 ELSE 1)]
  <2>1. t # <<"+3", "g">> /\ t # <<"-3", "g">> BY <1>2
  <2> QED BY <1>2, <2>1 DEF Meaning
<1>3. Meaning(<<v, "c">>) = [op |-> "counter", value |-> Number(v) * 1]
  BY <1>2
<1>4. Meaning(<<v, "c", "@0.5">>) = [op |-> "counter", value |-> Number(v) * 2]
  BY <1>2
<1> QED BY <1>1, <1>3, <1>4

(* A sample rate of 1, of nothing or of 0 is none; the only other is 0.5.    *)
LEMMA RateMeaning ==
  ASSUME NEW n \in Int, NEW r \in JsonRate \union {NULL}
  PROVE  Amount(n, json_object_get_double(r)) =
           IF r # NULL /\ r[2] = "0.5" THEN 2 * n ELSE n
<1>1. json_object_get_double(r) =
        IF r = NULL THEN 0 ELSE IF r = <<"boolean", "true">> THEN 2
        ELSE IF r[2] = "0.5" THEN 1 ELSE 0
  BY JsonAssumption DEF json_object_get_double, JsonRate, Number
<1>2. r # NULL /\ r[2] = "0.5" => r # <<"boolean", "true">> OBVIOUS
<1>3. (2 * n) \div 1 = 2 * n /\ (2 * n) \div 2 = n OBVIOUS
<1> QED BY <1>1, <1>2, <1>3 DEF Amount

LEMMA ElementMeans ==
  ASSUME NEW o \in JsonObject, NEW k \in Name, JsonElement(o, k)
  PROVE  JsonMeansText'
<1>1. key' = k /\ element' = o BY DEF JsonElement, NextElement
<1> SUFFICES ASSUME NEW v \in Value, NEW type \in {"int", "double", "string"},
                    o.value = <<type, v>>
             PROVE  /\ o.timer /\ ~o.counter => Means(update, <<v, "ms">>)'
                    /\ o.counter /\ ~o.timer =>
                         Means(update,
                           IF o.sample_rate # NULL /\ o.sample_rate[2] = "0.5"
                           THEN <<v, "c", "@0.5">> ELSE <<v, "c">>)'
  BY <1>1 DEF JsonMeansText, Means
<1>2. o.value # NULL BY JsonAssumption
<1>3. json_object_get_double(o.value) = Number(v)
  BY <1>2 DEF json_object_get_double
<1>4. o.sample_rate \in JsonRate \union {NULL} BY DEF JsonObject
<1>5. CASE o.timer /\ ~o.counter
  <2>1. update' = [op |-> "timer", key |-> k, value |-> Number(v)]
    BY <1>2, <1>3, <1>5 DEF JsonElement, Updated
  <2>2. update'.op = "timer" /\ update'.value = Number(v) /\ update'.key = key'
    BY <1>1, <2>1
  <2>3. Means(update, <<v, "ms">>)' BY <2>2, TimerMeaning DEF Means, Meaning
  <2> QED BY <1>5, <2>3
<1>6. CASE o.counter /\ ~o.timer
  <2> DEFINE n == Amount(Number(v), json_object_get_double(o.sample_rate))
  <2>1. update' = [op |-> "counter", key |-> k, value |-> n]
    BY <1>2, <1>3, <1>6 DEF JsonElement, Updated
  <2>2. n = IF o.sample_rate # NULL /\ o.sample_rate[2] = "0.5"
            THEN 2 * Number(v) ELSE Number(v)
    BY <1>4, NumberType, RateMeaning
  <2> HIDE DEF n
  <2>3. update'.op = "counter" /\ update'.value = n /\ update'.key = key'
    BY <1>1, <2>1
  <2>4. CASE o.sample_rate # NULL /\ o.sample_rate[2] = "0.5"
    <3>1. Means(update, <<v, "c", "@0.5">>)'
      BY <2>2, <2>3, <2>4, CounterMeaning DEF Means, Meaning
    <3> QED BY <1>6, <2>4, <3>1
  <2>5. CASE ~(o.sample_rate # NULL /\ o.sample_rate[2] = "0.5")
    <3>1. Means(update, <<v, "c">>)'
      BY <2>2, <2>3, <2>5, CounterMeaning DEF Means, Meaning
    <3> QED BY <1>6, <2>5, <3>1
  <2> QED BY <2>4, <2>5
<1> QED BY <1>5, <1>6

LEMMA JsonStep ==
  ASSUME JsonMeansText, [Next]_vars PROVE JsonMeansText'
<1>1. ASSUME NEW o \in JsonObject, NEW k \in Name, JsonElement(o, k)
      PROVE  JsonMeansText'
  BY <1>1, ElementMeans
<1>2. CASE pc' # "json" BY <1>2 DEF JsonMeansText
<1>3. CASE UNCHANGED <<pc, key, element, update>>
  BY <1>3 DEF JsonMeansText, Means
<1>4. CASE TakeJsonPacket BY <1>4 DEF TakeJsonPacket, Start, JsonMeansText
<1>5. [Next]_vars =>
        \/ pc' # "json" \/ UNCHANGED <<pc, key, element, update>>
        \/ TakeJsonPacket
        \/ \E o \in JsonObject, k \in Name : JsonElement(o, k)
  BY DEF Next, vars, TakeShortPacket, TakeEmptyPacket, EndTextPacket,
     TakeTextPacket, TimerToken, GaugeToken, CounterToken, StaleToken,
     StaleTokenCrashes, NextToken, TakeBadJson, UseBadJson, JsonOther,
     EndJsonPacket, Start
<1> QED BY <1>1, <1>2, <1>3, <1>4, <1>5

------------------------------------------------------------------------------
(* Text: what the token that was processed last has made. *)

(* A token that makes an update through a charvalue which is its own. *)
Makes(t) == TimerToken(t) \/ GaugeToken(t) \/ CounterToken(t)

(* The lengths and positions of tokens. *)
LEMMA Bounds ==
  /\ ~(2 < 1) /\ ~(2 < 2) /\ 2 < 3
  /\ ~(3 < 1) /\ ~(3 < 2) /\ ~(3 < 3)
OBVIOUS

(* SMT knows of \o only what SequenceTheorems says. *)
LEMMA Joined ==
  ASSUME NEW S, NEW a \in S, NEW b \in S, NEW c \in S
  PROVE  /\ <<a>> \o <<b>> = <<a, b>>
         /\ <<a, b>> \o <<c>> = <<a, b, c>>
         /\ <<a>> \o <<>> = <<a>>
         /\ <<a, b>> \o <<>> = <<a, b>>
<1>1. /\ <<a>> \in Seq(S) /\ <<b>> \in Seq(S) /\ <<c>> \in Seq(S)
      /\ <<a, b>> \in Seq(S) /\ <<a, b, c>> \in Seq(S)
  OBVIOUS
<1>2. <<a>> \o <<b>> = <<a, b>>
  <2>1. Len(<<a>>) = 1 /\ Len(<<b>>) = 1 /\ Len(<<a, b>>) = 2 OBVIOUS
  <2>2. \A i \in 1 .. 2 : (<<a>> \o <<b>>)[i] = <<a, b>>[i]
    BY <1>1, <2>1, ConcatProperties
  <2>3. <<a>> \o <<b>> \in Seq(S) /\ Len(<<a>> \o <<b>>) = 2
    BY <1>1, <2>1, ConcatProperties
  <2> QED BY <1>1, <2>1, <2>2, <2>3, SeqEqual
<1>3. <<a, b>> \o <<c>> = <<a, b, c>>
  <2>1. Len(<<a, b>>) = 2 /\ Len(<<c>>) = 1 /\ Len(<<a, b, c>>) = 3 OBVIOUS
  <2>2. \A i \in 1 .. 3 : (<<a, b>> \o <<c>>)[i] = <<a, b, c>>[i]
    BY <1>1, <2>1, ConcatProperties
  <2>3. <<a, b>> \o <<c>> \in Seq(S) /\ Len(<<a, b>> \o <<c>>) = 3
    BY <1>1, <2>1, ConcatProperties
  <2> QED BY <1>1, <2>1, <2>2, <2>3, SeqEqual
<1>4. <<a>> \o <<>> = <<a>> /\ <<a, b>> \o <<>> = <<a, b>>
  BY <1>1, ConcatEmptySeq
<1> QED BY <1>2, <1>3, <1>4

(* strtok_r leaves the empty field out. *)
LEMMA FieldsOf ==
  ASSUME NEW S, NEW a \in S, NEW b \in S, NEW c \in S, a # "", b # "", c # ""
  PROVE  /\ Fields(<<a, b>>) = <<a, b>>
         /\ Fields(<<a, "", b>>) = <<a, b>>
         /\ Fields(<<a, b, c>>) = <<a, b, c>>
<1>1. Fields(<<a, b>>) = <<a, b>>
  <2> DEFINE t == <<a, b>>
  <2>1. Len(t) = 2 /\ t[1] = a /\ t[2] = b OBVIOUS
  <2> HIDE DEF t
  <2>2. /\ Subtoken(t, 1) = <<a>> /\ Subtoken(t, 2) = <<b>>
        /\ Subtoken(t, 3) = <<>>
    BY <2>1, Bounds, Zenon DEF Subtoken
  <2>3. Fields(t) = <<a>> \o <<b>> \o <<>> BY <2>2, Zenon DEF Fields
  <2>4. <<a>> \o <<b>> = <<a, b>> /\ <<a, b>> \o <<>> = <<a, b>>
    BY Joined
  <2> QED BY <2>3, <2>4 DEF t
<1>2. Fields(<<a, "", b>>) = <<a, b>>
  <2> DEFINE t == <<a, "", b>>
  <2>1. Len(t) = 3 /\ t[1] = a /\ t[2] = "" /\ t[3] = b OBVIOUS
  <2> HIDE DEF t
  <2>2. /\ Subtoken(t, 1) = <<a>> /\ Subtoken(t, 2) = <<>>
        /\ Subtoken(t, 3) = <<b>>
    BY <2>1, Bounds, Zenon DEF Subtoken
  <2>3. Fields(t) = <<a>> \o <<>> \o <<b>> BY <2>2, Zenon DEF Fields
  <2>4. <<a>> \o <<>> = <<a>> /\ <<a>> \o <<b>> = <<a, b>>
    BY Joined
  <2> QED BY <2>3, <2>4 DEF t
<1>3. Fields(<<a, b, c>>) = <<a, b, c>>
  <2> DEFINE t == <<a, b, c>>
  <2>1. Len(t) = 3 /\ t[1] = a /\ t[2] = b /\ t[3] = c OBVIOUS
  <2> HIDE DEF t
  <2>2. /\ Subtoken(t, 1) = <<a>> /\ Subtoken(t, 2) = <<b>>
        /\ Subtoken(t, 3) = <<c>>
    BY <2>1, Bounds, Zenon DEF Subtoken
  <2>3. Fields(t) = <<a>> \o <<b>> \o <<c>> BY <2>2, Zenon DEF Fields
  <2>4. <<a>> \o <<b>> = <<a, b>> /\ <<a, b>> \o <<c>> = <<a, b, c>>
    BY Joined
  <2> QED BY <2>3, <2>4 DEF t
<1> QED BY <1>1, <1>2, <1>3
(* The tokens that TokenMeansUpdate is about have a value among pipes. *)
LEMMA ValueFields ==
  ASSUME NEW v \in Value, NEW b \in {"c", "ms", "g"} \union Value
  PROVE  /\ Fields(<<v, b>>) = <<v, b>>
         /\ Fields(<<v, "", b>>) = <<v, b>>
         /\ Fields(<<v, "c", "@0.5">>) = <<v, "c", "@0.5">>
<1>1. /\ v \in Field /\ b \in Field /\ "c" \in Field /\ "@0.5" \in Field
      /\ v # "" /\ b # "" /\ "c" # "" /\ "@0.5" # ""
  BY DEF Field, Value
<1>2. ASSUME NEW x \in Field, NEW y \in Field, x # "", y # ""
      PROVE  Fields(<<x, y>>) = <<x, y>> /\ Fields(<<x, "", y>>) = <<x, y>>
  BY <1>2, FieldsOf, Zenon
<1>3. ASSUME NEW x \in Field, NEW y \in Field, NEW z \in Field,
             x # "", y # "", z # ""
      PROVE  Fields(<<x, y, z>>) = <<x, y, z>>
  BY <1>3, FieldsOf, Zenon
<1> HIDE DEF Value, Field
<1>4. Fields(<<v, b>>) = <<v, b>> /\ Fields(<<v, "", b>>) = <<v, b>>
  BY <1>1, <1>2, Zenon
<1>5. Fields(<<v, "c", "@0.5">>) = <<v, "c", "@0.5">> BY <1>1, <1>3, Zenon
<1> QED BY <1>4, <1>5

LEMMA Pipes ==
  ASSUME NEW a, NEW b, NEW c
  PROVE  HasPipe(<<a, b>>) /\ HasPipe(<<a, b, c>>)
<1>1. Len(<<a, b>>) = 2 /\ Len(<<a, b, c>>) = 3 OBVIOUS
<1>2. 2 > 1 /\ 3 > 1 OBVIOUS
<1> QED BY <1>1, <1>2, Zenon DEF HasPipe

(* The type is the second field: a token of two or three of them. *)
LEMMA TypeField ==
  ASSUME NEW t, NEW a, NEW b, NEW c, HasPipe(t),
         Fields(t) = <<a, b>> \/ Fields(t) = <<a, b, c>>
  PROVE  /\ Fields(t) # <<>> /\ Fields(t)[1] = a
         /\ IsTimer(t) <=> b = "ms"
         /\ IsGauge(t) <=> b = "g"
<1>1. /\ Len(<<a, b>>) = 2 /\ <<a, b>>[1] = a /\ <<a, b>>[2] = b
      /\ <<a, b>> # <<>>
      /\ Len(<<a, b, c>>) = 3 /\ <<a, b, c>>[1] = a /\ <<a, b, c>>[2] = b
      /\ <<a, b, c>> # <<>>
  OBVIOUS
<1>2. 2 > 1 /\ 3 > 1 OBVIOUS
<1> QED BY <1>1, <1>2, Zenon DEF IsTimer, IsGauge

(* The value and the type that strtok_r finds decide the update, whatever    *)
(* else is in the token and in charvalue.                                    *)
LEMMA OwnValue ==
  ASSUME NEW t, NEW v \in Value, HasPipe(t), Fields(t) # <<>>,
         Fields(t)[1] = v
  PROVE  ValueAfter(t).text = v
<1>1. GaugeText(v) = v
  <2>1. v # "@0.5" BY DEF Value
  <2> QED BY <2>1, Zenon DEF GaugeText
<1>2. ValueAfter(t) = [text |-> GaugeText(v), pointer |-> "live"]
  BY Zenon DEF ValueAfter, HasValue
<1> QED BY <1>1, <1>2

LEMMA TimerMakes ==
  ASSUME NEW t, NEW v \in Value, HasPipe(t), Fields(t) = <<v, "ms">>, Makes(t)
  PROVE  update' = [op |-> "timer", key |-> key, value |-> Number(v)]
<1>1. /\ IsTimer(t) /\ ~IsGauge(t) /\ Fields(t) # <<>> /\ Fields(t)[1] = v
  BY TypeField
<1>2. ValueAfter(t).text = v BY <1>1, OwnValue
<1>3. TimerToken(t) BY <1>1 DEF Makes, GaugeToken, CounterToken
<1> QED BY <1>2, <1>3 DEF TimerToken, Updated

LEMMA GaugeMakes ==
  ASSUME NEW t, NEW v \in Value, HasPipe(t), Fields(t) = <<v, "g">>, Makes(t)
  PROVE  update' = [op    |-> CASE v = "-3" -> "minus_gauge"
                                [] v = "+3" -> "plus_gauge"
                                [] OTHER    -> "gauge",
                    key   |-> key,
                    value |-> Number(IF v = "-3" THEN "3" ELSE v)]
<1>1. /\ ~IsTimer(t) /\ IsGauge(t) /\ Fields(t) # <<>> /\ Fields(t)[1] = v
  BY TypeField
<1>2. ValueAfter(t).text = v BY <1>1, OwnValue
<1>3. GaugeToken(t) BY <1>1 DEF Makes, TimerToken, CounterToken
<1> QED BY <1>2, <1>3 DEF GaugeToken, Updated

LEMMA CounterMakes ==
  ASSUME NEW t, NEW v \in Value, HasPipe(t), Fields(t) # <<>>,
         Fields(t)[1] = v, ~IsTimer(t), ~IsGauge(t), Makes(t)
  PROVE  update' = [op |-> "counter", key |-> key,
                    value |-> Amount(Number(v), SampleRate(t))]
<1>1. ValueAfter(t).text = v BY OwnValue
<1>2. CounterToken(t) BY DEF Makes, TimerToken, GaugeToken
<1> QED BY <1>1, <1>2 DEF CounterToken, Updated

LEMMA GaugeMeaning ==
  ASSUME NEW v \in Value
  PROVE  Meaning(<<v, "g">>) =
           [op    |-> CASE v = "-3" -> "minus_gauge"
                        [] v = "+3" -> "plus_gauge"
                        [] OTHER    -> "gauge",
            value |-> Number(IF v = "-3" THEN "3" ELSE v)]
<1>1. Number("+3") = Number("3") BY DEF Number
<1>2. CASE v = "+3" BY <1>1, <1>2 DEF Meaning
<1>3. CASE v = "-3" BY <1>3 DEF Meaning
<1>4. CASE v \in {"3", "5"}
  <2>1. <<v, "g">> # <<"+3", "g">> /\ <<v, "g">> # <<"-3", "g">> BY <1>4
  <2>2. <<v, "g">>[1] = v /\ <<v, "g">>[2] = "g" OBVIOUS
  <2> QED BY <1>4, <2>1, <2>2 DEF Meaning
<1> QED BY <1>2, <1>3, <1>4 DEF Value

(* What a token of the statsd format has made when its round is over. *)
LEMMA RatedCounterMakes ==
  ASSUME NEW v \in Value
  PROVE  /\ Makes(<<v, "c">>) =>
              update' = [op |-> "counter", key |-> key, value |-> Number(v)]
         /\ Makes(<<v, "c", "@0.5">>) =>
              update' = [op |-> "counter", key |-> key, value |-> 2 * Number(v)]
<1>1. ASSUME Makes(<<v, "c">>)
      PROVE  update' = [op |-> "counter", key |-> key, value |-> Number(v)]
  <2> DEFINE t == <<v, "c">>
  <2>1. HasPipe(t) /\ Fields(t) = <<v, "c">> BY Pipes, ValueFields
  <2> HIDE DEF t
  <2>2. ~IsTimer(t) /\ ~IsGauge(t) /\ Fields(t) # <<>> /\ Fields(t)[1] = v
    <3>1. "c" # "ms" /\ "c" # "g" OBVIOUS
    <3>2. Fields(t) = <<v, "c">> BY <2>1
    <3> QED BY <2>1, <3>1, <3>2, TypeField, Zenon
  <2>3. SampleRate(t) = 2
    <3>1. Len(Fields(t)) = 2 /\ ~(2 > 2) BY <2>1
    <3> QED BY <3>1, Zenon DEF SampleRate
  <2>4. Amount(Number(v), 2) = Number(v)
    <3>1. \A n \in Int : (2 * n) \div 2 = n OBVIOUS
    <3> QED BY <3>1, NumberType DEF Amount
  <2>5. Makes(t) BY <1>1 DEF t
  <2> QED BY <2>1, <2>2, <2>3, <2>4, <2>5, CounterMakes
<1>2. ASSUME Makes(<<v, "c", "@0.5">>)
      PROVE  update' = [op |-> "counter", key |-> key, value |-> 2 * Number(v)]
  <2> DEFINE t == <<v, "c", "@0.5">>
  <2>1. HasPipe(t) /\ Fields(t) = <<v, "c", "@0.5">> BY Pipes, ValueFields
  <2> HIDE DEF t
  <2>2. ~IsTimer(t) /\ ~IsGauge(t) /\ Fields(t) # <<>> /\ Fields(t)[1] = v
    BY <2>1, TypeField
  <2>3. SampleRate(t) = 1
    <3>1. Len(Fields(t)) = 3 /\ Fields(t)[3] = "@0.5" BY <2>1
    <3>2. 3 > 2 OBVIOUS
    <3>3. Number("0.5") = 1 BY DEF Number
    <3>4. HasPipe(t) /\ Len(Fields(t)) > 2 BY <2>1, <3>1, <3>2, Zenon
    <3> HIDE DEF Number
    <3> QED BY <3>1, <3>3, <3>4 DEF SampleRate
  <2>4. Amount(Number(v), 1) = 2 * Number(v)
    <3>1. \A n \in Int : (2 * n) \div 1 = 2 * n OBVIOUS
    <3> QED BY <3>1, NumberType DEF Amount
  <2>5. Makes(t) BY <1>2 DEF t
  <2> QED BY <2>1, <2>2, <2>3, <2>4, <2>5, CounterMakes
<1> QED BY <1>1, <1>2

LEMMA SameUpdate ==
  ASSUME NEW t, NEW op, NEW value,
         update' = [op |-> op, key |-> key, value |-> value],
         Meaning(t) = [op |-> op, value |-> value]
  PROVE  /\ update'.op = Meaning(t).op
         /\ update'.value = Meaning(t).value
         /\ update'.key = key
OBVIOUS

LEMMA WellFormedMeans ==
  ASSUME NEW t \in WellFormed, Makes(t)
  PROVE  /\ update'.op = Meaning(t).op
         /\ update'.value = Meaning(t).value
         /\ update'.key = key
<1>1. PICK v \in Value : \/ t = <<v, "ms">> \/ t = <<v, "g">>
                         \/ t = <<v, "c">> \/ t = <<v, "c", "@0.5">>
  BY DEF WellFormed
<1>2. CASE t = <<v, "ms">>
  <2>1. HasPipe(t) /\ Fields(t) = <<v, "ms">> BY <1>2, Pipes, ValueFields
  <2>2. update' = [op |-> "timer", key |-> key, value |-> Number(v)]
    BY <2>1, TimerMakes
  <2>3. Meaning(t) = [op |-> "timer", value |-> Number(v)]
    BY <1>2, TimerMeaning
  <2> QED BY <2>2, <2>3, SameUpdate
<1>3. CASE t = <<v, "g">>
  <2>1. HasPipe(t) /\ Fields(t) = <<v, "g">> BY <1>3, Pipes, ValueFields
  <2> DEFINE op == CASE v = "-3" -> "minus_gauge"
                     [] v = "+3" -> "plus_gauge"
                     [] OTHER    -> "gauge"
             value == Number(IF v = "-3" THEN "3" ELSE v)
  <2>2. update' = [op |-> op, key |-> key, value |-> value]
    BY <2>1, GaugeMakes
  <2>3. Meaning(t) = [op |-> op, value |-> value] BY <1>3, GaugeMeaning
  <2> HIDE DEF op, value
  <2> QED BY <2>2, <2>3, SameUpdate
<1>4. CASE t = <<v, "c">>
  <2>1. update' = [op |-> "counter", key |-> key, value |-> Number(v)]
    BY <1>4, RatedCounterMakes
  <2>2. Meaning(t) = [op |-> "counter", value |-> Number(v)]
    BY <1>4, CounterMeaning
  <2> QED BY <2>1, <2>2, SameUpdate
<1>5. CASE t = <<v, "c", "@0.5">>
  <2>1. update' = [op |-> "counter", key |-> key, value |-> 2 * Number(v)]
    BY <1>5, RatedCounterMakes
  <2>2. Meaning(t) = [op |-> "counter", value |-> 2 * Number(v)]
    BY <1>5, CounterMeaning
  <2> QED BY <2>1, <2>2, SameUpdate
<1> QED BY <1>1, <1>2, <1>3, <1>4, <1>5

(* statsd_client's timer: the interval is taken for the type. *)
LEMMA ClientTimerMakes ==
  ASSUME NEW v \in Value, NEW r \in Value, Makes(<<v, "", r>>)
  PROVE  update'.op = "counter"
<1> DEFINE t == <<v, "", r>>
<1>1. HasPipe(t) /\ Fields(t) = <<v, r>> BY Pipes, ValueFields
<1>2. r # "ms" /\ r # "g" BY DEF Value
<1>3. Makes(t) OBVIOUS
<1> HIDE DEF t
<1>4. ~IsTimer(t) /\ ~IsGauge(t) /\ Fields(t) # <<>> /\ Fields(t)[1] = v
  BY <1>1, <1>2, TypeField
<1>5. update' = [op |-> "counter", key |-> key,
                 value |-> Amount(Number(v), SampleRate(t))]
  BY <1>1, <1>3, <1>4, CounterMakes
<1> QED BY <1>5

(* A token with a value of its own never reads a charvalue that is not live. *)
LEMMA ValuedIsLive ==
  ASSUME NEW t, HasValue(t)
  PROVE  ~StaleToken(t) /\ ~StaleTokenCrashes(t)
BY DEF ValueAfter, StaleToken, StaleTokenCrashes

LEMMA ValuedTokens ==
  ASSUME NEW t
  PROVE  /\ t \in WellFormed => HasValue(t)
         /\ \A v, r \in Value : t = <<v, "", r>> => HasValue(t)
<1>1. ASSUME NEW a, NEW b, NEW c, HasPipe(t),
             Fields(t) = <<a, b>> \/ Fields(t) = <<a, b, c>>
      PROVE  HasValue(t)
  BY <1>1, TypeField DEF HasValue
<1>2. ASSUME NEW v \in Value, NEW r \in Value, t = <<v, "", r>>
      PROVE  HasValue(t)
  <2>1. HasPipe(t) /\ Fields(t) = <<v, r>> BY <1>2, Pipes, ValueFields
  <2> QED BY <1>1, <2>1
<1>3. ASSUME t \in WellFormed PROVE HasValue(t)
  <2>1. PICK v \in Value : \/ t = <<v, "ms">> \/ t = <<v, "g">>
                           \/ t = <<v, "c">> \/ t = <<v, "c", "@0.5">>
    BY <1>3 DEF WellFormed
  <2>2. ASSUME NEW b \in {"c", "ms", "g"}, t = <<v, b>> PROVE HasValue(t)
    <3>1. HasPipe(t) /\ Fields(t) = <<v, b>> BY <2>2, Pipes, ValueFields
    <3> QED BY <1>1, <3>1
  <2>3. CASE t = <<v, "c", "@0.5">>
    <3>1. HasPipe(t) /\ Fields(t) = <<v, "c", "@0.5">>
      BY <2>3, Pipes, ValueFields
    <3> QED BY <1>1, <3>1
  <2> QED BY <2>1, <2>2, <2>3
<1> QED BY <1>2, <1>3

LEMMA TokenOfText ==
  ASSUME NEW t, TimerToken(t) \/ GaugeToken(t) \/ CounterToken(t)
                \/ StaleToken(t)
  PROVE  TokenMeansUpdate'
<1>1. token' = t /\ key' = key
  BY DEF TimerToken, GaugeToken, CounterToken, StaleToken, NextToken
<1>2. HasValue(t) => Makes(t) BY ValuedIsLive DEF Makes
<1>3. ASSUME t \in WellFormed PROVE Means(update, t)'
  <2>1. Makes(t) BY <1>2, <1>3, ValuedTokens
  <2>2. /\ update'.op = Meaning(t).op /\ update'.value = Meaning(t).value
        /\ update'.key = key'
    BY <1>1, <1>3, <2>1, WellFormedMeans
  <2> QED BY <2>2 DEF Means, Meaning, Number
<1>4. ASSUME NEW v \in Value, NEW r \in Value, t = <<v, "", r>>
      PROVE  update'.op = "counter"
  <2>1. Makes(<<v, "", r>>) BY <1>2, <1>4, ValuedTokens
  <2> QED BY <2>1, ClientTimerMakes
<1>5. \A v \in Value : <<v, "c">> \in WellFormed BY DEF WellFormed
<1>6. \A v, r \in Value : /\ ClientToken(TRUE, v, r) = <<v, "", r>>
                          /\ ClientToken(FALSE, v, r) = <<v, "c">>
  BY DEF ClientToken
<1>7. token' \in WellFormed => Means(update, token)'
  BY <1>1, <1>3 DEF Means
<1>8. ASSUME NEW v \in Value, NEW r \in Value
      PROVE  /\ token' = ClientToken(TRUE, v, r) => update'.op = "counter"
             /\ token' = ClientToken(FALSE, v, r) => Means(update, token)'
  BY <1>1, <1>4, <1>5, <1>6, <1>7
<1> QED BY <1>7, <1>8 DEF TokenMeansUpdate, ClientToken, WellFormed, Value

LEMMA TextMeansStep ==
  ASSUME TokenMeansUpdate, [Next]_vars PROVE TokenMeansUpdate'
<1>1. CASE \E t \in Token : \/ TimerToken(t) \/ GaugeToken(t)
                            \/ CounterToken(t) \/ StaleToken(t)
  BY <1>1, TokenOfText
<1>2. CASE pc' # "text" BY <1>2 DEF TokenMeansUpdate
<1>3. CASE UNCHANGED <<pc, key, token, update>>
  BY <1>3 DEF TokenMeansUpdate, Means
<1>4. CASE token' = <<>>
  <2>1. token' \notin WellFormed BY <1>4 DEF WellFormed
  <2>2. \A v, r \in Value : /\ token' # ClientToken(TRUE, v, r)
                            /\ token' # ClientToken(FALSE, v, r)
    BY <1>4 DEF ClientToken
  <2> QED BY <2>1, <2>2 DEF TokenMeansUpdate, ClientToken, WellFormed, Value
<1>5. \/ pc' # "text" \/ UNCHANGED <<pc, key, token, update>>
      \/ token' = <<>>
      \/ \E t \in Token : \/ TimerToken(t) \/ GaugeToken(t)
                          \/ CounterToken(t) \/ StaleToken(t)
  BY DEF Next, vars, TakeShortPacket, TakeEmptyPacket, EndTextPacket,
     TakeTextPacket, StaleTokenCrashes, TakeJsonPacket, TakeBadJson,
     UseBadJson, JsonOther, EndJsonPacket, JsonElement, NextElement, Start
<1> QED BY <1>1, <1>2, <1>3, <1>4, <1>5

------------------------------------------------------------------------------
(* PacketParser is type-correct: a packet makes no more updates than it has  *)
(* tokens or elements, or one if it has none.                                *)
THEOREM TypeCorrect == Spec => []TypeOK
<1>1. Inv => TypeOK BY DEF Inv
<1> QED BY InvInit, InvStep, <1>1, PTL DEF Spec

(* JSON and text agree: process_json_stats_object (src/src/statsd.c:683)     *)
(* makes the update that process_stats_packet makes of the same value, type  *)
(* and sample rate, whatever types the JSON gives them.                      *)
THEOREM SameInBothFormats == Spec => []JsonMeansText
<1>1. Init => JsonMeansText BY DEF Init, JsonMeansText
<1>2. JsonMeansText /\ [Next]_vars => JsonMeansText' BY JsonStep
<1> QED BY <1>1, <1>2, PTL DEF Spec

(* Whatever tokens come before it and whatever they left in charvalue, a     *)
(* token of the statsd format makes the update that the format gives it      *)
(* (process_stats_packet, src/src/statsd.c:749); the timer that              *)
(* statsd_client sends always makes one of a counter.                        *)
THEOREM TokensMeanUpdates == Spec => []TokenMeansUpdate
<1>1. Init => TokenMeansUpdate BY DEF Init, TokenMeansUpdate
<1>2. TokenMeansUpdate /\ [Next]_vars => TokenMeansUpdate' BY TextMeansStep
<1> QED BY <1>1, <1>2, PTL DEF Spec

(* charvalue (src/src/statsd.c:752) is read while it is not set or freed    *)
(* only for a token without a value among pipes.                             *)
THEOREM UndefinedOnlyThen == Spec => UndefinedNeedsBareToken
<1>1. [Next]_vars => [undefined' /\ ~undefined => ~HasValue(token')]_vars
  <2> SUFFICES ASSUME Next, undefined', ~undefined
               PROVE  ~HasValue(token')
    OBVIOUS
  <2>1. \E t \in Token : StaleToken(t) \/ StaleTokenCrashes(t)
    BY DEF Next, TakeShortPacket, TakeEmptyPacket, EndTextPacket,
       TakeTextPacket, TimerToken, GaugeToken, CounterToken, TakeJsonPacket,
       TakeBadJson, UseBadJson, JsonOther, EndJsonPacket, JsonElement, Start,
       NextElement
  <2>2. PICK t \in Token : token' = t /\ ValueAfter(t).pointer # "live"
    BY <2>1 DEF StaleToken, StaleTokenCrashes, NextToken
  <2> QED BY <2>2 DEF ValueAfter
<1> QED BY <1>1, PTL DEF Spec, UndefinedNeedsBareToken
==============================================================================
