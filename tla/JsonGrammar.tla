---------------------------- MODULE JsonGrammar ----------------------------
(***************************************************************************)
(* The language that JsonTokener is held against: what a text means, read  *)
(* by recursive descent.  It is JSON with what json_tokener.c allows on    *)
(* purpose: comments, either quote, a comma before a closing bracket and   *)
(* anything after the first value.                                         *)
(*                                                                         *)
(* A reading is the position after what was read and the value; the        *)
(* position is 0 when there is nothing to read.                            *)
(***************************************************************************)
EXTENDS JsonPrinter

CONSTANTS
  EOF,         \* the character 0 that ends a text
  MaxDepth     \* JSON_TOKENER_MAX_DEPTH (32)

Space == {" ", "\n"}
Quote == {"\"", "'"}
Digit == {"1"}
NumberChar == Digit \union {".", "+", "-", "e", "E"}

Got(i, v) == [at |-> i, val |-> v]
Nothing == Got(0, null)
Ch(s, i) == IF i \in DOMAIN s THEN s[i] ELSE EOF

(* The first position from i on that satisfies Is, or 0. *)
FirstFrom(s, i, Is(_)) ==
  LET good == {j \in i .. Len(s) : Is(j)}
  IN IF good = {} THEN 0 ELSE CHOOSE j \in good : \A k \in good : j <= k

(* After spaces and comments; 0 at a comment that has no end. *)
RECURSIVE Blank(_, _)
Blank(s, i) ==
  IF i = 0 THEN 0
  ELSE IF Ch(s, i) \in Space THEN Blank(s, i + 1)
  ELSE IF Ch(s, i) # "/" THEN i
  ELSE LET end == CASE Ch(s, i + 1) = "/" ->
                         FirstFrom(s, i + 2, LAMBDA j : s[j] = "\n")
                    [] Ch(s, i + 1) = "*" ->
                         FirstFrom(s, i + 3, LAMBDA j : /\ s[j] = "/"
                                                        /\ s[j - 1] = "*")
                    [] OTHER -> 0
       IN IF end = 0 THEN 0 ELSE Blank(s, end + 1)

(* The rest of a string that began with the quote q. *)
RECURSIVE StringRest(_, _, _, _)
StringRest(s, i, q, text) ==
  IF Ch(s, i) = q THEN Got(i + 1, <<"string", text>>)
  ELSE IF Ch(s, i) = EOF THEN Nothing
  ELSE IF Ch(s, i) # "\\" THEN StringRest(s, i + 1, q, Append(text, s[i]))
  ELSE CASE Ch(s, i + 1) \in {"\"", "\\", "/"} ->
              StringRest(s, i + 2, q, Append(text, s[i + 1]))
         [] Ch(s, i + 1) = "n" -> StringRest(s, i + 2, q, Append(text, "\n"))
         [] /\ Ch(s, i + 1) = "u"
            /\ \A j \in 1 .. UcsDigits : Ch(s, i + 1 + j) \in {"1", "a", "e"} ->
              StringRest(s, i + 2 + UcsDigits, q, Append(text, "ucs"))
         [] OTHER -> Nothing

(* Numbers: an optional sign, digits with or without a point, an exponent. *)
AllDigits(s) == \A i \in DOMAIN s : s[i] \in Digit
Unsigned(s) == IF s # <<>> /\ Head(s) \in {"-", "+"} THEN Tail(s) ELSE s
IsInt(s) == Unsigned(s) # <<>> /\ AllDigits(Unsigned(s))
IsMantissa(s) ==
  LET digits == SelectSeq(Unsigned(s), LAMBDA ch : ch # ".")
  IN /\ digits # <<>> /\ AllDigits(digits)
     /\ Len(digits) + 1 >= Len(Unsigned(s))
IsDouble(s) ==
  \/ IsMantissa(s)
  \/ \E i \in DOMAIN s : /\ s[i] \in {"e", "E"}
                         /\ IsMantissa(SubSeq(s, 1, i - 1))
                         /\ IsInt(SubSeq(s, i + 1, Len(s)))

(* The longest stretch of characters of numbers from i on. *)
NumberRun(s, i) ==
  LET end == FirstFrom(s, i, LAMBDA j : s[j] \notin NumberChar)
  IN SubSeq(s, i, IF end = 0 THEN Len(s) ELSE end - 1)

ScalarAt(s, i) ==
  LET run == NumberRun(s, i)
      word == {w \in {"null", "true", "false"} :
                 <<Ch(s, i), Ch(s, i + 1)>> = Word(w)}
  IN CASE Ch(s, i) \in Quote -> StringRest(s, i + 1, s[i], <<>>)
       [] Ch(s, i) \in Digit \union {"-"} ->
            IF IsInt(run) THEN Got(i + Len(run), <<"int", run>>)
            ELSE IF IsDouble(run) THEN Got(i + Len(run), <<"double", run>>)
            ELSE Nothing
       [] word # {} -> LET w == CHOOSE w \in word : TRUE
                       IN Got(i + 2, IF w = "null" THEN null
                                     ELSE <<"boolean", w>>)
       [] OTHER -> Nothing

(* A field of a name that is there already replaces it and comes last. *)
PutField(fields, k, v) ==
  Append(SelectSeq(fields, LAMBDA f : f.key # k), Field(k, v))

RECURSIVE ValueAt(_, _, _), Fields(_, _, _, _), Elements(_, _, _, _)

ValueAt(s, i, d) ==
  CASE i = 0 \/ d = MaxDepth -> Nothing
    [] i > 0 /\ Ch(s, i) = "{" -> Fields(s, Blank(s, i + 1), d, <<>>)
    [] i > 0 /\ Ch(s, i) = "[" -> Elements(s, Blank(s, i + 1), d, <<>>)
    [] OTHER -> ScalarAt(s, i)

Elements(s, i, d, vs) ==
  IF i = 0 THEN Nothing
  ELSE IF Ch(s, i) = "]" THEN Got(i + 1, <<"array", vs>>)
  ELSE LET v == ValueAt(s, i, d + 1)
           j == Blank(s, v.at)
       IN CASE j > 0 /\ Ch(s, j) = "," ->
                 Elements(s, Blank(s, j + 1), d, Append(vs, v.val))
            [] j > 0 /\ Ch(s, j) = "]" ->
                 Got(j + 1, <<"array", Append(vs, v.val)>>)
            [] OTHER -> Nothing

Fields(s, i, d, fs) ==
  IF i = 0 THEN Nothing
  ELSE IF Ch(s, i) = "}" THEN Got(i + 1, <<"object", fs>>)
  ELSE IF Ch(s, i) \notin Quote THEN Nothing
  ELSE LET name == StringRest(s, i + 1, s[i], <<>>)
           colon == Blank(s, name.at)
           v == IF colon > 0 /\ Ch(s, colon) = ":"
                THEN ValueAt(s, Blank(s, colon + 1), d + 1) ELSE Nothing
           j == Blank(s, v.at)
           all == PutField(fs, name.val[2], v.val)
       IN CASE j > 0 /\ Ch(s, j) = "," -> Fields(s, Blank(s, j + 1), d, all)
            [] j > 0 /\ Ch(s, j) = "}" -> Got(j + 1, <<"object", all>>)
            [] OTHER -> Nothing

error == <<"error", <<>>>>

(* What the text stands for.  What follows the value has to begin like a    *)
(* blank, or not.                                                           *)
Meaning(s) ==
  LET v == ValueAt(s, Blank(s, 1), 0)
  IN IF v.at = 0 \/ Blank(s, v.at) = 0 THEN error ELSE v.val
==============================================================================
