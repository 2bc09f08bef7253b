---------------------------- MODULE JsonTokener ----------------------------
(***************************************************************************)
(* json_tokener_parse (src/src/json-c/json_tokener.c), which reads the     *)
(* saved state and the JSON packets: a stack machine over the characters   *)
(* of the text, with the reference counts of the objects it builds         *)
(* (json_object.c).                                                        *)
(*                                                                         *)
(* A character is an atom of the text: the words null and true come in two *)
(* atoms each, a letter stands for all letters and a digit for all digits. *)
(* The end of the text is EOF, the character 0 of the C string.  Every     *)
(* case of the switch is an action; an action that does not go on to       *)
(* PopChar is a "goto redo_char".  The loops inside a case take one        *)
(* character per step.  An object is its fields in the order of its        *)
(* linkhash table (module LinkHash), an array the list of its elements.    *)
(***************************************************************************)
EXTENDS JsonGrammar

CONSTANTS
  Char,        \* the atoms that texts are made of
  Rare,        \* those that a text has MaxRare of at most
  NULL,        \* the null pointer
  Saved,       \* values that are printed and read back
  Texts,       \* longer texts
  MaxText,     \* bound: the characters of a text
  MaxRare,     \* bound: its rare characters
  MaxString    \* bound: the characters of a string or comment

ASSUME JsonAssumption ==
  /\ MaxDepth \in Nat \ {0}
  /\ UcsDigits \in Nat \ {0} /\ FractionDigits \in Nat \ {0}
  /\ MaxText \in Nat /\ MaxRare \in Nat /\ MaxString \in Nat
  /\ EOF \notin Char /\ Rare \subseteq Char

VARIABLES
  input,       \* the text, <<>> when its characters are chosen as they are read
  pc,          \* "pop", "case" (the switch), "out" or "done"
  str,         \* the characters read so far
  c,           \* the last of them
  stack,       \* tok->stack[0 .. depth], the current level last
  pb,          \* tok->pb
  quote_char, is_double, st_pos, err,   \* the fields of tok
  obj,         \* the value that a nested level has finished
  heap,        \* the objects, in the order they were made
  result       \* what json_tokener_parse returns

tokVars == <<quote_char, is_double, st_pos, err>>
vars == <<input, pc, str, c, stack, pb, tokVars, obj, heap, result>>

HexDigit == {"1", "a", "e", EOF}   \* strchr finds the 0 at the end, too

(* json_tokener_reset_level. *)
EmptyLevel ==
  [state |-> "eatws", saved_state |-> "start", current |-> NULL,
   obj_field_name |-> NULL]

(* A text is free, or one of the longer texts or what was printed for a     *)
(* value, whole or cut short anywhere.                                      *)
Printed(v) == Append(json_object_to_json_string(v), EOF)

Init ==
  /\ \/ input = <<>>
     \/ \E s \in {Printed(v) : v \in Saved} \union Texts : \E n \in DOMAIN s :
          input = Append(SubSeq(s, 1, n - 1), EOF)
  /\ pc = "pop" /\ str = <<>> /\ c = NULL
  /\ stack = <<EmptyLevel>>
  /\ pb = <<>> /\ quote_char = NULL /\ is_double = FALSE /\ st_pos = 0
  /\ err = "success" /\ obj = NULL
  /\ heap = <<>> /\ result = NULL

depth == Len(stack) - 1
level == stack[Len(stack)]
At(s) == pc = "case" /\ level.state = s

------------------------------------------------------------------------------
(* json_object.c: an object is made with one reference, and json_object_put *)
(* frees it and puts what it holds when the last one is gone.               *)

json_object_get(h, id) == [h EXCEPT ![id].refs = @ + 1]

NewObject(type, value) ==
  Append(heap, [o_type |-> type, refs |-> 1, value |-> value])

(* What deleting an object puts: the values of its table, from its head on, *)
(* or the elements of its array.                                            *)
lh_table_free(fields) == [i \in DOMAIN fields |-> fields[i].val]

Children(o) ==
  CASE o.o_type = "object" -> lh_table_free(o.value)
    [] o.o_type = "array" -> o.value
    [] OTHER -> <<>>

RECURSIVE json_object_put(_, _)
json_object_put(h, ids) ==
  IF ids = <<>> THEN h
  ELSE LET id == Head(ids)
           less == [h EXCEPT ![id].refs = @ - 1]
       IN IF id = NULL THEN json_object_put(h, Tail(ids))
          ELSE IF less[id].refs > 0 THEN json_object_put(less, Tail(ids))
          ELSE json_object_put(less, Children(h[id]) \o Tail(ids))

(* For the sensitivity check: the key is not looked for first. *)
AddWithoutDelete(h, id, k, v) ==
  [h EXCEPT ![id].value = Append(@, [key |-> k, val |-> v])]

(* The old value of the key is deleted, the new one goes to the end. *)
json_object_object_add(h, id, k, v) ==
  LET old == SelectSeq(h[id].value, LAMBDA f : f.key = k)
  IN json_object_put(
       [h EXCEPT ![id].value =
          Append(SelectSeq(@, LAMBDA f : f.key # k), [key |-> k, val |-> v])],
       [i \in DOMAIN old |-> old[i].val])

json_object_array_add(h, id, v) == [h EXCEPT ![id].value = Append(@, v)]

------------------------------------------------------------------------------
(* The ways a case ends. *)

Break == pc' = "pop"
Redo == pc' = "case"
Fail(e) == pc' = "out" /\ err' = e

SetState(s) == stack' = [stack EXCEPT ![Len(stack)].state = s]
Await(s) ==
  stack' = [stack EXCEPT ![Len(stack)].state = "eatws",
                         ![Len(stack)].saved_state = s]
Finish(value) ==
  stack' = [stack EXCEPT ![Len(stack)].state = "eatws",
                         ![Len(stack)].saved_state = "finish",
                         ![Len(stack)].current = value]
(* A new value of the heap is the current one. *)
Made(type, value) ==
  /\ heap' = NewObject(type, value)
  /\ Finish(Len(heap) + 1)

RareRead == Len(SelectSeq(str, LAMBDA ch : ch \in Rare))
TextIsFull ==
  \/ level.state \in {"string", "object_field"} /\ Len(pb) >= MaxString
  \/ level.state \in {"comment", "comment_eol"} /\ Len(pb) >= MaxString + 2

NextChar ==
  IF input # <<>> THEN {input[Len(str) + 1]}
  ELSE {ch \in Char \union {EOF} :
          /\ ch # EOF => Len(str) < MaxText
          /\ ch \in Rare => RareRead < MaxRare
          /\ TextIsFull => ch \in {"\"", "*", "\n", "\\", EOF}}

(* ADVANCE_CHAR ends the text at the 0, POP_CHAR gives the next character. *)
PopChar ==
  /\ pc = "pop"
  /\ IF c = EOF THEN pc' = "out" /\ UNCHANGED <<str, c>>
     ELSE /\ pc' = "case"
          /\ \E ch \in NextChar : c' = ch /\ str' = Append(str, ch)
  /\ UNCHANGED <<input, stack, pb, tokVars, obj, heap, result>>

------------------------------------------------------------------------------
Eatws ==
  /\ At("eatws")
  /\ \/ c \in Space /\ Break /\ UNCHANGED <<stack, pb>>
     \/ c = "/" /\ pb' = <<c>> /\ SetState("comment_start") /\ Break
     \/ c \notin Space \union {"/"} /\ SetState(level.saved_state) /\ Redo
        /\ UNCHANGED pb
  /\ UNCHANGED <<input, str, c, tokVars, obj, heap, result>>

StartContainer ==
  /\ At("start")
  /\ c \in {"{", "["}
  /\ heap' = NewObject(IF c = "{" THEN "object" ELSE "array", <<>>)
  /\ stack' = [stack EXCEPT
       ![Len(stack)].state = "eatws",
       ![Len(stack)].saved_state = IF c = "{" THEN "object_field_start"
                                   ELSE "array",
       ![Len(stack)].current = Len(heap) + 1]
  /\ Break
  /\ UNCHANGED <<input, str, c, pb, tokVars, obj, result>>

StartScalar ==
  /\ At("start")
  /\ c \notin {"{", "["}
  /\ \/ /\ c \in {"nu", "tr", "fa"}
        /\ SetState(IF c = "nu" THEN "null" ELSE "boolean")
        /\ st_pos' = 0 /\ pb' = <<>> /\ Redo
        /\ UNCHANGED <<quote_char, is_double, err>>
     \/ /\ c \in Quote
        /\ SetState("string") /\ quote_char' = c /\ pb' = <<>> /\ Break
        /\ UNCHANGED <<is_double, st_pos, err>>
     \/ /\ c \in Digit \union {"-"}
        /\ SetState("number") /\ is_double' = FALSE /\ pb' = <<>> /\ Redo
        /\ UNCHANGED <<quote_char, st_pos, err>>
     \/ /\ c \notin {"nu", "tr", "fa", "-"} \union Quote \union Digit
        /\ Fail("unexpected")
        /\ UNCHANGED <<stack, pb, quote_char, is_double, st_pos>>
  /\ UNCHANGED <<input, str, c, obj, heap, result>>

(* The level above takes the value: the reference that obj gets is the one  *)
(* that resetting the level gives up.                                       *)
FinishValue ==
  /\ At("finish")
  /\ IF depth = 0 THEN pc' = "out" /\ UNCHANGED <<stack, obj>>
     ELSE obj' = level.current /\ stack' = Front(stack) /\ Redo
  /\ UNCHANGED <<input, str, c, pb, tokVars, heap, result>>

(* A word is recognised by the character that follows it. *)
Matches(word, text) ==
  LET n == IF st_pos + 1 < Len(word) THEN st_pos + 1 ELSE Len(word)
  IN SubSeq(text, 1, n) = SubSeq(word, 1, n)

NullOrBoolean ==
  /\ pc = "case" /\ level.state \in {"null", "boolean"}
  /\ pb' = Append(pb, c)
  /\ LET words == IF level.state = "null" THEN {"null"} ELSE {"true", "false"}
         found == {w \in words : Matches(Word(w), pb')}
     IN \/ /\ found = {} /\ Fail(level.state)
           /\ UNCHANGED <<stack, heap, st_pos>>
        \/ \E w \in found :
             IF st_pos = Len(Word(w))
             THEN /\ Redo
                  /\ IF w = "null" THEN Finish(NULL) /\ UNCHANGED heap
                     ELSE Made("boolean", w)
                  /\ UNCHANGED <<st_pos, err>>
             ELSE Break /\ st_pos' = st_pos + 1 /\ UNCHANGED <<stack, heap, err>>
  /\ UNCHANGED <<input, str, c, quote_char, is_double, obj, result>>

------------------------------------------------------------------------------
CommentStart ==
  /\ At("comment_start")
  /\ \/ /\ c \in {"*", "/"}
        /\ SetState(IF c = "*" THEN "comment" ELSE "comment_eol")
        /\ pb' = Append(pb, c) /\ Break /\ UNCHANGED err
     \/ c \notin {"*", "/"} /\ Fail("comment") /\ UNCHANGED <<stack, pb>>
  /\ UNCHANGED <<input, str, c, quote_char, is_double, st_pos, obj, heap, result>>

(* To the "*" or the end of the line; the text may end before. *)
Comment ==
  /\ pc = "case" /\ level.state \in {"comment", "comment_eol"}
  /\ LET last == IF level.state = "comment" THEN "*" ELSE "\n"
     IN IF c = last THEN SetState(IF last = "*" THEN "comment_end" ELSE "eatws")
        ELSE UNCHANGED stack
  /\ pb' = Append(pb, c)
  /\ Break
  /\ UNCHANGED <<input, str, c, tokVars, obj, heap, result>>

CommentEnd ==
  /\ At("comment_end")
  /\ SetState(IF c = "/" THEN "eatws" ELSE "comment")
  /\ pb' = Append(pb, c) /\ Break
  /\ UNCHANGED <<input, str, c, tokVars, obj, heap, result>>

------------------------------------------------------------------------------
(* A string, or the name of a field. *)
StringChar ==
  /\ pc = "case" /\ level.state \in {"string", "object_field"}
  /\ Break
  /\ \/ /\ c = quote_char
        /\ IF level.state = "string" THEN Made("string", pb)
           ELSE /\ stack' = [stack EXCEPT
                     ![Len(stack)].state = "eatws",
                     ![Len(stack)].saved_state = "object_field_end",
                     ![Len(stack)].obj_field_name = pb]
                /\ UNCHANGED heap
        /\ UNCHANGED pb
     \/ /\ c = "\\" /\ c # quote_char
        /\ stack' = [stack EXCEPT ![Len(stack)].saved_state = level.state,
                                  ![Len(stack)].state = "string_escape"]
        /\ UNCHANGED <<pb, heap>>
     \/ c \notin {quote_char, "\\"} /\ pb' = Append(pb, c)
        /\ UNCHANGED <<stack, heap>>
  /\ UNCHANGED <<input, str, c, tokVars, obj, result>>

StringEscape ==
  /\ At("string_escape")
  /\ \/ /\ c \in {"\"", "\\", "/", "n"}
        /\ pb' = Append(pb, IF c = "n" THEN "\n" ELSE c)
        /\ SetState(level.saved_state) /\ Break
        /\ UNCHANGED <<st_pos, err>>
     \/ /\ c = "u" /\ st_pos' = 0 /\ SetState("escape_unicode") /\ Break
        /\ UNCHANGED <<pb, err>>
     \/ c \notin {"\"", "\\", "/", "n", "u"} /\ Fail("string")
        /\ UNCHANGED <<stack, pb, st_pos>>
  /\ UNCHANGED <<input, str, c, quote_char, is_double, obj, heap, result>>

EscapeUnicode ==
  /\ At("escape_unicode")
  /\ IF c \notin HexDigit THEN Fail("string") /\ UNCHANGED <<stack, pb, st_pos>>
     ELSE /\ st_pos' = st_pos + 1
          /\ IF st_pos' = UcsDigits
             THEN pb' = Append(pb, "ucs") /\ SetState(level.saved_state)
             ELSE UNCHANGED <<stack, pb>>
          /\ Break /\ UNCHANGED err
  /\ UNCHANGED <<input, str, c, quote_char, is_double, obj, heap, result>>

------------------------------------------------------------------------------
(* sscanf converts the longest prefix that is a number and needs no more. *)
LongestPrefix(Is(_), s) ==
  LET good == {n \in 1 .. Len(s) : Is(SubSeq(s, 1, n))}
  IN IF good = {} THEN <<>>
     ELSE SubSeq(s, 1, CHOOSE n \in good : \A k \in good : k <= n)

Number ==
  /\ At("number")
  /\ IF c \in NumberChar
     THEN /\ pb' = Append(pb, c)
          /\ is_double' = (is_double \/ c \in {".", "e"})
          /\ Break /\ UNCHANGED <<stack, heap, err>>
     ELSE LET read == IF is_double THEN LongestPrefix(IsDouble, pb)
                      ELSE LongestPrefix(IsInt, pb)
          IN /\ IF read = <<>> THEN Fail("number") /\ UNCHANGED <<stack, heap>>
                ELSE Made(IF is_double THEN "double" ELSE "int", read)
                     /\ Redo /\ UNCHANGED err
             /\ UNCHANGED <<pb, is_double>>
  /\ UNCHANGED <<input, str, c, quote_char, st_pos, obj, result>>

------------------------------------------------------------------------------
(* A nested value has a level of its own. *)
Descend(next) ==
  IF depth >= MaxDepth - 1 THEN Fail("depth") /\ UNCHANGED stack
  ELSE /\ stack' = Append([stack EXCEPT ![Len(stack)].state = next], EmptyLevel)
       /\ Redo /\ UNCHANGED err

Array ==
  /\ At("array")
  /\ IF c = "]" THEN Await("finish") /\ Break /\ UNCHANGED err
     ELSE Descend("array_add")
  /\ UNCHANGED <<input, str, c, pb, quote_char, is_double, st_pos, obj, heap, result>>

ArrayAdd ==
  /\ At("array_add")
  /\ heap' = json_object_array_add(heap, level.current, obj)
  /\ Await("array_sep") /\ Redo
  /\ UNCHANGED <<input, str, c, pb, tokVars, obj, result>>

ObjectFieldStart ==
  /\ At("object_field_start")
  /\ \/ c = "}" /\ Await("finish") /\ Break /\ UNCHANGED <<pb, quote_char, err>>
     \/ /\ c \in Quote /\ quote_char' = c /\ pb' = <<>>
        /\ SetState("object_field") /\ Break /\ UNCHANGED err
     \/ c \notin Quote \union {"}"} /\ Fail("object_key_name")
        /\ UNCHANGED <<stack, pb, quote_char>>
  /\ UNCHANGED <<input, str, c, is_double, st_pos, obj, heap, result>>

(* What has to follow a name, an element or a field. *)
Expect(s, next, e) ==
  /\ At(s)
  /\ IF c \in DOMAIN next THEN Await(next[c]) /\ Break /\ UNCHANGED err
     ELSE Fail(e) /\ UNCHANGED stack
  /\ UNCHANGED <<input, str, c, pb, quote_char, is_double, st_pos, obj, heap, result>>

ObjectFieldEnd ==
  Expect("object_field_end", [ch \in {":"} |-> "object_value"], "key_sep")

ArraySep ==
  Expect("array_sep", [ch \in {"]", ","} |->
                         IF ch = "]" THEN "finish" ELSE "array"], "array")

ObjectSep ==
  Expect("object_sep",
         [ch \in {"}", ","} |->
            IF ch = "}" THEN "finish" ELSE "object_field_start"], "value_sep")

ObjectValue ==
  /\ At("object_value")
  /\ Descend("object_value_add")
  /\ UNCHANGED <<input, str, c, pb, quote_char, is_double, st_pos, obj, heap, result>>

ObjectValueAdd ==
  /\ At("object_value_add")
  /\ heap' = json_object_object_add(heap, level.current,
                                    level.obj_field_name, obj)
  /\ stack' = [stack EXCEPT ![Len(stack)].state = "eatws",
                            ![Len(stack)].saved_state = "object_sep",
                            ![Len(stack)].obj_field_name = NULL]
  /\ Redo
  /\ UNCHANGED <<input, str, c, pb, tokVars, obj, result>>

------------------------------------------------------------------------------
Currents == [i \in DOMAIN stack |-> stack[Len(stack) + 1 - i].current]

(* For the sensitivity check: only the current level is reset. *)
FreeCurrentLevel(h) == json_object_put(h, <<level.current>>)

(* json_tokener_free puts what every level holds, the deepest one first. *)
FreeTokener(h) == json_object_put(h, Currents)

(* The label "out" and the rest of json_tokener_parse.  The result gets a    *)
(* reference of its own before the tokener gives up its one.                 *)
Out ==
  /\ pc = "out"
  /\ pc' = "done"
  /\ err' = IF c = EOF /\ "finish" \notin {level.state, level.saved_state}
            THEN "eof" ELSE err
  /\ LET kept == err' = "success" /\ level.current # NULL
     IN heap' = FreeTokener(IF kept THEN json_object_get(heap, level.current)
                            ELSE heap)
  /\ result' = IF err' = "success" THEN level.current ELSE NULL
  /\ UNCHANGED <<input, str, c, stack, pb, quote_char, is_double, st_pos, obj>>

Value ==
  \/ StartContainer \/ StartScalar \/ FinishValue \/ NullOrBoolean \/ Number
  \/ StringChar \/ StringEscape \/ EscapeUnicode
Skip == Eatws \/ CommentStart \/ Comment \/ CommentEnd
Container ==
  \/ Array \/ ArrayAdd \/ ArraySep \/ ObjectFieldStart \/ ObjectFieldEnd
  \/ ObjectValue \/ ObjectValueAdd \/ ObjectSep

Terminated == pc = "done" /\ UNCHANGED vars

Next == PopChar \/ Value \/ Skip \/ Container \/ Out \/ Terminated

Spec == Init /\ [][Next]_vars

------------------------------------------------------------------------------
(* Properties. *)

RECURSIVE ValueOf(_)
ValueOf(id) ==
  IF id = NULL THEN null
  ELSE LET o == heap[id]
       IN <<o.o_type,
            CASE o.o_type = "object" ->
                   [i \in DOMAIN o.value |->
                      Field(o.value[i].key, ValueOf(o.value[i].val))]
              [] o.o_type = "array" ->
                   [i \in DOMAIN o.value |-> ValueOf(o.value[i])]
              [] OTHER -> o.value>>

Returned == IF err = "success" THEN ValueOf(result) ELSE error

(* Where the code reads another language than JsonGrammar's: it accepts a    *)
(* text that ends in a comment, takes the stars of a comment in pairs, sees  *)
(* no exponent in an E, and cuts a number that sscanf can read the start of. *)
WholeNumbers ==
  \A i \in DOMAIN str :
    str[i] \in NumberChar /\ (i = 1 \/ str[i - 1] \notin NumberChar) =>
      IsInt(NumberRun(str, i)) \/ IsDouble(NumberRun(str, i))
Departs ==
  \/ level.state \in {"comment", "comment_eol"}
  \/ \E i \in DOMAIN str : \/ str[i] = "E"
                           \/ str[i] = "*" /\ Ch(str, i + 1) = "*"
  \/ ~WholeNumbers

(* What the stack machine returns for a text is what the grammar reads in    *)
(* it: nothing else is accepted, no nesting, comma, duplicate field, comment *)
(* or escape leads it to another value, whatever states it saved on the way. *)
ReadsTheGrammar ==
  pc = "done" /\ ~Departs => Returned = Meaning(str)

(* What the saved state keeps of a value: its doubles to FractionDigits.     *)
RECURSIVE Rounded(_), Finite(_)
Rounded(v) ==
  <<v[1],
    CASE v[1] = "object" ->
           [i \in DOMAIN v[2] |-> Field(v[2][i].key, Rounded(v[2][i].val))]
      [] v[1] = "array" -> [i \in DOMAIN v[2] |-> Rounded(v[2][i])]
      [] v[1] = "double" -> ToFraction(v[2])
      [] OTHER -> v[2]>>
Finite(v) ==
  CASE v[1] = "object" -> \A i \in DOMAIN v[2] : Finite(v[2][i].val)
    [] v[1] = "array" -> \A i \in DOMAIN v[2] : Finite(v[2][i])
    [] v[1] = "double" -> v[2] \notin NotFinite
    [] OTHER -> TRUE

(* A value that json_object_to_json_string printed is read back with its     *)
(* doubles rounded, each of them again as a double; one infinite number or   *)
(* nan anywhere in it makes the whole text unreadable, and a text that is    *)
(* cut short anywhere is an error.  The restart depends on all of it: the    *)
(* last to notice that the file was not written to its end.                  *)
PrintedIsReadBack ==
  pc = "done" => \A v \in Saved :
    /\ input = Printed(v) =>
         Returned = IF Finite(v) THEN Rounded(v) ELSE error
    /\ input # <<>> /\ IsStrictPrefix(Front(input), Front(Printed(v))) =>
         Returned = error

(* How many pointers of the tokener, the result and the containers go to id. *)
PointersTo(id) ==
  Len(SelectSeq(IF pc = "done" THEN <<result>> ELSE Currents,
                LAMBDA p : p = id))
  + (IF obj = id /\ level.state \in {"array_add", "object_value_add"}
     THEN 1 ELSE 0)
  + MapThenSumSet(LAMBDA o : Len(SelectSeq(Children(heap[o]), LAMBDA p : p = id)),
                  {o \in DOMAIN heap : heap[o].refs > 0})

(* Every object is referenced as often as it counts, so none is freed while  *)
(* it is used and, when json_tokener_parse has returned, everything that is  *)
(* not part of the result is freed, after an error at any depth as well.     *)
RefsCounted == \A id \in DOMAIN heap : heap[id].refs = PointersTo(id)
==============================================================================
