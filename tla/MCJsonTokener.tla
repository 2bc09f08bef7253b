--------------------------- MODULE MCJsonTokener ---------------------------
(* JsonTokener over every text of up to MaxText characters, with nesting to  *)
(* the limit, and over the printed forms of a few values of each type, one   *)
(* of them in the shape of the saved state, cut short at every point.  The   *)
(* printer rounds to one digit after the point; one saved double has two.    *)
EXTENDS JsonTokener

MCChar == {"{", "}", "[", "]", ",", ":", "\"", "1", "*", "\n", "u", "ll", "ue",
           " ", "/", "\\", "E", ".", "-", "nu", "tr"}
MCRare == {" ", "/", "\\", "E", ".", "-", "nu", "tr"}

Double(s) == <<"double", s>>
State ==
  <<"object",
    << Field(<<"a">>, <<"object", <<Field(<<"a", ".", "a">>, <<"int", <<"1">>>>)>>>>),
       Field(<<"b">>, <<"object",
         << Field(<<"a">>, <<"array", <<Double(<<"1", ".", "1">>),
                                        Double(<<"-", "1", ".", "1", "1">>)>>>>),
            Field(<<"b">>, <<"array", <<>>>>) >>>>),
       Field(<<>>, <<"object", <<>>>>) >>>>
Other(d) ==
  <<"object", <<Field(<<"a">>, Double(<<"1", ".", "1">>)),
                Field(<<"b">>, Double(d))>>>>
MCSaved ==
  { State, Other(<<"inf">>), Other(<<"-", "inf">>), Other(<<"nan">>),
    <<"array", <<null, <<"boolean", "true">>, <<"boolean", "false">>>>>>,
    <<"object", <<Field(<<"/", "\"">>, <<"string", <<"\\", "\n", "ucs", "a">>>>)>>>> }

(* A field of a name that is there already, at two levels; comments. *)
Twice(v, w) ==
  <<"{", "\"", "a", "\"", ":">> \o v \o <<",", "'", "b", "'", ":", "1", ",",
    "\"", "a", "\"", ":">> \o w \o <<"}">>
MCTexts ==
  { Append(t, EOF) : t \in
      { Twice(<<"[", "1", "]">>, Twice(<<"nu", "ll">>, <<"[", "]">>)),
        Twice(Twice(<<"{", "}">>, <<"1">>), <<"tr", "ue">>),
        <<"1", "e", "1", " ", "/", "/", "*", "\n", "{">>,
        <<"[", "/", "*", "/", " ", "*", "/", "-", "1", "e", "-", "1", ",",
          "]">> } }
==============================================================================
