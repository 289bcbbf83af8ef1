------------------------------- MODULE MCJson -------------------------------
(***************************************************************************)
(* Bounded texts for the JSON modules.  A theme is a way to use the        *)
(* package, a set of words and the number of them in a text.  For api      *)
(* "none" the words are typed one by one and the pure functions are        *)
(* checked on the text, on every text of up to full words and on longer    *)
(* ones as long as the scanner has not refused them; for "Decode" and      *)
(* "Token" a Decoder reads it from a reader that delivers one or two words *)
(* at a time.  Two more themes declare struct types and run goroutines     *)
(* that share the encoder cache.                                           *)
(***************************************************************************)
EXTENDS JsonProps, JsonFields, JsonCache

CONSTANTS Themes

VARIABLES theme, count

mcVars == <<vars, encoderVars, decls, theme, count>>

MCInit ==
  /\ Init /\ CacheInit /\ theme \in Themes /\ count = 0
  /\ api = IF theme.api \in {"Decode", "Token"} THEN theme.api ELSE "none"
  /\ decls = [t \in {"S", "E", "F", "X", "Y"} |-> <<>>]

Typed ==
  /\ theme.api = "none" /\ count < theme.max
  /\ count < theme.full \/ scanAll(reset, input).code # "scanError"
  /\ \E w \in theme.words : input' = input \o w
  /\ count' = count + 1
  /\ UNCHANGED <<ended, m, api, theme>>

Delivered ==
  \E k \in 1..2 :
    /\ api # "none" /\ k <= theme.burst /\ count + k <= theme.max
    /\ Read(IF k = 1 THEN theme.words ELSE {v \o w : v \in theme.words, w \in theme.words})
    /\ count' = IF input' = input THEN count ELSE count + k
    /\ UNCHANGED theme

EndOfInput == api # "none" /\ count = theme.max /\ Read({}) /\ UNCHANGED <<theme, count>>

\* More is not asked twice in a row.
Calls ==
  /\ Decode \/ Token \/ (More /\ ~(m.out # <<>> /\ Last(m.out).k = "bool"))
  /\ UNCHANGED <<theme, count>>

Text == (Typed \/ Delivered \/ EndOfInput \/ Calls) /\ UNCHANGED <<encoderVars, decls>>

Plain(name, tag) == [name |-> name, tag |-> tag, anonymous |-> FALSE, exported |-> TRUE, type |-> "int"]
Embedded(t) == [name |-> t, tag |-> NoTag, anonymous |-> TRUE, exported |-> FALSE, type |-> t]
Declared ==
  /\ theme.api = "fields" /\ \E t \in Structs : \E sf \in theme.fields[t] : Declare(t, sf)
  /\ UNCHANGED <<vars, encoderVars, theme, count>>

Encoding == theme.api = "cache" /\ CacheNext /\ UNCHANGED <<vars, decls, theme, count>>

MCNext == Text \/ Declared \/ Encoding

MCSpec == MCInit /\ [][MCNext]_mcVars /\ CacheFair

-----------------------------------------------------------------------------
Q(c) == <<"\"", c, "\"">>

Structure == {<<"{">>, <<"}">>, <<"[">>, <<"]">>, <<",">>, <<":">>, Q("a"), <<"1">>, <<" ">>}
Numbers == {<<"-">>, <<"0">>, <<"1">>, <<".">>, <<"e">>, <<"+">>, <<"[">>, <<"]">>}
Letters == {<<"t">>, <<"r">>, <<"u">>, <<"e">>, <<"n">>, <<"l">>}
FalseLetters == {<<"f">>, <<"a">>, <<"l">>, <<"s">>, <<"e">>}
Strings == {<<"\"">>, <<"\\">>, <<"n">>, <<"<">>, <<"u2028">>, <<"bad">>, <<"ctl">>, <<"x">>,
            <<"\\", "u", "d", "8", "0", "0">>, <<"\\", "u", "d", "c", "0", "0">>,
            <<"\\", "u", "0", "0", "3", "C">>, <<"\\", "u", "0", "0">>}

Nested == {<<"{", "\"", "a", "\"", ":">>, <<",", "\"", "b", "\"", ":">>, <<",", "\"", "a", "\"", ":">>,
           <<"[">>, <<"]">>, <<"}">>, <<"1">>, <<",">>, <<"n", "u", "l", "l">>, Q("t"), <<"[", " ">>}
Streamed == {<<"{", "\"", "a", "\"", ":">>, <<"[">>, <<"]">>, <<"}">>, <<"1">>, <<",">>, <<"\"">>, <<" ">>}
Elements == {<<"{", "\"", "a", "\"", ":">>, <<",", "\"", "b", "\"", ":">>, <<"[">>, <<"]">>, <<"}">>,
             <<"1">>, <<",">>}

\* Structs that embed the same struct twice, and themselves.
Declarable == [S |-> {Plain("x", NoTag), Embedded("E"), Embedded("F")},
               E |-> {Plain("x", NoTag), Plain("y", "x"), Embedded("X"), Embedded("S")},
               F |-> {Plain("x", NoTag), Embedded("X")},
               X |-> {Plain("x", "-"), Embedded("Y"), [Embedded("E") EXCEPT !.tag = "y"]},
               Y |-> {Plain("x", NoTag), [Plain("x", NoTag) EXCEPT !.exported = FALSE]}]

MCThemes == {[api |-> "none", words |-> Structure, max |-> 5, full |-> 5],
             [api |-> "none", words |-> Nested, max |-> 6, full |-> 4],
             [api |-> "none", words |-> Numbers, max |-> 5, full |-> 5],
             [api |-> "none", words |-> Letters, max |-> 5, full |-> 5],
             [api |-> "none", words |-> FalseLetters, max |-> 5, full |-> 5],
             [api |-> "none", words |-> Strings, max |-> 4, full |-> 4],
             [api |-> "Decode", words |-> Streamed, max |-> 4, burst |-> 2],
             [api |-> "Token", words |-> Streamed, max |-> 3, burst |-> 2],
             [api |-> "Token", words |-> Elements, max |-> 6, burst |-> 1],
             [api |-> "fields", fields |-> Declarable], [api |-> "cache"]}

\* The goroutine scenario: A holds two Bs, B holds an A.
MCElems == [A |-> <<"B", "B">>, B |-> <<"A">>]

\* Objects whose member is an array of fixed size that arrays are skipped in.
SyncThemes == {[api |-> "none", max |-> 8, full |-> 0,
                words |-> {<<"{", "\"", "a", "\"", ":">>, <<"[">>, <<"]">>, <<"1">>, <<",">>, <<"}">>}]}
=============================================================================
