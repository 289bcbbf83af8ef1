---------------------------- MODULE JsonEncode ----------------------------
(***************************************************************************)
(* The encoder of jose/json/encode.go for the values and types of          *)
(* JsonDecode, and the formatters of jose/json/indent.go.  An encoder      *)
(* returns the bytes it writes.  addr says whether the value is            *)
(* addressable (reflect's CanAddr): MarshalJSON of RawMessage has a        *)
(* pointer receiver, so an element of a map, or of a struct that Marshal   *)
(* was given by value, is written as the byte slice it is.  Map keys are   *)
(* written in one fixed order (the code sorts them); floats and other byte *)
(* slices are left out, "text" has its MarshalText on the value.           *)
(***************************************************************************)
EXTENDS JsonDecode

HTML == {"<", ">", "&"}

Hex4(c) ==
  CASE c = "ctl" -> <<"\\", "u", "0", "0", "0", "1">>
    [] c = "<" -> <<"\\", "u", "0", "0", "3", "c">>
    [] c = ">" -> <<"\\", "u", "0", "0", "3", "e">>
    [] c = "&" -> <<"\\", "u", "0", "0", "2", "6">>
    [] c = "u2028" -> <<"\\", "u", "2", "0", "2", "8">>
    [] c = "bad" -> <<"\\", "u", "f", "f", "f", "d">>

\* What string and stringBytes write for a character of s.
escape(c) ==
  CASE c \in {"\\", "\""} -> <<"\\", c>>
    [] c = "\n" -> <<"\\", "n">>
    [] c = "\r" -> <<"\\", "r">>
    [] c = "\t" -> <<"\\", "t">>
    [] c \in HTML \cup {"ctl", "u2028", "bad"} -> Hex4(c)
    [] OTHER -> <<c>>

string(s) == <<"\"">> \o FlattenSeq([i \in 1..Len(s) |-> escape(s[i])]) \o <<"\"">>

-----------------------------------------------------------------------------
(* Compact, Indent, HTMLEscape.                                            *)

\* A plausible slip: U+2028 is left as it is.
EscapeMarkup(src) ==
  FlattenSeq([i \in 1..Len(src) |-> IF src[i] \in HTML THEN Hex4(src[i]) ELSE <<src[i]>>])

HTMLEscape(src) ==
  FlattenSeq([i \in 1..Len(src) |->
                IF src[i] \in HTML \cup {"u2028"} THEN Hex4(src[i]) ELSE <<src[i]>>])

\* The end of compact and of Indent.
formatted(r) == IF eof(r.scan).code = "scanError" THEN [err |-> TRUE, out |-> <<>>]
                ELSE [err |-> FALSE, out |-> r.out]

compactByte(c, code, html) == CASE code \in {"scanSkipSpace", "scanEnd"} -> <<>>
                                [] c = "u2028" \/ (html /\ c \in HTML) -> Hex4(c)
                                [] OTHER -> <<c>>

RECURSIVE compactFrom(_, _, _, _)
compactStep(src, t, out, html) ==
  compactFrom(Tail(src), t, out \o compactByte(Head(src), t.code, html), html)
compactFrom(src, s, out, html) ==
  IF src = <<>> \/ s.code = "scanError" THEN [scan |-> s, out |-> out]
  ELSE compactStep(src, Step(s, Head(src)), out, html)

compact(src, html) == formatted(compactFrom(src, reset, <<>>, html))

newline(indent, depth) == <<"\n">> \o FlattenSeq([i \in 1..depth |-> indent])

\* f is the loop's state: scan, out, needIndent, depth.
indentOpened(f, code, indent) ==
  IF f.needIndent /\ code \notin {"scanEndObject", "scanEndArray"}
  THEN [f EXCEPT !.needIndent = FALSE, !.depth = f.depth + 1, !.out = f.out \o newline(indent, f.depth + 1)]
  ELSE f

indentClosed(f, indent) ==
  IF f.needIndent THEN [f EXCEPT !.needIndent = FALSE]
  ELSE [f EXCEPT !.depth = f.depth - 1, !.out = f.out \o newline(indent, f.depth - 1)]

indentByte(f, c, code, indent) ==
  LET Write(g, b) == [g EXCEPT !.out = g.out \o b]
  IN  CASE code # "scanContinue" /\ c \in {"{", "["} -> [Write(f, <<c>>) EXCEPT !.needIndent = TRUE]
        [] code # "scanContinue" /\ c = "," -> Write(f, <<c>> \o newline(indent, f.depth))
        [] code # "scanContinue" /\ c = ":" -> Write(f, <<c, " ">>)
        [] code # "scanContinue" /\ c \in {"}", "]"} -> Write(indentClosed(f, indent), <<c>>)
        [] OTHER -> Write(f, <<c>>)

RECURSIVE indentFrom(_, _, _)
indentStep(src, t, f, indent) ==
  CASE t.code = "scanError" -> [f EXCEPT !.scan = t]
    [] t.code = "scanSkipSpace" -> indentFrom(Tail(src), [f EXCEPT !.scan = t], indent)
    [] OTHER -> indentFrom(Tail(src), indentByte(indentOpened([f EXCEPT !.scan = t], t.code, indent),
                                                 Head(src), t.code, indent), indent)
indentFrom(src, f, indent) ==
  IF src = <<>> THEN f ELSE indentStep(src, Step(f.scan, Head(src)), f, indent)

Indent(src, indent) ==
  formatted(indentFrom(src, [scan |-> reset, out |-> <<>>, needIndent |-> FALSE, depth |-> 0], indent))

-----------------------------------------------------------------------------
(* Marshal: the encoder of a type applied to a value of it.                *)

RECURSIVE FormatInt(_)
FormatInt(n) ==
  CASE n < 0 -> <<"-">> \o FormatInt(0 - n)
    [] n \in 0..9 -> <<Numerals[n + 1]>>
    [] OTHER -> Append(FormatInt(n \div 10), Numerals[(n % 10) + 1])

isEmptyValue(v, T) ==
  CASE T.kind \in {"array", "map", "slice", "string", "number"} -> v = Nil \/ DOMAIN v.v = {}
    [] T.kind = "bool" -> ~v.v
    [] T.kind = "int" -> v.v = 0
    [] T.kind = "interface" -> v = Nil
    [] OTHER -> FALSE

Quote(b, quoted) == IF quoted THEN <<"\"">> \o b \o <<"\"">> ELSE b
Commas(parts) == FlattenSeq([i \in 1..Len(parts) |-> IF i = 1 THEN parts[i] ELSE <<",">> \o parts[i]])

RECURSIVE encode(_, _, _, _)

\* The type found in an interface: what the decoder puts there.
dynamicType(v) ==
  CASE v.k = "bool" -> [kind |-> "bool"]
    [] v.k = "number" -> [kind |-> "number"]
    [] v.k = "string" -> [kind |-> "string"]
    [] v.k = "array" -> SliceOf(Iface)
    [] v.k = "object" -> MapOf(Iface)

\* A plausible slip: ",string" is forgotten for a bool.
BareBool(v, quoted) == IF v.v THEN <<"t", "r", "u", "e">> ELSE <<"f", "a", "l", "s", "e">>

boolEncoder(v, quoted) ==
  Quote(IF v.v THEN <<"t", "r", "u", "e">> ELSE <<"f", "a", "l", "s", "e">>, quoted)

intEncoder(v, quoted) == Quote(FormatInt(v.v), quoted)

\* A Number is written bare whether it is quoted or not.  "error" among the bytes
\* is e.error: the encoding is abandoned.
stringEncoder(v, T, quoted) ==
  CASE T.kind = "number" /\ v.v = <<>> -> <<"0">>
    [] T.kind = "number" /\ v.v # <<>> -> IF isValidNumber(v.v) THEN v.v ELSE <<"error">>
    [] OTHER -> IF quoted THEN string(string(v.v)) ELSE string(v.v)

\* encodeByteSlice: one character stands for the base64 digits of any bytes.
encodeByteSlice(v) == IF v = Nil THEN nullLiteral ELSE <<"\"", "base64", "\"">>

\* What marshalerEncoder writes for the bytes MarshalJSON returned.
marshalled(c) == IF c.err THEN <<"error">> ELSE c.out
addrMarshalerEncoder(v) == marshalled(compact(IF v = Nil THEN <<>> ELSE v.v, TRUE))

condAddrEncoder(v, addr) == IF addr THEN addrMarshalerEncoder(v) ELSE encodeByteSlice(v)

structEncoder(v, T, addr) ==
  LET shown == SelectSeq(T.order, LAMBDA n : ~(/\ T.fields[n].omitEmpty
                                               /\ isEmptyValue(v.v[n], T.fields[n].type)))
      Member(n) == string(n) \o <<":">> \o encode(v.v[n], T.fields[n].type, T.fields[n].quoted, addr)
  IN  <<"{">> \o Commas([i \in 1..Len(shown) |-> Member(shown[i])]) \o <<"}">>

mapEncoder(v, T) ==
  LET keys == SetToSeq(DOMAIN v.v)
  IN  <<"{">> \o Commas([i \in 1..Len(keys) |->
                           string(keys[i]) \o <<":">> \o encode(v.v[keys[i]], T.elem, FALSE, FALSE)])
             \o <<"}">>

arrayEncoder(v, T, addr) ==
  <<"[">> \o Commas([i \in 1..Len(v.v) |-> encode(v.v[i], T.elem, FALSE, addr)]) \o <<"]">>

encode(v, T, quoted, addr) ==
  CASE T.kind = "bool" -> boolEncoder(v, quoted)
    [] T.kind = "int" -> intEncoder(v, quoted)
    [] T.kind \in {"string", "number"} -> stringEncoder(v, T, quoted)
    [] T.kind = "text" -> string(v.v)
    [] T.kind = "struct" -> structEncoder(v, T, addr)
    [] T.kind = "array" -> arrayEncoder(v, T, addr)
    [] T.kind = "raw" -> condAddrEncoder(v, addr)
    [] T.kind \in {"interface", "map", "slice"} /\ v = Nil -> nullLiteral
    [] T.kind = "interface" /\ v # Nil -> encode(v, dynamicType(v), FALSE, FALSE)
    [] T.kind = "map" /\ v # Nil -> mapEncoder(v, T)
    [] T.kind = "slice" /\ v # Nil -> arrayEncoder(v, T, TRUE)

Written(out) == [err |-> Contains(out, "error"), out |-> out]

\* Marshal of a pointer to v (addr) or of v itself.
Marshal(v, T, addr) == Written(encode(v, T, FALSE, addr))
=============================================================================
