----------------------------- MODULE JsonProps -----------------------------
(***************************************************************************)
(* What the JSON package promises, stated against definitions that do not  *)
(* use its scanner.                                                        *)
(***************************************************************************)
EXTENDS JsonStream

(* The grammar of RFC 7159 as predicates on a text. *)

Part(t, i, j) == SubSeq(t, i, j)
Blank(t) == \A i \in 1..Len(t) : t[i] \in Space
Digits(t) == t # <<>> /\ \A i \in 1..Len(t) : t[i] \in Digit

RECURSIVE Trim(_)
Trim(t) == CASE t # <<>> /\ t[1] \in Space -> Trim(Tail(t))
             [] t # <<>> /\ t[1] \notin Space /\ Last(t) \in Space -> Trim(Front(t))
             [] OTHER -> t

IsInt(t) == Digits(t) /\ (Len(t) > 1 => t[1] # "0")
IsFrac(t) == t = <<>> \/ (t[1] = "." /\ Digits(Tail(t)))
IsExp(t) ==
  \/ t = <<>>
  \/ t[1] \in {"e", "E"} /\ Digits(Tail(t))
  \/ Len(t) > 2 /\ t[1] \in {"e", "E"} /\ t[2] \in {"+", "-"} /\ Digits(Part(t, 3, Len(t)))

IsNumber(t) ==
  LET u == IF t # <<>> /\ t[1] = "-" THEN Tail(t) ELSE t
  IN  \E i \in 0..Len(u) : \E j \in i..Len(u) :
        IsInt(Part(u, 1, i)) /\ IsFrac(Part(u, i + 1, j)) /\ IsExp(Part(u, j + 1, Len(u)))

RECURSIVE IsChars(_)
IsChars(t) ==
  \/ t = <<>>
  \/ t[1] \notin Control \cup {"\\", "\""} /\ IsChars(Tail(t))
  \/ /\ Len(t) >= 2 /\ t[1] = "\\" /\ t[2] \in {"b", "f", "n", "r", "t", "\\", "/", "\""}
     /\ IsChars(Part(t, 3, Len(t)))
  \/ /\ Len(t) >= 6 /\ t[1] = "\\" /\ t[2] = "u" /\ \A i \in 3..6 : t[i] \in HexDigit
     /\ IsChars(Part(t, 7, Len(t)))

Enclosed(t, a, b) == Len(t) >= 2 /\ t[1] = a /\ Last(t) = b
Inner(t) == Part(t, 2, Len(t) - 1)
IsString(t) == Enclosed(t, "\"", "\"") /\ IsChars(Inner(t))
IsWord(t) == t \in {<<"t", "r", "u", "e">>, <<"f", "a", "l", "s", "e">>, <<"n", "u", "l", "l">>}

RECURSIVE IsValue(_)
RECURSIVE IsList(_, _)
IsMember(t) == \E i \in 1..Len(t) : /\ t[i] = ":"
                                    /\ IsString(Trim(Part(t, 1, i - 1)))
                                    /\ IsValue(Part(t, i + 1, Len(t)))
IsItem(t, key) == IF key THEN IsMember(t) ELSE IsValue(t)
IsList(t, key) == \/ IsItem(t, key)
                  \/ \E i \in 1..Len(t) : /\ t[i] = "," /\ IsItem(Part(t, 1, i - 1), key)
                                          /\ IsList(Part(t, i + 1, Len(t)), key)
IsTrimmed(t) ==
  \/ IsString(t) \/ IsNumber(t) \/ IsWord(t)
  \/ Enclosed(t, "[", "]") /\ (Blank(Inner(t)) \/ IsList(Inner(t), FALSE))
  \/ Enclosed(t, "{", "}") /\ (Blank(Inner(t)) \/ IsList(Inner(t), TRUE))
IsValue(t) == IsTrimmed(Trim(t))

\* checkValid accepts exactly the texts of the grammar, and isValidNumber, the
\* second implementation of the numbers, exactly its numbers.
ScannerIsGrammar == api = "none" =>
  /\ checkValid(input) <=> IsValue(input)
  /\ isValidNumber(input) <=> IsNumber(input)

-----------------------------------------------------------------------------
(* Decoding and encoding. *)

Field(T, quoted, omitEmpty) == [type |-> T, quoted |-> quoted, omitEmpty |-> omitEmpty]
A == <<"a">>
B == <<"b">>
Int8 == IntOf(-128, 127)
BoolType == [kind |-> "bool"]
StringType == [kind |-> "string"]
RawMessage == [kind |-> "raw"]

\* Targets without an array of fixed size.  omitempty is on fields whose empty value
\* is the zero value: on a slice or a map it would lose nil against empty, as
\* documented.
Growing == {Iface, StringType, MapOf(Int8), SliceOf(SliceOf(Iface)),
            MapOf([kind |-> "text"]), MapOf(RawMessage), SliceOf(RawMessage),
            StructOf(<<A>>, A :> Field(SliceOf(Int8), FALSE, FALSE)),
            StructOf(<<B, A>>, A :> Field(BoolType, TRUE, FALSE) @@ B :> Field(RawMessage, FALSE, FALSE)),
            SliceOf(StructOf(<<A, B>>, A :> Field(StringType, TRUE, TRUE) @@ B :> Field(Int8, TRUE, TRUE)))}
Fixed == {MapOf(ArrayOf(1, Int8)), ArrayOf(2, Iface),
          StructOf(<<A>>, A :> Field(ArrayOf(1, Iface), FALSE, FALSE))}

\* The decoder's own scanner stays with the text: whatever is skipped, cut off
\* with next or refused, no decoding of a valid text ends in errPhase, "errors
\* that should not happen" (decode.go:258), or hands a byte back twice.
InSync == api = "none" =>
  \A T \in Growing : Unmarshal(input, T).err \notin {"errPhase", "invalid use of scanner"}

\* The same for every target.
NeverOutOfSync == api = "none" => \A T \in Growing \cup Fixed : Unmarshal(input, T).err # "errPhase"

\* The value that is to come back for v: v itself, but for its RawMessages.  One
\* that is addressable comes back compact, any other as the base64 string of its
\* bytes, which is what TestIssue6458 expects (encode_test.go:435).
RECURSIVE Back(_, _, _)
RawBack(v, addr) == Raw(CASE addr -> compact(v.v, TRUE).out
                          [] ~addr /\ v = Nil -> nullLiteral
                          [] OTHER -> <<"\"", "base64", "\"">>)
Back(v, T, addr) ==
  CASE T.kind = "raw" -> RawBack(v, addr)
    [] T.kind = "struct" -> Obj([f \in DOMAIN v.v |-> Back(v.v[f], T.fields[f].type, addr)])
    [] T.kind = "map" /\ v # Nil -> Obj([k \in DOMAIN v.v |-> Back(v.v[k], T.elem, FALSE)])
    [] T.kind = "slice" /\ v # Nil -> Arr([i \in DOMAIN v.v |-> Back(v.v[i], T.elem, TRUE)])
    [] T.kind = "array" -> Arr([i \in DOMAIN v.v |-> Back(v.v[i], T.elem, addr)])
    [] OTHER -> v

\* v holds a RawMessage no text was stored in, where MarshalJSON is called on it.
RECURSIVE RawMissing(_, _, _)
RawMissing(v, T, addr) ==
  CASE T.kind = "raw" -> addr /\ v = Nil
    [] T.kind = "struct" -> \E f \in DOMAIN v.v : RawMissing(v.v[f], T.fields[f].type, addr)
    [] T.kind = "slice" /\ v # Nil -> \E i \in DOMAIN v.v : RawMissing(v.v[i], T.elem, TRUE)
    [] OTHER -> FALSE

Survives(T, addr, v, out) ==
  /\ out.err <=> RawMissing(v, T, addr)
  /\ ~out.err => /\ checkValid(out.out)
                 /\ Unmarshal(out.out, T) = [err |-> None, val |-> Back(v, T, addr)]
Returns(T, r) == r.err = None => \A addr \in BOOLEAN : Survives(T, addr, r.val, Marshal(r.val, T, addr))

\* What was decoded without an error is written as a valid text that decodes to
\* the same value: Unmarshal after Marshal is the identity on every type, through
\* escapes, ",string", omitempty and nested values.  The exceptions are those of
\* RawMessage: it loses its spaces, it comes back as base64 where it is not
\* addressable, and Marshal fails on an addressable one that was never set.
MarshalRoundTrip ==
  (api = "none" /\ checkValid(input)) => \A T \in Growing \cup Fixed : Returns(T, Unmarshal(input, T))

NoSpace(t) == compact(t, FALSE).out = t

\* The compact form, the escaped compact form and the indented form of a text that
\* decodes to ref.
SameText(c, e, i, ref) ==
  /\ c.err = (ref.err = "syntax") /\ e.err = c.err /\ i.err = c.err
  /\ ~c.err =>
       /\ \A t \in {c.out, e.out, i.out, HTMLEscape(input)} : Unmarshal(t, Iface) = ref
       /\ NoSpace(c.out) /\ compact(i.out, FALSE).out = c.out
       /\ \A t \in {e.out, HTMLEscape(input)} : \A k \in 1..Len(t) : t[k] \notin HTML \cup {"u2028"}

\* Compact, Indent and HTMLEscape succeed on exactly the valid texts (HTMLEscape on
\* all) and change no value: each result decodes to what the text decodes to,
\* Compact is idempotent and undoes Indent, and the escaping forms leave no
\* character a browser could take for markup.
FormatPreserves == api = "none" =>
  SameText(compact(input, FALSE), compact(input, TRUE), Indent(input, <<" ">>), Unmarshal(input, Iface))

-----------------------------------------------------------------------------
(* Streams. *)

\* The values of a text read as a stream, and how the stream ends.
RECURSIVE Split(_)
SplitOff(first, rest) ==
  [vals |-> <<IF first.panic = None THEN first.val ELSE Err(first.panic)>> \o rest.vals, end |-> rest.end]
SplitAt(t, cut) ==
  IF cut.err
  THEN [vals |-> <<>>, end |-> IF scanAll(reset, t).code = "scanError" THEN "syntax" ELSE "unexpected EOF"]
  ELSE SplitOff(unmarshal(init(Part(t, 1, cut.len)), Iface), Split(Part(t, cut.len + 1, Len(t))))
Split(t) == IF Blank(t) THEN [vals |-> <<>>, end |-> "EOF"] ELSE SplitAt(t, nextValue(t))

Sticky == {"EOF", "unexpected EOF", "syntax", "broken"}
Given == SelectSeq(m.out, LAMBDA x : x.k # "bool" /\ ~(x.k = "err" /\ x.v \in Sticky))
Ending == IF m.out # <<>> /\ Last(m.out).k = "err" THEN Last(m.out).v ELSE None

GivenWhole(ref) ==
  /\ IsPrefix(Given, ref.vals)
  /\ Ending \in {"EOF", "unexpected EOF", "syntax"} => Given = ref.vals /\ Ending = ref.end
  /\ Ending \in {"EOF", "unexpected EOF"} => ended = "EOF"

\* Decode gives the values of the input one by one, whatever pieces it arrives
\* in: never one that a later byte would have extended, none lost when the stream
\* ends, and the error at the end is the one of the whole input.
StreamIsWhole == api = "Decode" => GivenWhole(Split(input))

\* The tokens of a value, commas and colons elided; members in the order in which
\* the texts have them, "a" before "b".
RECURSIVE Tokens(_)
Tokens(v) ==
  CASE v.k = "array" -> <<"[">> \o FlattenSeq([i \in 1..Len(v.v) |-> Tokens(v.v[i])]) \o <<"]">>
    [] v.k = "object" ->
         LET keys == SetToSortSeq(DOMAIN v.v, LAMBDA x, y : x = A)
         IN  <<"{">> \o FlattenSeq([i \in 1..Len(keys) |-> string(keys[i]) \o Tokens(v.v[keys[i]])]) \o <<"}">>
    [] v.k = "nil" -> nullLiteral
    [] v.k = "delim" -> <<v.v>>
    [] v.k = "string" -> string(v.v)
    [] OTHER -> v.v

\* The bytes of the tokens given, and those of a text: outside strings, that is after
\* an even number of quotes (the texts escape none), spaces and separators go.
TokensOf(seq) == FlattenSeq([i \in 1..Len(seq) |-> Tokens(seq[i])])
Elided(t, i) == /\ t[i] \in Space \cup {",", ":"}
                /\ Cardinality({j \in 1..i : t[j] = "\""}) % 2 = 0
Lexemes(t) == FlattenSeq([i \in 1..Len(t) |-> IF Elided(t, i) THEN <<>> ELSE <<t[i]>>])

GivenNested(ref, got) ==
  /\ ref.end = "EOF" => IsPrefix(got, Lexemes(input))
  /\ (ref.end = "EOF" /\ ended = "EOF") => Ending \in {None, "EOF", "duplicate"}
  /\ (Ending = "EOF" /\ m.tokenStack = <<>>) => (ref.end = "EOF" /\ got = Lexemes(input))

\* Token, More and Decode used together deliver the tokens of the values in the
\* input, in order and properly nested, and the stream ends with EOF outside every
\* array and object only if the input is a sequence of whole values; on such an
\* input there is no other error.
TokensNested ==
  api = "Token" => GivenNested(Split(input), TokensOf(SelectSeq(Given, LAMBDA x : x.k # "err")))
=============================================================================
