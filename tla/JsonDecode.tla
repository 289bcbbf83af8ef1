---------------------------- MODULE JsonDecode ----------------------------
(***************************************************************************)
(* The decoder of jose/json/decode.go: checkValid, nextValue, the          *)
(* decodeState that walks the text with a scanner of its own, and the Go   *)
(* value it leaves behind.                                                 *)
(*                                                                         *)
(* A decodeState is a record: data, off (the Go offset, counted from 0),   *)
(* scan, saved (the first error saved), panic (the error the decoding was  *)
(* aborted with) and val (the value just decoded).  The target of a        *)
(* decoding is a Go type: [kind], with elem for arrays, slices and maps,   *)
(* len for arrays, fields (what cachedTypeFields returns, by name) and      *)
(* order for structs, min and max for the integer kinds; "raw" is a type   *)
(* that implements Unmarshaler (RawMessage), "text" one that implements    *)
(* TextUnmarshaler.  Targets start as zero values.  useNumber is set: an   *)
(* interface takes a number as its literal, not as a float64.              *)
(***************************************************************************)
EXTENDS JsonScanner, SequencesExt, TLC

None == "none"
nullLiteral == <<"n", "u", "l", "l">>
Numerals == <<"0", "1", "2", "3", "4", "5", "6", "7", "8", "9">>

Nil == [k |-> "nil"]
Bool(b) == [k |-> "bool", v |-> b]
Integer(n) == [k |-> "int", v |-> n]
Number(lit) == [k |-> "number", v |-> lit]
Str(s) == [k |-> "string", v |-> s]
Arr(seq) == [k |-> "array", v |-> seq]
Obj(f) == [k |-> "object", v |-> f]
Raw(item) == [k |-> "raw", v |-> item]

Iface == [kind |-> "interface"]
SliceOf(T) == [kind |-> "slice", elem |-> T]
ArrayOf(n, T) == [kind |-> "array", len |-> n, elem |-> T]
MapOf(T) == [kind |-> "map", elem |-> T]
StructOf(order, fields) == [kind |-> "struct", order |-> order, fields |-> fields]
IntOf(lo, hi) == [kind |-> "int", min |-> lo, max |-> hi]

RECURSIVE Zero(_)
Zero(T) ==
  CASE T.kind = "bool" -> Bool(FALSE)
    [] T.kind = "int" -> Integer(0)
    [] T.kind = "number" -> Number(<<>>)
    [] T.kind = "string" -> Str(<<>>)
    [] T.kind = "array" -> Arr([i \in 1..T.len |-> Zero(T.elem)])
    [] T.kind = "struct" -> Obj([f \in DOMAIN T.fields |-> Zero(T.fields[f].type)])
    [] OTHER -> Nil

-----------------------------------------------------------------------------
(* Whole texts.                                                            *)

RECURSIVE scanAll(_, _)
scanAll(s, data) ==
  IF data = <<>> \/ s.code = "scanError" THEN s
  ELSE scanAll(Step(s, Head(data)), Tail(data))

accepted(s) == s.code # "scanError" /\ eof(s).code # "scanError"
checkValid(data) == accepted(scanAll(reset, data))

\* How many bytes of data the first value takes (spaces before it included).
RECURSIVE nextFrom(_, _, _)

\* After the "}" or "]" that may end the value, a space tells whether it did.
nextProbed(data, probe, i) ==
  IF probe.code = "scanEnd" THEN [err |-> FALSE, len |-> i + 1] ELSE nextFrom(data, probe, i + 1)

nextStep(data, t, i) ==
  CASE t.code \in {"scanEndObject", "scanEndArray"} -> nextProbed(data, Step(t, " "), i)
    [] t.code = "scanError" -> [err |-> TRUE, len |-> 0]
    [] t.code = "scanEnd" -> [err |-> FALSE, len |-> i]
    [] OTHER -> nextFrom(data, t, i + 1)

nextFrom(data, s, i) ==
  CASE i < Len(data) -> nextStep(data, Step(s, data[i + 1]), i)
    [] i = Len(data) -> IF eof(s).code = "scanError" THEN [err |-> TRUE, len |-> 0] ELSE [err |-> FALSE, len |-> i]

nextValue(data) == nextFrom(data, reset, 0)

-----------------------------------------------------------------------------
(* String literals.                                                        *)

\* The character \uXXXX stands for: the code points the texts use, and any
\* other one as "other".  A surrogate is no character by itself.
getu4(h) ==
  LET lower == [i \in 1..4 |-> CASE h[i] = "C" -> "c" [] h[i] = "D" -> "d" [] OTHER -> h[i]]
  IN  CASE lower = <<"0", "0", "3", "c">> -> "<"
        [] lower = <<"0", "0", "0", "1">> -> "ctl"
        [] lower = <<"2", "0", "2", "8">> -> "u2028"
        [] lower = <<"f", "f", "f", "d">> -> "ufffd"
        [] lower = <<"d", "8", "0", "0">> -> "high"
        [] lower = <<"d", "c", "0", "0">> -> "low"
        [] OTHER -> "other"

Escaped == [b |-> "ctl", f |-> "ctl", n |-> "\n", r |-> "\r", t |-> "\t"]

\* What is left of s after the \uXXXX it starts with: a high surrogate takes the
\* low one that follows it, any other surrogate becomes U+FFFD.
fromU4(s) ==
  LET r == getu4(SubSeq(s, 3, 6))
      second == /\ Len(s) >= 12 /\ s[7] = "\\" /\ s[8] = "u"
                /\ \A i \in 9..12 : s[i] \in HexDigit
                /\ getu4(SubSeq(s, 9, 12)) = "low"
  IN  CASE r = "high" /\ second -> [char |-> "astral", len |-> 12]
        [] r \in {"high", "low"} /\ ~(r = "high" /\ second) -> [char |-> "ufffd", len |-> 6]
        [] OTHER -> [char |-> r, len |-> 6]

RECURSIVE unquoteFrom(_, _)
unquoteFrom(s, b) ==
  LET c == Head(s)
      u4 == Len(s) >= 6 /\ \A i \in 3..6 : s[i] \in HexDigit
      Take(x, n) == unquoteFrom(SubSeq(s, n + 1, Len(s)), Append(b, x))
  IN  CASE s = <<>> -> [ok |-> TRUE, t |-> b]
        [] s # <<>> /\ c = "\\" /\ Len(s) >= 2 /\ s[2] \in {"\"", "\\", "/", "'"} -> Take(s[2], 2)
        [] s # <<>> /\ c = "\\" /\ Len(s) >= 2 /\ s[2] \in DOMAIN Escaped -> Take(Escaped[s[2]], 2)
        [] s # <<>> /\ c = "\\" /\ Len(s) >= 2 /\ s[2] = "u" /\ u4 ->
             LET r == fromU4(s) IN Take(r.char, r.len)
        [] s # <<>> /\ c = "bad" -> Take("ufffd", 1)
        [] s # <<>> /\ c \notin Control \cup {"\\", "\"", "bad"} -> Take(c, 1)
        [] OTHER -> [ok |-> FALSE, t |-> <<>>]

unquote(s) ==
  IF Len(s) < 2 \/ s[1] # "\"" \/ s[Len(s)] # "\"" THEN [ok |-> FALSE, t |-> <<>>]
  ELSE unquoteFrom(SubSeq(s, 2, Len(s) - 1), <<>>)

\* The number grammar, once more and by hand.
RECURSIVE afterDigits(_)
afterDigits(s) == IF s # <<>> /\ s[1] \in Digit THEN afterDigits(Tail(s)) ELSE s

afterFraction(s) == IF Len(s) >= 2 /\ s[1] = "." /\ s[2] \in Digit THEN afterDigits(Tail(Tail(s))) ELSE s

\* A sign needs a digit after it, an exponent without a sign does not look for one.
isExponent(s) ==
  IF Len(s) < 2 \/ s[1] \notin {"e", "E"} THEN s = <<>>
  ELSE IF s[2] \in {"+", "-"} THEN Len(s) > 2 /\ afterDigits(Tail(Tail(s))) = <<>>
                              ELSE afterDigits(Tail(s)) = <<>>

isUnsigned(s) ==
  /\ s # <<>> /\ s[1] \in Digit
  /\ isExponent(afterFraction(IF s[1] = "0" THEN Tail(s) ELSE afterDigits(s)))

isValidNumber(lit) == isUnsigned(IF lit # <<>> /\ lit[1] = "-" THEN Tail(lit) ELSE lit)

-----------------------------------------------------------------------------
(* The decodeState.                                                        *)

init(data) == [data |-> data, off |-> 0, scan |-> reset, saved |-> None,
               panic |-> None, val |-> Nil]

Panic(d, err) == [d EXCEPT !.panic = err]
saveError(d, err) == [d EXCEPT !.saved = IF d.saved = None THEN err ELSE d.saved]
Store(d, v) == [d EXCEPT !.val = v]
Code(d) == d.scan.code
backUp(d) == [d EXCEPT !.off = d.off - 1]
Undo(d) == IF d.scan.redo THEN Panic(backUp(d), "invalid use of scanner")
           ELSE [backUp(d) EXCEPT !.scan = undo(d.scan, Code(d))]

RECURSIVE scanWhile(_, _)
scanOn(d, op) == IF Code(d) = op THEN scanWhile(d, op) ELSE d
scanWhile(d, op) ==
  LET end == d.off >= Len(d.data)
  IN  scanOn([d EXCEPT !.scan = IF end THEN eof(d.scan) ELSE Step(d.scan, d.data[d.off + 1]),
                       !.off = IF end THEN Len(d.data) + 1 ELSE d.off + 1], op)

Rest(d) == SubSeq(d.data, d.off + 1, Len(d.data))

\* A plausible slip: the value is cut off but d.scan is left inside it.
NextUnclosed(d) ==
  LET cut == nextValue(Rest(d))
  IN  [d EXCEPT !.off = d.off + cut.len, !.val = Raw(SubSeq(d.data, d.off + 1, d.off + cut.len))]

\* next: cut off the object or array at off, and close it in d.scan.
nextCut(d, cut) ==
  IF cut.err THEN Panic(d, "syntax")
  ELSE [d EXCEPT !.off = d.off + cut.len,
                 !.scan = Step(d.scan, IF d.data[d.off + 1] = "{" THEN "}" ELSE "]"),
                 !.val = Raw(SubSeq(d.data, d.off + 1, d.off + cut.len))]

next(d) == nextCut(d, nextValue(Rest(d)))

\* value(reflect.Value{}): skip a value no part of the target takes.  The scanner is
\* fed an empty string instead, and what makes it a member if it was read as a key.
rewound(s) == IF s.redo THEN [s EXCEPT !.redo = FALSE, !.step = "stateBeginValue"] ELSE s
closed(s) == IF s.parseState # <<>> /\ Last(s.parseState) = "parseObjectKey"
             THEN scanAll(s, <<":", "\"", "\"", "}">>) ELSE s

skipCut(d, cut) ==
  IF cut.err THEN Panic(d, "syntax")
  ELSE [d EXCEPT !.off = d.off + cut.len, !.scan = closed(scanAll(rewound(d.scan), <<"\"", "\"">>))]

skipValue(d) == skipCut(d, nextValue(Rest(d)))

\* The type does not take the array or object: remember it and go past it.
refused(d, T) == IF d.panic = None THEN Store(d, Zero(T)) ELSE d
refuse(d, T) == refused(next(backUp(saveError(d, "type"))), T)

\* strconv.ParseInt and ParseUint: no fraction, no exponent.
Integral(lit) == lit # <<"-">> /\ \A i \in 1..Len(lit) : lit[i] \in Digit \/ (i = 1 /\ lit[i] = "-")

RECURSIVE ParseInt(_)
ParseInt(lit) ==
  CASE lit = <<>> -> 0
    [] lit # <<>> /\ lit[1] = "-" -> 0 - ParseInt(Tail(lit))
    [] OTHER -> 10 * ParseInt(Front(lit)) + (CHOOSE n \in 0..9 : Numerals[n + 1] = Last(lit))

\* literalStore with an item of a kind the first byte announces.
storeNull(d, T) == Store(d, Zero(T))

storeBool(d, b, T, fromQuoted) ==
  IF T.kind \in {"bool", "interface"} THEN Store(d, Bool(b))
  ELSE Store(saveError(d, IF fromQuoted THEN "string tag" ELSE "type"), Zero(T))

\* Byte slices (base64) are left out.
storeText(d, s, T, fromQuoted) ==
  CASE ~s.ok -> Panic(d, IF fromQuoted THEN "string tag" ELSE "errPhase")
    [] s.ok /\ T.kind \in {"string", "interface", "text"} -> Store(d, Str(s.t))
    [] s.ok /\ T.kind = "number" -> Store(d, Number(s.t))
    [] OTHER -> Store(saveError(d, "type"), Zero(T))

storeString(d, item, T, fromQuoted) == storeText(d, unquote(item), T, fromQuoted)

storeInt(d, item, T) ==
  IF Integral(item) /\ ParseInt(item) \in T.min..T.max THEN Store(d, Integer(ParseInt(item)))
  ELSE Store(saveError(d, "type"), Zero(T))

storeNumber(d, item, T, fromQuoted) ==
  LET numeric == item[1] = "-" \/ item[1] \in Digit
  IN  CASE ~numeric -> Panic(d, IF fromQuoted THEN "string tag" ELSE "errPhase")
        [] numeric /\ T.kind = "number" ->
             IF isValidNumber(item) THEN Store(d, Number(item)) ELSE Panic(d, "number")
        [] numeric /\ T.kind = "interface" -> Store(d, Number(item))
        [] numeric /\ T.kind = "int" -> storeInt(d, item, T)
        [] OTHER -> Panic(d, IF fromQuoted THEN "string tag" ELSE "type")

literalStore(d, item, T, fromQuoted) ==
  CASE item = <<>> -> Store(saveError(d, "string tag"), Zero(T))
    [] item # <<>> /\ T.kind = "raw" -> Store(d, Raw(item))
    [] item # <<>> /\ T.kind = "text" /\ item[1] # "\"" ->
         Store(saveError(d, IF fromQuoted THEN "string tag" ELSE "type"), Zero(T))
    [] OTHER -> CASE item[1] = "n" -> storeNull(d, T)
                  [] item[1] \in {"t", "f"} -> storeBool(d, item[1] = "t", T, fromQuoted)
                  [] item[1] = "\"" -> storeString(d, item, T, fromQuoted)
                  [] OTHER -> storeNumber(d, item, T, fromQuoted)

\* literal: the scan has read one byte past the literal, which starts before off.
literalFrom(start, d, T) == literalStore(d, SubSeq(d.data, start, d.off), T, FALSE)
literal(d, T) == literalFrom(d.off, Undo(scanWhile(d, "scanContinue")), T)

RECURSIVE value(_, _)
RECURSIVE elements(_, _, _)
RECURSIVE members(_, _, _, _)

\* The routines that build a value for an empty interface.
literalInterface(d) == literal(d, Iface)
arrayInterface(d) == elements(d, SliceOf(Iface), <<>>)
objectInterface(d) == members(d, MapOf(Iface), {}, << >>)

array(d, T) ==
  CASE T.kind = "raw" -> next(backUp(d))
    [] T.kind = "interface" -> arrayInterface(d)
    [] T.kind \in {"array", "slice"} -> elements(d, T, <<>>)
    [] OTHER -> refuse(d, T)

object(d, T) ==
  CASE T.kind = "raw" -> next(backUp(d))
    [] T.kind = "interface" -> objectInterface(d)
    [] T.kind = "map" -> members(d, T, {}, << >>)
    [] T.kind = "struct" -> members(d, T, {}, Zero(T).v)
    [] OTHER -> refuse(d, T)

begin(d, T) ==
  CASE Code(d) = "scanBeginArray" -> array(d, T)
    [] Code(d) = "scanBeginObject" -> object(d, T)
    [] Code(d) = "scanBeginLiteral" -> literal(d, T)
    [] OTHER -> Panic(d, "errPhase")

value(d, T) == begin(scanWhile(d, "scanSkipSpace"), T)

\* The loop of array and arrayInterface; acc is what the target holds so far.
HasRoom(T, acc) == T.kind = "slice" \/ Len(acc) < T.len
Filled(T, acc) == Arr(IF T.kind = "slice" THEN acc
                      ELSE [i \in 1..T.len |-> IF i <= Len(acc) THEN acc[i] ELSE Zero(T.elem)])

afterElement(d, T, acc) ==
  CASE Code(d) = "scanEndArray" -> Store(d, Filled(T, acc))
    [] Code(d) = "scanArrayValue" -> elements(d, T, acc)
    [] OTHER -> Panic(d, "errPhase")

elementRead(d, T, acc) ==
  IF d.panic # None THEN d
  ELSE afterElement(scanWhile(d, "scanSkipSpace"), T, IF HasRoom(T, acc) THEN Append(acc, d.val) ELSE acc)

element(d, T, acc) ==
  IF Code(d) = "scanEndArray" THEN Store(d, Filled(T, acc))
  ELSE elementRead(IF HasRoom(T, acc) THEN value(Undo(d), T.elem) ELSE skipValue(Undo(d)), T, acc)

elements(d, T, acc) == element(scanWhile(d, "scanSkipSpace"), T, acc)

\* valueQuoted and the store after it.  An array or object reaches
\* indirect(reflect.Value{}), which panics.
storeQuoted(d, T) ==
  CASE d.panic # None -> d
    [] d.panic = None /\ d.val.k = "nil" -> literalStore(d, nullLiteral, T, FALSE)
    [] d.panic = None /\ d.val.k = "string" -> literalStore(d, d.val.v, T, TRUE)
    [] OTHER -> Store(saveError(d, "string tag"), Zero(T))

valueQuoted(d, T) ==
  CASE Code(d) \in {"scanBeginArray", "scanBeginObject"} -> Panic(d, "reflect")
    [] Code(d) = "scanBeginLiteral" -> storeQuoted(literalInterface(d), T)
    [] OTHER -> Panic(d, "errPhase")

\* The loop of object and objectInterface: keys holds the keys seen.
Takes(T, key) == T.kind = "map" \/ key \in DOMAIN T.fields

afterMember(d, T, keys, acc) ==
  CASE Code(d) = "scanEndObject" -> Store(d, Obj(acc))
    [] Code(d) = "scanObjectValue" -> members(d, T, keys, acc)
    [] OTHER -> Panic(d, "errPhase")

memberRead(d, T, key, keys, acc) ==
  IF d.panic # None THEN d
  ELSE afterMember(scanWhile(d, "scanSkipSpace"), T, keys \cup {key},
                   IF Takes(T, key) THEN (key :> d.val) @@ acc ELSE acc)

memberValue(d, T, key) ==
  CASE ~Takes(T, key) -> skipValue(d)
    [] T.kind = "map" -> value(d, T.elem)
    [] OTHER -> IF T.fields[key].quoted
                THEN valueQuoted(scanWhile(d, "scanSkipSpace"), T.fields[key].type)
                ELSE value(d, T.fields[key].type)

keyRead(d, T, key, keys, acc) ==
  IF Code(d) = "scanObjectKey" THEN memberRead(memberValue(d, T, key), T, key, keys, acc)
  ELSE Panic(d, "errPhase")

member(d, T, key, keys, acc) ==
  CASE ~key.ok -> Panic(d, "errPhase")
    [] key.ok /\ key.t \in keys -> Panic(d, "duplicate")
    [] OTHER -> keyRead(IF Code(d) = "scanSkipSpace" THEN scanWhile(d, "scanSkipSpace") ELSE d,
                        T, key.t, keys, acc)

memberFrom(start, d, T, keys, acc) ==
  member(d, T, unquote(SubSeq(d.data, start, d.off - 1)), keys, acc)

memberBegin(d, T, keys, acc) ==
  CASE Code(d) = "scanEndObject" -> Store(d, Obj(acc))
    [] Code(d) = "scanBeginLiteral" -> memberFrom(d.off, scanWhile(d, "scanContinue"), T, keys, acc)
    [] OTHER -> Panic(d, "errPhase")

members(d, T, keys, acc) == memberBegin(scanWhile(d, "scanSkipSpace"), T, keys, acc)

unmarshal(d, T) == value([d EXCEPT !.scan = reset], T)

\* The error Unmarshal returns, None for nil; val holds what was stored.
Outcome(d) == [err |-> IF d.panic # None THEN d.panic ELSE d.saved, val |-> d.val]
Unmarshal(data, T) == IF checkValid(data) THEN Outcome(unmarshal(init(data), T))
                      ELSE [err |-> "syntax", val |-> Zero(T)]
=============================================================================
