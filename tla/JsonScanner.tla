---------------------------- MODULE JsonScanner ----------------------------
(***************************************************************************)
(* The byte-at-a-time JSON scanner of jose/json/scanner.go.  A scanner is a*)
(* record; a transition function takes the scanner and a byte and returns  *)
(* the new scanner, whose field `code` is the opcode the Go function       *)
(* returned.  Bytes are one-character strings.  "ctl" stands for a control *)
(* byte that is not a space, "u2028" for the three bytes of U+2028 and     *)
(* "bad" for a byte that is not UTF-8; the scanner treats the last two as  *)
(* it treats any other byte of a string.  The wording and the offset of a  *)
(* SyntaxError are left out: `err` says whether there is one.              *)
(***************************************************************************)
EXTENDS Naturals, Sequences

Space == {" ", "\t", "\r", "\n"}
Control == {"ctl", "\t", "\r", "\n"}
Digit == {"0", "1", "2", "3", "4", "5", "6", "7", "8", "9"}
NonZero == Digit \ {"0"}
HexDigit == Digit \cup {"a", "b", "c", "d", "e", "f", "A", "B", "C", "D", "E", "F"}

\* The steps inside a string, a number and a word.
StringStates == {"stateInString", "stateInStringEsc", "stateInStringEscU",
                 "stateInStringEscU1", "stateInStringEscU12", "stateInStringEscU123"}
NumberStates == {"stateNeg", "state1", "state0", "stateDot", "stateDot0",
                 "stateE", "stateESign", "stateE0"}
WordStates == {"stateT", "stateTr", "stateTru", "stateF", "stateFa", "stateFal",
               "stateFals", "stateN", "stateNu", "stateNul"}

reset == [step |-> "stateBeginValue", parseState |-> <<>>, err |-> FALSE,
          endTop |-> FALSE, redo |-> FALSE, redoCode |-> "scanContinue",
          redoState |-> "stateBeginValue", code |-> "scanContinue"]

Goto(s, step, code) == [s EXCEPT !.step = step, !.code = code]
Return(s, code) == [s EXCEPT !.code = code]
error(s) == [s EXCEPT !.step = "stateError", !.err = TRUE, !.code = "scanError"]

pushParseState(s, p) == [s EXCEPT !.parseState = Append(s.parseState, p)]
setParseState(s, p) == [s EXCEPT !.parseState[Len(s.parseState)] = p]

popParseState(s) ==
  LET n == Len(s.parseState) - 1
  IN  [s EXCEPT !.parseState = SubSeq(s.parseState, 1, n),
                !.redo = FALSE,
                !.step = IF n = 0 THEN "stateEndTop" ELSE "stateEndValue",
                !.endTop = (n = 0) \/ s.endTop]

\* The opcode is scanEnd even for the byte that starts the error.
stateEndTop(s, c) == Return(IF c \in Space THEN s ELSE error(s), "scanEnd")

stateEndValue(s, c) ==
  LET n == Len(s.parseState)
      top == s.parseState[n]
  IN  CASE n = 0 -> stateEndTop([s EXCEPT !.step = "stateEndTop", !.endTop = TRUE], c)
        [] n > 0 /\ c \in Space -> Goto(s, "stateEndValue", "scanSkipSpace")
        [] n > 0 /\ top = "parseObjectKey" /\ c = ":" ->
             Goto(setParseState(s, "parseObjectValue"), "stateBeginValue", "scanObjectKey")
        [] n > 0 /\ top = "parseObjectValue" /\ c = "," ->
             Goto(setParseState(s, "parseObjectKey"), "stateBeginString", "scanObjectValue")
        [] n > 0 /\ top = "parseObjectValue" /\ c = "}" ->
             Return(popParseState(s), "scanEndObject")
        [] n > 0 /\ top = "parseArrayValue" /\ c = "," ->
             Goto(s, "stateBeginValue", "scanArrayValue")
        [] n > 0 /\ top = "parseArrayValue" /\ c = "]" ->
             Return(popParseState(s), "scanEndArray")
        [] OTHER -> error(s)

stateBeginValue(s, c) ==
  CASE c \in Space -> Return(s, "scanSkipSpace")
    [] c = "{" -> Goto(pushParseState(s, "parseObjectKey"), "stateBeginStringOrEmpty",
                       "scanBeginObject")
    [] c = "[" -> Goto(pushParseState(s, "parseArrayValue"), "stateBeginValueOrEmpty",
                       "scanBeginArray")
    [] c = "\"" -> Goto(s, "stateInString", "scanBeginLiteral")
    [] c = "-" -> Goto(s, "stateNeg", "scanBeginLiteral")
    [] c = "0" -> Goto(s, "state0", "scanBeginLiteral")
    [] c = "t" -> Goto(s, "stateT", "scanBeginLiteral")
    [] c = "f" -> Goto(s, "stateF", "scanBeginLiteral")
    [] c = "n" -> Goto(s, "stateN", "scanBeginLiteral")
    [] c \in NonZero -> Goto(s, "state1", "scanBeginLiteral")
    [] OTHER -> error(s)

stateBeginValueOrEmpty(s, c) ==
  IF c = "]" THEN stateEndValue(s, c) ELSE stateBeginValue(s, c)

stateBeginString(s, c) ==
  CASE c \in Space -> Return(s, "scanSkipSpace")
    [] c = "\"" -> Goto(s, "stateInString", "scanBeginLiteral")
    [] OTHER -> error(s)

\* A plausible slip: "}" is read while a key is still expected.
StillInKey(s, c) == IF c = "}" THEN stateEndValue(s, c) ELSE stateBeginString(s, c)

stateBeginStringOrEmpty(s, c) ==
  IF c = "}" THEN stateEndValue(setParseState(s, "parseObjectValue"), c)
             ELSE stateBeginString(s, c)

stateInString(s, c) ==
  CASE c = "\"" -> Goto(s, "stateEndValue", "scanContinue")
    [] c = "\\" -> Goto(s, "stateInStringEsc", "scanContinue")
    [] c \in Control -> error(s)
    [] OTHER -> Return(s, "scanContinue")

\* The step after an escape character of a string, or stateError.
EscapeStep(step, c) ==
  CASE step = "stateInStringEsc" /\ c = "u" -> "stateInStringEscU"
    [] step = "stateInStringEsc" /\ c \in {"b", "f", "n", "r", "t", "\\", "/", "\""} ->
         "stateInString"
    [] step = "stateInStringEscU" /\ c \in HexDigit -> "stateInStringEscU1"
    [] step = "stateInStringEscU1" /\ c \in HexDigit -> "stateInStringEscU12"
    [] step = "stateInStringEscU12" /\ c \in HexDigit -> "stateInStringEscU123"
    [] step = "stateInStringEscU123" /\ c \in HexDigit -> "stateInString"
    [] OTHER -> "stateError"

\* The step after a byte of a number.  stateEndValue: the byte is not part of
\* the number, and it is stateEndValue that reads it.
NumberStep(step, c) ==
  CASE step = "state1" /\ c \in Digit -> "state1"
    [] step \in {"state1", "state0"} /\ c = "." -> "stateDot"
    [] step \in {"state1", "state0", "stateDot0"} /\ c \in {"e", "E"} -> "stateE"
    [] step = "stateNeg" /\ c = "0" -> "state0"
    [] step = "stateNeg" /\ c \in NonZero -> "state1"
    [] step \in {"stateDot", "stateDot0"} /\ c \in Digit -> "stateDot0"
    [] step = "stateE" /\ c \in {"+", "-"} -> "stateESign"
    [] step \in {"stateE", "stateESign", "stateE0"} /\ c \in Digit -> "stateE0"
    [] OTHER -> IF step \in {"state1", "state0", "stateDot0", "stateE0"}
                THEN "stateEndValue" ELSE "stateError"

\* The step after a letter of true, false or null.
WordStep(step, c) ==
  CASE <<step, c>> = <<"stateT", "r">> -> "stateTr"
    [] <<step, c>> = <<"stateTr", "u">> -> "stateTru"
    [] <<step, c>> = <<"stateTru", "e">> -> "stateEndValue"
    [] <<step, c>> = <<"stateF", "a">> -> "stateFa"
    [] <<step, c>> = <<"stateFa", "l">> -> "stateFal"
    [] <<step, c>> = <<"stateFal", "s">> -> "stateFals"
    [] <<step, c>> = <<"stateFals", "e">> -> "stateEndValue"
    [] <<step, c>> = <<"stateN", "u">> -> "stateNu"
    [] <<step, c>> = <<"stateNu", "l">> -> "stateNul"
    [] <<step, c>> = <<"stateNul", "l">> -> "stateEndValue"
    [] OTHER -> "stateError"

Move(s, to) == IF to = "stateError" THEN error(s) ELSE Goto(s, to, "scanContinue")

stateNumber(s, c) ==
  LET to == NumberStep(s.step, c)
  IN  IF to = "stateEndValue" THEN stateEndValue(s, c) ELSE Move(s, to)

stateRedo(s) == [s EXCEPT !.redo = FALSE, !.step = s.redoState, !.code = s.redoCode]

\* The caller hands the byte back: the next step returns code again.
undo(s, code) == [s EXCEPT !.redoCode = code, !.redoState = s.step,
                           !.step = "stateRedo", !.redo = TRUE]

\* s.step(s, c)
Step(s, c) ==
  CASE s.step = "stateBeginValue" -> stateBeginValue(s, c)
    [] s.step = "stateBeginValueOrEmpty" -> stateBeginValueOrEmpty(s, c)
    [] s.step = "stateBeginString" -> stateBeginString(s, c)
    [] s.step = "stateBeginStringOrEmpty" -> stateBeginStringOrEmpty(s, c)
    [] s.step = "stateInString" -> stateInString(s, c)
    [] s.step = "stateEndValue" -> stateEndValue(s, c)
    [] s.step = "stateEndTop" -> stateEndTop(s, c)
    [] s.step = "stateError" -> Return(s, "scanError")
    [] s.step = "stateRedo" -> stateRedo(s)
    [] s.step \in StringStates \ {"stateInString"} -> Move(s, EscapeStep(s.step, c))
    [] s.step \in NumberStates -> stateNumber(s, c)
    [] s.step \in WordStates -> Move(s, WordStep(s.step, c))

\* t is the scanner after a space.
eofAfter(s, t) == IF t.endTop THEN Return(t, "scanEnd") ELSE [t EXCEPT !.err = TRUE, !.code = "scanError"]

eof(s) == CASE s.err -> Return(s, "scanError")
            [] ~s.err /\ s.endTop -> Return(s, "scanEnd")
            [] OTHER -> eofAfter(s, Step(s, " "))
=============================================================================
