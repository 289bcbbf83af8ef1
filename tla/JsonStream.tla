---------------------------- MODULE JsonStream ----------------------------
(***************************************************************************)
(* The Decoder of jose/json/stream.go over an io.Reader that delivers its  *)
(* input in pieces of any size.  A call (Decode, Token, More) runs until   *)
(* it returns or needs another Read; between the two only the reader acts. *)
(*                                                                         *)
(* m is the Decoder with the locals of the call in progress: pc says where *)
(* the call waits, pos is readValue's scanp, rerr the error of the last    *)
(* Read, held back until the buffer has been scanned, old the token state  *)
(* Token restores after reading a key.  out is what the caller has been    *)
(* given.  Growing and sliding the buffer is left out: buf starts at scanp *)
(* after a refill.                                                         *)
(***************************************************************************)
EXTENDS JsonEncode

CONSTANTS MaxCalls    \* bound on the calls that have returned

VARIABLES input, ended, m,
          api         \* how the caller uses the Decoder: "Decode", "Token" or "none"

vars == <<input, ended, m, api>>

NewDecoder == [buf |-> <<>>, scanp |-> 0, scan |-> reset, err |-> None,
               tokenState |-> "tokenTopValue", tokenStack |-> <<>>,
               pc |-> "idle", pos |-> 0, rerr |-> None, old |-> None, out |-> <<>>]

tokenValueAllowed(n) ==
  n.tokenState \in {"tokenTopValue", "tokenArrayStart", "tokenArrayValue", "tokenObjectValue"}

\* A plausible slip: after a member's value no comma is expected.
EndInArray(n) ==
  [n EXCEPT !.tokenState = IF @ \in {"tokenArrayStart", "tokenArrayValue"} THEN "tokenArrayComma" ELSE @]

tokenValueEnd(n) ==
  [n EXCEPT !.tokenState = CASE @ \in {"tokenArrayStart", "tokenArrayValue"} -> "tokenArrayComma"
                             [] @ = "tokenObjectValue" -> "tokenObjectComma"
                             [] OTHER -> @]

Done(n, item) == [n EXCEPT !.pc = "idle", !.rerr = None, !.old = None, !.out = Append(@, item)]
Err(kind) == [k |-> "err", v |-> kind]
Delim(c) == [k |-> "delim", v |-> c]

\* The caller of Decode gets item; Token restores the state it changed for a key.
Finish(n, item) ==
  LET restored == IF n.old = None THEN n ELSE [n EXCEPT !.tokenState = n.old]
      keyed == [restored EXCEPT !.tokenState = "tokenObjectColon"]
  IN  Done(IF n.old # None /\ item.k # "err" THEN keyed ELSE restored, item)

tokenError(n) == Done(n, Err("syntax"))

\* A plausible slip: the scanner goes on where the last value left it.
ScanOn(n) ==
  CASE n.err # None -> Finish(n, Err(n.err))
    [] n.err = None /\ tokenValueAllowed(n) -> [n EXCEPT !.pc = "read", !.pos = n.scanp, !.rerr = None]
    [] OTHER -> Finish(n, Err("not at beginning of value"))

\* Decode up to readValue.
startDecode(n) ==
  CASE n.err # None -> Finish(n, Err(n.err))
    [] n.err = None /\ tokenValueAllowed(n) ->
         [n EXCEPT !.pc = "read", !.scan = reset, !.pos = n.scanp, !.rerr = None]
    [] OTHER -> Finish(n, Err("not at beginning of value"))

\* The rest of Decode: a whole value of len bytes is in the buffer.
ItemOf(d) == IF d.panic = None /\ d.saved = None THEN d.val
             ELSE Err(IF d.panic # None THEN d.panic ELSE d.saved)
decodeValue(n, len) ==
  Finish(tokenValueEnd([n EXCEPT !.scanp = n.scanp + len]),
         ItemOf(unmarshal(init(SubSeq(n.buf, n.scanp + 1, n.scanp + len)),
                          IF n.old = None THEN Iface ELSE [kind |-> "string"])))

\* What readValue returns: the bytes of the value it found up to byte end, an error,
\* or nothing yet.
Found(n, end) == [n |-> n, len |-> end - n.scanp, err |-> None, wait |-> FALSE]
Failed(n, kind) == [n |-> [n EXCEPT !.err = kind], len |-> 0, err |-> kind, wait |-> FALSE]
Waiting(n) == [n |-> n, len |-> 0, err |-> None, wait |-> TRUE]

\* n.pos is how far the buffer has been scanned.  After the "}" or "]" that may end
\* the value, a space tells whether it did.
RECURSIVE readValue(_)
readProbed(n, t) == IF t.code = "scanEnd" THEN Found(n, n.pos + 1)
                    ELSE readValue([n EXCEPT !.scan = t, !.pos = n.pos + 1])

readStep(n, s) ==
  CASE s.code = "scanEnd" -> Found(n, n.pos)
    [] s.code \in {"scanEndObject", "scanEndArray"} -> readProbed(n, Step(s, " "))
    [] s.code = "scanError" -> Failed(n, "syntax")
    [] OTHER -> readValue([n EXCEPT !.scan = s, !.pos = n.pos + 1])

readEnd(n) ==
  CASE n.rerr = None -> Waiting(n)
    [] n.rerr = "EOF" -> IF Step(n.scan, " ").code = "scanEnd" THEN Found(n, n.pos)
                         ELSE Failed(n, IF \E i \in 1..Len(n.buf) : n.buf[i] \notin Space
                                        THEN "unexpected EOF" ELSE "EOF")
    [] OTHER -> Failed(n, n.rerr)

readValue(n) ==
  IF n.pos < Len(n.buf) THEN readStep(n, Step(n.scan, n.buf[n.pos + 1])) ELSE readEnd(n)

afterRead(r) == CASE r.wait -> r.n
                  [] r.err # None -> Finish(r.n, Err(r.err))
                  [] OTHER -> decodeValue(r.n, r.len)

\* The switch of Token on the byte c that peek found.
TokenStep(n, c) ==
  LET Take == [n EXCEPT !.scanp = n.scanp + 1]
      Open(state) == Done([Take EXCEPT !.tokenStack = Append(@, n.tokenState), !.tokenState = state],
                          Delim(c))
      Close == Done(tokenValueEnd([Take EXCEPT !.tokenState = Last(n.tokenStack),
                                               !.tokenStack = Front(@)]), Delim(c))
      Again(state) == [Take EXCEPT !.tokenState = state, !.rerr = None]
      Is(states) == n.tokenState \in states
      Key == [n EXCEPT !.old = n.tokenState, !.tokenState = "tokenTopValue"]
  IN  CASE c = "[" /\ tokenValueAllowed(n) -> Open("tokenArrayStart")
        [] c = "{" /\ tokenValueAllowed(n) -> Open("tokenObjectStart")
        [] c = "]" /\ Is({"tokenArrayStart", "tokenArrayComma"}) -> Close
        [] c = "}" /\ Is({"tokenObjectStart", "tokenObjectComma"}) -> Close
        [] c = ":" /\ Is({"tokenObjectColon"}) -> Again("tokenObjectValue")
        [] c = "," /\ Is({"tokenArrayComma"}) -> Again("tokenArrayValue")
        [] c = "," /\ Is({"tokenObjectComma"}) -> Again("tokenObjectKey")
        [] c = "\"" /\ Is({"tokenObjectStart", "tokenObjectKey"}) -> startDecode(Key)
        [] c \notin {"[", "]", "{", "}", ":", ","} /\ tokenValueAllowed(n) -> startDecode(n)
        [] OTHER -> tokenError(n)

\* tokenPrepareForDecode, once peek has found c.
prepareStep(n, c) ==
  CASE n.tokenState = "tokenArrayComma" /\ c = "," ->
         startDecode([n EXCEPT !.scanp = n.scanp + 1, !.tokenState = "tokenArrayValue"])
    [] n.tokenState = "tokenObjectColon" /\ c = ":" ->
         startDecode([n EXCEPT !.scanp = n.scanp + 1, !.tokenState = "tokenObjectValue"])
    [] OTHER -> Done(n, Err("syntax"))

\* The call goes on until it returns or waits for a Read.  peek looks for the
\* first byte that is not a space.
RECURSIVE Run(_)
RunFrom(n, found) ==
  LET at == [n EXCEPT !.scanp = found - 1]
      c == n.buf[found]
  IN  CASE found = 0 -> CASE n.rerr = None -> n
                          [] n.rerr # None /\ n.pc = "more" -> Done(n, Bool(FALSE))
                          [] OTHER -> Done(n, Err(n.rerr))
        [] n.pc = "prepare" /\ found > 0 -> Run(prepareStep(at, c))
        [] n.pc = "token" /\ found > 0 -> Run(TokenStep(at, c))
        [] n.pc = "more" /\ found > 0 -> Done(at, Bool(c \notin {"]", "}"}))

Run(n) ==
  CASE n.pc = "idle" -> n
    [] n.pc = "read" -> afterRead(readValue(n))
    [] OTHER -> RunFrom(n, SelectInSubSeq(n.buf, n.scanp + 1, Len(n.buf), LAMBDA c : c \notin Space))

-----------------------------------------------------------------------------
Init == input = <<>> /\ ended = None /\ m = NewDecoder /\ api \in {"Decode", "Token", "none"}

\* The caller stops at the first error.
Called ==
  /\ m.pc = "idle" /\ Len(m.out) < MaxCalls
  /\ ~(m.out # <<>> /\ Last(m.out).k = "err")
  /\ UNCHANGED <<input, ended, api>>

\* The documented way to mix the two interfaces: Decode where More has said
\* there is an element, Token elsewhere.
ElementNext ==
  /\ m.out # <<>> /\ Last(m.out) = Bool(TRUE)
  /\ m.tokenState \in {"tokenArrayStart", "tokenArrayComma", "tokenObjectColon"}

\* A separator is consumed first when the token state asks for one.
Decode ==
  /\ Called /\ (api = "Decode" \/ (api = "Token" /\ ElementNext))
  /\ m' = Run(IF m.err = None /\ m.tokenState \in {"tokenArrayComma", "tokenObjectColon"}
              THEN [m EXCEPT !.pc = "prepare"] ELSE startDecode(m))

Token == Called /\ api = "Token" /\ m' = Run([m EXCEPT !.pc = "token"])

More == Called /\ api = "Token" /\ m' = Run([m EXCEPT !.pc = "more"])

\* The reader has delivered bytes, and rerr with them.
refill(bytes, rerr) ==
  /\ m.pc # "idle"
  /\ input' = input \o bytes
  /\ ended' = rerr /\ UNCHANGED api
  /\ m' = LET kept == SubSeq(m.buf, m.scanp + 1, Len(m.buf))
          IN  Run([m EXCEPT !.buf = kept \o bytes, !.scanp = 0, !.pos = m.pos - m.scanp,
                            !.rerr = rerr])

\* A Read delivers bytes, an error, or both.  A reader that has failed fails again.
Read(pieces) ==
  \E bytes \in pieces \cup {<<>>}, rerr \in {None, "EOF", "broken"} :
    /\ CASE ended # None -> bytes = <<>> /\ rerr = ended
         [] ended = None /\ bytes # <<>> -> rerr # "broken"
         [] ended = None /\ bytes = <<>> -> rerr # None
    /\ refill(bytes, rerr)
=============================================================================
