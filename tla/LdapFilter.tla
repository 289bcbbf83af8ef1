----------------------------- MODULE LdapFilter -----------------------------
(***************************************************************************)
(* Search filters: CompileFilter and DecompileFilter of ldap/filter.go,    *)
(* EscapeFilter of ldap/ldap.go.  A text is a sequence of characters; "é"  *)
(* is a rune of two bytes, "bad" a byte that is not UTF-8.  Positions are  *)
(* Go's, counted from 0.  A compiled filter is a record per kind of        *)
(* packet; NilPacket is a nil *asn1.Packet.  AppendChild(nil) panics.      *)
(***************************************************************************)
EXTENDS Naturals, Sequences, SequencesExt

NilPacket == [tag |-> "nil"]
\* The escapes of two hex digits the texts use, and the byte each stands for.
Hex == [h28 |-> "(", h29 |-> ")", h2a |-> "*", h5c |-> "\\", hc3 |-> "c3", ha9 |-> "a9"]
HexName(a, b) == "h" \o a \o b

At(f, pos) == IF pos < Len(f) THEN f[pos + 1] ELSE "end"
HasPrefix(f, pos, p) == pos + Len(p) <= Len(f) /\ SubSeq(f, pos + 1, pos + Len(p)) = p

\* (packet, pos, err) as compileFilter returns them; with an error, of the packet
\* only its tag counts.  A panic is recovered, but the error it sets is a local: the
\* caller sees nil, 0, nil.
Got(packet, pos, err) == [packet |-> packet, pos |-> pos, err |-> err]
Recovered == Got(NilPacket, 0, FALSE)

-----------------------------------------------------------------------------
(* Values.                                                                 *)

Bytes(c) == IF c = "é" THEN <<"c3", "a9">> ELSE <<c>>
\* A plausible slip: a star stays a star.
EscapeParens(c) == c \in {"(", ")", "\\", "c3", "a9"}

mustEscape(c) == c \in {"(", ")", "\\", "*", "c3", "a9"}

EscapeFilter(val) ==
  LET code == [i \in DOMAIN val |->
                 CASE val[i] = "(" -> <<"2", "8">> [] val[i] = ")" -> <<"2", "9">>
                   [] val[i] = "*" -> <<"2", "a">> [] val[i] = "\\" -> <<"5", "c">>
                   [] val[i] = "c3" -> <<"c", "3">> [] val[i] = "a9" -> <<"a", "9">> [] OTHER -> <<>>]
  IN  FlattenSeq([i \in 1..Len(val) |-> IF mustEscape(val[i]) THEN <<"\\">> \o code[i] ELSE <<val[i]>>])

\* "error" and "panic" are the ways it fails: a backslash with one character after
\* it passes the length check, and the slice of two panics.
RECURSIVE escapedStringToEncodedBytes(_)
escapedStringToEncodedBytes(s) ==
  LET n == Len(s)
      Then(b, k) == LET r == escapedStringToEncodedBytes(SubSeq(s, k + 1, n))
                    IN  [r EXCEPT !.val = b \o r.val]
  IN  CASE n = 0 -> [fail |-> "none", val |-> <<>>]
        [] n > 0 /\ s[1] = "bad" -> [fail |-> "error", val |-> <<>>]
        [] n = 1 /\ s[1] = "\\" -> [fail |-> "error", val |-> <<>>]
        [] n = 2 /\ s[1] = "\\" -> [fail |-> "panic", val |-> <<>>]
        [] n > 2 /\ s[1] = "\\" ->
             IF HexName(s[2], s[3]) \in DOMAIN Hex THEN Then(<<Hex[HexName(s[2], s[3])]>>, 3)
             ELSE [fail |-> "error", val |-> <<>>]
        [] OTHER -> Then(Bytes(s[1]), 1)

-----------------------------------------------------------------------------
(* An item: attribute, operator, condition.                                *)

\* The operators, longest first, with the packet and the state they lead to.
Operators == <<[text |-> <<":", "d", "n", ":", "=">>, tag |-> "ext", dn |-> TRUE, state |-> "condition"],
               [text |-> <<":", "d", "n", ":">>, tag |-> "ext", dn |-> TRUE, state |-> "rule"],
               [text |-> <<":", "=">>, tag |-> "ext", dn |-> FALSE, state |-> "condition"],
               [text |-> <<":">>, tag |-> "ext", dn |-> FALSE, state |-> "rule"],
               [text |-> <<"=">>, tag |-> "eq", dn |-> FALSE, state |-> "condition"],
               [text |-> <<">", "=">>, tag |-> "ge", dn |-> FALSE, state |-> "condition"],
               [text |-> <<"<", "=">>, tag |-> "le", dn |-> FALSE, state |-> "condition"],
               [text |-> <<"~", "=">>, tag |-> "approx", dn |-> FALSE, state |-> "condition"]>>

\* The loop up to ")", a broken rune or the end of the text.
RECURSIVE readItem(_, _, _)
readItem(f, pos, st) ==
  LET c == At(f, pos)
      found == SelectInSeq(Operators, LAMBDA o : HasPrefix(f, pos, o.text))
      op == Operators[found]
  IN  CASE c \in {"end", ")", "bad"} -> [st EXCEPT !.pos = pos]
        [] c \notin {"end", ")", "bad"} /\ st.state = "attr" /\ found > 0 ->
             readItem(f, pos + Len(op.text), [st EXCEPT !.state = op.state, !.tag = op.tag, !.dn = op.dn])
        [] c \notin {"end", ")", "bad"} /\ st.state = "attr" /\ found = 0 ->
             readItem(f, pos + 1, [st EXCEPT !.attr = Append(@, c)])
        [] c \notin {"end", ")", "bad"} /\ st.state = "rule" /\ HasPrefix(f, pos, <<":", "=">>) ->
             readItem(f, pos + 2, [st EXCEPT !.state = "condition"])
        [] c \notin {"end", ")", "bad"} /\ st.state = "rule" /\ ~HasPrefix(f, pos, <<":", "=">>) ->
             readItem(f, pos + 1, [st EXCEPT !.rule = Append(@, c)])
        [] OTHER -> readItem(f, pos + 1, [st EXCEPT !.cond = Append(@, c)])

RECURSIVE Split(_)
Split(s) ==
  LET i == SelectInSeq(s, LAMBDA c : c = "*")
  IN  IF i = 0 THEN <<s>> ELSE <<SubSeq(s, 1, i - 1)>> \o Split(SubSeq(s, i + 1, Len(s)))

\* The pieces between the stars that are not empty, each with its place.
Substrings(cond) ==
  LET parts == Split(cond)
      tagged == [i \in 1..Len(parts) |->
                   [tag |-> CASE i = 1 -> "initial" [] i > 1 /\ i = Len(parts) -> "final" [] OTHER -> "any",
                    val |-> parts[i]]]
  IN  SelectSeq(tagged, LAMBDA p : p.val # <<>>)

itemPacket(st) ==
  LET val == escapedStringToEncodedBytes(st.cond).val
      parts == Substrings(st.cond)
  IN  CASE st.tag = "ext" -> [tag |-> "ext", attr |-> st.attr, dn |-> st.dn, rule |-> st.rule, val |-> val]
        [] st.tag = "eq" /\ st.cond = <<"*">> -> [tag |-> "present", attr |-> st.attr]
        [] st.tag = "eq" /\ st.cond # <<"*">> /\ Contains(st.cond, "*") ->
             [tag |-> "substrings", attr |-> st.attr,
              parts |-> [i \in 1..Len(parts) |->
                           [parts[i] EXCEPT !.val = escapedStringToEncodedBytes(@).val]]]
        [] OTHER -> [tag |-> st.tag, attr |-> st.attr, val |-> val]

\* What has to be unescaped; the first piece that fails decides how.
itemFails(st) ==
  LET split == st.tag = "eq" /\ Contains(st.cond, "*")
      texts == IF split THEN [i \in 1..Len(Substrings(st.cond)) |-> Substrings(st.cond)[i].val]
               ELSE <<st.cond>>
      bad == SelectInSeq(texts, LAMBDA t : escapedStringToEncodedBytes(t).fail # "none")
  IN  IF (st.tag = "eq" /\ st.cond = <<"*">>) \/ bad = 0 THEN "none"
      ELSE escapedStringToEncodedBytes(texts[bad]).fail

\* A panic is recovered; otherwise the item that was read, or an error.
itemResult(st, fails) ==
  CASE fails = "panic" -> Recovered
    [] fails = "error" -> Got([tag |-> st.tag], st.pos, TRUE)
    [] fails = "none" -> Got(itemPacket(st), st.pos + 1, FALSE)

closeItem(f, st) ==
  IF At(f, st.pos) # ")" \/ st.tag = "nil" THEN Got([tag |-> st.tag], st.pos, TRUE)
  ELSE itemResult(st, itemFails(st))

compileItem(f, pos) ==
  closeItem(f, readItem(f, pos, [pos |-> pos, state |-> "attr", tag |-> "nil", attr |-> <<>>,
                                 dn |-> FALSE, rule |-> <<>>, cond |-> <<>>]))

-----------------------------------------------------------------------------
(* Filters.                                                                *)

RECURSIVE compileFilter(_, _)
RECURSIVE compileFilterSet(_, _, _, _)

\* A child c has been compiled.  AppendChild panics if there is no packet.
afterChild(f, pos, tag, kids, c) ==
  CASE c.err -> Got([tag |-> tag, kids |-> kids], pos, TRUE)
    [] ~c.err /\ c.packet = NilPacket -> Recovered
    [] OTHER -> compileFilterSet(f, c.pos, tag, Append(kids, c.packet))

\* The byte after the last child is skipped without a look at it.
compileFilterSet(f, pos, tag, kids) ==
  CASE At(f, pos) = "end" -> Got([tag |-> tag, kids |-> kids], pos, TRUE)
    [] At(f, pos) = "(" -> afterChild(f, pos, tag, kids, compileFilter(f, pos + 1))
    [] OTHER -> Got([tag |-> tag, kids |-> kids], pos + 1, FALSE)

enclosed(sub) == Got(sub.packet, sub.pos + 1, sub.err)
negated(sub) == IF sub.packet = NilPacket THEN Recovered
                ELSE Got([tag |-> "not", kids |-> <<sub.packet>>], sub.pos, sub.err)

compileFilter(f, pos) ==
  LET c == At(f, pos)
  IN  CASE c \in {"end", "bad"} -> Got(NilPacket, 0, TRUE)
        [] c = "(" -> enclosed(compileFilter(f, pos + 1))
        [] c = "&" -> compileFilterSet(f, pos + 1, "and", <<>>)
        [] c = "|" -> compileFilterSet(f, pos + 1, "or", <<>>)
        [] c = "!" -> negated(compileFilter(f, pos + 1))
        [] OTHER -> compileItem(f, pos)

\* A filter is the whole text.
Whole(f, c) == IF c.err \/ c.pos # Len(f) THEN [packet |-> NilPacket, err |-> TRUE]
               ELSE [packet |-> c.packet, err |-> FALSE]

CompileFilter(f) ==
  IF f = <<>> \/ f[1] # "(" THEN [packet |-> NilPacket, err |-> TRUE] ELSE Whole(f, compileFilter(f, 1))

RECURSIVE DecompileFilter(_)
DecompileFilter(p) ==
  LET Kids == FlattenSeq([i \in 1..Len(p.kids) |-> DecompileFilter(p.kids[i])])
      Part(i) == LET q == p.parts[i]
                 IN  (IF i = 1 /\ q.tag # "initial" THEN <<"*">> ELSE <<>>)
                       \o EscapeFilter(q.val) \o (IF q.tag # "final" THEN <<"*">> ELSE <<>>)
      inner == CASE p.tag = "and" -> <<"&">> \o Kids
                 [] p.tag = "or" -> <<"|">> \o Kids
                 [] p.tag = "not" -> <<"!">> \o DecompileFilter(p.kids[1])
                 [] p.tag = "substrings" ->
                      p.attr \o <<"=">> \o FlattenSeq([i \in 1..Len(p.parts) |-> Part(i)])
                 [] p.tag = "eq" -> p.attr \o <<"=">> \o EscapeFilter(p.val)
                 [] p.tag = "ge" -> p.attr \o <<">", "=">> \o EscapeFilter(p.val)
                 [] p.tag = "le" -> p.attr \o <<"<", "=">> \o EscapeFilter(p.val)
                 [] p.tag = "approx" -> p.attr \o <<"~", "=">> \o EscapeFilter(p.val)
                 [] p.tag = "present" -> p.attr \o <<"=", "*">>
                 [] p.tag = "ext" -> p.attr \o (IF p.dn THEN <<":", "d", "n">> ELSE <<>>)
                                       \o (IF p.rule # <<>> THEN <<":">> \o p.rule ELSE <<>>)
                                       \o <<":", "=">> \o EscapeFilter(p.val)
  IN  <<"(">> \o inner \o <<")">>
=============================================================================
