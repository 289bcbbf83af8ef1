------------------------------- MODULE LdapDN -------------------------------
(***************************************************************************)
(* ParseDN of ldap/dn.go.  A text is a sequence of characters.             *)
(***************************************************************************)
EXTENDS LdapNames, SequencesExt

Special == {" ", "\"", "#", "+", ",", ";", "<", "=", ">", "\\"}
\* The hex octets the texts use.
Octet == [h2c |-> ",", h20 |-> " ", h04 |-> "\\04", h01 |-> "\\01", h41 |-> "A"]
OctetName(a, b) == "h" \o a \o b

\* The locals of ParseDN; spaces is unescapedTrailingSpaces.
Start == [RDNs |-> <<>>, rdn |-> <<>>, Type |-> <<>>, buffer |-> <<>>, spaces |-> 0,
          escaping |-> FALSE, err |-> FALSE]

\* A plausible slip: the spaces at the end are kept.
WholeBuffer(p) == p.buffer

stringFromBuffer(p) == SubSeq(p.buffer, 1, Len(p.buffer) - p.spaces)
Write(p, b) == [p EXCEPT !.buffer = @ \o b, !.spaces = 0, !.escaping = FALSE]
Fail(p) == [p EXCEPT !.err = TRUE]

\* The attribute is complete: push it, and with "," the RDN too.
push(p, endOfRDN) ==
  LET rdn == Append(p.rdn, [Type |-> p.Type, Value |-> stringFromBuffer(p)])
      q == [p EXCEPT !.buffer = <<>>, !.spaces = 0, !.Type = <<>>]
  IN  IF endOfRDN THEN [q EXCEPT !.RDNs = Append(@, rdn), !.rdn = <<>>] ELSE [q EXCEPT !.rdn = rdn]

typeRead(p) == [p EXCEPT !.Type = stringFromBuffer(p), !.buffer = <<>>, !.spaces = 0]

\* asn1.DecodePacket on the octets after "#": the contents of the element.
HexOctets(s) == [i \in 1..(Len(s) \div 2) |-> Octet[OctetName(s[2 * i - 1], s[2 * i])]]
IsHexText(s) == /\ Len(s) % 2 = 0
                /\ \A i \in 1..(Len(s) \div 2) : OctetName(s[2 * i - 1], s[2 * i]) \in DOMAIN Octet
DecodePacket(octets) == SubSeq(octets, 3, Len(octets))

RECURSIVE parse(_, _)
parse(s, p) ==
  LET c == s[1]
      rest == SubSeq(s, 2, Len(s))
      ber == SubSeq(s, 3, Len(s))
      end == SelectInSeq(ber, LAMBDA x : x \in {",", "+"})
      data == IF end > 1 THEN SubSeq(ber, 1, end - 1) ELSE ber
  IN  CASE s = <<>> \/ p.err -> p
        [] s # <<>> /\ ~p.err /\ p.escaping ->
             CASE c \in Special -> parse(rest, Write(p, <<c>>))
               [] c \notin Special /\ rest # <<>> /\ OctetName(c, rest[1]) \in DOMAIN Octet ->
                    parse(Tail(rest), Write(p, <<Octet[OctetName(c, rest[1])]>>))
               [] OTHER -> Fail(p)
        [] s # <<>> /\ ~p.err /\ ~p.escaping ->
             CASE c = "\\" -> parse(rest, [p EXCEPT !.spaces = 0, !.escaping = TRUE])
               [] c = "=" /\ ~(rest # <<>> /\ rest[1] = "#") -> parse(rest, typeRead(p))
               [] c = "=" /\ rest # <<>> /\ rest[1] = "#" ->
                    IF ~IsHexText(data) THEN Fail(p)
                    ELSE parse(SubSeq(ber, Len(data) + 1, Len(ber)),
                               Write(typeRead(p), DecodePacket(HexOctets(data))))
               [] c \in {",", "+"} -> IF p.Type = <<>> THEN Fail(p) ELSE parse(rest, push(p, c = ","))
               [] c = " " /\ p.buffer = <<>> -> parse(rest, p)
               [] c = " " /\ p.buffer # <<>> ->
                    parse(rest, [p EXCEPT !.buffer = Append(@, c), !.spaces = @ + 1])
               [] OTHER -> parse(rest, Write(p, <<c>>))

\* Nothing is pushed at the end if the buffer is empty.
ParseDN(str) ==
  LET p == parse(str, Start)
  IN  CASE p.err -> [err |-> TRUE, RDNs |-> <<>>]
        [] ~p.err /\ p.buffer = <<>> -> [err |-> FALSE, RDNs |-> p.RDNs]
        [] ~p.err /\ p.buffer # <<>> ->
             IF p.Type = <<>> THEN [err |-> TRUE, RDNs |-> <<>>]
             ELSE [err |-> FALSE, RDNs |-> push(p, TRUE).RDNs]
=============================================================================
