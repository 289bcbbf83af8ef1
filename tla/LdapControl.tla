---------------------------- MODULE LdapControl ----------------------------
(***************************************************************************)
(* Controls: the Encode methods, encodeControls, DecodeControl and         *)
(* FindControl of ldap/control.go.  A packet is [val, kids]: val is what   *)
(* the asn1 library leaves in Value (NoValue for nil).  Wire is what the   *)
(* library makes of a packet that has been sent and read back: the         *)
(* contents of an OCTET STRING arrive as its value, unparsed.  A cookie is *)
(* a number, 0 the empty one.  The password policy controls of the Behera  *)
(* and VChu drafts are left out: they have no Encode to speak of.          *)
(***************************************************************************)
EXTENDS Naturals, Sequences, SequencesExt

Paging == "1.2.840.113556.1.4.319"
ManageDsaIT == "2.16.840.1.113730.3.4.2"

EmptyText == ""

NoValue == [k |-> "nil"]
Text(s) == [k |-> "string", v |-> s]
Flag(b) == [k |-> "bool", v |-> b]
Number(n) == [k |-> "int", v |-> n]
Octets(kids) == [k |-> "octets", v |-> kids]
Prim(val) == [val |-> val, kids |-> <<>>]
Seqn(kids) == [val |-> NoValue, kids |-> kids]

ControlString(type, crit, value) == [type |-> type, crit |-> crit, value |-> value, size |-> 0, cookie |-> 0]
ControlPaging(size, cookie) == [type |-> Paging, crit |-> FALSE, value |-> EmptyText, size |-> size, cookie |-> cookie]
ControlManageDsaIT(crit) == ControlString(ManageDsaIT, crit, EmptyText)
NilControl == ControlString(EmptyText, FALSE, "nil")

\* The criticality is a child of the packet only if it is set.
EncodeString(c) ==
  Seqn(IF c.crit THEN <<Prim(Text(c.type)), Prim(Flag(TRUE)), Prim(Text(c.value))>>
       ELSE <<Prim(Text(c.type)), Prim(Text(c.value))>>)
EncodeManageDsaIT(c) ==
  Seqn(IF c.crit THEN <<Prim(Text(c.type)), Prim(Flag(TRUE))>> ELSE <<Prim(Text(c.type))>>)
\* The paging control's value is a packet inside an OCTET STRING.
EncodePaging(c) ==
  Seqn(<<Prim(Text(c.type)), Seqn(<<Seqn(<<Prim(Number(c.size)), Prim(Number(c.cookie))>>)>>)>>)

encodeControl(c) ==
  CASE c.type = Paging -> EncodePaging(c)
    [] c.type = ManageDsaIT -> EncodeManageDsaIT(c)
    [] OTHER -> EncodeString(c)

encodeControls(cs) == [i \in 1..Len(cs) |-> encodeControl(cs[i])]

Wire(p) ==
  IF p.kids # <<>> /\ p.kids[1].val = Text(Paging)
  THEN [p EXCEPT !.kids[2] = Prim(Octets(p.kids[2].kids))] ELSE p

\* The value packet of a paging control, whether it has been read back or not.
pagingValue(value) == (IF value.val = NoValue THEN value.kids ELSE value.val.v)[1]

\* The second of two children is the criticality or the value.
DecodedCriticality(kids) ==
  CASE Len(kids) = 3 -> kids[2].val.v
    [] Len(kids) = 2 -> kids[2].val.k = "bool" /\ kids[2].val.v
    [] OTHER -> FALSE
HasValue(kids) == Len(kids) = 3 \/ (Len(kids) = 2 /\ kids[2].val.k # "bool")

DecodeControl(p) ==
  LET n == Len(p.kids)
      type == p.kids[1].val.v
      crit == DecodedCriticality(p.kids)
      value == p.kids[n]
      page == pagingValue(value)
  IN  CASE n = 0 \/ n > 3 -> NilControl
        [] n \in 1..3 /\ type = ManageDsaIT -> ControlManageDsaIT(crit)
        [] n \in 1..3 /\ type = Paging -> ControlPaging(page.kids[1].val.v, page.kids[2].val.v)
        [] OTHER -> ControlString(type, crit, IF HasValue(p.kids) THEN value.val.v ELSE EmptyText)

\* A plausible slip: the last one wins.
FindLast(cs, type) == LET i == SelectLastInSeq(cs, LAMBDA c : c.type = type) IN IF i = 0 THEN <<>> ELSE <<cs[i]>>

\* The first control of the type: a sequence of none or one.
FindControl(cs, type) ==
  LET i == SelectInSeq(cs, LAMBDA c : c.type = type) IN IF i = 0 THEN <<>> ELSE <<cs[i]>>
=============================================================================
