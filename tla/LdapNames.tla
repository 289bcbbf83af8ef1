----------------------------- MODULE LdapNames -----------------------------
(***************************************************************************)
(* Distinguished names as ParseDN returns them, and Equal and AncestorOf   *)
(* of ldap/dn.go.                                                          *)
(***************************************************************************)
EXTENDS Integers, Sequences

\* A DN is a sequence of RDNs, an RDN a sequence of attributes.
RelativeDN == Seq([Type : Seq(STRING), Value : Seq(STRING)])
DN == Seq(RelativeDN)

Fold(t) == [i \in 1..Len(t) |-> IF t[i] = "A" THEN "a" ELSE t[i]]
\* A plausible slip: types are compared with their case.
AttributeSame(a, b) == a.Type = b.Type /\ a.Value = b.Value

attributeEqual(a, b) == Fold(a.Type) = Fold(b.Type) /\ a.Value = b.Value

hasAllAttributes(r, attrs) ==
  \A i \in 1..Len(attrs) : \E j \in 1..Len(r) : attributeEqual(r[j], attrs[i])

rdnEqual(r, s) == Len(r) = Len(s) /\ hasAllAttributes(r, s) /\ hasAllAttributes(s, r)

Equal(d, e) == Len(d) = Len(e) /\ \A i \in 1..Len(d) : rdnEqual(d[i], e[i])

AncestorOf(d, e) ==
  LET k == Len(e) - Len(d)
  IN  Len(d) < Len(e) /\ \A i \in 1..Len(d) : rdnEqual(d[i], e[k + i])

-----------------------------------------------------------------------------
\* An RDN with its attributes in the other order and their types in lower case.
Turned(r) == [i \in 1..Len(r) |-> [r[Len(r) + 1 - i] EXCEPT !.Type = Fold(@)]]

\* Each RDN turned around, d is still the same, and of the DNs above it exactly
\* the proper ones are its ancestors, never the other way (dn.go:181, :197, :211).
Ordered(d) ==
  LET Above(k) == [i \in 1..(Len(d) - k) |-> Turned(d[k + i])]
  IN  \A k \in 0..Len(d) : /\ Equal(d, Above(k)) <=> (k = 0)
                           /\ AncestorOf(Above(k), d) <=> (k > 0)
                           /\ ~AncestorOf(d, Above(k))
                           /\ \A l \in 0..Len(d) : Equal(Above(k), Above(l)) <=> (k = l)
=============================================================================
