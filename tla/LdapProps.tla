----------------------------- MODULE LdapProps ------------------------------
(***************************************************************************)
(* What the texts of package ldap promise: filters and DNs.                *)
(***************************************************************************)
EXTENDS LdapFilter, LdapDN

VARIABLES kind,      \* what the text is: "filter" or "dn"; or "none"
          text

textVars == <<kind, text>>

-----------------------------------------------------------------------------
(* Filters.                                                                *)

\* Two filters do not survive: a condition that is only stars, which decompiles to
\* an equality with the empty value, and a matching rule called "dn", which only a
\* filter that ends before ":=" can have.
RECURSIVE Lossy(_)
Lossy(p) == \/ p.tag = "substrings" /\ p.parts = <<>>
            \/ p.tag = "ext" /\ p.rule = <<"d", "n">>
            \/ p.tag \in {"and", "or", "not"} /\ \E i \in 1..Len(p.kids) : Lossy(p.kids[i])

Survives(c) ==
  ~c.err => /\ c.packet # NilPacket
            /\ Lossy(c.packet) \/ CompileFilter(DecompileFilter(c.packet)) = c

\* CompileFilter never returns a nil packet without an error, although compileFilter
\* does whenever it panics (filter.go:218, :237, :452).  What it returns is a filter
\* that DecompileFilter writes as a text that compiles to the same filter.
FilterWhole == kind = "filter" => Survives(CompileFilter(text))

-----------------------------------------------------------------------------
(* Distinguished names, by a definition that cuts before it trims.         *)

\* The characters of a text with what they are: escaped or not.
RECURSIVE Marked(_)
Marked(s) ==
  LET n == Len(s)
      As(c, e, k) == <<[c |-> c, esc |-> e]>> \o Marked(SubSeq(s, k + 1, n))
  IN  CASE n = 0 -> <<>>
        [] n > 0 /\ s[1] # "\\" -> As(s[1], FALSE, 1)
        [] n > 1 /\ s[1] = "\\" /\ s[2] \in Special -> As(s[2], TRUE, 2)
        [] n > 2 /\ s[1] = "\\" /\ OctetName(s[2], s[3]) \in DOMAIN Octet -> As(Octet[OctetName(s[2], s[3])], TRUE, 3)
        [] OTHER -> As("broken", FALSE, 1)

RECURSIVE Cut(_, _)
Cut(ms, sep) ==
  LET i == SelectInSeq(ms, LAMBDA m : m.c = sep /\ ~m.esc)
  IN  IF i = 0 THEN <<ms>> ELSE <<SubSeq(ms, 1, i - 1)>> \o Cut(SubSeq(ms, i + 1, Len(ms)), sep)

Trimmed(ms) ==
  LET keep == {i \in 1..Len(ms) : ms[i].c # " " \/ ms[i].esc}
      kept == {i \in 1..Len(ms) : (\E j \in keep : j <= i) /\ (\E j \in keep : j >= i)}
  IN  [k \in 1..Cardinality(kept) |-> ms[k - 1 + Min(kept)].c]

\* The attributes of every RDN.  A DN may end with ",".
Named(ms) ==
  LET all == Cut(ms, ",")
      rdns == IF Trimmed(Last(all)) = <<>> THEN Front(all) ELSE all
  IN  [i \in 1..Len(rdns) |-> [j \in 1..Len(Cut(rdns[i], "+")) |-> Cut(Cut(rdns[i], "+")[j], "=")]]

\* One "=" in every attribute and a name before it; a value at the end of the DN.
WellFormed(d) ==
  /\ \A i \in 1..Len(d), j \in 1..Len(text) : j <= Len(d[i]) =>
       Len(d[i][j]) = 2 /\ Trimmed(d[i][j][1]) # <<>>
  /\ d # <<>> => Trimmed(Last(Last(d))[2]) # <<>>

\* ParseDN splits a DN at the separators that are not escaped, and keeps of a name
\* or value all but the unescaped spaces around it, however the escapes, the octets
\* and the spaces follow each other (dn.go:83, :94, :152).
DNIsGrammar ==
  (kind = "dn" /\ ~Contains(text, "#")) =>
    LET ms == Marked(text)
        d == Named(ms)
    IN  (~(\E i \in 1..Len(ms) : ms[i].c = "broken") /\ WellFormed(d)) =>
          ParseDN(text) =
            [err |-> FALSE,
             RDNs |-> [i \in 1..Len(d) |-> [j \in 1..Len(d[i]) |->
                         [Type |-> Trimmed(d[i][j][1]), Value |-> Trimmed(d[i][j][2])]]]]

\* Of what is parsed, the order of the attributes of an RDN and the case of their
\* types do not count, and of the DNs above a DN exactly the proper ones are its
\* ancestors, never the other way (dn.go:181, :197, :211).
NamesOrdered == kind = "dn" => ParseDN(text).RDNs \in DN /\ Ordered(ParseDN(text).RDNs)
=============================================================================
