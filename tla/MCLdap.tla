------------------------------- MODULE MCLdap -------------------------------
(***************************************************************************)
(* Package ldap above the connection: each behaviour takes one theme, a    *)
(* set of words that filters or DNs are put together from, or the controls *)
(* of a message, the searches with paging, or the operations.              *)
(***************************************************************************)
EXTENDS LdapProps, LdapControlProps, LdapSearch, LdapOps

CONSTANTS Themes

VARIABLES theme, count

mcVars == <<textVars, controls, searchVars, opsVars, theme, count>>

MCInit ==
  /\ theme \in Themes /\ count = 0 /\ kind = theme.kind /\ ControlsInit
  /\ text = IF theme.kind \in {"filter", "dn"} THEN theme.prefix ELSE <<>>
  /\ SearchInit /\ OpsInit
  /\ theme.kind # "paging" => Controls = <<>>

Typed ==
  /\ theme.kind \in {"filter", "dn"} /\ count < theme.max
  /\ \E w \in theme.words : text' = text \o w
  /\ count' = count + 1 /\ UNCHANGED <<kind, controls, searchVars, opsVars, theme>>

Attached ==
  /\ theme.kind = "controls" /\ count < theme.max
  /\ Attach
  /\ count' = count + 1 /\ UNCHANGED <<textVars, searchVars, opsVars, theme>>

Paged == theme.kind = "paging" /\ SearchNext /\ UNCHANGED <<textVars, controls, opsVars, theme, count>>

Operating == theme.kind = "ops" /\ OpsNext /\ UNCHANGED <<textVars, controls, searchVars, theme, count>>

MCNext == Typed \/ Attached \/ Paged \/ Operating

MCSpec == MCInit /\ [][MCNext]_mcVars

-----------------------------------------------------------------------------
Typing(k, prefix, words, max) == [kind |-> k, prefix |-> prefix, words |-> words, max |-> max]

Logic == {<<"(">>, <<")">>, <<"&">>, <<"!">>, <<"|">>, <<"(", "x", "=", "x", ")">>, <<"x", "=", "x">>, <<"y">>}
Conditions == {<<"x">>, <<"*">>, <<"\\", "2", "8">>, <<"\\", "2", "a">>, <<"\\", "2">>, <<"\\">>, <<"é">>, <<"bad">>, <<")">>, <<"(">>}
Attributes == {<<"x">>, <<"=">>, <<">">>, <<"<">>, <<"~">>, <<":">>, <<":", "d", "n">>, <<")">>, <<"*">>}
Names == {<<"a", "=">>, <<"A", "=">>, <<"x">>, <<" ">>, <<",">>, <<"+">>, <<"\\">>, <<"\\", "2", "c">>,
          <<"#", "0", "4", "0", "1", "4", "1">>}
MCControls == {ControlString("1.2.3", crit, v) : crit \in BOOLEAN, v \in {"", "v"}}
                \cup {ControlPaging(n, c) : n \in 0..2, c \in 0..2}
                \cup {ControlManageDsaIT(crit) : crit \in BOOLEAN}

MCDirectory == <<"e1", "ref", "e3">>

MCThemes == {Typing("filter", <<"(">>, Logic, 5),
             Typing("filter", <<"(", "x", "=">>, Conditions, 4),
             Typing("filter", <<"(", "x">>, Attributes, 5),
             Typing("dn", <<>>, Names, 5),
             [kind |-> "controls", max |-> 2],
             [kind |-> "paging"], [kind |-> "ops"]}
PagingOnly == {[kind |-> "paging"]}
=============================================================================
