----------------------------- MODULE LdapProofs -----------------------------
(***************************************************************************)
(* Of the client's operations: PagedExact for every directory, every page  *)
(* size and every number of calls with one request; and that an operation  *)
(* with one response returns what the server did, for any entries, values  *)
(* and passwords and any number of operations.  Of the controls: that a    *)
(* message's come back as they were sent, for any controls.  Of names:     *)
(* what Equal and AncestorOf are, for any names.                           *)
(***************************************************************************)
EXTENDS LdapSearch, LdapOps, LdapControlProps, LdapNames, SequenceTheorems, WellFoundedInduction, TLAPS

-----------------------------------------------------------------------------
(* Searching with paging.                                                  *)

Control == [type : {Paging, ManageDsaIT}, crit : BOOLEAN, value : {EmptyText, "text"}, size : Nat,
            cookie : 0..(Len(Directory) + 1)]

Call == [pc : {"idle", "search", "wait"}, err : BOOLEAN, ctl : Nat, from : 0..Len(Directory),
         result : Seq(Entries), page : Seq(Entries), before : Seq(Control), count : Nat]

SearchTyped ==
  /\ Controls \in Seq(Control)
  /\ call \in Call
  /\ srv \in 0..Len(Directory)

\* A call's result ends where its control's cookie stands, and the page the server
\* is sending goes on from there.
PagingInv ==
  /\ call.pc # "idle" =>
       /\ call.ctl \in 1..Len(Controls)
       /\ call.from + Len(call.result) = Place(pagingControl.cookie)
  /\ call.pc = "wait" =>
       /\ Place(pagingControl.cookie) <= srv
       /\ call.page = SubSeq(Directory, Place(pagingControl.cookie) + 1, srv)

SearchInv == SearchTyped /\ PagingInv /\ PagedExact

\* Two neighbouring pieces of a sequence, put together, are one piece of it: what
\* a page adds to the result of SearchWithPaging.
LEMMA Pieces ==
  ASSUME NEW S, NEW d \in Seq(S), NEW a \in Nat, NEW b \in Nat, NEW c \in Nat,
         a <= b, b <= c, c <= Len(d)
  PROVE  SubSeq(d, a + 1, b) \o SubSeq(d, b + 1, c) = SubSeq(d, a + 1, c)
<1> DEFINE s == SubSeq(d, a + 1, b)
           t == SubSeq(d, b + 1, c)
           u == SubSeq(d, a + 1, c)
<1>1. s \in Seq(S) /\ t \in Seq(S) /\ u \in Seq(S)
  OBVIOUS
<1>2. Len(s) = b - a /\ Len(t) = c - b /\ Len(u) = c - a
  OBVIOUS
<1>3. s \o t \in Seq(S) /\ Len(s \o t) = Len(u)
  BY <1>1, <1>2
<1>4. ASSUME NEW i \in 1..Len(u) PROVE (s \o t)[i] = u[i]
  <2>1. CASE i <= b - a
    <3>1. (s \o t)[i] = s[i]
      BY <1>1, <1>2, <2>1
    <3>2. s[i] = d[a + i] /\ u[i] = d[a + i]
      BY <1>2, <2>1
    <3> QED  BY Zenon, <3>1, <3>2
  <2>2. CASE i > b - a
    <3>1. (s \o t)[i] = t[i - Len(s)]
      BY <1>1, <1>2, <2>2, ConcatProperties
    <3>2. t[i - (b - a)] = d[b + (i - (b - a))]
      BY <1>2, <2>2
    <3> QED  BY <1>2, <3>1, <3>2
  <2> QED  BY <1>2, <2>1, <2>2
<1> HIDE DEF s, t, u
<1> QED  BY <1>1, <1>3, <1>4, SeqEqual

\* A piece and the element after it: what one entry adds to a page.
LEMMA NextEntry ==
  ASSUME NEW S, NEW d \in Seq(S), NEW a \in Nat, NEW b \in Nat, a <= b, b < Len(d)
  PROVE  Append(SubSeq(d, a + 1, b), d[b + 1]) = SubSeq(d, a + 1, b + 1)
<1> DEFINE s == SubSeq(d, a + 1, b)
           u == SubSeq(d, a + 1, b + 1)
<1>1. s \in Seq(S) /\ u \in Seq(S) /\ d[b + 1] \in S
  OBVIOUS
<1>2. Len(s) = b - a /\ Len(u) = b - a + 1
  OBVIOUS
<1>3. Append(s, d[b + 1]) \in Seq(S) /\ Len(Append(s, d[b + 1])) = Len(u)
  BY <1>1, <1>2
<1>4. ASSUME NEW i \in 1..Len(u) PROVE Append(s, d[b + 1])[i] = u[i]
  <2>1. u[i] = d[a + i]
    <3>1. i \in 1..((b + 1) - (a + 1) + 1) /\ (a + 1) + i - 1 = a + i
      BY <1>2
    <3>2. \A j \in (a + 1)..(b + 1) : d[j] \in S
      OBVIOUS
    <3>3. u[i] = d[(a + 1) + i - 1]
      BY <3>1, <3>2, SubSeqProperties
    <3> QED  BY Zenon, <3>1, <3>3
  <2>2. CASE i <= b - a
    <3>1. Append(s, d[b + 1])[i] = s[i]
      BY <1>1, <1>2, <2>2
    <3>2. s[i] = d[a + i]
      BY <1>2, <2>2
    <3> QED  BY Zenon, <2>1, <3>1, <3>2
  <2>3. CASE i = b - a + 1
    <3>1. Append(s, d[b + 1])[i] = d[b + 1]
      BY <1>1, <1>2, <2>3
    <3> QED  BY <2>1, <2>3, <3>1
  <2> QED  BY <1>2, <2>2, <2>3
<1> HIDE DEF s, u
<1> QED  BY <1>1, <1>3, <1>4, SeqEqual

\* The directory has a length, and the empty cookie is one of its cookies.
LEMMA DirectoryLength == Len(Directory) \in Nat /\ 0 \in 0..(Len(Directory) + 1)
<1>1. Len(Directory) \in Nat
  BY PagingAssumption
<1> QED  BY <1>1

\* The control SearchWithPaging adds to a request is one.
LEMMA NewControl ==
  ASSUME NEW n \in Nat PROVE ControlPaging(n, 0) \in Control
  BY Zenon, DirectoryLength DEF ControlPaging, Control

\* A cookie of a request stands for a place of the directory.
LEMMA Places ==
  ASSUME NEW c \in Control PROVE Place(c.cookie) \in 0..Len(Directory)
<1>1. c.cookie \in 0..(Len(Directory) + 1)
  BY Zenon DEF Control
<1> QED  BY <1>1, DirectoryLength DEF Place

\* A list of one control.
LEMMA Single == ASSUME NEW S, NEW x \in S PROVE <<x>> \in Seq(S)
  OBVIOUS

\* A control of another type keeps the fields of a paging control empty.
LEMMA OtherControl ==
  ASSUME NEW t \in {Paging, ManageDsaIT}, NEW b \in BOOLEAN, NEW v \in {EmptyText, "text"}
  PROVE  ControlString(t, b, v) \in Control
  BY Zenon, DirectoryLength DEF ControlString, Control

\* The requests SearchWithPaging starts from keep the invariant.
LEMMA SearchStarts == SearchInit => SearchInv
<1> SUFFICES ASSUME SearchInit PROVE SearchInv
  BY Zenon
<1>1. Len(Directory) \in Nat /\ Directory \in Seq(Entries) /\ PagingSizes \subseteq Nat
  BY PagingAssumption
<1>2. \A n \in PagingSizes : <<ControlPaging(n, 0)>> \in Seq(Control)
  BY Zenon, <1>1, NewControl, Single
<1>3. NotPaging \in Control /\ ControlManageDsaIT(TRUE) \in Control
  BY Zenon, OtherControl DEF NotPaging, ControlManageDsaIT
<1>4. Controls \in Seq(Control)
  <2>1. <<NotPaging>> \in Seq(Control) /\ <<ControlManageDsaIT(TRUE)>> \in Seq(Control)
    BY Zenon, <1>3, Single
  <2>2. <<>> \in Seq(Control)
    OBVIOUS
  <2>3. CASE Controls \in {<<>>, <<NotPaging>>, <<ControlManageDsaIT(TRUE)>>}
    BY Zenon, <2>1, <2>2, <2>3
  <2>4. CASE Controls \in {<<ControlPaging(n, 0)>> : n \in PagingSizes}
    BY Zenon, <1>2, <2>4
  <2> QED  BY Zenon, <2>3, <2>4 DEF SearchInit
<1>5. SearchTyped
  BY <1>1, <1>4 DEF SearchInit, SearchTyped, Call
<1>6. PagingInv
  BY Zenon DEF SearchInit, PagingInv
<1>7. call.from = 0 /\ call.result = <<>> /\ call.err
  BY Zenon DEF SearchInit
<1>8. SubSeq(Directory, 1, 0) = <<>>
  BY <1>1
<1>9. PagedExact
  BY <1>7, <1>8 DEF PagedExact
<1> QED  BY Zenon, <1>5, <1>6, <1>9 DEF SearchInv

\* A piece without elements.
LEMMA NoPiece == ASSUME NEW n \in Nat PROVE SubSeq(Directory, n + 1, n) = <<>>
  BY PagingAssumption

\* What SearchWithPaging keeps of a call when it begins.
LEMMA CallBegins ==
  ASSUME NEW c \in Call, NEW i \in Nat, NEW n \in 0..Len(Directory), NEW b \in Seq(Control)
  PROVE  [c EXCEPT !.pc = "search", !.ctl = i, !.from = n, !.result = <<>>, !.page = <<>>,
                   !.before = b, !.count = @ + 1] \in Call
<1>1. <<>> \in Seq(Entries) /\ c.count + 1 \in Nat
  BY DEF Call
<1> QED  BY Zenon, <1>1 DEF Call

\* What is kept of a call while its pages come and when it returns.
LEMMA CallGoesOn ==
  ASSUME NEW c \in Call, NEW p \in {"idle", "search", "wait"}, NEW e \in BOOLEAN,
         NEW r \in Seq(Entries), NEW g \in Seq(Entries)
  PROVE  /\ [c EXCEPT !.page = g] \in Call
         /\ [c EXCEPT !.pc = p, !.page = g] \in Call
         /\ [c EXCEPT !.pc = p, !.result = r, !.page = g] \in Call
         /\ [c EXCEPT !.pc = p, !.err = e, !.result = r, !.page = g] \in Call
  BY ZenonT(60) DEF Call

\* A call of SearchWithPaging that finds or adds its control starts with an empty
\* result at the place of the control's cookie.
LEMMA StartedKeeps ==
  ASSUME SearchInv, Controls' \in Seq(Control), NEW i \in 1..Len(Controls'),
         Started(i, Controls'), UNCHANGED srv
  PROVE  SearchInv'
<1>1. Controls'[i] \in Control
  OBVIOUS
<1>2. Place(Controls'[i].cookie) \in 0..Len(Directory)
  BY Zenon, <1>1, Places
<1>3. SearchTyped'
  <2>1. call \in Call /\ Controls \in Seq(Control) /\ srv' \in 0..Len(Directory)
    BY Zenon DEF SearchInv, SearchTyped
  <2>2. i \in Nat /\ <<>> \in Seq(Entries)
    OBVIOUS
  <2>3. call' \in Call
    BY Zenon, <1>2, <2>1, <2>2, CallBegins DEF Started
  <2> QED  BY Zenon, <2>1, <2>3 DEF SearchTyped
<1>4. /\ call'.pc = "search" /\ call'.ctl = i /\ call'.result = <<>>
      /\ call'.from = Place(Controls'[i].cookie)
  BY Zenon DEF SearchInv, SearchTyped, Call, Started
<1>5. PagingInv'
  BY <1>2, <1>4, DirectoryLength DEF PagingInv, pagingControl
<1>6. PagedExact'
  <2>1. call'.from \in Nat
    BY <1>2, <1>4, DirectoryLength
  <2>2. SubSeq(Directory, call'.from + 1, call'.from) = <<>>
    BY Zenon, <2>1, NoPiece
  <2> QED  BY <1>4, <2>1, <2>2 DEF PagedExact
<1> QED  BY Zenon, <1>3, <1>5, <1>6 DEF SearchInv

\* A call that returns an error has the result it had so far.
LEMMA ReturnKeeps ==
  ASSUME SearchInv, Return(call.result, TRUE), UNCHANGED <<Controls, srv>>
  PROVE  SearchInv'
<1>1. SearchTyped'
  <2>1. call \in Call /\ call.result \in Seq(Entries) /\ <<>> \in Seq(Entries)
    BY DEF SearchInv, SearchTyped, Call
  <2>2. call' \in Call
    BY Zenon, <2>1, CallGoesOn DEF Return
  <2> QED  BY Zenon, <2>2 DEF SearchInv, SearchTyped
<1>2. call'.pc = "idle" /\ call'.err /\ call'.result = call.result /\ call'.from = call.from
  BY Zenon DEF SearchInv, SearchTyped, Call, Return
<1>3. PagingInv'
  BY Zenon, <1>2 DEF PagingInv
<1>4. PagedExact'
  BY Zenon, <1>2 DEF SearchInv, PagedExact
<1> QED  BY Zenon, <1>1, <1>3, <1>4 DEF SearchInv

\* The page of a reply continues the result: together they are what the directory
\* holds up to the place the server has come to.
LEMMA PageContinues ==
  ASSUME SearchInv, call.pc = "wait"
  PROVE  /\ call.result \o call.page \in Seq(Entries)
         /\ call.result \o call.page = SubSeq(Directory, call.from + 1, srv)
         /\ call.from + Len(call.result \o call.page) = srv
<1>1. /\ call.from \in 0..Len(Directory) /\ call.result \in Seq(Entries) /\ call.page \in Seq(Entries)
      /\ srv \in 0..Len(Directory)
  BY Zenon DEF SearchInv, SearchTyped, Call
<1>2. Directory \in Seq(Entries)
  BY Zenon, PagingAssumption
<1> DEFINE n == call.from + Len(call.result)
<1>3. /\ n <= srv /\ call.page = SubSeq(Directory, n + 1, srv)
      /\ call.result = SubSeq(Directory, call.from + 1, n)
  BY Zenon DEF SearchInv, PagingInv, PagedExact
<1>4. /\ n \in Nat /\ call.from \in Nat /\ srv \in Nat /\ call.from <= n /\ srv <= Len(Directory)
      /\ Len(call.result) = n - call.from
  BY <1>1, DirectoryLength
<1> HIDE DEF n
<1>5. call.result \o call.page = SubSeq(Directory, call.from + 1, srv)
  <2>1. SubSeq(Directory, call.from + 1, n) \o SubSeq(Directory, n + 1, srv)
          = SubSeq(Directory, call.from + 1, srv)
    BY ZenonT(60), <1>2, <1>3, <1>4, Pieces
  <2> QED  BY Zenon, <1>3, <2>1
<1>6. Len(call.page) = srv - n
  BY <1>2, <1>3, <1>4
<1>7. Len(call.result \o call.page) = Len(call.result) + Len(call.page)
  BY <1>1
<1>8. call.from + Len(call.result \o call.page) = srv
  BY <1>4, <1>6, <1>7
<1>9. call.result \o call.page \in Seq(Entries)
  BY <1>1
<1> QED  BY Zenon, <1>5, <1>8, <1>9

\* Every step of SearchWithPaging and of the server keeps the invariant.
LEMMA SearchSteps == SearchInv /\ [SearchNext]_searchVars => SearchInv'
<1> SUFFICES ASSUME SearchInv, [SearchNext]_searchVars PROVE SearchInv'
  BY Zenon
<1>d. Directory \in Seq(Entries) /\ PagingSizes \subseteq Nat
  BY Zenon, PagingAssumption
<1>t. /\ Controls \in Seq(Control)
      /\ call.pc \in {"idle", "search", "wait"} /\ call.err \in BOOLEAN /\ call.ctl \in Nat
      /\ call.from \in 0..Len(Directory) /\ call.result \in Seq(Entries)
      /\ call.page \in Seq(Entries) /\ call.before \in Seq(Control) /\ call.count \in Nat
      /\ srv \in 0..Len(Directory)
  BY Zenon DEF SearchInv, SearchTyped, Call
<1>p. PagingInv /\ PagedExact
  BY Zenon DEF SearchInv
<1>1. ASSUME NEW size \in PagingSizes, SearchWithPaging(size) PROVE SearchInv'
  <2>1. CASE /\ Controls' = Append(Controls, ControlPaging(size, 0))
             /\ Started(Len(Controls) + 1, Controls')
    <3>1. ControlPaging(size, 0) \in Control
      BY Zenon, <1>d, NewControl
    <3>2. Controls' \in Seq(Control) /\ Len(Controls) + 1 \in 1..Len(Controls')
      BY <1>t, <2>1, <3>1
    <3> QED  BY Zenon, <1>1, <2>1, <3>2, StartedKeeps DEF SearchWithPaging
  <2>2. ASSUME NEW i \in 1..Len(Controls), Started(i, Controls), UNCHANGED Controls
        PROVE  SearchInv'
    BY Zenon, <1>1, <1>t, <2>2, StartedKeeps DEF SearchWithPaging
  <2>3. CASE /\ call' = [call EXCEPT !.err = TRUE, !.result = <<>>, !.before = Controls, !.count = @ + 1]
             /\ UNCHANGED Controls
    <3>1. call.pc = "idle" /\ UNCHANGED srv
      BY Zenon, <1>1 DEF SearchWithPaging
    <3>2. SearchTyped'
      <4>1. call \in Call /\ <<>> \in Seq(Entries) /\ call.count + 1 \in Nat
        BY <1>t DEF SearchInv, SearchTyped
      <4>2. call' \in Call
        BY Zenon, <1>t, <2>3, <4>1 DEF Call
      <4> QED  BY Zenon, <1>t, <2>3, <3>1, <4>2 DEF SearchTyped
    <3>3. call'.pc = "idle" /\ call'.err /\ call'.result = <<>> /\ call'.from = call.from
      BY Zenon, <2>3, <3>1 DEF SearchInv, SearchTyped, Call
    <3>4. PagingInv'
      BY Zenon, <3>3 DEF PagingInv
    <3>5. SubSeq(Directory, call.from + 1, call.from) = <<>>
      BY <1>t, DirectoryLength, NoPiece
    <3>6. PagedExact'
      BY <1>t, <3>3, <3>5, DirectoryLength DEF PagedExact
    <3> QED  BY Zenon, <3>2, <3>4, <3>6 DEF SearchInv
  <2> QED  BY Zenon, <1>1, <2>1, <2>2, <2>3 DEF SearchWithPaging
<1>2. CASE Search
  <2>c. call.pc = "search" /\ call.ctl \in 1..Len(Controls)
    BY Zenon, <1>2, <1>p DEF Search, PagingInv
  <2>p. Place(pagingControl.cookie) \in 0..Len(Directory)
    <3>1. pagingControl \in Control
      BY <1>t, <2>c DEF pagingControl
    <3> QED  BY Zenon, <3>1, Places
  <2>1. CASE /\ call' = [call EXCEPT !.pc = "wait", !.page = <<>>]
             /\ srv' = Place(pagingControl.cookie)
    <3>1. SearchTyped' /\ UNCHANGED Controls
      <4>1. call \in Call /\ <<>> \in Seq(Entries) /\ UNCHANGED Controls
        BY <1>2 DEF Search, SearchInv, SearchTyped
      <4>2. call' \in Call
        BY Zenon, <2>1, <4>1, CallGoesOn
      <4> QED  BY Zenon, <1>t, <2>1, <2>p, <4>1, <4>2 DEF SearchTyped
    <3>2. /\ call'.pc = "wait" /\ call'.page = <<>> /\ call'.ctl = call.ctl
          /\ call'.from = call.from /\ call'.result = call.result
      BY Zenon, <2>1 DEF SearchInv, SearchTyped, Call
    <3>3. SubSeq(Directory, Place(pagingControl.cookie) + 1, Place(pagingControl.cookie)) = <<>>
      BY <2>p, DirectoryLength, NoPiece
    <3>4. PagingInv'
      BY <1>p, <2>1, <2>c, <2>p, <3>1, <3>2, <3>3, DirectoryLength DEF PagingInv, pagingControl
    <3>5. PagedExact'
      BY Zenon, <1>p, <3>2 DEF PagedExact
    <3> QED  BY Zenon, <3>1, <3>4, <3>5 DEF SearchInv
  <2>2. CASE Return(call.result, TRUE) /\ UNCHANGED srv
    BY Zenon, <1>2, <2>2, ReturnKeeps DEF Search
  <2> QED  BY Zenon, <1>2, <2>1, <2>2 DEF Search
<1>3. CASE ReceiveEntry
  <2>1. /\ call.pc = "wait" /\ srv < Len(Directory) /\ UNCHANGED Controls /\ srv' = srv + 1
        /\ call' = [call EXCEPT !.page = Append(@, Directory[srv + 1])]
    BY Zenon, <1>3 DEF ReceiveEntry
  <2>2. Directory[srv + 1] \in Entries
    BY <1>d, <1>t, <2>1
  <2>3. SearchTyped'
    <3>1. call \in Call /\ Append(call.page, Directory[srv + 1]) \in Seq(Entries)
      BY <1>t, <2>2 DEF SearchInv, SearchTyped
    <3>2. call' \in Call
      BY Zenon, <2>1, <3>1, CallGoesOn
    <3>3. srv' \in 0..Len(Directory)
      BY <1>t, <2>1, DirectoryLength
    <3> QED  BY Zenon, <1>t, <2>1, <3>2, <3>3 DEF SearchTyped
  <2>4. /\ call'.pc = call.pc /\ call'.ctl = call.ctl /\ call'.from = call.from
        /\ call'.result = call.result /\ call'.err = call.err
        /\ call'.page = Append(call.page, Directory[srv + 1])
    BY Zenon, <2>1 DEF SearchInv, SearchTyped, Call
  <2>5. PagingInv'
    <3>1. /\ call.ctl \in 1..Len(Controls)
          /\ call.from + Len(call.result) = Place(pagingControl.cookie)
          /\ Place(pagingControl.cookie) <= srv
          /\ call.page = SubSeq(Directory, Place(pagingControl.cookie) + 1, srv)
      BY Zenon, <1>p, <2>1 DEF PagingInv
    <3>2. Place(pagingControl.cookie) \in Nat
      <4>1. Controls[call.ctl] \in Control
        BY <1>t, <3>1
      <4>2. pagingControl.cookie \in 0..(Len(Directory) + 1)
        BY Zenon, <4>1 DEF Control, pagingControl
      <4> HIDE DEF pagingControl
      <4> QED  BY <4>2, DirectoryLength DEF Place
    <3>3. call'.page = SubSeq(Directory, Place(pagingControl.cookie) + 1, srv + 1)
      <4>1. srv \in Nat /\ srv < Len(Directory)
        BY <1>t, <2>1, DirectoryLength
      <4>2. Append(SubSeq(Directory, Place(pagingControl.cookie) + 1, srv), Directory[srv + 1])
              = SubSeq(Directory, Place(pagingControl.cookie) + 1, srv + 1)
        BY Zenon, <1>d, <3>1, <3>2, <4>1, NextEntry
      <4> QED  BY Zenon, <2>4, <3>1, <4>2
    <3>4. pagingControl' = pagingControl
      BY Zenon, <2>1, <2>4 DEF pagingControl
    <3>5. Place(pagingControl.cookie) <= srv'
      BY <1>t, <2>1, <3>1, <3>2, DirectoryLength
    <3> QED  BY Zenon, <2>1, <2>4, <3>1, <3>3, <3>4, <3>5 DEF PagingInv
  <2>6. PagedExact'
    BY Zenon, <1>p, <2>4 DEF PagedExact
  <2> QED  BY Zenon, <2>3, <2>5, <2>6 DEF SearchInv
<1>4. CASE MorePages
  <2>1. /\ call.pc = "wait" /\ srv' = srv /\ Controls' = [Controls EXCEPT ![call.ctl].cookie = srv + 1]
        /\ call' = [call EXCEPT !.pc = "search", !.result = @ \o call.page, !.page = <<>>]
    BY Zenon, <1>4 DEF MorePages
  <2>2. call.ctl \in 1..Len(Controls)
    BY Zenon, <1>p, <2>1 DEF PagingInv
  <2>3. Controls[call.ctl] \in Control /\ srv + 1 \in 0..(Len(Directory) + 1)
    BY <1>t, <2>2, DirectoryLength
  <2>4. [Controls[call.ctl] EXCEPT !.cookie = srv + 1] \in Control
    BY Zenon, <2>3 DEF Control
  <2>5. Controls' \in Seq(Control) /\ Len(Controls') = Len(Controls)
    BY <1>t, <2>1, <2>2, <2>4
  <2>6. SearchTyped'
    <3>1. /\ call \in Call /\ call.result \o call.page \in Seq(Entries)
          /\ <<>> \in Seq(Entries)
      BY <2>1, PageContinues DEF SearchInv, SearchTyped
    <3>2. call' \in Call
      BY Zenon, <2>1, <3>1, CallGoesOn
    <3> QED  BY Zenon, <1>t, <2>1, <2>5, <3>2 DEF SearchTyped
  <2>7. /\ call'.pc = "search" /\ call'.ctl = call.ctl /\ call'.from = call.from
        /\ call'.result = call.result \o call.page
    BY Zenon, <2>1 DEF SearchInv, SearchTyped, Call
  <2>8. pagingControl'.cookie = srv + 1
    <3>1. Controls'[call.ctl] = [Controls[call.ctl] EXCEPT !.cookie = srv + 1]
      <4>1. DOMAIN Controls = 1..Len(Controls)
        BY Zenon, <1>t, LenProperties
      <4> QED  BY Zenon, <2>1, <2>2, <4>1
    <3>2. [Controls[call.ctl] EXCEPT !.cookie = srv + 1].cookie = srv + 1
      BY Zenon, <2>3 DEF Control
    <3> QED  BY Zenon, <2>7, <3>1, <3>2 DEF pagingControl
  <2>9. Place(srv + 1) = srv
    BY <1>t, DirectoryLength DEF Place
  <2>10. PagingInv'
    BY Zenon, <2>1, <2>2, <2>5, <2>7, <2>8, <2>9, PageContinues DEF PagingInv
  <2>11. PagedExact'
    BY Zenon, <2>1, <2>7, PageContinues DEF PagedExact
  <2> QED  BY Zenon, <2>6, <2>10, <2>11 DEF SearchInv
<1>5. CASE LastPage
  <2>1. call.pc = "wait" /\ srv = Len(Directory) /\ UNCHANGED <<Controls, srv>>
        /\ Return(call.result \o call.page, FALSE)
    BY Zenon, <1>5 DEF LastPage
  <2>2. SearchTyped'
    <3>1. /\ call \in Call /\ call.result \o call.page \in Seq(Entries)
          /\ <<>> \in Seq(Entries)
      BY <2>1, PageContinues DEF SearchInv, SearchTyped
    <3>2. call' \in Call
      BY Zenon, <2>1, <3>1, CallGoesOn DEF Return
    <3> QED  BY Zenon, <1>t, <2>1, <3>2 DEF SearchTyped
  <2>3. /\ call'.pc = "idle" /\ call'.from = call.from /\ call'.result = call.result \o call.page
    BY Zenon, <2>1 DEF SearchInv, SearchTyped, Call, Return
  <2>4. PagingInv'
    BY Zenon, <2>3 DEF PagingInv
  <2>5. PagedExact'
    BY Zenon, <2>1, <2>3, PageContinues DEF PagedExact
  <2> QED  BY Zenon, <2>2, <2>4, <2>5 DEF SearchInv
<1>6. CASE SearchFails
  BY Zenon, <1>6, ReturnKeeps DEF SearchFails
<1>7. CASE UNCHANGED searchVars
  BY Zenon, <1>7, <1>t, <1>p DEF searchVars, SearchInv, SearchTyped, Call, PagingInv, PagedExact, pagingControl
<1> QED  BY Zenon, <1>1, <1>2, <1>3, <1>4, <1>5, <1>6, <1>7 DEF SearchNext

\* SearchWithPaging returns what the directory holds from the place the request's
\* cookie named, nothing twice and nothing skipped, for every directory, page size
\* and reply of the server, and all of it when there is no error.
THEOREM PagingSafe == SearchSpec => []PagedExact
<1>1. SearchInv => PagedExact
  BY Zenon DEF SearchInv
<1> QED  BY <1>1, SearchStarts, SearchSteps, PTL DEF SearchSpec

-----------------------------------------------------------------------------
(* Operations with one response.                                           *)

Kinds == {"add", "del", "modify", "compare", "passwd", "bind"}

\* The codes that are the client's own, and those that are no code.
OwnCodes == {Nil, Waiting, Plain, ErrorNetwork, ErrorUnexpectedResponse}

\* Only a password change is answered with a value.
ValueOf(kind, val) == val = "none" \/ (val = "generated" /\ kind = "passwd")

NotDone == ~did.done /\ did.val = "none"

\* The server has not looked at the request before it answers, and its answer is
\* what it did.
AnswerOk ==
  \/ wire.tag = "intermediate" /\ ~wire.whole /\ NotDone
  \/ /\ wire.tag = op.kind /\ did.done /\ wire.code = did.code /\ wire.val = did.val
     /\ ValueOf(op.kind, did.val)

WireOk ==
  \/ wire.is = "none"
  \/ wire.is = "request" /\ op.kind \in Kinds /\ NotDone
  \/ wire.is = "response" /\ op.kind \in Kinds /\ AnswerOk

OpsInv == (op = Idle => wire.is = "none") /\ WireOk /\ ToldWhatWasDone

\* What ToldWhatWasDone says of an operation that returned r when the server did d.
Tells(r, d) ==
  /\ r.err = Nil =>
       \/ d.done /\ uint8(d.code) \in IF r.kind = "compare" THEN {CompareTrue, CompareFalse} ELSE {Success}
       \/ r.kind \in {"add", "del", "modify"} /\ r.tag \notin {r.kind, "none"}
  /\ r.err \notin OwnCodes => IF d.done THEN uint8(d.code) = r.err ELSE r.err = ErrorEmptyPassword
  /\ r.val = "true" => uint8(d.code) = CompareTrue
  /\ (r.err = Nil /\ r.val = "false") => uint8(d.code) = CompareFalse
  /\ (r.err = Nil /\ d.val = "generated") => r.val = "generated"

-----------------------------------------------------------------------------
\* The invariant after a step that leaves the client with an answer, or waiting.
LEMMA ToldThen ==
  ASSUME op' = Idle => Tells(ret', did')
  PROVE  ToldWhatWasDone'
BY Zenon DEF ToldWhatWasDone, Tells, OwnCodes

\* What an operation returns.
LEMMA Fields ==
  ASSUME NEW err, NEW val, NEW kind_, NEW tag, Returned(err, val, kind_, tag)
  PROVE  ret'.err = err /\ ret'.val = val /\ ret'.kind = kind_ /\ ret'.tag = tag
BY Zenon DEF Returned

\* The client's own codes and the errors without one are not nil.
LEMMA CodesDiffer == /\ Waiting # Nil /\ Plain # Nil /\ ErrorNetwork # Nil /\ ErrorUnexpectedResponse # Nil
                     /\ ErrorEmptyPassword # Nil /\ Success = Nil
BY DEF Nil, Waiting, Plain, ErrorNetwork, ErrorUnexpectedResponse, ErrorEmptyPassword, Success

\* The two answers of a compare are codes of their own.
LEMMA CompareCodes == /\ CompareTrue # ErrorNetwork /\ CompareFalse # ErrorNetwork
                      /\ CompareTrue # CompareFalse /\ CompareTrue # Success /\ CompareFalse # Success
BY DEF ErrorNetwork, Success, CompareTrue, CompareFalse

\* Nothing is known of a request that the client did not get an answer to.
LEMMA OwnTells ==
  ASSUME NEW r, NEW d, r.err \in OwnCodes \ {Nil}, r.val # "true" PROVE Tells(r, d)
BY Zenon DEF Tells

\* Whatever the entry is, only a password change is answered with a value.
LEMMA EffectOk ==
  ASSUME NEW r, r.kind \in Kinds
  PROVE  ValueOf(r.kind, Effect(r).val)
<1> DEFINE As(entry, code, val) == [entry |-> entry, code |-> code, val |-> val]
<1>1. ASSUME NEW entry, NEW code, NEW val, Effect(r) = As(entry, code, val), ValueOf(r.kind, val)
      PROVE  ValueOf(r.kind, Effect(r).val)
  <2>1. Effect(r).val = val
    BY <1>1
  <2> QED  BY Zenon, <1>1, <2>1
<1>2. ValueOf(r.kind, "none")
  BY Zenon DEF ValueOf
<1>3. CASE r.kind = "add"
  <2>1. \/ Effect(r) = As(dir[r.dn], EntryAlreadyExists, "none")
        \/ Effect(r) = As([vals |-> r.vals, pw |-> Empty], Success, "none")
    BY Zenon, <1>3 DEF Effect
  <2> HIDE DEF As
  <2> QED  BY Zenon, <1>1, <1>2, <2>1
<1>4. CASE r.kind # "add" /\ ~Present(r.dn)
  <2>1. Effect(r) = As(dir[r.dn], NoSuchObject, "none")
    BY Zenon, <1>4 DEF Effect
  <2> HIDE DEF As
  <2> QED  BY Zenon, <1>1, <1>2, <2>1
<1>5. CASE r.kind = "del" /\ Present(r.dn)
  <2>1. Effect(r) = As(Absent, Success, "none")
    BY Zenon, <1>5 DEF Effect
  <2> HIDE DEF As
  <2> QED  BY Zenon, <1>1, <1>2, <2>1
<1>6. CASE r.kind = "modify" /\ Present(r.dn)
  <2>1. \/ Effect(r) = As(dir[r.dn], NoSuchAttribute, "none")
        \/ \E entry : Effect(r) = As(entry, Success, "none")
    BY Zenon, <1>6 DEF Effect
  <2> HIDE DEF As
  <2> QED  BY Zenon, <1>1, <1>2, <2>1
<1>7. CASE r.kind = "compare" /\ Present(r.dn)
  <2>1. \/ Effect(r) = As(dir[r.dn], CompareTrue, "none")
        \/ Effect(r) = As(dir[r.dn], CompareFalse, "none")
    BY Zenon, <1>7 DEF Effect
  <2> HIDE DEF As
  <2> QED  BY Zenon, <1>1, <1>2, <2>1
<1>8. CASE r.kind = "bind" /\ Present(r.dn)
  <2>1. \/ Effect(r) = As(dir[r.dn], Success, "none")
        \/ Effect(r) = As(dir[r.dn], InvalidCredentials, "none")
    BY Zenon, <1>8 DEF Effect
  <2> HIDE DEF As
  <2> QED  BY Zenon, <1>1, <1>2, <2>1
<1>9. CASE r.kind = "passwd" /\ Present(r.dn)
  <2>1. \/ \E entry : Effect(r) = As(entry, Success, "none")
        \/ \E entry : Effect(r) = As(entry, Success, "generated")
    BY Zenon, <1>9 DEF Effect
  <2>2. ValueOf(r.kind, "generated")
    BY Zenon, <1>9 DEF ValueOf
  <2> HIDE DEF As
  <2> QED  BY Zenon, <1>1, <1>2, <2>1, <2>2
<1> QED  BY Zenon, <1>3, <1>4, <1>5, <1>6, <1>7, <1>8, <1>9 DEF Kinds

\* The six operations: the request is sent, or the connection is closing.
LEMMA Sends ==
  ASSUME NEW r, r.kind \in Kinds, sendMessage(r)
  PROVE  OpsInv'
<1>1. did' = Nothing
  BY Zenon DEF sendMessage
<1>2. NotDone'
  <2>1. Nothing.done = FALSE /\ Nothing.val = "none"
    BY Zenon DEF Nothing
  <2> QED  BY Zenon, <1>1, <2>1 DEF NotDone
<1>3. CASE op' = r /\ wire' = [is |-> "request"] /\ ret' = NoRet
  <2>1. op' # Idle /\ op'.kind \in Kinds /\ wire'.is = "request"
    <3>1. wire'.is = "request"
      BY Zenon, <1>3
    <3>2. Idle.kind \notin Kinds
      BY Zenon DEF Idle, Kinds
    <3> QED  BY Zenon, <1>3, <3>1, <3>2
  <2> QED  BY Zenon, <1>2, <2>1, ToldThen DEF OpsInv, WireOk
<1>4. CASE Returned(ErrorNetwork, "none", r.kind, "none") /\ wire' = [is |-> "none"]
  <2>1. ret'.err = ErrorNetwork /\ ret'.val = "none" /\ wire'.is = "none"
    BY Zenon, <1>4, Fields
  <2>2. Tells(ret', did')
    BY Zenon, <2>1, OwnTells, CodesDiffer DEF OwnCodes
  <2> QED  BY Zenon, <2>1, <2>2, ToldThen DEF OpsInv, WireOk
<1> QED  BY Zenon, <1>3, <1>4 DEF sendMessage

\* The server's steps: it answers with what it did.
LEMMA ServerStep ==
  ASSUME OpsInv, Serve \/ Intermediate \/ Others
  PROVE  OpsInv'
<1>1. CASE Serve
  <2>1. wire.is = "request" /\ op' = op /\ op # Idle /\ op.kind \in Kinds
    BY Zenon, <1>1 DEF OpsInv, WireOk, Serve
  <2>2. PICK f \in {Effect(op)} \cup {[entry |-> dir[op.dn], code |-> c, val |-> "none"] : c \in OtherCodes} :
          \E whole \in BOOLEAN :
            /\ did' = [done |-> TRUE, code |-> f.code, val |-> f.val]
            /\ wire' = [is |-> "response", tag |-> op.kind, whole |-> whole, code |-> f.code, val |-> f.val]
    BY Zenon, <1>1 DEF Serve
  <2>3. PICK code, val : code = f.code /\ val = f.val
    BY Zenon
  <2>4. ValueOf(op.kind, val)
    <3>1. CASE f = Effect(op)
      BY Zenon, <2>1, <2>3, <3>1, EffectOk
    <3>2. ASSUME NEW c, f = [entry |-> dir[op.dn], code |-> c, val |-> "none"] PROVE ValueOf(op.kind, val)
      <4>1. val = "none"
        BY Zenon, <2>3, <3>2
      <4> QED  BY Zenon, <4>1 DEF ValueOf
    <3> QED  BY Zenon, <3>1, <3>2
  <2>5. PICK whole \in BOOLEAN :
          /\ did' = [done |-> TRUE, code |-> code, val |-> val]
          /\ wire' = [is |-> "response", tag |-> op.kind, whole |-> whole, code |-> code, val |-> val]
    BY Zenon, <2>2, <2>3
  <2>6. did'.done /\ did'.code = code /\ did'.val = val
    BY Zenon, <2>5
  <2>7. wire'.is = "response" /\ wire'.tag = op.kind /\ wire'.code = code /\ wire'.val = val
    BY Zenon, <2>5
  <2>8. AnswerOk'
    BY Zenon, <2>1, <2>4, <2>6, <2>7 DEF AnswerOk
  <2> QED  BY Zenon, <2>1, <2>7, <2>8, ToldThen DEF OpsInv, WireOk
<1>2. CASE Intermediate
  <2>1. wire.is = "request" /\ op' = op /\ op # Idle /\ op.kind \in Kinds /\ did' = did /\ NotDone
    BY Zenon, <1>2 DEF OpsInv, WireOk, Intermediate
  <2>2. wire'.is = "response" /\ wire'.tag = "intermediate" /\ ~wire'.whole
    BY Zenon, <1>2 DEF Intermediate
  <2>3. AnswerOk'
    BY Zenon, <2>1, <2>2 DEF AnswerOk, NotDone
  <2> QED  BY Zenon, <2>1, <2>2, <2>3, ToldThen DEF OpsInv, WireOk
<1>3. CASE Others
  <2>1. op' = op /\ wire' = wire /\ ret' = ret /\ did' = did
    BY Zenon, <1>3 DEF Others
  <2> QED  BY Zenon, <2>1 DEF OpsInv, WireOk, AnswerOk, NotDone, ToldWhatWasDone
<1> QED  BY Zenon, <1>1, <1>2, <1>3

\* The operation returns.
LEMMA ReceiveStep ==
  ASSUME OpsInv, Receive
  PROVE  OpsInv'
<1>1. op.kind \in Kinds /\ AnswerOk /\ did' = did /\ wire'.is = "none"
  <2>1. wire.is = "response" /\ did' = did /\ wire' = [is |-> "none"]
    BY Zenon DEF Receive
  <2> QED  BY Zenon, <2>1 DEF OpsInv, WireOk
<1>2. SUFFICES Tells(ret', did)
  BY Zenon, <1>1, ToldThen DEF OpsInv, WireOk
<1>3. PICK code : code = getLDAPResultCode(wire)
  BY Zenon
\* The code is the client's for a malformed packet, or the server's modulo 256.
<1>4. \/ code = ErrorNetwork
      \/ did.done /\ code = uint8(did.code) /\ wire.val = did.val /\ ValueOf(op.kind, wire.val)
  BY Zenon, <1>1, <1>3 DEF getLDAPResultCode, AnswerOk
<1>5. ASSUME NEW err, NEW val, Answered(err, val)
      PROVE  ret'.err = err /\ ret'.val = val /\ ret'.kind = op.kind /\ ret'.tag = wire.tag
  BY Zenon, <1>5, Fields DEF Answered
<1>6. ASSUME NEW val, ReturnCode(wire, val), op.kind # "compare", val # "true", val # "false",
             wire.val = "generated" => val = "generated" \/ op.kind # "passwd"
      PROVE  Tells(ret', did)
  <2>1. CASE code = Success
    <3>0. Answered(Nil, val)
      BY Zenon, <1>3, <1>6, <2>1 DEF ReturnCode
    <3>1. ret'.err = Nil /\ ret'.val = val /\ ret'.kind = op.kind
      BY Zenon, <3>0, <1>5
    <3>2. did.done /\ uint8(did.code) = Success /\ (did.val = "generated" => val = "generated")
      BY Zenon, <1>4, <1>6, <2>1, CodesDiffer DEF ValueOf
    <3> QED  BY Zenon, <1>6, <3>1, <3>2 DEF Tells, OwnCodes
  <2>2. CASE code # Success
    <3>0. Answered(code, "none")
      BY Zenon, <1>3, <1>6, <2>2 DEF ReturnCode
    <3>1. ret'.err = code /\ ret'.val = "none"
      BY Zenon, <3>0, <1>5
    <3>2. code # Nil /\ (code \in OwnCodes \/ (did.done /\ code = uint8(did.code)))
      BY Zenon, <1>4, <2>2, CodesDiffer DEF OwnCodes
    <3> QED  BY Zenon, <3>1, <3>2 DEF Tells
  <2> QED  BY Zenon, <2>1, <2>2
<1>7. ASSUME op.kind \in {"add", "del", "modify"}, wire.tag # op.kind, Answered(Nil, "none")
      PROVE  Tells(ret', did)
  <2>1. ret'.err = Nil /\ ret'.val = "none" /\ ret'.kind = op.kind /\ ret'.tag = wire.tag
    BY Zenon, <1>5, <1>7
  <2>2. NotDone /\ wire.tag = "intermediate"
    BY Zenon, <1>1, <1>7 DEF AnswerOk
  <2>3. ret'.kind \in {"add", "del", "modify"} /\ ret'.tag \notin {ret'.kind, "none"}
    BY Zenon, <1>7, <2>1, <2>2
  <2> QED  BY Zenon, <2>1, <2>2, <2>3 DEF Tells, NotDone, OwnCodes
<1>8. ASSUME op.kind = "compare", compareResult(wire)
      PROVE  Tells(ret', did)
  <2>1. code = ErrorNetwork \/ (did.done /\ code = uint8(did.code) /\ did.val # "generated")
    BY Zenon, <1>4, <1>8 DEF ValueOf
  <2>2. CASE code = CompareTrue
    <3>0. Answered(Nil, "true")
      BY Zenon, <1>3, <1>8, <2>2, CompareCodes DEF compareResult
    <3>1. ret'.err = Nil /\ ret'.val = "true" /\ ret'.kind = "compare"
      BY Zenon, <3>0, <1>5, <1>8
    <3>2. did.done /\ uint8(did.code) = CompareTrue /\ did.val # "generated"
      BY Zenon, <2>1, <2>2, CompareCodes
    <3> QED  BY Zenon, <3>1, <3>2 DEF Tells, OwnCodes
  <2>3. CASE code = CompareFalse
    <3>0. Answered(Nil, "false")
      BY Zenon, <1>3, <1>8, <2>3, CompareCodes DEF compareResult
    <3>1. ret'.err = Nil /\ ret'.val = "false" /\ ret'.kind = "compare"
      BY Zenon, <3>0, <1>5, <1>8
    <3>2. did.done /\ uint8(did.code) = CompareFalse /\ did.val # "generated"
      BY Zenon, <2>1, <2>3, CompareCodes
    <3> QED  BY Zenon, <3>1, <3>2 DEF Tells, OwnCodes
  <2>4. CASE code = Success
    <3>0. Answered(Plain, "false")
      BY Zenon, <1>3, <1>8, <2>4, CompareCodes DEF compareResult
    <3>1. ret'.err = Plain /\ ret'.val = "false"
      BY Zenon, <3>0, <1>5
    <3> QED  BY Zenon, <3>1, OwnTells, CodesDiffer DEF OwnCodes
  <2>5. CASE code \notin {CompareTrue, CompareFalse, Success}
    <3>0. Answered(code, "false")
      BY Zenon, <1>3, <1>8, <2>5 DEF compareResult
    <3>1. ret'.err = code /\ ret'.val = "false"
      BY Zenon, <3>0, <1>5
    <3>2. code # Nil /\ (code \in OwnCodes \/ (did.done /\ code = uint8(did.code)))
      BY Zenon, <2>1, <2>5, CodesDiffer DEF OwnCodes
    <3> QED  BY Zenon, <3>1, <3>2 DEF Tells
  <2> QED  BY Zenon, <2>2, <2>3, <2>4, <2>5
<1>9. ASSUME op.kind = "passwd", wire.tag = op.kind, ReturnCode(wire, wire.val)
      PROVE  Tells(ret', did)
  <2>1. wire.val # "true" /\ wire.val # "false"
    BY Zenon, <1>1, <1>9 DEF AnswerOk, ValueOf, Kinds
  <2> QED  BY Zenon, <1>6, <1>9, <2>1
<1>10. ASSUME NEW e \in {Plain, ErrorUnexpectedResponse}, NEW v \in {"false", "none"}, Answered(e, v)
       PROVE  Tells(ret', did)
  <2>1. ret'.err = e /\ ret'.val = v /\ v # "true"
    BY Zenon, <1>5, <1>10
  <2> QED  BY Zenon, <1>10, <2>1, OwnTells, CodesDiffer DEF OwnCodes
<1>11. ASSUME op.kind \in {"bind", "add", "del", "modify"}, ReturnCode(wire, "none") PROVE Tells(ret', did)
  BY Zenon, <1>6, <1>11
<1> QED  BY Zenon, <1>7, <1>8, <1>9, <1>10, <1>11 DEF Receive

\* ... or gives up.
LEMMA LostStep ==
  ASSUME OpsInv, Lost
  PROVE  OpsInv'
<1>1. ret'.err = ErrorNetwork /\ ret'.val = "none" /\ wire'.is = "none"
  <2>1. Returned(ErrorNetwork, "none", op.kind, "none") /\ wire' = [is |-> "none"]
    BY Zenon DEF Lost
  <2> QED  BY Zenon, <2>1, Fields
<1>2. Tells(ret', did')
  BY Zenon, <1>1, OwnTells, CodesDiffer DEF OwnCodes
<1> QED  BY Zenon, <1>1, <1>2, ToldThen DEF OpsInv, WireOk

-----------------------------------------------------------------------------
\* The invariant is inductive.
LEMMA OpsInductive ==
  ASSUME OpsInv, [OpsNext]_opsVars
  PROVE  OpsInv'
<1>1. ASSUME NEW dn, NEW vals, sendMessage(encodeAdd(dn, vals)) PROVE OpsInv'
  <2>1. encodeAdd(dn, vals).kind \in Kinds
    BY Zenon DEF encodeAdd, Kinds
  <2> QED  BY Zenon, <1>1, <2>1, Sends
<1>2. ASSUME NEW dn, sendMessage(encodeDel(dn)) PROVE OpsInv'
  <2>1. encodeDel(dn).kind \in Kinds
    BY Zenon DEF encodeDel, Kinds
  <2> QED  BY Zenon, <1>2, <2>1, Sends
<1>3. ASSUME NEW dn, NEW changes, sendMessage(encodeModify(dn, changes)) PROVE OpsInv'
  <2>1. encodeModify(dn, changes).kind \in Kinds
    BY Zenon DEF encodeModify, Kinds
  <2> QED  BY Zenon, <1>3, <2>1, Sends
<1>4. ASSUME NEW dn, NEW v, sendMessage(encodeCompare(dn, v)) PROVE OpsInv'
  <2>1. encodeCompare(dn, v).kind \in Kinds
    BY Zenon DEF encodeCompare, Kinds
  <2> QED  BY Zenon, <1>4, <2>1, Sends
<1>5. ASSUME NEW dn, NEW pw, sendMessage(encodePasswordModify(dn, pw)) PROVE OpsInv'
  <2>1. encodePasswordModify(dn, pw).kind \in Kinds
    BY Zenon DEF encodePasswordModify, Kinds
  <2> QED  BY Zenon, <1>5, <2>1, Sends
<1>6. CASE SimpleBind
  <2>1. ASSUME NEW dn, NEW pw, sendMessage(encodeBind(dn, pw)) PROVE OpsInv'
    <3>1. encodeBind(dn, pw).kind \in Kinds
      BY Zenon DEF encodeBind, Kinds
    <3> QED  BY Zenon, <2>1, <3>1, Sends
  <2>2. ASSUME op = Idle, Returned(ErrorEmptyPassword, "none", "bind", "none"), wire' = wire, did' = Nothing
        PROVE  OpsInv'
    <3>1. ret'.err = ErrorEmptyPassword /\ ret'.val = "none"
      BY Zenon, <2>2, Fields
    <3>2. did'.done = FALSE
      BY Zenon, <2>2 DEF Nothing
    <3>3. Tells(ret', did')
      BY Zenon, <3>1, <3>2, CodesDiffer DEF Tells
    <3>4. wire'.is = "none"
      BY Zenon, <2>2 DEF OpsInv
    <3> QED  BY Zenon, <3>3, <3>4, ToldThen DEF OpsInv, WireOk
  <2> QED  BY Zenon, <1>6, <2>1, <2>2 DEF SimpleBind
<1>7. CASE UNCHANGED opsVars
  <2>1. op' = op /\ wire' = wire /\ ret' = ret /\ did' = did
    BY Zenon, <1>7 DEF opsVars
  <2> QED  BY Zenon, <2>1 DEF OpsInv, WireOk, AnswerOk, NotDone, ToldWhatWasDone
<1> QED  BY Zenon, <1>1, <1>2, <1>3, <1>4, <1>5, <1>6, <1>7, ServerStep, ReceiveStep, LostStep
            DEF OpsNext, Add, Del, Modify, Compare, PasswordModify

\* At first no operation has been run.
LEMMA OpsStart ==
  ASSUME OpsInit PROVE OpsInv
<1>1. wire.is = "none" /\ ret = NoRet
  BY Zenon DEF OpsInit
<1>2. ret.err = Waiting /\ ret.val = "none"
  BY Zenon, <1>1 DEF NoRet
<1> QED  BY Zenon, <1>1, <1>2, CodesDiffer DEF OpsInv, WireOk, ToldWhatWasDone

\* Whatever is in the directory, whatever others change in it meanwhile, whatever
\* the server refuses requests with, and whichever answers are lost, malformed or
\* preceded by another response: an operation that returns nil was answered with
\* success modulo 256 (a Compare with one of its answers), unless it is an Add, Del or
\* Modify that got another kind of response; one that returns another code than the
\* client's own was answered with it, modulo 256; and the value it returns is the
\* server's.
THEOREM OperationsTold == OpsSpec => []ToldWhatWasDone
<1>1. OpsInit => OpsInv
  BY OpsStart
<1>2. OpsInv /\ [OpsNext]_opsVars => OpsInv'
  BY OpsInductive
<1>3. OpsInv => ToldWhatWasDone
  BY DEF OpsInv
<1> QED  BY <1>1, <1>2, <1>3, PTL DEF OpsSpec

-----------------------------------------------------------------------------
(* Controls.                                                               *)

\* DecodeControl of a packet with the value of a paging control ...
LEMMA PagingDecoded ==
  ASSUME NEW p, NEW a, NEW b, NEW page, NEW size, NEW cookie,
         p.kids = <<a, b>>, a.val.v = Paging, b.val = Octets(<<page>>),
         page.kids = <<Prim(Number(size)), Prim(Number(cookie))>>
  PROVE  DecodeControl(p) = ControlPaging(size, cookie)
<1>1. Len(p.kids) = 2 /\ p.kids[1].val.v = Paging
  OBVIOUS
<1>2. pagingValue(p.kids[2]) = page
  BY DEF pagingValue, NoValue, Octets
<1>3. page.kids[1].val.v = size /\ page.kids[2].val.v = cookie
  BY DEF Prim, Number
<1>4. Paging # ManageDsaIT
  BY DEF Paging, ManageDsaIT
<1> QED  BY <1>1, <1>2, <1>3, <1>4 DEF DecodeControl

\* ... of one with a type only, or with a criticality, a value or both after it.
LEMMA TypeDecoded ==
  ASSUME NEW p, NEW a, p.kids = <<a>>, a.val.v # Paging
  PROVE  DecodeControl(p) = IF a.val.v = ManageDsaIT THEN ControlManageDsaIT(FALSE)
                            ELSE ControlString(a.val.v, FALSE, EmptyText)
<1>1. Len(p.kids) = 1 /\ p.kids[1] = a
  OBVIOUS
<1>2. DecodedCriticality(p.kids) = FALSE /\ ~HasValue(p.kids)
  BY <1>1 DEF DecodedCriticality, HasValue
<1>3. DecodeControl(p) = IF a.val.v = ManageDsaIT THEN ControlManageDsaIT(DecodedCriticality(p.kids))
                         ELSE ControlString(a.val.v, DecodedCriticality(p.kids), IF HasValue(p.kids) THEN a.val.v ELSE EmptyText)
  BY <1>1 DEF DecodeControl
<1> QED  BY Zenon, <1>2, <1>3

LEMMA SecondDecoded ==
  ASSUME NEW p, NEW a, NEW b, p.kids = <<a, b>>, a.val.v # Paging
  PROVE  /\ b.val = Flag(TRUE) =>
              DecodeControl(p) = IF a.val.v = ManageDsaIT THEN ControlManageDsaIT(TRUE)
                                 ELSE ControlString(a.val.v, TRUE, EmptyText)
         /\ \A value : b.val = Text(value) =>
              DecodeControl(p) = IF a.val.v = ManageDsaIT THEN ControlManageDsaIT(FALSE)
                                 ELSE ControlString(a.val.v, FALSE, value)
<1>1. Len(p.kids) = 2 /\ p.kids[1] = a /\ p.kids[2] = b
  OBVIOUS
<1>2. DecodedCriticality(p.kids) = (b.val.k = "bool" /\ b.val.v) /\ (HasValue(p.kids) <=> b.val.k # "bool")
  BY <1>1 DEF DecodedCriticality, HasValue
<1>3. DecodeControl(p) = IF a.val.v = ManageDsaIT THEN ControlManageDsaIT(DecodedCriticality(p.kids))
                         ELSE ControlString(a.val.v, DecodedCriticality(p.kids), IF HasValue(p.kids) THEN b.val.v ELSE EmptyText)
  BY <1>1 DEF DecodeControl
<1>4. ASSUME b.val = Flag(TRUE)
      PROVE  DecodedCriticality(p.kids) = TRUE /\ ~HasValue(p.kids)
  <2>1. b.val.k = "bool" /\ b.val.v = TRUE
    BY <1>4 DEF Flag
  <2> QED  BY Zenon, <1>2, <2>1
<1>5. ASSUME NEW value, b.val = Text(value)
      PROVE  DecodedCriticality(p.kids) = FALSE /\ HasValue(p.kids) /\ b.val.v = value
  <2>1. b.val.k = "string" /\ b.val.v = value /\ "string" # "bool"
    BY <1>5 DEF Text
  <2> QED  BY Zenon, <1>2, <2>1
<1> QED  BY Zenon, <1>3, <1>4, <1>5

LEMMA ThirdDecoded ==
  ASSUME NEW p, NEW a, NEW b, NEW c, Len(p.kids) = 3, p.kids[1] = a, p.kids[2] = b, p.kids[3] = c,
         a.val.v # Paging, b.val = Flag(TRUE)
  PROVE  DecodeControl(p) = IF a.val.v = ManageDsaIT THEN ControlManageDsaIT(TRUE)
                            ELSE ControlString(a.val.v, TRUE, c.val.v)
<1>0. b.val.v = TRUE
  BY DEF Flag
<1>1. DecodedCriticality(p.kids) = TRUE
  <2>1. 3 # 2
    OBVIOUS
  <2> QED  BY Zenon, <1>0, <2>1 DEF DecodedCriticality
<1>2. HasValue(p.kids)
  BY DEF HasValue
<1>3. DecodeControl(p) = IF a.val.v = ManageDsaIT THEN ControlManageDsaIT(DecodedCriticality(p.kids))
                         ELSE ControlString(a.val.v, DecodedCriticality(p.kids), IF HasValue(p.kids) THEN c.val.v ELSE EmptyText)
  BY DEF DecodeControl
<1> QED  BY Zenon, <1>1, <1>2, <1>3

\* A packet that is not a paging control's arrives as it was written, and the
\* paging control's with its value in an OCTET STRING.
LEMMA PlainWired ==
  ASSUME NEW p, p.kids[1].val # Text(Paging)
  PROVE  Wire(p) = p
BY Zenon DEF Wire

LEMMA PagingWired ==
  ASSUME NEW page
  PROVE  Wire(Seqn(<<Prim(Text(Paging)), Seqn(page)>>)) = Seqn(<<Prim(Text(Paging)), Prim(Octets(page))>>)
BY DEF Wire, Seqn, Prim

\* What is written for a control is read as that control: DecodeControl after
\* Wire after the control's Encode.
LEMMA PagingReadBack ==
  ASSUME NEW c, NEW size, NEW cookie, c = ControlPaging(size, cookie)
  PROVE  DecodeControl(Wire(encodeControl(c))) = c
<1> DEFINE page == Seqn(<<Prim(Number(size)), Prim(Number(cookie))>>)
           w == Wire(encodeControl(c))
<1>1. c.type = Paging /\ c.size = size /\ c.cookie = cookie
  BY Zenon DEF ControlPaging
<1>2. encodeControl(c) = Seqn(<<Prim(Text(Paging)), Seqn(<<page>>)>>)
  BY <1>1 DEF encodeControl, EncodePaging, Paging, ManageDsaIT
<1>3. page.kids = <<Prim(Number(size)), Prim(Number(cookie))>>
  BY DEF Seqn
<1> HIDE DEF page
<1> DEFINE a == Prim(Text(Paging))
           b == Prim(Octets(<<page>>))
<1>4. w = Seqn(<<a, b>>)
  BY Zenon, <1>2, PagingWired
<1>5. a.val.v = Paging /\ b.val = Octets(<<page>>)
  BY DEF Prim, Text
<1> HIDE DEF a, b, w
<1>6. w.kids = <<a, b>>
  BY <1>4 DEF Seqn
<1>7. DecodeControl(w) = ControlPaging(size, cookie)
  BY <1>3, <1>5, <1>6, PagingDecoded
<1> QED  BY Zenon, <1>7 DEF w

LEMMA PlainReadBack ==
  ASSUME NEW c, c = ControlString(c.type, c.crit, c.value), c.crit \in BOOLEAN,
         c.type # Paging, c.type = ManageDsaIT => c.value = EmptyText
  PROVE  DecodeControl(Wire(encodeControl(c))) = c
<1> DEFINE p == encodeControl(c)
           type == c.type
           crit == c.crit
           value == c.value
           t == Prim(Text(type))
           f == Prim(Flag(TRUE))
           v == Prim(Text(value))
<1>1. c = ControlString(type, crit, value) /\ crit \in BOOLEAN /\ type # Paging /\ (type = ManageDsaIT => value = EmptyText)
  BY Zenon
<1>2. p = IF type = ManageDsaIT THEN EncodeManageDsaIT(c) ELSE EncodeString(c)
  BY <1>1 DEF encodeControl
<1>3. p = Seqn(IF type = ManageDsaIT THEN IF crit THEN <<t, f>> ELSE <<t>>
               ELSE IF crit THEN <<t, f, v>> ELSE <<t, v>>)
  BY Zenon, <1>2 DEF EncodeManageDsaIT, EncodeString
<1>4. t.val = Text(type) /\ t.val.v = type /\ t.val # Text(Paging) /\ f.val = Flag(TRUE) /\ v.val = Text(value)
  BY <1>1 DEF Prim, Text
<1> HIDE DEF p, t, f, v, type, crit, value
<1>5. p.kids = IF type = ManageDsaIT THEN IF crit THEN <<t, f>> ELSE <<t>>
               ELSE IF crit THEN <<t, f, v>> ELSE <<t, v>>
  BY Zenon, <1>3 DEF Seqn
<1>6. p.kids[1] = t
  <2>1. <<t, f>>[1] = t /\ <<t>>[1] = t /\ <<t, f, v>>[1] = t /\ <<t, v>>[1] = t
    OBVIOUS
  <2> QED  BY Zenon, <1>5, <2>1
<1>7. Wire(p) = p
  BY Zenon, <1>4, <1>6, PlainWired
<1>8. CASE type = ManageDsaIT /\ crit
  <2>1. DecodeControl(p) = ControlManageDsaIT(TRUE)
    BY Zenon, <1>4, <1>5, <1>8, SecondDecoded
  <2> QED  BY Zenon, <1>1, <1>7, <1>8, <2>1 DEF ControlManageDsaIT, p
<1>9. CASE type = ManageDsaIT /\ ~crit
  <2>1. DecodeControl(p) = ControlManageDsaIT(FALSE)
    BY Zenon, <1>4, <1>5, <1>9, TypeDecoded
  <2> QED  BY Zenon, <1>1, <1>7, <1>9, <2>1 DEF ControlManageDsaIT, p
<1>10. CASE type # ManageDsaIT /\ crit
  <2>1. p.kids = <<t, f, v>>
    BY Zenon, <1>5, <1>10
  <2>2. Len(p.kids) = 3 /\ p.kids[1] = t /\ p.kids[2] = f /\ p.kids[3] = v
    BY <2>1
  <2>3. v.val.v = value /\ t.val.v # Paging /\ f.val = Flag(TRUE)
    BY <1>1, <1>4 DEF Text
  <2>4. DecodeControl(p) = IF t.val.v = ManageDsaIT THEN ControlManageDsaIT(TRUE)
                           ELSE ControlString(t.val.v, TRUE, v.val.v)
    BY Zenon, <2>2, <2>3, ThirdDecoded
  <2> QED  BY Zenon, <1>1, <1>4, <1>7, <1>10, <2>3, <2>4 DEF p
<1>11. CASE type # ManageDsaIT /\ ~crit
  <2>1. DecodeControl(p) = ControlString(type, FALSE, value)
    BY Zenon, <1>1, <1>4, <1>5, <1>11, SecondDecoded
  <2> QED  BY Zenon, <1>1, <1>7, <1>11, <2>1 DEF p
<1> QED  BY Zenon, <1>8, <1>9, <1>10, <1>11

LEMMA ControlReadBack ==
  ASSUME NEW c \in AnyControl
  PROVE  DecodeControl(Wire(encodeControl(c))) = c
<1>1. Paging # ManageDsaIT
  BY DEF Paging, ManageDsaIT
<1>2. CASE c = ControlPaging(c.size, c.cookie)
  BY Zenon, <1>2, PagingReadBack
<1>3. CASE c = ControlManageDsaIT(c.crit) /\ c.crit \in BOOLEAN
  <2>1. c.type = ManageDsaIT /\ c.value = EmptyText
    BY <1>3 DEF ControlManageDsaIT, ControlString
  <2>2. c = ControlString(c.type, c.crit, c.value)
    BY Zenon, <1>3, <2>1 DEF ControlManageDsaIT
  <2> QED  BY Zenon, <1>1, <1>3, <2>1, <2>2, PlainReadBack
<1>4. CASE /\ c = ControlString(c.type, c.crit, c.value) /\ c.crit \in BOOLEAN
           /\ c.type \notin OwnControl
  <2>1. c.type # Paging /\ c.type # ManageDsaIT
    BY Zenon, <1>4 DEF OwnControl
  <2> QED  BY Zenon, <1>4, <2>1, PlainReadBack
<1> QED  BY Zenon, <1>2, <1>3, <1>4, ControlAssumption
-----------------------------------------------------------------------------
\* A set of positions has a first one.
LEMMA FirstPosition ==
  ASSUME NEW I, I \subseteq Nat, I # {}
  PROVE  Min(I) \in I /\ \A h \in I : Min(I) <= h
<1> DEFINE R == OpToRel(<, Nat)
<1>1. IsWellFoundedOn(R, Nat)
  BY Zenon, NatLessThanWellFounded
<1>2. \A x, y \in Nat : <<y, x>> \in R <=> y < x
  BY DEF OpToRel
<1> HIDE DEF R
<1>3. PICK i \in I : \A h \in I : ~(<<h, i>> \in R)
  BY Zenon, <1>1, WFMin
<1>4. \A h \in I : i <= h
  <2>1. \A h \in I : i \in Nat /\ h \in Nat
    BY Zenon
  <2>2. \A h \in I : ~(h < i)
    BY ZenonT(60), <1>2, <1>3, <2>1
  <2> QED  BY <2>1, <2>2
<1> QED  BY Zenon, <1>4 DEF Min

\* FindControl finds the first control of the type, if there is one.
LEMMA FirstFound ==
  ASSUME NEW cs \in Seq(AnyControl), NEW i \in 1..Len(cs)
  PROVE  \E j \in 1..i : /\ FindControl(cs, cs[i].type) = <<cs[j]>>
                         /\ cs[j].type = cs[i].type
                         /\ \A h \in 1..(j - 1) : cs[h].type # cs[i].type
<1> DEFINE type == cs[i].type
           I == {j \in 1..Len(cs) : cs[j].type = type}
           j == Min(I)
<1>1. i \in I /\ I \subseteq Nat /\ I \subseteq 1..Len(cs)
  OBVIOUS
<1>2. SelectInSeq(cs, LAMBDA c : c.type = type) = j
  BY Zenon, <1>1 DEF SelectInSeq
<1>3. j \in I /\ \A h \in I : j <= h
  <2> HIDE DEF I
  <2> QED  BY Zenon, <1>1, FirstPosition
<1>4. j \in 1..Len(cs) /\ cs[j].type = type
  BY Zenon, <1>3
<1>5. \A h \in 1..(j - 1) : cs[h].type # type
  <2> SUFFICES ASSUME NEW h \in 1..(j - 1), cs[h].type = type
               PROVE  FALSE
    OBVIOUS
  <2> HIDE DEF j
  <2>1. h \in 1..Len(cs) /\ ~(j <= h)
    BY <1>4
  <2> QED  BY Zenon, <1>3, <2>1
<1>6. j \in 1..i
  <2> HIDE DEF j
  <2>1. j <= i
    BY Zenon, <1>1, <1>3
  <2> QED  BY <1>4, <2>1
<1>7. FindControl(cs, type) = <<cs[j]>>
  <2>1. j # 0
    <3> HIDE DEF j
    <3> QED  BY <1>4
  <2> QED  BY Zenon, <1>2, <2>1 DEF FindControl
<1> QED  BY Zenon, <1>4, <1>5, <1>6, <1>7

\* A message has controls that callers attach.
ControlsOk == controls \in Seq(AnyControl)

LEMMA ControlsTyped == ControlsSpec => []ControlsOk
<1>1. ControlsInit => ControlsOk
  BY DEF ControlsInit, ControlsOk
<1>2. ControlsOk /\ [Attach]_controls => ControlsOk'
  BY DEF Attach, ControlsOk
<1> QED  BY <1>1, <1>2, PTL DEF ControlsSpec

\* Whatever controls a message has, and however many, DecodeControl gives each
\* back as it was encoded, and FindControl gives the first of a type.
THEOREM ControlsReadBack == ControlsSpec => []ControlsSurvive
<1>1. ControlsOk => ControlsSurvive
  <2> SUFFICES ASSUME controls \in Seq(AnyControl)
               PROVE  ControlsSurvive
    BY DEF ControlsOk
  <2> DEFINE read == [i \in 1..Len(controls) |-> DecodeControl(Wire(encodeControls(controls)[i]))]
  <2>1. ASSUME NEW i \in 1..Len(controls)
        PROVE  DecodeControl(Wire(encodeControls(controls)[i])) = controls[i]
    <3>1. encodeControls(controls)[i] = encodeControl(controls[i]) /\ controls[i] \in AnyControl
      BY DEF encodeControls
    <3> QED  BY Zenon, <3>1, ControlReadBack
  <2>2. read = [i \in 1..Len(controls) |-> controls[i]]
    BY Zenon, <2>1
  <2>3. controls = [i \in 1..Len(controls) |-> controls[i]]
    OBVIOUS
  <2>4. read = controls
    BY Zenon, <2>2, <2>3
  <2> HIDE DEF read
  <2>5. \A i \in 1..Len(controls) : \E j \in 1..i :
           /\ FindControl(controls, controls[i].type) = <<controls[j]>>
           /\ controls[j].type = controls[i].type
           /\ \A h \in 1..(j - 1) : controls[h].type # controls[i].type
    BY FirstFound
  <2> QED  BY Zenon, <2>4, <2>5 DEF ControlsSurvive, read
<1> QED  BY <1>1, ControlsTyped, PTL

-----------------------------------------------------------------------------
(* Distinguished names.                                                    *)

\* A name's parts have lengths.
LEMMA NameSizes ==
  ASSUME NEW d \in DN
  PROVE  Len(d) \in Nat /\ \A i \in 1..Len(d) : d[i] \in RelativeDN /\ Len(d[i]) \in Nat
BY DEF DN, RelativeDN

\* Attributes that are equal to a third are equal.
LEMMA AllAttributes ==
  ASSUME NEW r, NEW s, NEW t, hasAllAttributes(r, s), hasAllAttributes(s, t)
  PROVE  hasAllAttributes(r, t)
<1> SUFFICES ASSUME NEW i \in 1..Len(t) PROVE \E j \in 1..Len(r) : attributeEqual(r[j], t[i])
  BY Zenon DEF hasAllAttributes
<1>1. PICK k \in 1..Len(s) : attributeEqual(s[k], t[i])
  BY Zenon DEF hasAllAttributes
<1>2. PICK j \in 1..Len(r) : attributeEqual(r[j], s[k])
  BY Zenon DEF hasAllAttributes
<1> QED  BY Zenon, <1>1, <1>2 DEF attributeEqual

\* rdnEqual is an equivalence.
LEMMA RDNsAlike ==
  /\ \A r : rdnEqual(r, r)
  /\ \A r, s : rdnEqual(r, s) => rdnEqual(s, r)
  /\ \A r, s, t : rdnEqual(r, s) /\ rdnEqual(s, t) => rdnEqual(r, t)
<1>1. \A r : rdnEqual(r, r)
  BY Zenon DEF rdnEqual, hasAllAttributes, attributeEqual
<1>2. \A r, s : rdnEqual(r, s) => rdnEqual(s, r)
  BY Zenon DEF rdnEqual
<1>3. \A r, s, t : rdnEqual(r, s) /\ rdnEqual(s, t) => rdnEqual(r, t)
  BY Zenon, AllAttributes DEF rdnEqual
<1> QED  BY Zenon, <1>1, <1>2, <1>3

\* Equal of dn.go:181 is an equivalence on distinguished names, AncestorOf
\* of dn.go:197 a strict order, and it does not tell equal names apart.
THEOREM NamesAlike ==
  ASSUME NEW c \in DN, NEW d \in DN, NEW e \in DN
  PROVE  /\ Equal(d, d)
         /\ Equal(d, e) => Equal(e, d)
         /\ Equal(c, d) /\ Equal(d, e) => Equal(c, e)
         /\ ~AncestorOf(d, d)
         /\ AncestorOf(c, d) /\ AncestorOf(d, e) => AncestorOf(c, e)
         /\ AncestorOf(d, e) => ~Equal(d, e) /\ ~AncestorOf(e, d)
         /\ Equal(c, d) /\ AncestorOf(d, e) => AncestorOf(c, e)
         /\ AncestorOf(c, d) /\ Equal(d, e) => AncestorOf(c, e)
<1>1. Len(c) \in Nat /\ Len(d) \in Nat /\ Len(e) \in Nat
  BY NameSizes
<1>2. Equal(d, d)
  BY Zenon, RDNsAlike DEF Equal
<1>3. Equal(d, e) => Equal(e, d)
  BY Zenon, RDNsAlike DEF Equal
<1>4. Equal(c, d) /\ Equal(d, e) => Equal(c, e)
  <2> SUFFICES ASSUME Equal(c, d), Equal(d, e), NEW i \in 1..Len(c) PROVE rdnEqual(c[i], e[i])
    BY Zenon DEF Equal
  <2> QED  BY Zenon, RDNsAlike DEF Equal
<1>5. ~AncestorOf(d, d) /\ (AncestorOf(d, e) => ~Equal(d, e) /\ ~AncestorOf(e, d))
  BY <1>1 DEF AncestorOf, Equal
<1>6. AncestorOf(c, d) /\ AncestorOf(d, e) => AncestorOf(c, e)
  <2> SUFFICES ASSUME AncestorOf(c, d), AncestorOf(d, e) PROVE AncestorOf(c, e)
    BY Zenon
  <2>1. Len(c) < Len(d) /\ Len(d) < Len(e)
    BY Zenon DEF AncestorOf
  <2>2. ASSUME NEW i \in 1..Len(c)
        PROVE  rdnEqual(c[i], e[(Len(e) - Len(c)) + i])
    <3> DEFINE j == (Len(d) - Len(c)) + i
    <3>1. j \in 1..Len(d) /\ (Len(e) - Len(d)) + j = (Len(e) - Len(c)) + i
      BY <1>1, <2>1
    <3>2. rdnEqual(c[i], d[j])
      BY Zenon DEF AncestorOf
    <3> HIDE DEF j
    <3>3. rdnEqual(d[j], e[(Len(e) - Len(d)) + j])
      BY Zenon, <3>1 DEF AncestorOf
    <3> QED  BY Zenon, <3>1, <3>2, <3>3, RDNsAlike
  <2> QED  BY <1>1, <2>1, <2>2 DEF AncestorOf
<1>7. Equal(c, d) /\ AncestorOf(d, e) => AncestorOf(c, e)
  <2> SUFFICES ASSUME Equal(c, d), AncestorOf(d, e) PROVE AncestorOf(c, e)
    BY Zenon
  <2>1. Len(c) = Len(d) /\ Len(d) < Len(e)
    BY Zenon DEF AncestorOf, Equal
  <2>2. ASSUME NEW i \in 1..Len(c)
        PROVE  rdnEqual(c[i], e[(Len(e) - Len(d)) + i])
    BY Zenon, <2>1, RDNsAlike DEF AncestorOf, Equal
  <2> QED  BY Zenon, <2>1, <2>2 DEF AncestorOf
<1>8. AncestorOf(c, d) /\ Equal(d, e) => AncestorOf(c, e)
  <2> SUFFICES ASSUME AncestorOf(c, d), Equal(d, e) PROVE AncestorOf(c, e)
    BY Zenon
  <2>1. Len(c) < Len(d) /\ Len(d) = Len(e)
    BY Zenon DEF AncestorOf, Equal
  <2>2. ASSUME NEW i \in 1..Len(c)
        PROVE  rdnEqual(c[i], e[(Len(d) - Len(c)) + i])
    <3> DEFINE j == (Len(d) - Len(c)) + i
    <3>1. j \in 1..Len(d)
      BY <1>1, <2>1
    <3>2. rdnEqual(c[i], d[j])
      BY Zenon DEF AncestorOf
    <3> HIDE DEF j
    <3>3. rdnEqual(d[j], e[j])
      BY Zenon, <3>1 DEF Equal
    <3> QED  BY Zenon, <3>2, <3>3, RDNsAlike DEF j
  <2> QED  BY Zenon, <2>1, <2>2 DEF AncestorOf
<1> QED  BY Zenon, <1>2, <1>3, <1>4, <1>5, <1>6, <1>7, <1>8

\* An RDN turned around is the same.
LEMMA TurnedAlike ==
  ASSUME NEW r \in RelativeDN
  PROVE  Len(Turned(r)) = Len(r) /\ rdnEqual(r, Turned(r))
<1> DEFINE o == Turned(r)
           n == Len(r)
<1>1. n \in Nat /\ \A i \in 1..n : r[i] \in [Type : Seq(STRING), Value : Seq(STRING)]
  <2> DEFINE T == [Type : Seq(STRING), Value : Seq(STRING)]
  <2>1. r \in Seq(T)
    BY Zenon DEF RelativeDN
  <2> HIDE DEF T
  <2>2. n \in Nat /\ \A i \in 1..n : r[i] \in T
    BY <2>1
  <2> QED  BY Zenon, <2>2 DEF T
<1>2. Len(o) = n
  BY <1>1 DEF Turned
<1>3. ASSUME NEW i \in 1..n
      PROVE  n + 1 - i \in 1..n /\ attributeEqual(r[n + 1 - i], o[i])
  <2> DEFINE j == n + 1 - i
             a == r[j]
  <2>1. j \in 1..n
    BY <1>1
  <2>2. o[i] = [a EXCEPT !.Type = Fold(@)]
    BY Zenon DEF Turned
  <2>3. a \in [Type : Seq(STRING), Value : Seq(STRING)]
    BY Zenon, <1>1, <2>1
  <2> HIDE DEF a, o
  <2>4. o[i].Type = Fold(a.Type) /\ o[i].Value = a.Value /\ a.Type \in Seq(STRING)
    BY Zenon, <2>2, <2>3
  <2>5. \A t \in Seq(STRING) : Fold(Fold(t)) = Fold(t)
    <3> SUFFICES ASSUME NEW t \in Seq(STRING) PROVE Fold(Fold(t)) = Fold(t)
      BY Zenon
    <3>1. Len(Fold(t)) = Len(t) /\ Len(t) \in Nat
      BY DEF Fold
    <3>2. \A k \in 1..Len(t) : (IF Fold(t)[k] = "A" THEN "a" ELSE Fold(t)[k]) = Fold(t)[k]
      BY DEF Fold
    <3>3. Fold(Fold(t)) = [k \in 1..Len(t) |-> Fold(t)[k]]
      BY Zenon, <3>1, <3>2 DEF Fold
    <3> QED  BY Zenon, <3>3 DEF Fold
  <2> QED  BY Zenon, <2>1, <2>4, <2>5 DEF attributeEqual, a
<1> HIDE DEF o
<1>4. hasAllAttributes(r, o)
  BY Zenon, <1>2, <1>3 DEF hasAllAttributes
<1>5. hasAllAttributes(o, r)
  <2> SUFFICES ASSUME NEW i \in 1..n PROVE \E j \in 1..n : attributeEqual(o[j], r[i])
    BY Zenon, <1>2 DEF hasAllAttributes
  <2> DEFINE j == n + 1 - i
  <2>1. j \in 1..n /\ n + 1 - j = i
    BY <1>1
  <2> HIDE DEF j
  <2>2. attributeEqual(r[i], o[j])
    BY Zenon, <1>3, <2>1
  <2> QED  BY Zenon, <2>1, <2>2 DEF attributeEqual
<1> QED  BY Zenon, <1>2, <1>4, <1>5 DEF rdnEqual, o

\* For every distinguished name, not only for those a bounded text can write: the
\* order of the attributes and the case of their types do not count, and exactly
\* the proper names above it are its ancestors (dn.go:181, :197, :211).
THEOREM NamesAbove ==
  ASSUME NEW d \in DN
  PROVE  Ordered(d)
<1> DEFINE n == Len(d)
           Above(k) == [i \in 1..(n - k) |-> Turned(d[k + i])]
<1>1. n \in Nat /\ \A i \in 1..n : d[i] \in RelativeDN
  BY NameSizes
<1>2. ASSUME NEW k \in 0..n
      PROVE  Len(Above(k)) = n - k /\ \A i \in 1..(n - k) : rdnEqual(Above(k)[i], d[k + i])
  <2>1. Len(Above(k)) = n - k
    BY <1>1
  <2>2. ASSUME NEW i \in 1..(n - k)
        PROVE  rdnEqual(Above(k)[i], d[k + i])
    <3>1. k + i \in 1..n
      BY <1>1
    <3> QED  BY Zenon, <1>1, <3>1, TurnedAlike, RDNsAlike
  <2> QED  BY Zenon, <2>1, <2>2
<1> HIDE DEF Above
<1>3. ASSUME NEW k \in 0..n
      PROVE  /\ Equal(d, Above(k)) <=> (k = 0)
             /\ AncestorOf(Above(k), d) <=> (k > 0)
             /\ ~AncestorOf(d, Above(k))
             /\ \A l \in 0..n : Equal(Above(k), Above(l)) <=> (k = l)
  <2>1. Equal(d, Above(k)) => k = 0
    BY <1>1, <1>2 DEF Equal
  <2>2. ASSUME k = 0 PROVE Equal(d, Above(k))
    <3>1. \A i \in 1..n : rdnEqual(Above(k)[i], d[i])
      BY <1>1, <1>2, <2>2
    <3>2. Len(Above(k)) = n
      BY <1>1, <1>2, <2>2
    <3> QED  BY Zenon, <3>1, <3>2, RDNsAlike DEF Equal
  <2>3. AncestorOf(Above(k), d) => k > 0
    BY <1>1, <1>2 DEF AncestorOf
  <2>4. ASSUME k > 0 PROVE AncestorOf(Above(k), d)
    <3>1. Len(Above(k)) < n /\ n - Len(Above(k)) = k /\ Len(Above(k)) = n - k
      BY <1>1, <1>2, <2>4
    <3> QED  BY Zenon, <1>2, <3>1 DEF AncestorOf
  <2>5. ~AncestorOf(d, Above(k))
    BY <1>1, <1>2 DEF AncestorOf
  <2>6. ASSUME NEW l \in 0..n PROVE Equal(Above(k), Above(l)) <=> (k = l)
    <3>1. Equal(Above(k), Above(l)) => k = l
      BY <1>1, <1>2 DEF Equal
    <3>2. Equal(Above(k), Above(k))
      BY Zenon, RDNsAlike DEF Equal
    <3> QED  BY Zenon, <3>1, <3>2
  <2> QED  BY Zenon, <2>1, <2>2, <2>3, <2>4, <2>5, <2>6
<1> QED  BY Zenon, <1>3 DEF Ordered, Above
=============================================================================
